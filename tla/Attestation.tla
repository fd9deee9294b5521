---------------------------- MODULE Attestation ----------------------------
(***************************************************************************)
(* What a job machine proof says about the machine, and why: Preflight     *)
(* reads the image and the profiles and pins them, Create checks that they *)
(* are still the same and launches a VM from the pinned ones, Snapshot     *)
(* reconstructs the launch from the VM                                     *)
(* (src/internal/adapters/incus/backend.go), and the proof is signed and   *)
(* verified (src/internal/provenance).  Meanwhile operators edit profiles, *)
(* the image alias and the VM, and the process is started again with other *)
(* settings.                                                               *)
(*                                                                         *)
(* A digest is what it is computed from: no two inputs share one.  Config  *)
(* keys and devices are keys alike; of the reserved prefixes, one key      *)
(* each.                                                                   *)
(***************************************************************************)
EXTENDS Integers, Sequences

CONSTANTS Profile,        \* names of profiles; default is one
          Content,        \* what the operator may write into a profile
          Image,          \* images, by fingerprint
          Uppercase,      \* those whose fingerprint is not in lower case
          ImageProfiles,  \* ImageProfiles[i]: the profiles of image i, or Nil
          Nil,            \* neither an image, an identity nor an instance
          Settings,       \* what a process may be configured with
          MaxBytes,       \* MaximumPayloadBytes, MaximumEnvelopeBytes
          MaxEdits,       \* bound: edits by operators
          MaxInstances,   \* bound: instances created
          MaxRestarts     \* bound: times the process is started again

ASSUME AttestationAssumption ==
    /\ "default" \in Profile
    /\ Uppercase \subseteq Image
    /\ {MaxBytes, MaxEdits, MaxInstances, MaxRestarts} \subseteq Nat
\* A list of profiles is a list of names.
ASSUME ProfilesAssumption ==
    /\ \A s \in Settings : s.profiles \in Seq(Profile)
    /\ \A i \in Image : ImageProfiles[i] = Nil \/ ImageProfiles[i] \in Seq(Profile)

VARIABLES
  profiles,   \* profiles[p]: the content of profile p
  alias,      \* the image that the configured reference names
  instance,   \* the runner VM, or Nil
  settings,   \* profile names, signing key and host ID of the process
  pc,         \* where the process is: resolve, read, idle, verify, create, failed
  todo,       \* the profiles still to be read
  draft,      \* the identity that Preflight is putting together
  identity,   \* Backend.identity
  issued,     \* envelopes signed
  together,   \* history: the profiles as they were, all at one moment
  reverted,   \* history: whether a profile got a content it had before
  launches,   \* history: launches[u]: the launch of the instance with UUID u
  edits, restarts

incus == <<profiles, alias, together, reverted, edits>>
process == <<settings, pc, todo, draft, identity, restarts>>
vars == <<incus, instance, process, issued, launches>>

-----------------------------------------------------------------------------
\* volatile.*, image.* and user.incus-gh-runner.*
isLaunchMetadataKey(key) == key \in {"volatile", "image", "user"}

\* Faulty variant of reservedProfileKey: only the controller's own keys.
reservedUserKey(content) == "user" \in DOMAIN content

reservedProfileKey(content) == \E key \in DOMAIN content : isLaunchMetadataKey(key)

effectiveProfileNames(configured, imageProfiles) ==
    IF configured # <<>> THEN configured
    ELSE IF imageProfiles # Nil THEN imageProfiles
    ELSE <<"default">>

\* A launch input is an image, the profiles with their digests and a config.
Empty(image) == [image |-> image, profiles |-> <<>>, config |-> <<>>]

\* maps.Copy: the keys of src override those of dst.
Copy(dst, src) == [key \in DOMAIN dst \cup DOMAIN src |->
                     IF key \in DOMAIN src THEN src[key] ELSE dst[key]]

\* A later profile overrides the keys of the earlier ones.
Added(input, p, content) ==
    [input EXCEPT !.profiles = Append(@, [name |-> p, digest |-> content]),
                  !.config = Copy(@, content)]

\* Faulty variant of validateLaunchInput: any fingerprint will do.
validateNothing(input) == TRUE

\* validateDigest takes lower case only, validateImageFingerprint either.
validateLaunchInput(input) == input.image \notin Uppercase

-----------------------------------------------------------------------------
(* The process *)

Started(s) == /\ settings' = s
              /\ pc' = "resolve"
              /\ todo' = <<>>
              /\ draft' = Nil
              /\ identity' = Nil

Init ==
    /\ profiles \in [Profile -> Content]
    /\ alias \in Image
    /\ instance = Nil
    /\ settings \in Settings
    /\ pc = "resolve" /\ todo = <<>> /\ draft = Nil /\ identity = Nil
    /\ issued = {} /\ launches = <<>>
    /\ together = {profiles} /\ reverted = FALSE
    /\ edits = 0 /\ restarts = 0

ProcessFrame == UNCHANGED <<incus, issued, settings, restarts>>

\* The reference is resolved once; the fingerprint is used from then on.
ResolveImage ==
    /\ pc = "resolve"
    /\ draft' = Empty(alias)
    /\ todo' = effectiveProfileNames(settings.profiles, ImageProfiles[alias])
    /\ pc' = "read"
    /\ UNCHANGED <<identity, instance, launches>>
    /\ ProcessFrame

GetProfile ==
    /\ pc = "read" /\ todo # <<>>
    /\ LET content == profiles[Head(todo)]
       IN IF reservedProfileKey(content)
            THEN pc' = "failed" /\ UNCHANGED <<todo, draft>>
            ELSE /\ draft' = Added(draft, Head(todo), content)
                 /\ todo' = Tail(todo)
                 /\ UNCHANGED pc
    /\ UNCHANGED <<identity, instance, launches>>
    /\ ProcessFrame

Pin ==
    /\ pc = "read" /\ todo = <<>>
    /\ IF validateLaunchInput(draft)
         THEN pc' = "idle" /\ identity' = draft
         ELSE pc' = "failed" /\ UNCHANGED identity
    /\ draft' = Nil
    /\ UNCHANGED <<todo, instance, launches>>
    /\ ProcessFrame

\* A process that failed, or any other, is started with settings of its own.
Restart ==
    /\ restarts < MaxRestarts
    /\ restarts' = restarts + 1
    /\ \E s \in Settings : Started(s)
    /\ UNCHANGED <<incus, instance, issued, launches>>

-----------------------------------------------------------------------------
(* Create *)

BeginCreate ==
    /\ pc = "idle" /\ instance = Nil /\ Len(launches) < MaxInstances
    /\ todo' = identity.profiles
    /\ pc' = "verify"
    /\ UNCHANGED <<draft, identity, instance, launches>>
    /\ ProcessFrame

\* Faulty variant of verifyProfiles: that the profile exists is enough.
verifyExists ==
    /\ pc = "verify" /\ todo # <<>>
    /\ todo' = Tail(todo)
    /\ UNCHANGED <<pc, draft, identity, instance, launches>>
    /\ ProcessFrame

\* One profile after the other is read again; Create fails at the first
\* one that has changed.
verifyProfiles ==
    /\ pc = "verify" /\ todo # <<>>
    /\ IF profiles[Head(todo).name] = Head(todo).digest
         THEN todo' = Tail(todo) /\ UNCHANGED pc
         ELSE todo' = <<>> /\ pc' = "idle"
    /\ UNCHANGED <<draft, identity, instance, launches>>
    /\ ProcessFrame

\* The request has no profiles, only what was pinned.  Incus adds its own keys.
Requested ==
    /\ launches' = Append(launches, identity)
    /\ instance' = [uuid |-> Len(launches'), state |-> "created", edited |-> FALSE,
                    config |-> Copy(identity.config,
                                    [key \in {"volatile", "image", "user"} |-> 0]),
                    image |-> identity.image, profiles |-> identity.profiles,
                    launchDigest |-> identity]

\* A creation that fails may have happened.
CreateInstance ==
    /\ pc = "verify" /\ todo = <<>>
    /\ \/ Requested /\ pc' \in {"create", "idle"}
       \/ pc' = "idle" /\ UNCHANGED <<instance, launches>>
    /\ UNCHANGED <<todo, draft, identity>>
    /\ ProcessFrame

\* The registration is bound, if the digest is the one of the request, and
\* the instance started; or that fails.
Provision ==
    /\ pc = "create"
    /\ pc' = "idle"
    /\ \/ /\ instance # Nil /\ instance.launchDigest = identity
          /\ instance' = [instance EXCEPT !.state = "running"]
       \/ UNCHANGED instance
    /\ UNCHANGED <<todo, draft, identity, launches>>
    /\ ProcessFrame

DeleteInstance ==
    /\ pc = "idle" /\ instance # Nil
    /\ instance' = Nil
    /\ UNCHANGED <<pc, todo, draft, identity, launches>>
    /\ ProcessFrame

-----------------------------------------------------------------------------
(* Snapshot, Sign and Verify *)

instanceLaunchInput ==
    [image |-> instance.image, profiles |-> instance.profiles,
     config |-> [key \in {k \in DOMAIN instance.config : ~isLaunchMetadataKey(k)}
                   |-> instance.config[key]]]

\* Faulty variant of snapshotAccepts: drift is not looked for.
snapshotAnyLaunch == /\ instance.state = "running"
                     /\ validateLaunchInput(instanceLaunchInput)

\* Faulty variant of snapshotAccepts: the VM has to be one of this process.
snapshotPinnedLaunch == /\ instance.state = "running"
                        /\ instanceLaunchInput = identity

snapshotAccepts == /\ instance.state = "running"
                   /\ validateLaunchInput(instanceLaunchInput)
                   /\ instanceLaunchInput = instance.launchDigest

\* The sizes grow with the list of profiles; an envelope holds its payload
\* in base64.
PayloadBytes(payload) == 1 + Len(payload.profiles)
EnvelopeBytes(payload) == 1 + 4 * ((PayloadBytes(payload) + 2) \div 3)

PayloadValidate(payload) == payload.image \notin Uppercase

\* Faulty variant of Signs: only the payload has a limit.
SignsAnyEnvelope(payload) == /\ PayloadValidate(payload)
                             /\ PayloadBytes(payload) <= MaxBytes

Signs(payload) == /\ PayloadValidate(payload)
                  /\ PayloadBytes(payload) <= MaxBytes
                  /\ EnvelopeBytes(payload) <= MaxBytes

\* The one signature is checked with the key that the verifier has chosen.
Verify(envelope, key, hostID) ==
    /\ EnvelopeBytes(envelope.payload) <= MaxBytes
    /\ envelope.key = key
    /\ PayloadBytes(envelope.payload) <= MaxBytes
    /\ PayloadValidate(envelope.payload)
    /\ envelope.payload.host = hostID

\* Coordinator.process asks Incus once, and signs what it was told.
Process ==
    /\ pc \in {"idle", "verify", "create"} /\ instance # Nil
    /\ snapshotAccepts
    /\ LET payload == [host |-> settings.host, uuid |-> instance.uuid,
                       image |-> instance.image, profiles |-> instance.profiles,
                       launchDigest |-> instanceLaunchInput]
       IN /\ Signs(payload)
          /\ issued' = issued \cup {[key |-> settings.key, payload |-> payload]}
    /\ UNCHANGED <<incus, instance, process, launches>>

-----------------------------------------------------------------------------
(* The operators *)

Edit == edits < MaxEdits /\ edits' = edits + 1 /\ UNCHANGED <<process, issued, launches>>

EditProfile(p, content) ==
    /\ Edit
    /\ profiles[p] # content
    /\ profiles' = [profiles EXCEPT ![p] = content]
    /\ together' = together \cup {profiles'}
    /\ reverted' = (reverted \/ \E moment \in together : moment[p] = content)
    /\ UNCHANGED <<alias, instance>>

RetargetAlias(image) ==
    /\ Edit
    /\ alias # image
    /\ alias' = image
    /\ UNCHANGED <<profiles, together, reverted, instance>>

EditInstance ==
    /\ Edit
    /\ instance # Nil
    /\ \E drifted \in
          {[instance EXCEPT !.config = Copy(@, content)] : content \in Content}
            \cup {[instance EXCEPT !.image = i] : i \in Image}
            \cup {[instance EXCEPT !.profiles = <<>>]} :
         instance' = [drifted EXCEPT !.edited = TRUE]
    /\ UNCHANGED <<profiles, alias, together, reverted>>

-----------------------------------------------------------------------------
Next == \/ ResolveImage \/ GetProfile \/ Pin \/ Restart
        \/ BeginCreate \/ verifyProfiles \/ CreateInstance \/ Provision
        \/ DeleteInstance
        \/ Process
        \/ \E p \in Profile, content \in Content : EditProfile(p, content)
        \/ \E image \in Image : RetargetAlias(image)
        \/ EditInstance

Spec == Init /\ [][Next]_vars

-----------------------------------------------------------------------------
(* Properties *)

(***************************************************************************)
(* A VM that nobody edited can always be attested, however many processes  *)
(* with other settings and other pinned identities came after the one that *)
(* launched it, and whatever became of its profiles and its image alias:   *)
(* the launch that Snapshot reconstructs is the one that was requested,    *)
(* and the payload is valid.                                               *)
(***************************************************************************)
UntouchedIsAttestable ==
    instance # Nil /\ instance.state = "running" /\ ~instance.edited =>
        snapshotAccepts /\ PayloadValidate(instance)

(***************************************************************************)
(* A proof tells the truth about the launch: whoever verifies it learns    *)
(* the image, the profiles and the configuration with which the instance   *)
(* of that UUID was requested, although the VM, its recorded image and its *)
(* recorded profiles may be edited before the proof is signed.             *)
(***************************************************************************)
VerifiedIsTrue ==
    \A e \in issued : \A s \in Settings :
        Verify(e, s.key, s.host) =>
            /\ e.payload.launchDigest = launches[e.payload.uuid]
            /\ e.payload.image = launches[e.payload.uuid].image
            /\ e.payload.profiles = launches[e.payload.uuid].profiles

(***************************************************************************)
(* Preflight reads the profiles one after the other, so an edit in between *)
(* can pin a combination that never existed; Create reads them all again,  *)
(* one after the other too.  As long as no profile is set back to what it  *)
(* was, the two rounds together mean that every VM is launched from        *)
(* profiles that were all in place at one moment.                          *)
(***************************************************************************)
LaunchedTogether ==
    ~reverted =>
        \A u \in DOMAIN launches : \E moment \in together :
            \A i \in DOMAIN launches[u].profiles :
                launches[u].profiles[i].digest = moment[launches[u].profiles[i].name]

(***************************************************************************)
(* An envelope that Sign has issued is never too large for Verify with the *)
(* key and the identity of the host, base64 included.                      *)
(***************************************************************************)
IssuedVerifies == \A e \in issued : Verify(e, e.key, e.payload.host)
=============================================================================
