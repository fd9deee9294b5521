-------------------------- MODULE AttestationProofs --------------------------
(***************************************************************************)
(* Theorems about Attestation, for any profiles, contents, images and      *)
(* settings, and any number of edits, instances and restarts.              *)
(***************************************************************************)
EXTENDS Attestation, TLAPS

\* A profile with its digest, as Preflight pins it.
Pinned == [name : Profile, digest : Content]

IsFunction(f) == f = [x \in DOMAIN f |-> f[x]]

\* A launch input whose configuration has none of the reserved keys.
IsInput(input) ==
    /\ input = [image |-> input.image, profiles |-> input.profiles,
                config |-> input.config]
    /\ input.profiles \in Seq(Pinned)
    /\ IsFunction(input.config)
    /\ ~reservedProfileKey(input.config)

(***************************************************************************)
(* The process: what is being put together and what is pinned are launch   *)
(* inputs; what is pinned is valid.                                        *)
(***************************************************************************)
ProcessInv ==
    /\ profiles \in [Profile -> Content] /\ alias \in Image /\ settings \in Settings
    /\ pc \in {"resolve", "read", "idle", "verify", "create", "failed"}
    /\ pc = "read" => IsInput(draft) /\ todo \in Seq(Profile)
    /\ pc \in {"idle", "verify", "create"} => IsInput(identity) /\ validateLaunchInput(identity)
    /\ pc = "verify" => todo \in Seq(Pinned)

(***************************************************************************)
(* The VM: it carries the digest of its own launch, and as long as nobody  *)
(* edits it, the rest of it says the same.                                 *)
(***************************************************************************)
Metadata == [key \in {"volatile", "image", "user"} |-> 0]

AsLaunched == /\ instance.image = instance.launchDigest.image
              /\ instance.profiles = instance.launchDigest.profiles
              /\ instance.config = Copy(instance.launchDigest.config, Metadata)

InstanceInv ==
    /\ launches \in Seq({launches[u] : u \in DOMAIN launches})
    /\ \A u \in DOMAIN launches : IsInput(launches[u]) /\ validateLaunchInput(launches[u])
    /\ instance # Nil =>
         /\ instance = [uuid |-> instance.uuid, state |-> instance.state,
                        edited |-> instance.edited, config |-> instance.config,
                        image |-> instance.image, profiles |-> instance.profiles,
                        launchDigest |-> instance.launchDigest]
         /\ instance.uuid \in DOMAIN launches
         /\ instance.launchDigest = launches[instance.uuid]
         /\ ~instance.edited => AsLaunched

\* The proofs: each is about a launch, tells the truth about it and is valid.
TrueProof(e) ==
    /\ e.payload.uuid \in DOMAIN launches
    /\ e.payload.launchDigest = launches[e.payload.uuid]
    /\ e.payload.image = launches[e.payload.uuid].image
    /\ e.payload.profiles = launches[e.payload.uuid].profiles

ProofInv == \A e \in issued : TrueProof(e) /\ Verify(e, e.key, e.payload.host)

(***************************************************************************)
(* The moments.  Whatever Preflight has read was in place at some moment.  *)
(* While Create verifies, there is one moment, the one at which it began,  *)
(* at which every profile verified so far was in place, and also every one *)
(* still to be verified that is in place now: had it been otherwise then,  *)
(* the profile would have been set back since.                             *)
(***************************************************************************)
SeenIn(pinned) == \E moment \in together : moment[pinned.name] = pinned.digest

SeenInv ==
    /\ profiles \in together
    /\ pc = "read" => \A i \in DOMAIN draft.profiles : SeenIn(draft.profiles[i])
    /\ pc \in {"idle", "verify", "create"} =>
         \A i \in DOMAIN identity.profiles : SeenIn(identity.profiles[i])
    /\ pc = "verify" => \A j \in DOMAIN todo : SeenIn(todo[j])

Covers(moment) ==
    /\ \A i \in DOMAIN identity.profiles :
         \/ moment[identity.profiles[i].name] = identity.profiles[i].digest
         \/ \E j \in DOMAIN todo : todo[j] = identity.profiles[i]
    /\ \A j \in DOMAIN todo : profiles[todo[j].name] = todo[j].digest
                                => moment[todo[j].name] = todo[j].digest

MomentInv ==
    ~reverted =>
      /\ pc = "verify" => \E moment \in together : Covers(moment)
      /\ LaunchedTogether

Inv == ProcessInv /\ InstanceInv /\ ProofInv /\ SeenInv /\ MomentInv /\ reverted \in BOOLEAN

-----------------------------------------------------------------------------
(* The operators *)

\* A profile without reserved keys extends a launch input to another one.
LEMMA AddedInput ==
    ASSUME NEW input, IsInput(input), NEW p \in Profile, NEW content \in Content,
           ~reservedProfileKey(content)
    PROVE  /\ IsInput(Added(input, p, content))
           /\ Added(input, p, content).profiles
                = Append(input.profiles, [name |-> p, digest |-> content])
<1> DEFINE config == Copy(input.config, content)
           pins == Append(input.profiles, [name |-> p, digest |-> content])
<1>1. Added(input, p, content)
        = [image |-> input.image, profiles |-> pins, config |-> config]
  <2> DEFINE pinned == input.profiles
             old == input.config
  <2>1. input = [image |-> input.image, profiles |-> pinned, config |-> old]
    BY DEF IsInput
  <2>2. Added(input, p, content) = [[input EXCEPT !.profiles = pins] EXCEPT !.config = config]
    BY <2>1 DEF Added
  <2> HIDE DEF pins, config, pinned, old
  <2> QED
    BY <2>1, <2>2
<1>2. pins \in Seq(Pinned)
  BY DEF IsInput, Pinned
<1>3. /\ DOMAIN config = DOMAIN content \cup DOMAIN input.config
      /\ IsFunction(config)
  BY DEF Copy, IsFunction
<1>4. ~reservedProfileKey(config)
  BY <1>3 DEF IsInput, reservedProfileKey
<1> HIDE DEF config, pins
<1> QED
  BY <1>1, <1>2, <1>3, <1>4 DEF IsInput, pins

\* The launch input of a process that has read nothing yet.
LEMMA EmptyInput ==
    ASSUME NEW image
    PROVE  IsInput(Empty(image)) /\ Empty(image).profiles = <<>>
<1>1. IsFunction(<<>>) /\ ~reservedProfileKey(<<>>)
  BY DEF IsFunction, reservedProfileKey
<1> QED
  BY <1>1 DEF IsInput, Empty

(***************************************************************************)
(* Stripping the reserved keys from the configuration of a VM leaves the   *)
(* configuration that was requested: none of the requested keys is         *)
(* reserved, and all of those that Incus and the controller add are.       *)
(***************************************************************************)
LEMMA Stripped ==
    ASSUME NEW config, IsFunction(config), ~reservedProfileKey(config)
    PROVE  LET whole == Copy(config, Metadata)
           IN  [key \in {k \in DOMAIN whole : ~isLaunchMetadataKey(k)} |-> whole[key]]
                 = config
<1> DEFINE whole == Copy(config, Metadata)
           kept == {k \in DOMAIN whole : ~isLaunchMetadataKey(k)}
<1>1. whole = [k \in {"volatile", "image", "user"} \cup DOMAIN config |->
                 IF k \in {"volatile", "image", "user"} THEN 0 ELSE config[k]]
  BY DEF Copy, Metadata
<1>2. kept = DOMAIN config
  BY <1>1 DEF isLaunchMetadataKey, reservedProfileKey
<1>3. \A k \in kept : whole[k] = config[k]
  BY <1>1, <1>2 DEF isLaunchMetadataKey, reservedProfileKey
<1>4. [k \in kept |-> whole[k]] = [k \in DOMAIN config |-> config[k]]
  BY <1>2, <1>3
<1> QED
  BY <1>4 DEF IsFunction

\* So what Snapshot reconstructs from a VM nobody edited is its own launch.
LEMMA Reconstructed ==
    ASSUME IsInput(instance.launchDigest), AsLaunched
    PROVE  instanceLaunchInput = instance.launchDigest
<1> DEFINE launch == instance.launchDigest
<1>1. [key \in {k \in DOMAIN instance.config : ~isLaunchMetadataKey(k)}
         |-> instance.config[key]] = launch.config
  BY Stripped DEF AsLaunched, IsInput
<1> QED
  BY <1>1 DEF instanceLaunchInput, AsLaunched, IsInput

\* The profiles to be read are names of profiles.
LEMMA EffectiveNames ==
    ASSUME NEW s \in Settings, NEW i \in Image
    PROVE  effectiveProfileNames(s.profiles, ImageProfiles[i]) \in Seq(Profile)
BY AttestationAssumption, ProfilesAssumption DEF effectiveProfileNames

-----------------------------------------------------------------------------
(* The process *)

\* Every step keeps what is pinned a valid launch input.
LEMMA ProcessStep == ASSUME Inv, [Next]_vars PROVE ProcessInv'
<1> USE DEF Inv
<1>1. CASE ResolveImage
  BY <1>1, EmptyInput, EffectiveNames DEF ResolveImage, ProcessFrame, incus, ProcessInv
<1>2. CASE GetProfile
  <2> DEFINE content == profiles[Head(todo)]
  <2>1. Head(todo) \in Profile /\ Tail(todo) \in Seq(Profile) /\ content \in Content
    BY <1>2 DEF GetProfile, ProcessInv
  <2>2. CASE reservedProfileKey(content)
    BY <1>2, <2>2 DEF GetProfile, ProcessFrame, incus, ProcessInv
  <2>3. CASE ~reservedProfileKey(content)
    <3>1. IsInput(draft) /\ draft' = Added(draft, Head(todo), content)
      BY <1>2, <2>3 DEF GetProfile, ProcessInv
    <3>2. IsInput(draft')
      BY <2>1, <2>3, <3>1, AddedInput
    <3> QED
      BY <1>2, <2>1, <2>3, <3>2 DEF GetProfile, ProcessFrame, incus, ProcessInv
  <2> QED
    BY <2>2, <2>3
<1>3. CASE Pin
  BY <1>3 DEF Pin, ProcessFrame, incus, ProcessInv
<1>4. CASE BeginCreate
  BY <1>4 DEF BeginCreate, ProcessFrame, incus, ProcessInv, IsInput
<1>5. CASE verifyProfiles
  BY <1>5 DEF verifyProfiles, ProcessFrame, incus, ProcessInv
<1>6. CASE CreateInstance
  BY <1>6 DEF CreateInstance, ProcessFrame, incus, ProcessInv
<1>7. CASE Provision
  BY <1>7 DEF Provision, ProcessFrame, incus, ProcessInv
<1>8. CASE DeleteInstance
  BY <1>8 DEF DeleteInstance, ProcessFrame, incus, ProcessInv
<1>9. CASE Restart
  BY <1>9 DEF Restart, Started, incus, ProcessInv
<1>10. CASE Process
  BY <1>10 DEF Process, process, incus, ProcessInv
<1>11. CASE \E p \in Profile, content \in Content : EditProfile(p, content)
  BY <1>11 DEF EditProfile, Edit, process, ProcessInv
<1>12. CASE \E image \in Image : RetargetAlias(image)
  BY <1>12 DEF RetargetAlias, Edit, process, ProcessInv
<1>13. CASE EditInstance
  BY <1>13 DEF EditInstance, Edit, process, ProcessInv
<1>14. CASE UNCHANGED vars
  BY <1>14 DEF vars, incus, process, ProcessInv
<1> QED
  BY <1>1, <1>2, <1>3, <1>4, <1>5, <1>6, <1>7, <1>8, <1>9, <1>10, <1>11, <1>12,
     <1>13, <1>14 DEF Next

-----------------------------------------------------------------------------
(* The VM and the proofs *)

\* A step adds at most one launch, the one of what is pinned, and loses none.
LEMMA LaunchesGrow ==
    ASSUME Inv, [Next]_vars
    PROVE  /\ launches' \in Seq({launches'[u] : u \in DOMAIN launches'})
           /\ DOMAIN launches \subseteq DOMAIN launches'
           /\ \A u \in DOMAIN launches : launches'[u] = launches[u]
           /\ \A u \in DOMAIN launches' \ DOMAIN launches :
                pc = "verify" /\ todo = <<>> /\ launches'[u] = identity
           /\ UNCHANGED launches \/ launches' = Append(launches, identity)
<1> DEFINE S == {launches[u] : u \in DOMAIN launches}
           T == {launches'[u] : u \in DOMAIN launches'}
<1>0. launches \in Seq(S)
  BY DEF Inv, InstanceInv
<1>1. CASE UNCHANGED launches
  BY <1>0, <1>1
<1>2. CASE pc = "verify" /\ todo = <<>> /\ launches' = Append(launches, identity)
  <2>1. launches \in Seq(S \cup {identity})
    BY <1>0
  <2>2. launches' \in Seq(S \cup {identity})
    BY <1>2, <2>1
  <2>3. /\ DOMAIN launches = 1 .. Len(launches)
        /\ DOMAIN launches' = 1 .. (Len(launches) + 1)
        /\ Len(launches) \in Nat
        /\ \A u \in DOMAIN launches : launches'[u] = launches[u]
        /\ launches'[Len(launches) + 1] = identity
    BY <1>2, <2>1, <2>2
  <2>4. S \cup {identity} = T
    BY <2>3
  <2> QED
    BY <1>2, <2>2, <2>3, <2>4
<1> QED
  BY <1>1, <1>2 DEF Next, vars, ResolveImage, GetProfile, Pin, Restart, BeginCreate,
     verifyProfiles, CreateInstance, Requested, Provision, DeleteInstance, Process,
     EditProfile, RetargetAlias, EditInstance, Edit

\* Every step keeps the digest of a VM the one of its launch.
LEMMA InstanceStep == ASSUME Inv, [Next]_vars PROVE InstanceInv'
<1> USE DEF Inv
<1>1. \A u \in DOMAIN launches' :
        IsInput(launches'[u]) /\ validateLaunchInput(launches'[u])
  BY LaunchesGrow DEF InstanceInv, ProcessInv
<1> DEFINE Sound == instance # Nil =>
             /\ instance = [uuid |-> instance.uuid, state |-> instance.state,
                            edited |-> instance.edited, config |-> instance.config,
                            image |-> instance.image, profiles |-> instance.profiles,
                            launchDigest |-> instance.launchDigest]
             /\ instance.uuid \in DOMAIN launches
             /\ instance.launchDigest = launches[instance.uuid]
             /\ ~instance.edited => AsLaunched
<1>2. Sound
  BY DEF InstanceInv
<1>3. Sound'
  <2>1. CASE UNCHANGED instance
    BY <2>1, <1>2, LaunchesGrow DEF AsLaunched
  <2>2. CASE Requested
    <3>1. launches \in Seq({launches[u] : u \in DOMAIN launches})
      BY DEF InstanceInv
    <3>2. Len(launches') \in DOMAIN launches' /\ launches'[Len(launches')] = identity
      BY <2>2, <3>1, LaunchesGrow DEF Requested
    <3> QED
      BY <2>2, <3>2 DEF Requested, AsLaunched, Metadata
  <2>3. CASE instance # Nil /\ instance' = [instance EXCEPT !.state = "running"]
    BY <2>3, <1>2, LaunchesGrow DEF AsLaunched
  <2>4. CASE instance' = Nil
    BY <2>4
  <2>5. CASE EditInstance
    <3> DEFINE Drifted(d) == /\ d = [uuid |-> d.uuid, state |-> d.state,
                                     edited |-> d.edited, config |-> d.config,
                                     image |-> d.image, profiles |-> d.profiles,
                                     launchDigest |-> d.launchDigest]
                             /\ d.uuid = instance.uuid
                             /\ d.launchDigest = instance.launchDigest
    <3>1. instance # Nil /\ UNCHANGED launches
      BY <2>5 DEF EditInstance, Edit
    <3>2. PICK drifted \in
            {[instance EXCEPT !.config = Copy(@, content)] : content \in Content}
              \cup {[instance EXCEPT !.image = i] : i \in Image}
              \cup {[instance EXCEPT !.profiles = <<>>]} :
            instance' = [drifted EXCEPT !.edited = TRUE]
      BY <2>5 DEF EditInstance
    <3>3. Drifted(drifted)
      BY <1>2, <3>1, <3>2
    <3>4. /\ instance' = [instance' EXCEPT !.edited = TRUE]
          /\ Drifted(instance') /\ instance'.edited = TRUE
      BY <3>2, <3>3
    <3> QED
      BY <1>2, <3>1, <3>4
  <2> QED
    BY <2>1, <2>2, <2>3, <2>4, <2>5 DEF Next, vars, ResolveImage, GetProfile, Pin,
       Restart, BeginCreate, verifyProfiles, CreateInstance, Provision, DeleteInstance,
       Process, EditProfile, RetargetAlias, Edit
<1> QED
  BY <1>1, <1>3, LaunchesGrow DEF InstanceInv

\* What Sign has let pass, Verify lets pass with the same key and host.
LEMMA SignsVerifies ==
    ASSUME NEW payload, NEW key, Signs(payload)
    PROVE  Verify([key |-> key, payload |-> payload], key, payload.host)
BY DEF Signs, Verify

(***************************************************************************)
(* Every step issues only true proofs: Process compares the launch that it *)
(* reconstructs, recorded image and profiles included, with the digest in  *)
(* the VM, which is the one of the launch.                                 *)
(***************************************************************************)
LEMMA ProofStep == ASSUME Inv, [Next]_vars PROVE ProofInv'
<1> USE DEF Inv
<1>1. \A e \in issued : TrueProof(e)'
  BY LaunchesGrow DEF ProofInv, TrueProof
<1>2. CASE Process
  <2> DEFINE payload == [host |-> settings.host, uuid |-> instance.uuid,
                         image |-> instance.image, profiles |-> instance.profiles,
                         launchDigest |-> instanceLaunchInput]
             envelope == [key |-> settings.key, payload |-> payload]
  <2>1. /\ snapshotAccepts /\ Signs(payload) /\ instance # Nil
        /\ issued' = issued \cup {envelope}
        /\ UNCHANGED launches
    BY <1>2 DEF Process
  <2>2. instanceLaunchInput = instance.launchDigest
    BY <2>1 DEF snapshotAccepts
  <2>3. /\ instance.uuid \in DOMAIN launches
        /\ instance.launchDigest = launches[instance.uuid]
    BY <2>1 DEF InstanceInv
  <2>4. /\ instanceLaunchInput.image = instance.image
        /\ instanceLaunchInput.profiles = instance.profiles
    BY DEF instanceLaunchInput
  <2>5. /\ payload.uuid = instance.uuid /\ payload.image = instance.image
        /\ payload.profiles = instance.profiles
        /\ payload.launchDigest = instanceLaunchInput
        /\ envelope.payload = payload /\ envelope.key = settings.key
    OBVIOUS
  <2>6. Verify(envelope, envelope.key, payload.host)
    BY <2>1, <2>5, SignsVerifies
  <2> HIDE DEF payload, envelope
  <2>7. ASSUME NEW e, e = envelope PROVE TrueProof(e)'
    BY <2>1, <2>2, <2>3, <2>4, <2>5, <2>7 DEF TrueProof
  <2> QED
    BY <1>1, <2>1, <2>5, <2>6, <2>7 DEF ProofInv
<1>3. CASE UNCHANGED issued
  BY <1>1, <1>3 DEF ProofInv
<1> QED
  BY <1>2, <1>3 DEF Next, vars, ResolveImage, GetProfile, Pin, Restart, BeginCreate,
     verifyProfiles, CreateInstance, Provision, DeleteInstance, ProcessFrame,
     EditProfile, RetargetAlias, EditInstance, Edit

-----------------------------------------------------------------------------
(* The moments *)

\* Moments are never forgotten, and once set back, always set back.
LEMMA MomentsStay ==
    ASSUME Inv, [Next]_vars
    PROVE  together \subseteq together' /\ (reverted => reverted')
BY DEF Inv, Next, vars, ResolveImage, GetProfile, Pin, Restart, BeginCreate,
   verifyProfiles, CreateInstance, Provision, DeleteInstance, Process, ProcessFrame,
   incus, EditProfile, RetargetAlias, EditInstance, Edit

\* Every step keeps it that what was read had been in place.
LEMMA SeenStep == ASSUME Inv, [Next]_vars PROVE SeenInv'
<1> USE DEF Inv
<1>0. \A pinned : SeenIn(pinned) => SeenIn(pinned)'
  BY MomentsStay DEF SeenIn
<1>1. profiles' \in together'
  BY DEF SeenInv, Next, vars, ResolveImage, GetProfile, Pin, Restart, BeginCreate,
     verifyProfiles, CreateInstance, Provision, DeleteInstance, Process, ProcessFrame,
     incus, EditProfile, RetargetAlias, EditInstance, Edit
<1>2. CASE GetProfile
  <2> DEFINE content == profiles[Head(todo)]
  <2>1. CASE reservedProfileKey(content)
    BY <1>1, <1>2, <2>1 DEF GetProfile, SeenInv
  <2>2. CASE ~reservedProfileKey(content)
    <3>1. /\ Head(todo) \in Profile /\ content \in Content /\ IsInput(draft)
          /\ draft' = Added(draft, Head(todo), content) /\ pc' = "read"
      BY <1>2, <2>2 DEF GetProfile, ProcessInv
    <3>2. draft'.profiles
            = Append(draft.profiles, [name |-> Head(todo), digest |-> content])
      BY <3>1, <2>2, AddedInput
    <3>3. ASSUME NEW e, e = [name |-> Head(todo), digest |-> content] PROVE SeenIn(e)
      BY <3>3 DEF SeenIn, SeenInv
    <3>4. draft.profiles \in Seq(Pinned)
      BY <3>1 DEF IsInput
    <3>5. [name |-> Head(todo), digest |-> content] \in Pinned
      BY <3>1 DEF Pinned
    <3>6. \A i \in DOMAIN draft'.profiles : SeenIn(draft'.profiles[i])
      <4> TAKE i \in DOMAIN draft'.profiles
      <4>1. CASE i \in DOMAIN draft.profiles
        <5>1. draft'.profiles[i] = draft.profiles[i]
          BY <3>2, <3>4, <3>5, <4>1
        <5> QED
          BY <1>2, <4>1, <5>1 DEF SeenInv, GetProfile
      <4>2. CASE i \notin DOMAIN draft.profiles
        <5>1. draft'.profiles[i] = [name |-> Head(todo), digest |-> content]
          BY <3>2, <3>4, <3>5, <4>2
        <5> QED
          BY <3>3, <5>1
      <4> QED
        BY <4>1, <4>2
    <3>7. \A i \in DOMAIN draft'.profiles : SeenIn(draft.profiles[i])'
      BY <3>6, <1>2 DEF GetProfile, ProcessFrame, incus, SeenIn
    <3> QED
      BY <1>1, <3>1, <3>7 DEF SeenInv
  <2> QED
    BY <2>1, <2>2
<1>3. CASE Pin
  BY <1>0, <1>1, <1>3 DEF Pin, SeenInv, SeenIn, ProcessFrame, incus
<1>4. CASE BeginCreate
  BY <1>1, <1>4 DEF BeginCreate, SeenInv, SeenIn, ProcessFrame, incus
<1>5. CASE verifyProfiles
  <2>1. todo \in Seq(Pinned) /\ todo # <<>>
    BY <1>5 DEF verifyProfiles, ProcessInv
  <2>2. \A j \in DOMAIN Tail(todo) : Tail(todo)[j] = todo[j + 1] /\ j + 1 \in DOMAIN todo
    BY <2>1
  <2> QED
    BY <1>1, <1>5, <2>2 DEF verifyProfiles, SeenInv, SeenIn, ProcessFrame, incus
<1>6. CASE ResolveImage
  BY <1>1, <1>6, EmptyInput DEF ResolveImage, SeenInv
<1>7. CASE /\ UNCHANGED <<todo, draft, identity>>
           /\ pc' \in {"read", "verify"} => pc' = pc
           /\ pc' \in {"idle", "create"} => pc \in {"idle", "verify", "create"}
  <2>1. pc' = "read" => \A i \in DOMAIN draft'.profiles : SeenIn(draft.profiles[i])'
    BY <1>7, MomentsStay DEF SeenInv, SeenIn
  <2>2. pc' \in {"idle", "verify", "create"} =>
          \A i \in DOMAIN identity'.profiles : SeenIn(identity.profiles[i])'
    BY <1>7, MomentsStay DEF SeenInv, SeenIn
  <2>3. pc' = "verify" => \A j \in DOMAIN todo' : SeenIn(todo[j])'
    BY <1>7, MomentsStay DEF SeenInv, SeenIn
  <2> QED
    BY <1>1, <2>1, <2>2, <2>3 DEF SeenInv
<1>8. CASE Restart
  BY <1>1, <1>8 DEF Restart, Started, SeenInv
<1> QED
  BY <1>2, <1>3, <1>4, <1>5, <1>6, <1>7, <1>8 DEF Next, vars, process,
     CreateInstance, Provision, DeleteInstance, Process,
     EditProfile, RetargetAlias, EditInstance, Edit

(***************************************************************************)
(* Every step keeps a moment for what Create is verifying.  An edit leaves *)
(* the moment as it is: a profile still to be verified that is edited into *)
(* what was pinned had that content before, and has been set back.         *)
(***************************************************************************)
LEMMA VerifyingStep ==
    ASSUME Inv, [Next]_vars, ~reverted', pc' = "verify"
    PROVE  \E moment \in together' : Covers(moment)'
<1> USE DEF Inv
<1>0. ~reverted
  BY MomentsStay
<1>1. CASE BeginCreate
  <2>1. /\ todo' = identity.profiles /\ identity' = identity /\ profiles' = profiles
        /\ profiles \in together'
    BY <1>1 DEF BeginCreate, ProcessFrame, incus, SeenInv
  <2>2. ASSUME NEW moment, moment = profiles PROVE Covers(moment)'
    BY <2>1, <2>2 DEF Covers
  <2> QED
    BY <2>1, <2>2
<1>2. ASSUME pc = "verify" PROVE \E moment \in together' : Covers(moment)'
  <2>0. PICK moment \in together : Covers(moment)
    BY <1>0, <1>2 DEF MomentInv
  <2>1. todo \in Seq(Pinned) /\ moment \in together'
    BY <1>2, MomentsStay DEF ProcessInv
  <2>2. CASE verifyProfiles
    <3>1. /\ todo # <<>> /\ todo' = Tail(todo) /\ UNCHANGED <<identity, profiles>>
          /\ profiles[Head(todo).name] = Head(todo).digest
      BY <2>2 DEF verifyProfiles, ProcessFrame, incus
    <3>2. /\ \A j \in DOMAIN todo' : j + 1 \in DOMAIN todo /\ todo'[j] = todo[j + 1]
          /\ \A j \in DOMAIN todo : j = 1 \/ (j - 1 \in DOMAIN todo' /\ todo'[j - 1] = todo[j])
          /\ 1 \in DOMAIN todo /\ todo[1] = Head(todo)
      BY <2>1, <3>1
    <3>3. moment[Head(todo).name] = Head(todo).digest
      BY <2>0, <3>1, <3>2 DEF Covers
    <3>4. ASSUME NEW i \in DOMAIN identity.profiles
          PROVE  \/ moment[identity.profiles[i].name] = identity.profiles[i].digest
                 \/ \E j \in DOMAIN todo' : todo'[j] = identity.profiles[i]
      BY <2>0, <3>2, <3>3 DEF Covers
    <3>5. ASSUME NEW j \in DOMAIN todo', profiles[todo'[j].name] = todo'[j].digest
          PROVE  moment[todo'[j].name] = todo'[j].digest
      BY <2>0, <3>2, <3>5 DEF Covers
    <3>6. Covers(moment)'
      BY <3>1, <3>4, <3>5 DEF Covers
    <3> QED
      BY <2>1, <3>6
  <2>3. ASSUME NEW p \in Profile, NEW content \in Content, EditProfile(p, content)
        PROVE  \E m \in together' : Covers(m)'
    <3>1. /\ UNCHANGED <<todo, identity>> /\ profiles' = [profiles EXCEPT ![p] = content]
          /\ ~ \E m \in together : m[p] = content
      BY <2>3 DEF EditProfile, Edit, process
    <3>2. ASSUME NEW j \in DOMAIN todo, profiles'[todo[j].name] = todo[j].digest
          PROVE  moment[todo[j].name] = todo[j].digest
      <4>1. PICK m \in together : m[todo[j].name] = todo[j].digest
        BY <1>2 DEF SeenInv, SeenIn
      <4>2. todo[j].name \in Profile
        <5>1. todo[j] \in Pinned
          BY <2>1
        <5> QED
          BY <5>1 DEF Pinned
      <4>3. CASE todo[j].name = p
        BY <3>1, <3>2, <4>1, <4>3 DEF ProcessInv
      <4>4. CASE todo[j].name # p
        <5>1. profiles[todo[j].name] = todo[j].digest
          BY <3>1, <3>2, <4>2, <4>4 DEF ProcessInv
        <5> QED
          BY <2>0, <5>1 DEF Covers
      <4> QED
        BY <4>3, <4>4
    <3>3. Covers(moment)'
      BY <2>0, <3>1, <3>2 DEF Covers
    <3> QED
      BY <2>1, <3>3
  <2>4. CASE UNCHANGED <<todo, identity, profiles>>
    BY <2>0, <2>1, <2>4 DEF Covers
  <2> QED
    BY <1>2, <2>2, <2>3, <2>4 DEF Next, vars, incus, process, ResolveImage, GetProfile,
       Pin, Restart, Started, BeginCreate, CreateInstance, Provision, DeleteInstance,
       Process, ProcessFrame, RetargetAlias, EditInstance, Edit
<1> QED
  BY <1>1, <1>2 DEF Next, vars, incus, process, ResolveImage, GetProfile, Pin, Restart,
     Started, verifyProfiles, CreateInstance, Provision, DeleteInstance, Process,
     ProcessFrame, EditProfile, RetargetAlias, EditInstance, Edit

\* When there is nothing left to verify, that moment is the one of the launch.
LEMMA MomentStep == ASSUME Inv, [Next]_vars PROVE MomentInv'
<1> USE DEF Inv
<1> SUFFICES ASSUME ~reverted' PROVE LaunchedTogether'
  BY VerifyingStep DEF MomentInv
<1>0. ~reverted
  BY MomentsStay
<1>1. ASSUME NEW u \in DOMAIN launches'
      PROVE  \E moment \in together' : \A i \in DOMAIN launches'[u].profiles :
               launches'[u].profiles[i].digest = moment[launches'[u].profiles[i].name]
  <2>1. CASE u \in DOMAIN launches
    BY <1>0, <2>1, LaunchesGrow, MomentsStay DEF MomentInv, LaunchedTogether
  <2>2. CASE u \notin DOMAIN launches
    <3>1. pc = "verify" /\ todo = <<>> /\ launches'[u] = identity
      BY <2>2, <1>1, LaunchesGrow
    <3>2. PICK moment \in together : Covers(moment)
      BY <1>0, <3>1 DEF MomentInv
    <3>3. \A i \in DOMAIN identity.profiles :
            identity.profiles[i].digest = moment[identity.profiles[i].name]
      BY <3>1, <3>2 DEF Covers
    <3> QED
      BY <3>1, <3>3, MomentsStay
  <2> QED
    BY <2>1, <2>2
<1> QED
  BY <1>1 DEF LaunchedTogether

-----------------------------------------------------------------------------
(* The theorems *)

\* The invariant holds initially.
LEMMA InitInv == Init => Inv
<1> SUFFICES ASSUME Init PROVE Inv
  OBVIOUS
<1>1. ProcessInv /\ InstanceInv /\ ProofInv /\ SeenInv
  BY DEF Init, ProcessInv, InstanceInv, ProofInv, SeenInv
<1>2. LaunchedTogether
  BY DEF Init, LaunchedTogether
<1>3. MomentInv /\ reverted \in BOOLEAN
  BY <1>2 DEF Init, MomentInv
<1> QED
  BY <1>1, <1>3 DEF Inv

\* The five parts together are inductive.
LEMMA Invariant == Spec => []Inv
<1>1. ASSUME Inv, [Next]_vars PROVE Inv'
  <2>1. reverted' \in BOOLEAN
    BY <1>1 DEF Inv, Next, vars, incus, ResolveImage, GetProfile, Pin, Restart,
       BeginCreate, verifyProfiles, CreateInstance, Provision, DeleteInstance, Process,
       ProcessFrame, EditProfile, RetargetAlias, EditInstance
  <2> QED
    BY <1>1, <2>1, ProcessStep, InstanceStep, ProofStep, SeenStep, MomentStep DEF Inv
<1> QED
  BY InitInv, <1>1, PTL DEF Spec

\* A VM that nobody edited can be attested, whatever process runs by now:
\* stripped of the reserved keys, its configuration is the one requested.
THEOREM Attestable == Spec => []UntouchedIsAttestable
<1>1. Inv => UntouchedIsAttestable
  <2> SUFFICES ASSUME Inv, instance # Nil, instance.state = "running", ~instance.edited
               PROVE  snapshotAccepts /\ PayloadValidate(instance)
    BY DEF UntouchedIsAttestable
  <2>1. /\ AsLaunched /\ IsInput(instance.launchDigest)
        /\ validateLaunchInput(instance.launchDigest)
    BY DEF Inv, InstanceInv
  <2>2. instanceLaunchInput = instance.launchDigest
    BY <2>1, Reconstructed
  <2> QED
    BY <2>1, <2>2 DEF snapshotAccepts, PayloadValidate, validateLaunchInput, AsLaunched
<1> QED
  BY Invariant, <1>1, PTL

\* Every proof that verifies tells the truth about the launch of its VM,
\* however the VM was edited before the proof was signed.
THEOREM ProofsTrue == Spec => []VerifiedIsTrue
<1>1. Inv => VerifiedIsTrue
  BY DEF Inv, ProofInv, TrueProof, VerifiedIsTrue
<1> QED
  BY Invariant, <1>1, PTL

\* Unless a profile is set back, each VM is launched from profiles that were
\* all in place at one moment, for any number of profiles and of edits.
THEOREM OneMoment == Spec => []LaunchedTogether
<1>1. Inv => LaunchedTogether
  BY DEF Inv, MomentInv, LaunchedTogether
<1> QED
  BY Invariant, <1>1, PTL

\* What Sign has issued, Verify takes, whatever the sizes.
THEOREM SignedVerifies == Spec => []IssuedVerifies
<1>1. Inv => IssuedVerifies
  BY DEF Inv, ProofInv, IssuedVerifies
<1> QED
  BY Invariant, <1>1, PTL
=============================================================================
