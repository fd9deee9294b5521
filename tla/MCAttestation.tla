--------------------------- MODULE MCAttestation ---------------------------
EXTENDS Attestation, TLC

CONSTANTS plain, bare, upper

\* A key with two values, once beside another key, and a key that is reserved.
MCContent == {"option" :> 1, ("option" :> 2) @@ ("device" :> 1), "volatile" :> 1}

\* One image names no profiles, one has an empty list of them.
MCImageProfiles == (plain :> Nil) @@ (bare :> <<>>) @@ (upper :> Nil)

\* The default profile, two profiles, and more than a proof has room for; the
\* process with two is another host with another key.
MCSettings ==
    {[profiles |-> <<>>, key |-> "k1", host |-> "h1"],
     [profiles |-> <<"default", "extra">>, key |-> "k2", host |-> "h2"],
     [profiles |-> <<"default", "extra", "default">>, key |-> "k1", host |-> "h1"]}
=============================================================================
