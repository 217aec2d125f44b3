----------------------------- MODULE ManifestChain -----------------------------
(***************************************************************************)
(* What a restore relies on (restore/manifest_verifier.rs,                 *)
(* formats/manifest.rs): the published manifests are one chain.  Each      *)
(* names the one before it and generations count from zero.                *)
(***************************************************************************)
EXTENDS Naturals, Sequences

CONSTANTS
    Ids,        \* names of manifests, each of which stands for its hash
    Genesis     \* previous_manifest_hash of the first manifest

VARIABLE manifests  \* the manifests in the order they were published

Init == manifests = <<>>

Tip == IF manifests = <<>> THEN Genesis ELSE manifests[Len(manifests)].id

Publish(id) ==
    /\ \A i \in DOMAIN manifests : manifests[i].id # id
    /\ manifests' = Append(manifests, [id |-> id, generation |-> Len(manifests),
                                       previous |-> Tip])

Next == \E id \in Ids : Publish(id)

Spec == Init /\ [][Next]_manifests
================================================================================
