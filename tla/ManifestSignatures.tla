--------------------------- MODULE ManifestSignatures --------------------------
(***************************************************************************)
(* The two signatures of a manifest (formats/manifest.rs,                  *)
(* crypto/signing.rs), which no backup makes and no restore looks at.  A   *)
(* signature stands for its key and its payload; <<>> is one of another    *)
(* length than the algorithm's.                                            *)
(***************************************************************************)
EXTENDS Integers, Sequences

CONSTANTS
    SigningKeys,
    Bodies        \* what a manifest says, its header, links and segments

VARIABLES
    draft,    \* a manifest that is signed and handed on
    issued    \* history: what was signed, and with which key

vars == <<draft, issued>>

Draft(body) == [body |-> body, ed |-> <<>>, pqc |-> <<>>]

TypeOK ==
    /\ draft.body \in Bodies
    /\ \A pair \in issued : pair[1].body \in Bodies /\ pair[2] \in SigningKeys

Init ==
    /\ draft = Draft(CHOOSE b \in Bodies : TRUE)
    /\ issued = {}

(* canonical_signing_payload.                                                *)
Payload(m) == [m EXCEPT !.ed = <<>>, !.pqc = <<>>]

Signature(key, payload) == <<key, payload>>

Sign(key) ==
    /\ LET sig == Signature(key, Payload(draft))
       IN draft' = [draft EXCEPT !.ed = sig, !.pqc = sig]
    /\ issued' = issued \cup {<<draft', key>>}

(* What reaches the other side: another body, a signature cut or another's.  *)
Transfer ==
    /\ \/ draft' \in {[draft EXCEPT !.body = b] : b \in Bodies}
       \/ draft' \in {[draft EXCEPT !.ed = <<>>], [draft EXCEPT !.pqc = <<>>]}
       \/ \E pair \in issued :
             draft' \in {[draft EXCEPT !.ed = pair[1].ed], [draft EXCEPT !.pqc = pair[1].pqc]}
    /\ UNCHANGED issued

Verify(m, key) ==
    /\ m.ed # <<>> /\ m.pqc # <<>>
    /\ m.ed = Signature(key, Payload(m))
    /\ m.pqc = Signature(key, Payload(m))

Next == Transfer \/ \E key \in SigningKeys : Sign(key)

Spec == Init /\ [][Next]_vars

(* "the manifest is rejected if either signature fails": what passes is what *)
(* was signed with that key, and all of it.                                  *)
SignedIsIntact ==
    \A key \in SigningKeys : Verify(draft, key) => <<draft, key>> \in issued

(* What was signed passes, also when it had been signed before.              *)
SignedVerifies == \A pair \in issued : Verify(pair[1], pair[2])
================================================================================
