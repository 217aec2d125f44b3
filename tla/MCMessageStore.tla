---------------------------- MODULE MCMessageStore -----------------------------
(* Instances of MessageStore for TLC.  r1 is a message of another device   *)
(* with a photo and with or without a text, o1 one of this device: an      *)
(* outbox entry, or a photo with or without a caption.                     *)
EXTENDS MessageStore, TLC

CONSTANTS w1, w2, r1, o1, t0, t1

MCTexts == {t0, t1}
MCOriginal == [m \in Messages |-> t0]
MCOriginalBare == [m \in Messages |-> IF m = r1 THEN NoText ELSE t0]
MCEvents == [m \in Messages |-> 4]
MCEventsShared == [m \in Messages |-> IF m = r1 THEN 3 ELSE 2]
MCSymmetry == Permutations(Workers)
================================================================================
