--------------------------- MODULE ConvergentObjects ----------------------------
(***************************************************************************)
(* An object sealed chunk by chunk and opened frame by frame               *)
(* (crypto/convergent.rs), with a transfer between that may cut or damage  *)
(* it.  Nothing of the core calls these functions yet.                     *)
(*                                                                         *)
(* Data.  A stream is a sequence of cells: the nonce of a frame, its       *)
(* length, and the cells of its ciphertext, of which the last is the tag;  *)
(* a cell knows the chunk it comes from.  The object is the numbers from 1 *)
(* to its length.                                                          *)
(***************************************************************************)
EXTENDS Integers, Sequences

CONSTANTS
    MaxLength,    \* bound on the length of an object
    ChunkSizes,   \* chunk_size arguments
    DefaultSize,  \* DEFAULT_CHUNK_SIZE
    MaxFrame      \* u32::MAX, the largest length of a frame

VARIABLES
    object,   \* its length, and the chunk sizes of its two calls
    sealing,  \* encrypt_object_pattern_c: step, offset, out
    wire,     \* what arrives, and what happened to it
    opening   \* decrypt_object_pattern_c: step, cursor, out

vars == <<object, sealing, wire, opening>>

HeaderSize == 2   \* the cells of nonce and length
TagSize == 1

Effective(size) == IF size = 0 THEN DefaultSize ELSE size
TooLong(n) == n + TagSize > MaxFrame           \* n cells of text in one frame
Upto(a, b) == [i \in 1..(b - a) |-> a + i]     \* the plaintext from a to b
Shorter(a, b) == IF a < b THEN a ELSE b

TypeOK ==
    /\ object.length \in 0..MaxLength
    /\ {object.sealSize, object.openSize} \subseteq ChunkSizes \cup {DefaultSize}
    /\ sealing.step \in {"idle", "loop", "done", "refused"} /\ sealing.offset \in 0..MaxLength
    /\ wire.state \in {"none", "whole", "cut", "damaged"}
    /\ opening.step \in {"idle", "loop", "done", "refused"}
    /\ opening.cursor \in 0..Len(wire.cells)
    /\ opening.out \in Seq(1..MaxLength)

NotSealed == [step |-> "idle", offset |-> 0, out |-> <<>>]
NotOpened == [step |-> "idle", cursor |-> 0, out |-> <<>>]
NoWire == [state |-> "none", cells |-> <<>>]

Init ==
    /\ object = [length |-> 0, sealSize |-> DefaultSize, openSize |-> DefaultSize]
    /\ sealing = NotSealed
    /\ wire = NoWire
    /\ opening = NotOpened

Cell(kind, from, value) == [kind |-> kind, from |-> from, value |-> value]

(* The frame of the chunk that begins at offset.                             *)
Frame(offset, chunk) ==
    <<Cell("nonce", offset, 0), Cell("length", offset, Len(chunk) + TagSize)>>
    \o [i \in DOMAIN chunk |-> Cell("text", offset, chunk[i])]
    \o <<Cell("tag", offset, Len(chunk))>>

Seal ==
    /\ sealing.step = "idle"
    /\ sealing' = [sealing EXCEPT !.step = "loop"]
    /\ UNCHANGED <<object, wire, opening>>

(* Mutant: only full chunks are sealed. *)
SealFullChunk ==
    /\ sealing.step = "loop"
    /\ LET end == sealing.offset + Effective(object.sealSize)
       IN sealing' = IF end =< object.length
                     THEN [sealing EXCEPT !.offset = end,
                              !.out = @ \o Frame(sealing.offset, Upto(sealing.offset, end))]
                     ELSE [sealing EXCEPT !.step = "done"]
    /\ UNCHANGED <<object, wire, opening>>

SealChunk ==
    /\ sealing.step = "loop"
    /\ LET end == Shorter(sealing.offset + Effective(object.sealSize), object.length)
       IN /\ sealing.offset < object.length => ~TooLong(end - sealing.offset)
          /\ sealing' = IF sealing.offset < object.length
                        THEN [sealing EXCEPT !.offset = end,
                                 !.out = @ \o Frame(sealing.offset, Upto(sealing.offset, end))]
                        ELSE [sealing EXCEPT !.step = "done"]
    /\ UNCHANGED <<object, wire, opening>>

(* "ciphertext length exceeds u32": only the chunk at hand is looked at.     *)
SealRefused ==
    /\ sealing.step = "loop"
    /\ sealing.offset < object.length
    /\ TooLong(Shorter(Effective(object.sealSize), object.length - sealing.offset))
    /\ sealing' = [sealing EXCEPT !.step = "refused"]
    /\ UNCHANGED <<object, wire, opening>>

(* It arrives whole, without its end, or with one cell that is another.      *)
Transfer ==
    /\ sealing.step = "done" /\ wire.state = "none"
    /\ \/ wire' = [state |-> "whole", cells |-> sealing.out]
       \/ \E n \in 0..(Len(sealing.out) - 1) :
             wire' = [state |-> "cut", cells |-> SubSeq(sealing.out, 1, n)]
       \/ \E i \in DOMAIN sealing.out, n \in 0..MaxLength :
             /\ sealing.out[i].value # n
             /\ wire' = [state |-> "damaged",
                         cells |-> [sealing.out EXCEPT ![i].value = n]]
    /\ UNCHANGED <<object, sealing, opening>>

(* "chunk_size exceeds u32 range": the size that it was told, whatever the   *)
(* chunks are.                                                               *)
Open ==
    /\ wire.state # "none" /\ opening.step = "idle"
    /\ opening' = [opening EXCEPT !.step =
                      IF TooLong(Effective(object.openSize)) THEN "refused" ELSE "loop"]
    /\ UNCHANGED <<object, sealing, wire>>

(* The tag fits this nonce and this ciphertext, whole and unchanged.         *)
Authentic(nonce, body) ==
    /\ \A i \in DOMAIN body : body[i].from = nonce.from
    /\ nonce.value = 0
    /\ body[Len(body)].kind = "tag" /\ body[Len(body)].value = Len(body) - TagSize
    /\ \A i \in 1..(Len(body) - TagSize) : body[i].value = nonce.from + i

(* One turn of the loop: the end, a refusal or a frame.                      *)
OpenFrame ==
    /\ opening.step = "loop"
    /\ LET at == opening.cursor
           rest == Len(wire.cells) - at
           nonce == wire.cells[at + 1]
           length == wire.cells[at + HeaderSize].value
           body == SubSeq(wire.cells, at + HeaderSize + 1, at + HeaderSize + length)
           sound == /\ rest >= HeaderSize
                    /\ length \in 1..(Effective(object.openSize) + TagSize)
                    /\ rest >= HeaderSize + length
                    /\ Authentic(nonce, body)
           text == [i \in 1..(length - TagSize) |-> body[i].value]
       IN opening' = IF rest = 0 THEN [opening EXCEPT !.step = "done"]
                     ELSE IF sound THEN [opening EXCEPT !.cursor = at + HeaderSize + length,
                                                        !.out = @ \o text]
                     ELSE [opening EXCEPT !.step = "refused"]
    /\ UNCHANGED <<object, sealing, wire>>

(* The next object.                                                          *)
Finish ==
    /\ opening.step \in {"done", "refused"} \/ sealing.step = "refused"
    /\ object' \in [length : 0..MaxLength, sealSize : ChunkSizes, openSize : ChunkSizes]
    /\ sealing' = NotSealed /\ wire' = NoWire /\ opening' = NotOpened

Next == Seal \/ SealChunk \/ SealRefused \/ Transfer \/ Open \/ OpenFrame \/ Finish

Spec == Init /\ [][Next]_vars

Whole == Upto(0, object.length)

(* "Decrypt a Pattern C framed ciphertext stream": an object that was sealed *)
(* and arrives whole is opened and is itself, unless it is opened with a     *)
(* smaller chunk size than it was sealed with and has a chunk that is too    *)
(* large for it, or with one beyond the length of a frame, even if it was    *)
(* sealed with the same.                                                     *)
RoundTrip ==
    wire.state = "whole" =>
       /\ opening.step = "done" => opening.out = Whole
       /\ opening.step = "refused" =>
             \/ Effective(object.openSize) < Shorter(Effective(object.sealSize), object.length)
             \/ TooLong(Effective(object.openSize))

(* What comes out of a transfer that cut or damaged it is an error or the    *)
(* object without some whole chunks of its end.                              *)
OpensPrefix ==
    opening.step = "done" =>
       /\ opening.out = SubSeq(Whole, 1, Len(opening.out)) /\ Len(opening.out) =< Len(Whole)
       /\ opening.out # Whole => Len(opening.out) % Effective(object.sealSize) = 0

(* An object that lost its end is refused.                                   *)
CutIsNoticed == wire.state = "cut" => opening.step # "done"
================================================================================
