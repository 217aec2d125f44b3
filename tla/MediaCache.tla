------------------------------ MODULE MediaCache -------------------------------
(***************************************************************************)
(* The file cache of media (media/cache.rs).  Its methods take &mut self,  *)
(* so a call is a step; the directory outlives the process, the count of   *)
(* its bytes does not.                                                     *)
(***************************************************************************)
EXTENDS Integers, Sequences, FiniteSets

CONSTANTS
    Files,       \* asset ids
    Sizes,       \* sizes of what is stored, larger than max_bytes too
    MaxBytes,    \* max_bytes
    MaxCount     \* bound on current_bytes, which overwriting lets grow

VARIABLES
    onDisk,    \* bytes of each file, 0 without one
    older,     \* for each file, those that were modified before it
    current,   \* current_bytes
    disturbed  \* history: a process found files, or the file system failed

vars == <<onDisk, older, current, disturbed>>

There == {f \in Files : onDisk[f] > 0}

TypeOK ==
    /\ onDisk \in [Files -> 0..MaxCount]
    /\ older \in [Files -> SUBSET There]
    /\ \A f, g \in There : f \in older[g] <=> (f # g /\ g \notin older[f])
    /\ \A f, g \in Files : f \in older[g] => older[f] \subseteq older[g]
    /\ \A f \in Files \ There : older[f] = {}
    /\ current \in 0..MaxCount
    /\ disturbed \in BOOLEAN

Init ==
    /\ onDisk = [f \in Files |-> 0]
    /\ older = [f \in Files |-> {}]
    /\ current = 0
    /\ disturbed = FALSE

Minus(a, b) == IF a < b THEN 0 ELSE a - b   \* saturating_sub

(* The bytes of some files, one by one, and how many they are.               *)
Stored(disk, files) == {b \in files \X (1..MaxCount) : b[2] =< disk[b[1]]}
Bytes(disk, files) == Cardinality(Stored(disk, files))
Total(disk) == Bytes(disk, {f \in Files : disk[f] > 0})

(* evict_oldest_until_fit drops a file, oldest first, when the count without *)
(* the files before it is still above the target; the removals that fail are *)
(* counted as done.                                                          *)
Dropped(size) ==
    LET target == Minus(MaxBytes, size)
        gone == {f \in There : Minus(current, Bytes(onDisk, older[f])) > target}
    IN [files |-> gone, count |-> Minus(current, Bytes(onDisk, gone))]

NoDrop == [files |-> {}, count |-> current]

(* The files after gone have been removed and left bytes of f written.       *)
Written(f, gone, left) ==
    /\ onDisk' = [g \in Files |-> IF g = f THEN left ELSE IF g \in gone THEN 0 ELSE onDisk[g]]
    /\ older' = [g \in Files |-> IF onDisk'[g] = 0 THEN {}
                                  ELSE (IF g = f THEN There ELSE older[g]) \ (gone \cup {f})]

(* Mutant: the budget is compared with what is there, not with what comes. *)
StoreLate(f, size) ==
    LET drop == IF current > MaxBytes THEN Dropped(size) ELSE NoDrop
    IN /\ drop.count + size =< MaxCount
       /\ Written(f, drop.files, size)
       /\ current' = drop.count + size
       /\ UNCHANGED disturbed

Store(f, size) ==
    LET drop == IF current + size > MaxBytes THEN Dropped(size) ELSE NoDrop
    IN /\ drop.count + size =< MaxCount
       /\ Written(f, drop.files, size)
       /\ current' = drop.count + size
       /\ UNCHANGED disturbed

(* Files that cannot be removed stay and are counted as gone; a write that   *)
(* fails leaves a part of the file, which is not counted.                    *)
StoreDisturbed(f, size) ==
    LET drop == IF current + size > MaxBytes THEN Dropped(size) ELSE NoDrop
    IN /\ drop.count + size =< MaxCount
       /\ \E gone \in SUBSET drop.files, left \in 0..size :
             /\ Written(f, gone, left)
             /\ current' = drop.count + (IF left = size THEN size ELSE 0)
       /\ disturbed' = TRUE

Evict(f) ==
    /\ onDisk[f] > 0
    /\ Written(f, {}, 0)
    /\ current' = Minus(current, onDisk[f])
    /\ UNCHANGED disturbed

(* A new cache over the directory of the last process.                       *)
Reopen ==
    /\ current' = 0
    /\ disturbed' = (disturbed \/ Total(onDisk) > 0)
    /\ UNCHANGED <<onDisk, older>>

Next ==
    \/ \E f \in Files, size \in Sizes : Store(f, size) \/ StoreDisturbed(f, size)
    \/ \E f \in Files : Evict(f)
    \/ Reopen

Spec == Init /\ [][Next]_vars

(* "Enforce max_bytes": the files stay within the budget whatever is         *)
(* overwritten and evicted in between, but for a file that is larger itself, *)
(* which has the cache for itself, in a process that found no files and      *)
(* whose removals succeed.                                                   *)
WithinBudget ==
    \/ disturbed
    \/ Total(onDisk) =< MaxBytes
    \/ \E f \in Files : onDisk[f] > MaxBytes /\ There = {f}

(* The same in any process and of files of any size.                         *)
AlwaysWithinBudget == Total(onDisk) =< MaxBytes

(* The count is that of the files.                                          *)
CountIsTrue == disturbed \/ current = Total(onDisk)
================================================================================
