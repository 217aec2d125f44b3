------------------------------- MODULE MCRestore -------------------------------
(* Two segments: every segment of a backup holds the new skeletons and all *)
(* bodies.  m3 is not in the backup.                                       *)
EXTENDS Restore
CONSTANTS r1, r2, m1, m2, m3
MCBackup == << [skeletons |-> {m1}, bodies |-> {m1}],
               [skeletons |-> {m2}, bodies |-> {m1, m2}] >>
MCSmallBackup == << [skeletons |-> {m1}, bodies |-> {m1}] >>
================================================================================
