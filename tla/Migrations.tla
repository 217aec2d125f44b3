------------------------------- MODULE Migrations ------------------------------
(***************************************************************************)
(* Opening the local store: the schema of a fresh database, the forward    *)
(* migrations of an existing one, and PRAGMA user_version                  *)
(* (local_store/db.rs, schema.rs).                                         *)
(*                                                                         *)
(* Nothing here runs in a transaction: every batch and every update of     *)
(* user_version commits by itself, so the process may die, or a statement  *)
(* may fail, between any two.  A batch of CREATE ... IF NOT EXISTS is run  *)
(* again in full after that, so a part of it counts as none of it.  A      *)
(* migration that alters a table is one statement and is refused the       *)
(* second time (duplicate column name).                                    *)
(***************************************************************************)
EXTENDS Integers

CONSTANTS
    Latest,    \* LATEST_USER_VERSION of the newest build
    Alters     \* the versions whose migration is ALTER TABLE ... ADD COLUMN

ASSUME VersionsAssumption == Latest \in Nat \ {0} /\ Alters \subseteq 2..Latest

VARIABLES
    build,        \* LATEST_USER_VERSION of the build that is installed
    userVersion,  \* PRAGMA user_version, in the file
    applied,      \* the versions whose tables and columns are in the file
    pc,           \* where init_connection is
    seen,         \* the user_version it read
    next          \* the migration it runs

vars == <<build, userVersion, applied, pc, seen, next>>

TypeOK ==
    /\ build \in 1..Latest
    /\ userVersion \in 0..Latest
    /\ applied \subseteq 1..Latest
    /\ pc \in {"closed", "batch", "bump", "opened", "refused"}
    /\ seen \in 0..Latest
    /\ next \in 1..(Latest + 1)

Init ==
    /\ build \in 1..Latest
    /\ userVersion = 0
    /\ applied = {}
    /\ pc = "closed"
    /\ seen = 0
    /\ next = 1

(* Mutant: the loop starts one migration too late. *)
OpenSkippingOne ==
    /\ pc \in {"closed", "refused"}
    /\ seen' \in {userVersion, 0}
    /\ next' = IF seen' = 0 THEN 1 ELSE IF seen' + 1 < build THEN seen' + 2 ELSE seen' + 1
    /\ pc' = IF seen' < build THEN "batch" ELSE "opened"
    /\ UNCHANGED <<build, userVersion, applied>>

(* An error of the query of user_version counts as version 0.               *)
Open ==
    /\ pc \in {"closed", "refused"}
    /\ seen' \in {userVersion, 0}
    /\ next' = seen' + 1
    /\ pc' = IF seen' < build THEN "batch" ELSE "opened"
    /\ UNCHANGED <<build, userVersion, applied>>

(* Mutant: a fresh database gets the base schema and jumps to the latest version. *)
RunBatchJumping ==
    /\ pc = "batch"
    /\ next \notin Alters \cap applied
    /\ applied' = applied \cup {next}
    /\ pc' = "bump"
    /\ next' = IF seen = 0 THEN build ELSE next
    /\ UNCHANGED <<build, userVersion, seen>>

(* A fresh database gets all migrations and then its version; an existing   *)
(* one gets the version of each migration right after it.                   *)
RunBatch ==
    /\ pc = "batch"
    /\ next \notin Alters \cap applied
    /\ applied' = applied \cup {next}
    /\ IF seen = 0 /\ next < build
       THEN next' = next + 1 /\ UNCHANGED pc
       ELSE pc' = "bump" /\ UNCHANGED next
    /\ UNCHANGED <<build, userVersion, seen>>

(* The column is there already: open returns MigrationFailed.               *)
Refuse ==
    /\ pc = "batch"
    /\ next \in Alters \cap applied
    /\ pc' = "refused"
    /\ UNCHANGED <<build, userVersion, applied, seen, next>>

(* Mutant: a fresh database is given the version of its base schema. *)
BumpToBase ==
    /\ pc = "bump"
    /\ userVersion' = IF seen = 0 THEN 1 ELSE next
    /\ IF next < build
       THEN pc' = "batch" /\ next' = next + 1
       ELSE pc' = "opened" /\ UNCHANGED next
    /\ UNCHANGED <<build, applied, seen>>

Bump ==
    /\ pc = "bump"
    /\ userVersion' = next
    /\ IF next < build
       THEN pc' = "batch" /\ next' = next + 1
       ELSE pc' = "opened" /\ UNCHANGED next
    /\ UNCHANGED <<build, applied, seen>>

(* The process dies, the handle is dropped, or a statement fails for want   *)
(* of space or of a lock and open returns that error.                       *)
Interrupt ==
    /\ pc \in {"batch", "bump", "opened"}
    /\ pc' = "closed"
    /\ UNCHANGED <<build, userVersion, applied, seen, next>>

(* The host installs the next build.                                        *)
Upgrade ==
    /\ pc \in {"closed", "refused"}
    /\ build < Latest
    /\ build' = build + 1
    /\ pc' = "closed"
    /\ UNCHANGED <<userVersion, applied, seen, next>>

Next == Open \/ RunBatch \/ Refuse \/ Bump \/ Interrupt \/ Upgrade

Spec == Init /\ [][Next]_vars

--------------------------------------------------------------------------------

(* The version in the file never promises a migration the file lacks: an   *)
(* interrupted open is never taken for a finished one by the next.         *)
VersionIsHonest == 1..userVersion \subseteq applied

(* A handle that open returned has every table and column its build uses,  *)
(* after any series of interrupted opens and upgrades.                     *)
OpenedIsComplete == pc = "opened" => 1..build \subseteq applied

(* "Forward-only migration system": the version is never lowered, not even *)
(* by an open that could not read it and took the database for a fresh one.*)
ForwardOnly == [][userVersion' >= userVersion]_vars

(* open opens the database, whatever interrupted an earlier open.          *)
NeverRefused == pc # "refused"
================================================================================
