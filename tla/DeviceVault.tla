----------------------------- MODULE DeviceVault -------------------------------
(***************************************************************************)
(* The vault file of register_device (core_impl.rs): it is read, extended  *)
(* in memory and written anew, without a lock, and writing empties it      *)
(* first.  The keys and their encryption are the identity library's.       *)
(***************************************************************************)

CONSTANTS
    Registrars,  \* threads of the host
    Devices,     \* device ids, each used once
    Torn         \* a file that does not parse

VARIABLES
    vaultFile,   \* the devices whose keys are in the file, or Torn
    enrolling,   \* per thread: step, device, the vault in memory
    registered,  \* devices whose registration was answered
    safe         \* history: those since a read or a write last failed

vars == <<vaultFile, enrolling, registered, safe>>

Resting == [step |-> "idle", device |-> CHOOSE d \in Devices : TRUE, vault |-> {}]

TypeOK ==
    /\ vaultFile \in (SUBSET Devices) \cup {Torn}
    /\ enrolling \in [Registrars ->
          [step : {"idle", "empty", "write"}, device : Devices, vault : SUBSET Devices]]
    /\ registered \subseteq Devices /\ safe \subseteq Devices

Init ==
    /\ vaultFile = {}
    /\ enrolling = [t \in Registrars |-> Resting]
    /\ registered = {}
    /\ safe = {}

Fresh(d) == d \notin registered /\ \A t \in Registrars :
               enrolling[t].step = "idle" \/ enrolling[t].device # d

(* A file that does not parse counts as none.                                *)
Load(t, d) ==
    /\ enrolling[t].step = "idle"
    /\ Fresh(d)
    /\ LET old == IF vaultFile = Torn THEN {} ELSE vaultFile
       IN enrolling' = [enrolling EXCEPT ![t] =
                           [step |-> "empty", device |-> d, vault |-> old \cup {d}]]
    /\ UNCHANGED <<vaultFile, registered, safe>>

(* So does one that is there but cannot be read.                             *)
FailToLoad(t, d) ==
    /\ enrolling[t].step = "idle"
    /\ Fresh(d)
    /\ enrolling' = [enrolling EXCEPT ![t] = [step |-> "empty", device |-> d, vault |-> {d}]]
    /\ safe' = {}
    /\ UNCHANGED <<vaultFile, registered>>

(* fs::write: the file is emptied, then written.                             *)
Empty(t) ==
    /\ enrolling[t].step = "empty"
    /\ vaultFile' = Torn
    /\ enrolling' = [enrolling EXCEPT ![t].step = "write"]
    /\ UNCHANGED <<registered, safe>>

Write(t) ==
    /\ enrolling[t].step = "write"
    /\ vaultFile' = enrolling[t].vault
    /\ registered' = registered \cup {enrolling[t].device}
    /\ safe' = safe \cup {enrolling[t].device}
    /\ enrolling' = [enrolling EXCEPT ![t] = Resting]

(* The file cannot be opened, or what is written does not fit: an error is   *)
(* returned, and what was emptied stays so.                                  *)
FailToWrite(t) ==
    /\ enrolling[t].step \in {"empty", "write"}
    /\ safe' = IF enrolling[t].step = "write" THEN {} ELSE safe
    /\ enrolling' = [enrolling EXCEPT ![t] = Resting]
    /\ UNCHANGED <<vaultFile, registered>>

Crash ==
    /\ safe' = IF \E t \in Registrars : enrolling[t].step = "write" THEN {} ELSE safe
    /\ enrolling' = [t \in Registrars |-> Resting]
    /\ UNCHANGED <<vaultFile, registered>>

Next ==
    \/ \E t \in Registrars :
          \/ \E d \in Devices : Load(t, d) \/ FailToLoad(t, d)
          \/ Empty(t) \/ Write(t) \/ FailToWrite(t)
    \/ Crash

Spec == Init /\ [][Next]_vars

(* "The device private key is persisted": the keys of all devices that were  *)
(* told so since a read or a write of the file last failed or was cut short  *)
(* stay in the vault, with one thread.                                       *)
KeysStay ==
    \/ safe = {}
    \/ \E t \in Registrars : enrolling[t].step = "write"
    \/ vaultFile # Torn /\ safe \subseteq vaultFile

(* The same of all devices: false when the file cannot be read once, or a    *)
(* write fails.                                                              *)
KeysSurvive ==
    \/ registered = {}
    \/ \E t \in Registrars : enrolling[t].step = "write"
    \/ vaultFile # Torn /\ registered \subseteq vaultFile
================================================================================
