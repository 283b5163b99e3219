---------------------------------- MODULE Memory ----------------------------------
(***********************************************************************************)
(* peep/memory.c: the named items kept in the SPIFFS partition.                    *)
(*                                                                                 *)
(* memory_set_item opens the file with "w", which truncates it, and only then      *)
(* writes the bytes: power may go between the two, the open or the write may fail, *)
(* and no caller in main/ looks at the result.  An item is therefore either a      *)
(* whole value or damaged:                                                         *)
(*    "NoFile"  it was never written (memory_get_item returns -1)                  *)
(*    "Empty"   it was truncated and not written (memory_get_item returns 0)       *)
(*    "Torn"    only a first part was written (0 < length < the size asked for)    *)
(* The bytes of a value are abstracted to the value.                               *)
(***********************************************************************************)
EXTENDS Integers, FiniteSets

CONSTANTS
  Creds,       \* WiFi credentials messages; an ssid or a password is named by its message
  Hatches,     \* complete hatch configurations, named by their hatch UUID
  IoFaults     \* may flash operations fail?

Damage == {"NoFile", "Empty", "Torn"}

\* The enum peep_state values that the firmware stores.
States == {"BLE_CONFIG", "MEASURE", "MEASURE_CONFIG"}

(***********************************************************************************)
(* struct hatch_configuration, by what the firmware tells apart:                   *)
(*    a member of Hatches   UUID, end timestamp and interval are all there         *)
(*    "Zero"     all zero: no UUID, end timestamp 0, interval 0                    *)
(*    "Partial"  a UUID, end timestamp 0 (the rest was lost or never received)     *)
(*    "NoUuid"   no UUID, but an end timestamp in the future                       *)
(***********************************************************************************)
Configs == Hatches \cup {"Zero", "Partial", "NoUuid"}

\* The values of different kinds, and the words for damage, are told apart.
ASSUME CredsAssumption ==
  Creds \cap (Damage \cup States \cup Configs \cup {"None"}) = {}
ASSUME HatchesAssumption ==
  Hatches \cap (Damage \cup States \cup {"Zero", "Partial", "NoUuid", "Default"}) = {}
ASSUME IoFaultsAssumption == IoFaults \in BOOLEAN

Items == {"state", "ssid", "pass", "hatch"}

NoWrite == [item |-> "none", val |-> "none"]

VARIABLES
  flash,     \* the files: item -> value or damage
  writing,   \* the memory_set_item between its fopen and its fclose, or NoWrite
  ioError    \* history: has a memory_set_item failed without its caller noticing?

memVars == <<flash, writing, ioError>>

ValuesOf(item) ==
  CASE item = "state" -> States
    [] item \in {"ssid", "pass"} -> Creds
    [] item = "hatch" -> Configs

MemTypeOK ==
  /\ flash \in [Items -> States \cup Creds \cup Configs \cup Damage]
  /\ \A i \in Items : flash[i] \in ValuesOf(i) \cup Damage
  /\ writing = NoWrite \/ \E i \in Items : \E v \in ValuesOf(i) : writing = [item |-> i, val |-> v]
  /\ ioError \in BOOLEAN

MemInit ==
  /\ flash = [i \in Items |-> "NoFile"]
  /\ writing = NoWrite
  /\ ioError = FALSE

(***********************************************************************************)
(* What a write of val that stops early can leave behind.  Readers start from a    *)
(* zeroed struct hatch_configuration, so a part of one reads as the fields that    *)
(* were written and zeros; cut after its end timestamp it still counts as itself.  *)
(***********************************************************************************)
Cut(val) ==
  IF val \in Configs
    THEN {"Empty", val, IF val \in {"Zero", "NoUuid"} THEN "Zero" ELSE "Partial"}
    ELSE {"Empty", "Torn"}

\* fopen(.., "w") succeeded: the old content is gone, the new one not yet there.
SetItem(item, val) ==
  /\ flash' = [flash EXCEPT ![item] = "Empty"]
  /\ writing' = [item |-> item, val |-> val]
  /\ UNCHANGED ioError

\* fopen failed: nothing is written, and the caller goes on as if it had been.
SetItemFails ==
  /\ IoFaults
  /\ ioError' = TRUE
  /\ UNCHANGED <<flash, writing>>

\* fwrite and fclose, completely.
FinishWrite ==
  /\ writing # NoWrite
  /\ flash' = [flash EXCEPT ![writing.item] = writing.val]
  /\ writing' = NoWrite
  /\ UNCHANGED ioError

\* A short fwrite; the -1 or short count goes to a caller that ignores it.
ShortWrite ==
  /\ IoFaults
  /\ writing # NoWrite
  /\ \E left \in Cut(writing.val) : flash' = [flash EXCEPT ![writing.item] = left]
  /\ writing' = NoWrite
  /\ ioError' = TRUE

\* Power goes: an unfinished write leaves what reached the flash.
LoseWrite ==
  /\ IF writing = NoWrite
       THEN UNCHANGED flash
       ELSE \E left \in Cut(writing.val) \cup {writing.val} :
              flash' = [flash EXCEPT ![writing.item] = left]
  /\ writing' = NoWrite
  /\ UNCHANGED ioError

\* memory_get_item returned a positive length: at least a part of a value was read.
Readable(item) == flash[item] \notin {"NoFile", "Empty"}

\* memory_get_item returned the full size of the item.
Whole(item) == flash[item] \notin Damage

\* What the item holds once the save under way is completed.
Stored(item) == IF writing.item = item THEN writing.val ELSE flash[item]
===================================================================================
