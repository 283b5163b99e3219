---------------------------- MODULE PeepPromise_proofs ----------------------------
(***********************************************************************************)
(* Proofs about the measurements of a Peep, from the log to the cloud, and that    *)
(* Peep implements PeepPromise: every step of a Peep is a step of its promise, or  *)
(* leaves phase and measurements alone.                                            *)
(***********************************************************************************)
EXTENDS Peep_proofs

(***********************************************************************************)
(* The backlog                                                                     *)
(*                                                                                 *)
(* StoredNotLost is not inductive: the deletion at the end of an upload is safe    *)
(* because _publish_measurements has sent every record by then.                    *)
(***********************************************************************************)
UploadedSoFar ==
  /\ task = "measure" /\ pc = "upload" => \A i \in 1..pos - 1 : uploads[db[i]] > 0
  /\ task = "measure" /\ pc = "close" /\ r => \A m \in InDb : uploads[m] > 0

BacklogInv == StoredNotLost /\ UploadedSoFar

LEMMA BacklogInvInit == Init => BacklogInv
BY DEF Init, BacklogInv, StoredNotLost, UploadedSoFar

\* Steps that leave the backlog alone and are not part of an upload.
OffBacklog ==
  /\ UNCHANGED <<db, stored, uploads>>
  /\ \/ UNCHANGED <<task, pc, r, pos>>
     \/ task' # "measure"
     \/ pc' \notin {"upload", "close"}

LEMMA BacklogInvOff == BacklogInv /\ OffBacklog => BacklogInv'
<1> SUFFICES ASSUME BacklogInv, OffBacklog PROVE BacklogInv'
  OBVIOUS
<1>1. StoredNotLost'
  BY DEF BacklogInv, OffBacklog, StoredNotLost, InDb
<1>2. UploadedSoFar'
  <2>1. CASE UNCHANGED <<task, pc, r, pos>>
    BY <2>1 DEF BacklogInv, OffBacklog, UploadedSoFar, InDb
  <2>2. CASE task' # "measure" \/ pc' \notin {"upload", "close"}
    BY <2>2 DEF UploadedSoFar
  <2> QED BY <2>1, <2>2 DEF OffBacklog
<1> QED BY <1>1, <1>2 DEF BacklogInv

\* Everything but the handling of measurements.
LEMMA OthersOffBacklog ==
  ASSUME CInv,
         \/ Boot \/ CompleteWrite \/ PowerLoss
         \/ \E source \in {"timer", "button"} : WakeUp(source)
         \/ \E c \in Configs : HatchEnds(c)
         \/ BleTask \/ ButtonPress
         \/ \E c \in Creds, keys \in {{"ssid"}, {"pass"}, {"ssid", "pass"}} : PhoneWrites(c, keys)
         \/ \E t \in {"measure", "config"} : Online(t) \/ \E c \in Configs : ShadowReply(t, c)
         \/ ConfigTask \/ SensorFails \/ MeasureSaveConfig \/ MeasureLoadConfig \/ MqttInit
         \/ TimeInvalid \/ EndReached \/ InRange \/ MeasureSleep
  PROVE  OffBacklog
<1> USE DEF OffBacklog
<1>1. CASE Boot
  <2>1. BootKnown => pc' \in {"init", "creds"}
    BY DEF BootKnown, StartTask, FirstCall
  <2> QED BY <1>1, <2>1 DEF Boot, BootKnown, BootUnknown, BootHalts, StartTask, dbVars
<1>2. CASE CompleteWrite
  BY <1>2 DEF CompleteWrite, bootVars, dbVars
<1>3. CASE PowerLoss \/ (\E source \in {"timer", "button"} : WakeUp(source))
  BY <1>3 DEF PowerLoss, WakeUp, dbVars
<1>4. CASE (\E c \in Configs : HatchEnds(c)) \/ ButtonPress
           \/ (\E c \in Creds, keys \in {{"ssid"}, {"pass"}, {"ssid", "pass"}} : PhoneWrites(c, keys))
  BY <1>4 DEF HatchEnds, ButtonPress, PhoneWrites, bootVars, dbVars
<1>5. CASE BleTask
  BY <1>5 DEF BleTask, BleInit, BleInitButton, BleWait, BleSaves, BleSleep, Sleep, Save, At, Goto, dbVars
<1>6. ASSUME NEW t \in {"measure", "config"}, Online(t) \/ \E c \in Configs : ShadowReply(t, c)
      PROVE  OffBacklog
  BY <1>6 DEF Online, LoadCreds, ConnectWifi, ShadowInit, ShadowGet, Disconnect,
              DisconnectPanics, ShadowReply, Skip, At, Goto, dbVars
<1>7. CASE ConfigSaves \/ ConfigSleep
  BY <1>7 DEF ConfigSaves, ConfigSleep, Save, Sleep, At, Goto, dbVars
<1>8. CASE SensorFails \/ MqttInit \/ TimeInvalid \/ EndReached \/ InRange
  BY <1>8 DEF SensorFails, MqttInit, TimeInvalid, EndReached, InRange, Save, At, Goto, dbVars
<1>9. CASE MeasureSaveConfig \/ MeasureLoadConfig \/ MeasureSleep
  BY <1>9 DEF MeasureSaveConfig, MeasureLoadConfig, MeasureSleep, AfterConfig, Save, Sleep, At, Goto, dbVars
<1> QED BY <1>1, <1>2, <1>3, <1>4, <1>5, <1>6, <1>7, <1>8, <1>9 DEF ConfigTask

\* A publication raises the count of one measurement and lowers none.
LEMMA PublishedCounts ==
  ASSUME CInv, NEW m \in Meas, Published(m)
  PROVE  /\ uploads'[m] > 0
         /\ \A n \in Meas : uploads[n] > 0 => uploads'[n] > 0
BY DEF Published, CInv, TypeOK

LEMMA BacklogTyped ==
  ASSUME CInv
  PROVE  /\ stored \subseteq Meas
         /\ InDb \subseteq Meas
         /\ \A i \in 1..Len(db) : db[i] \in Meas
BY DEF CInv, TypeOK, InDb

\* A new identity is taken for the measurement of this boot.
LEMMA BacklogInvReadSensor ==
  ASSUME CInv, BacklogInv, NEW m \in Meas, ReadSensor(m)
  PROVE  BacklogInv'
<1>1. /\ m \notin InDb /\ InDb' = InDb
      /\ stored' = stored \ {m} /\ uploads' = [uploads EXCEPT ![m] = 0]
      /\ task' = "measure" /\ pc' = "wifi"
  BY DEF ReadSensor, At, Goto, InDb
<1>2. StoredNotLost'
  <2> SUFFICES ASSUME NEW n \in stored, n # m PROVE n \in InDb \/ uploads'[n] > 0
    BY <1>1 DEF StoredNotLost
  <2>1. n \in InDb \/ uploads[n] > 0
    BY DEF BacklogInv, StoredNotLost
  <2> QED BY <1>1, <2>1, BacklogTyped DEF CInv, TypeOK
<1> QED BY <1>1, <1>2 DEF BacklogInv, UploadedSoFar

LEMMA BacklogInvPublish ==
  ASSUME CInv, BacklogInv, PublishCurrent
  PROVE  BacklogInv'
<1>1. /\ meas \in Meas /\ InDb' = InDb /\ stored' = stored /\ task' = "measure"
      /\ pc' = "disconnect" \/ (pc' = "upload" /\ pos' = 1)
  BY DEF PublishCurrent, At, Goto, CInv, Control, InDb
<1>2. Published(meas) \/ uploads' = uploads
  BY DEF PublishCurrent
<1>3. \A n \in Meas : uploads[n] > 0 => uploads'[n] > 0
  BY <1>1, <1>2, PublishedCounts
<1>4. StoredNotLost'
  BY <1>1, <1>3, BacklogTyped DEF BacklogInv, StoredNotLost
<1>5. UploadedSoFar'
  BY <1>1 DEF UploadedSoFar
<1> QED BY <1>4, <1>5 DEF BacklogInv

LEMMA BacklogInvUploadEntry ==
  ASSUME CInv, BacklogInv, UploadEntry
  PROVE  BacklogInv'
<1>1. /\ task = "measure" /\ pc = "upload" /\ task' = task
      /\ db' = db /\ InDb' = InDb /\ stored' = stored
      /\ pos \in 1..Len(db) /\ db[pos] \in Meas
  BY BacklogTyped DEF UploadEntry, At, Goto, CInv, Control, InDb
<1>2. CASE Published(db[pos]) /\ pos' = pos + 1 /\ r' = r
           /\ pc' = (IF pos = Len(db) THEN "close" ELSE "upload")
  <2>1. uploads'[db[pos]] > 0 /\ \A n \in Meas : uploads[n] > 0 => uploads'[n] > 0
    BY <1>1, <1>2, PublishedCounts
  <2>2. \A i \in 1..pos : uploads'[db[i]] > 0
    <3> TAKE i \in 1..pos
    <3>1. i \in 1..Len(db) /\ (i = pos \/ i \in 1..pos - 1)
      BY <1>1 DEF CInv, TypeOK
    <3>2. CASE i \in 1..pos - 1
      BY <1>1, <2>1, <3>1, <3>2, BacklogTyped DEF BacklogInv, UploadedSoFar
    <3> QED BY <2>1, <3>1, <3>2
  <2>3. pc' = "close" => \A m \in InDb : uploads'[m] > 0
    BY <1>2, <2>2 DEF InDb
  <2>4. StoredNotLost'
    BY <1>1, <2>1, BacklogTyped DEF BacklogInv, StoredNotLost
  <2>5. pc' = "upload" => \A i \in 1..pos' - 1 : uploads'[db'[i]] > 0
    BY <1>1, <1>2, <2>2
  <2> QED BY <1>1, <1>2, <2>3, <2>4, <2>5 DEF BacklogInv, UploadedSoFar
<1>3. CASE r' = FALSE /\ pc' = "close" /\ uploads' = uploads
  BY <1>1, <1>3 DEF BacklogInv, StoredNotLost, UploadedSoFar
<1> QED BY <1>2, <1>3 DEF UploadEntry, Goto

LEMMA BacklogInvUploadClose ==
  ASSUME CInv, BacklogInv, UploadClose
  PROVE  BacklogInv'
<1>1. /\ task = "measure" /\ pc = "close" /\ pc' = "disconnect"
      /\ stored' = stored /\ uploads' = uploads
  BY DEF UploadClose, At, Goto
<1>2. db' = db \/ r
  BY DEF UploadClose
<1>3. StoredNotLost'
  <2>1. CASE db' = db
    BY <1>1, <2>1 DEF BacklogInv, StoredNotLost, InDb
  <2>2. CASE r
    BY <1>1, <2>2 DEF BacklogInv, StoredNotLost, UploadedSoFar
  <2> QED BY <1>2, <2>1, <2>2
<1> QED BY <1>1, <1>3 DEF BacklogInv, UploadedSoFar

LEMMA BacklogInvStore ==
  ASSUME CInv, BacklogInv, StoreLocally
  PROVE  BacklogInv'
<1>1. /\ pc' = "disconnect" /\ uploads' = uploads
      /\ meas \in Meas /\ db \in Seq(Meas)
  BY DEF StoreLocally, At, Goto, CInv, TypeOK, Control
<1>2. CASE db' = Append(db, meas) /\ stored' = stored \cup {meas}
  <2>1. /\ Len(db') = Len(db) + 1 /\ db'[Len(db) + 1] = meas
        /\ \A i \in 1..Len(db) : db'[i] = db[i]
    BY <1>1, <1>2
  <2>2. InDb \subseteq InDb' /\ meas \in InDb'
    BY <1>1, <2>1 DEF InDb
  <2>3. StoredNotLost'
    BY <1>1, <1>2, <2>2 DEF BacklogInv, StoredNotLost
  <2> QED BY <1>1, <2>3 DEF BacklogInv, UploadedSoFar
<1>3. CASE UNCHANGED <<db, stored>>
  BY <1>1, <1>3 DEF BacklogInv, StoredNotLost, UploadedSoFar, InDb
<1> QED BY <1>2, <1>3 DEF StoreLocally

LEMMA BacklogInvStep == CInv /\ BacklogInv /\ [Next]_vars => BacklogInv'
<1> SUFFICES ASSUME CInv, BacklogInv, [Next]_vars PROVE BacklogInv'
  OBVIOUS
<1>1. CASE UNCHANGED vars
  BY <1>1, BacklogInvOff DEF OffBacklog, vars, bootVars, dbVars
<1>2. CASE CompleteWrite \/ Boot \/ BleTask \/ ConfigTask
  BY <1>2, OthersOffBacklog, BacklogInvOff
<1>3. CASE MeasureTask
  BY <1>3, OthersOffBacklog, BacklogInvOff, BacklogInvReadSensor, BacklogInvPublish,
     BacklogInvUploadEntry, BacklogInvUploadClose, BacklogInvStore DEF MeasureTask
<1>4. CASE Environment
  BY <1>4, OthersOffBacklog, BacklogInvOff DEF Environment, CloudReplies
<1> QED BY <1>1, <1>2, <1>3, <1>4 DEF Next, Program

(***********************************************************************************)
(* Whatever fails, and however often the Peep reboots or loses power, a            *)
(* measurement that memory_measurement_db_add accepted is in the log until it has  *)
(* been published.                                                                 *)
(***********************************************************************************)
THEOREM StoredNotLostHolds == Spec => []StoredNotLost
<1>1. Spec => []BacklogInv
  BY CInvAlways, BacklogInvInit, BacklogInvStep, PTL DEF Spec
<1> QED BY <1>1, PTL DEF BacklogInv

-----------------------------------------------------------------------------------
(***********************************************************************************)
(* The configuration under which a measurement is published                        *)
(*                                                                                 *)
(* What has no end timestamp has ended from the beginning (time(NULL) is past 0),  *)
(* and the default configuration ends the boot: neither passes the test of the     *)
(* time.                                                                           *)
(***********************************************************************************)
UnusableEnded == {"Zero", "Partial"} \subseteq ended

RangeInv == UnusableEnded /\ InRangeOfAHatch

\* Steps that do not get closer to publishing.
OffRange ==
  /\ ended \subseteq ended'
  /\ \/ UNCHANGED <<task, pc, config>>
     \/ task' # "measure"
     \/ pc' \notin {"publish", "upload", "store"}

LEMMA RangeInvOff == RangeInv /\ OffRange => RangeInv'
BY DEF RangeInv, OffRange, UnusableEnded, InRangeOfAHatch

LEMMA OthersOffRange ==
  ASSUME CInv,
         \/ Boot \/ CompleteWrite \/ PowerLoss
         \/ \E source \in {"timer", "button"} : WakeUp(source)
         \/ \E c \in Configs : HatchEnds(c)
         \/ BleTask \/ ButtonPress
         \/ \E c \in Creds, keys \in {{"ssid"}, {"pass"}, {"ssid", "pass"}} : PhoneWrites(c, keys)
         \/ \E t \in {"measure", "config"} : Online(t) \/ \E c \in Configs : ShadowReply(t, c)
         \/ ConfigTask \/ SensorFails \/ MeasureSaveConfig \/ MeasureLoadConfig \/ MqttInit
         \/ TimeInvalid \/ EndReached \/ MeasureSleep
         \/ (\E m \in Meas : ReadSensor(m)) \/ UploadClose \/ StoreLocally
  PROVE  OffRange
<1> USE DEF OffRange
<1>1. CASE Boot
  <2>1. BootKnown => pc' \in {"init", "creds"}
    BY DEF BootKnown, StartTask, FirstCall
  <2> QED BY <1>1, <2>1 DEF Boot, BootKnown, BootUnknown, BootHalts, StartTask, envVars
<1>2. CASE CompleteWrite
  BY <1>2 DEF CompleteWrite, bootVars, ramVars, envVars
<1>3. CASE PowerLoss \/ (\E source \in {"timer", "button"} : WakeUp(source))
  BY <1>3 DEF PowerLoss, WakeUp, envVars
<1>4. CASE (\E c \in Configs : HatchEnds(c)) \/ ButtonPress
           \/ (\E c \in Creds, keys \in {{"ssid"}, {"pass"}, {"ssid", "pass"}} : PhoneWrites(c, keys))
  BY <1>4 DEF HatchEnds, ButtonPress, PhoneWrites, bootVars, ramVars, envVars
<1>5. CASE BleTask
  BY <1>5 DEF BleTask, BleInit, BleInitButton, BleWait, BleSaves, BleSleep, Sleep, Save, At, Goto, envVars
<1>6. ASSUME NEW t \in {"measure", "config"}, Online(t) \/ \E c \in Configs : ShadowReply(t, c)
      PROVE  OffRange
  BY <1>6 DEF Online, LoadCreds, ConnectWifi, ShadowInit, ShadowGet, Disconnect,
              DisconnectPanics, ShadowReply, Skip, At, Goto, envVars
<1>7. CASE ConfigSaves \/ ConfigSleep
  BY <1>7 DEF ConfigSaves, ConfigSleep, Save, Sleep, At, Goto, envVars
<1>8. CASE SensorFails \/ MqttInit \/ TimeInvalid \/ EndReached \/ (\E m \in Meas : ReadSensor(m))
  BY <1>8 DEF SensorFails, MqttInit, TimeInvalid, EndReached, ReadSensor, Save, At, Goto, envVars
<1>9. CASE MeasureSaveConfig \/ MeasureLoadConfig \/ MeasureSleep \/ UploadClose \/ StoreLocally
  BY <1>9 DEF MeasureSaveConfig, MeasureLoadConfig, MeasureSleep, UploadClose, StoreLocally,
              AfterConfig, Save, Sleep, At, Goto, envVars
<1> QED BY <1>1, <1>2, <1>3, <1>4, <1>5, <1>6, <1>7, <1>8, <1>9 DEF ConfigTask

LEMMA RangeInvStep == CInv /\ RangeInv /\ [Next]_vars => RangeInv'
<1> SUFFICES ASSUME CInv, RangeInv, [Next]_vars PROVE RangeInv'
  OBVIOUS
<1>1. CASE UNCHANGED vars
  BY <1>1, RangeInvOff DEF OffRange, vars, bootVars, ramVars, envVars
<1>2. CASE InRange
  <2>1. config \in Configs /\ config \notin ended
    BY <1>2 DEF InRange, At, CInv, TypeOK, Control
  <2> QED BY <1>2, <2>1
       DEF InRange, RangeInv, UnusableEnded, InRangeOfAHatch, Configs, ramVars, envVars
<1>3. CASE PublishCurrent \/ UploadEntry
  BY <1>3
  DEF PublishCurrent, UploadEntry, At, RangeInv, UnusableEnded, InRangeOfAHatch, ramVars, envVars
<1>4. CASE Program
  BY <1>2, <1>3, <1>4, OthersOffRange, RangeInvOff DEF Program, MeasureTask
<1>5. CASE Environment
  BY <1>5, OthersOffRange, RangeInvOff DEF Environment, CloudReplies
<1> QED BY <1>1, <1>4, <1>5 DEF Next

(***********************************************************************************)
(* Whatever the shadow, the flash and the power did before, a measurement that is  *)
(* published or put by belongs to a configuration with an end timestamp that the   *)
(* clock has been compared with: task_measure never gets there with the zeroed, a  *)
(* torn or the default _config.                                                    *)
(***********************************************************************************)
THEOREM InRangeOfAHatchHolds == Spec => []InRangeOfAHatch
<1>1. Init => RangeInv
  BY DEF Init, RangeInv, UnusableEnded, InRangeOfAHatch
<1>2. Spec => []RangeInv
  BY <1>1, CInvAlways, RangeInvStep, PTL DEF Spec
<1> QED BY <1>2, PTL DEF RangeInv

-----------------------------------------------------------------------------------
(***********************************************************************************)
(* Nothing is uploaded twice without a reason                                      *)
(*                                                                                 *)
(* No record is in the log twice; the measurement of this boot is unpublished and  *)
(* not in the log until task_measure publishes or stores it; and unless an upload  *)
(* was cut off, what the log holds has not been published, but for what the upload *)
(* under way has read.                                                             *)
(***********************************************************************************)
Injective == \A i, j \in 1..Len(db) : db[i] = db[j] => i = j

AfterPublish == {"upload", "close", "disconnect", "sleep"}

Fresh ==
  meas # "None" /\ ~ (task = "measure" /\ pc \in AfterPublish)
    => uploads[meas] = 0 /\ meas \notin InDb

LogUnsent ==
  ~ cutOff =>
    \A i \in 1..Len(db) :
      \/ uploads[db[i]] = 0
      \/ task = "measure" /\ pc = "upload" /\ i < pos
      \/ task = "measure" /\ pc = "close"

CloseCutOff == task = "measure" /\ pc = "close" /\ ~ r => cutOff

\* The calls that are made only while everything has worked.
WhileWell == {"mqtt", "time", "publish", "upload"}

GoesWell == task = "measure" /\ pc \in WhileWell => r

OnceInv == Injective /\ Fresh /\ LogUnsent /\ CloseCutOff /\ GoesWell /\ UploadedOnce

\* Steps that leave the measurements alone, and do not leave an upload unnoticed.
OffOnce ==
  /\ UNCHANGED <<db, uploads>>
  /\ cutOff => cutOff'
  /\ \/ meas' = "None"
     \/ /\ meas' = meas
        /\ task = "measure" /\ pc \in AfterPublish => task' = "measure" /\ pc' \in AfterPublish
  /\ \/ UNCHANGED <<task, pc, r, pos>>
     \/ /\ task = "measure" /\ pc \in {"upload", "close"} => cutOff'
        /\ ~ (task' = "measure" /\ pc' = "close")
        /\ task' = "measure" /\ pc' \in WhileWell
             => r' \/ (r' = r /\ task = "measure" /\ pc \in WhileWell)

LEMMA OnceInvOff == OnceInv /\ OffOnce => OnceInv'
<1> SUFFICES ASSUME OnceInv, OffOnce PROVE OnceInv'
  OBVIOUS
<1>1. Injective' /\ UploadedOnce'
  BY DEF OnceInv, OffOnce, Injective, UploadedOnce
<1>2. Fresh'
  BY DEF OnceInv, OffOnce, Fresh, InDb
<1>3. LogUnsent'
  BY DEF OnceInv, OffOnce, LogUnsent
<1>4. CloseCutOff' /\ GoesWell'
  BY DEF OnceInv, OffOnce, CloseCutOff, GoesWell
<1> QED BY <1>1, <1>2, <1>3, <1>4 DEF OnceInv

LEMMA OthersOffOnce ==
  ASSUME CInv,
         \/ Boot \/ CompleteWrite \/ PowerLoss
         \/ \E source \in {"timer", "button"} : WakeUp(source)
         \/ \E c \in Configs : HatchEnds(c)
         \/ BleTask \/ ButtonPress
         \/ \E c \in Creds, keys \in {{"ssid"}, {"pass"}, {"ssid", "pass"}} : PhoneWrites(c, keys)
         \/ \E t \in {"measure", "config"} : Online(t) \/ \E c \in Configs : ShadowReply(t, c)
         \/ ConfigTask \/ SensorFails \/ MeasureSaveConfig \/ MeasureLoadConfig \/ MqttInit
         \/ TimeInvalid \/ EndReached \/ InRange \/ MeasureSleep
  PROVE  OffOnce
<1> USE DEF OffOnce, AfterPublish, WhileWell
<1>1. CASE Boot
  <2>1. task = "boot" /\ UNCHANGED <<dbVars, meas>>
    BY <1>1 DEF Boot, BootKnown, BootUnknown, BootHalts
  <2>2. task' = "halted" \/ pc' \in {"init", "creds"}
    BY <1>1 DEF Boot, BootKnown, BootUnknown, BootHalts, StartTask, FirstCall
  <2> QED BY <2>1, <2>2 DEF dbVars
<1>2. CASE CompleteWrite
  BY <1>2 DEF CompleteWrite, bootVars, dbVars
<1>3. CASE PowerLoss \/ (\E source \in {"timer", "button"} : WakeUp(source))
  <2>1. CASE PowerLoss
    <3>1. /\ task' = "boot" /\ meas' = "None" /\ UNCHANGED <<db, uploads>>
      BY <2>1 DEF PowerLoss, RestartRam
    <3>2. cutOff => cutOff'
      BY <2>1, Zenon DEF PowerLoss
    <3>3. task = "measure" /\ pc \in {"upload", "close"} => cutOff'
      BY <2>1, Zenon DEF PowerLoss
    <3> QED BY <3>1, <3>2, <3>3
  <2>2. CASE \E source \in {"timer", "button"} : WakeUp(source)
    BY <2>2 DEF WakeUp, dbVars
  <2> QED BY <1>3, <2>1, <2>2
<1>4. CASE (\E c \in Configs : HatchEnds(c)) \/ ButtonPress
           \/ (\E c \in Creds, keys \in {{"ssid"}, {"pass"}, {"ssid", "pass"}} : PhoneWrites(c, keys))
  BY <1>4 DEF HatchEnds, ButtonPress, PhoneWrites, bootVars, dbVars
<1>5. CASE BleTask
  BY <1>5
  DEF BleTask, BleInit, BleInitButton, BleWait, BleSaves, BleSleep, Sleep, RestartRam, Save,
      At, Goto, dbVars
<1>6. ASSUME NEW t \in {"measure", "config"}, Online(t) \/ \E c \in Configs : ShadowReply(t, c)
      PROVE  OffOnce
  <2>1. ASSUME LoadCreds(t) \/ ConnectWifi(t) \/ ShadowInit(t) \/ ShadowGet(t)
               \/ \E c \in Configs : ShadowReply(t, c)
        PROVE  OffOnce
    <3>1. /\ task = t /\ pc \notin {"upload", "close", "disconnect", "sleep"}
          /\ UNCHANGED <<dbVars, meas>>
      BY <2>1 DEF LoadCreds, ConnectWifi, ShadowInit, ShadowGet, ShadowReply, At
    <3>2. pc' \in {"sensor", "wifi", "shadow", "get", "poll", "config", "disconnect"}
      BY <2>1 DEF LoadCreds, ConnectWifi, ShadowInit, ShadowGet, ShadowReply, Skip, Goto
    <3> QED BY <3>1, <3>2 DEF dbVars
  <2>3. CASE Disconnect(t) \/ DisconnectPanics(t)
    BY <2>3 DEF Disconnect, DisconnectPanics, RestartRam, At, Goto, dbVars
  <2> QED BY <1>6, <2>1, <2>3 DEF Online
<1>7. CASE ConfigSaves \/ ConfigSleep
  BY <1>7 DEF ConfigSaves, ConfigSleep, Save, Sleep, RestartRam, At, Goto, dbVars
<1>8. CASE SensorFails \/ MqttInit \/ TimeInvalid \/ EndReached \/ InRange
  BY <1>8 DEF SensorFails, MqttInit, TimeInvalid, EndReached, InRange, Save, At, Goto, dbVars
<1>9. CASE MeasureSaveConfig \/ MeasureLoadConfig \/ MeasureSleep
  BY <1>9
  DEF MeasureSaveConfig, MeasureLoadConfig, MeasureSleep, AfterConfig, Save, Sleep, RestartRam,
      At, Goto, dbVars
<1> QED BY <1>1, <1>2, <1>3, <1>4, <1>5, <1>6, <1>7, <1>8, <1>9 DEF ConfigTask

\* The measurement that is published for the first time has been published once.
LEMMA PublishedOnce ==
  ASSUME CInv, NEW m \in Meas, Published(m), uploads[m] = 0
  PROVE  /\ uploads'[m] = 1
         /\ \A n \in Meas : n # m => uploads'[n] = uploads[n]
BY DEF Published, CInv, TypeOK

LEMMA OnceInvReadSensor ==
  ASSUME CInv, OnceInv, NEW m \in Meas, ReadSensor(m)
  PROVE  OnceInv'
<1>1. /\ m \notin InDb /\ InDb' = InDb /\ db' = db /\ meas' = m
      /\ uploads' = [uploads EXCEPT ![m] = 0] /\ uploads \in [Meas -> 0..2]
      /\ cutOff' = cutOff /\ task = "measure" /\ pc = "sensor" /\ task' = "measure" /\ pc' = "wifi"
  BY DEF ReadSensor, At, Goto, InDb, CInv, TypeOK
<1>2. Injective' /\ Fresh' /\ CloseCutOff' /\ GoesWell'
  BY <1>1 DEF OnceInv, Injective, Fresh, AfterPublish, CloseCutOff, GoesWell, WhileWell
<1>3. LogUnsent'
  BY <1>1, BacklogTyped DEF OnceInv, LogUnsent, InDb
<1>4. UploadedOnce'
  BY <1>1 DEF OnceInv, UploadedOnce
<1> QED BY <1>2, <1>3, <1>4 DEF OnceInv

LEMMA OnceInvPublish ==
  ASSUME CInv, OnceInv, PublishCurrent
  PROVE  OnceInv'
<1>1. /\ meas \in Meas /\ InDb' = InDb /\ db' = db /\ cutOff' = cutOff /\ meas' = meas
      /\ task = "measure" /\ pc = "publish" /\ task' = "measure" /\ pc' \in {"upload", "disconnect"}
  BY DEF PublishCurrent, At, Goto, CInv, Control, InDb
<1>2. Published(meas) \/ uploads' = uploads
  BY DEF PublishCurrent
<1>3. "None" \notin Meas
  BY MeasAssumption
<1>4. uploads[meas] = 0 /\ meas \notin InDb
  BY <1>1, <1>3 DEF OnceInv, Fresh, AfterPublish
<1>5. \A n \in Meas : n # meas => uploads'[n] = uploads[n]
  BY <1>1, <1>2, <1>4, PublishedOnce
<1>6. uploads'[meas] < 2
  BY <1>1, <1>2, <1>4, PublishedOnce
<1>7. Injective' /\ Fresh' /\ CloseCutOff'
  BY <1>1 DEF OnceInv, Injective, Fresh, AfterPublish, CloseCutOff
<1>10. GoesWell'
  <2>1. r
    BY <1>1 DEF OnceInv, GoesWell, WhileWell
  <2>2. r' = r \/ pc' = "disconnect"
    BY DEF PublishCurrent, Goto
  <2> QED BY <2>1, <2>2 DEF GoesWell, WhileWell
<1>8. LogUnsent'
  BY <1>1, <1>4, <1>5, BacklogTyped DEF OnceInv, LogUnsent, InDb
<1>9. UploadedOnce'
  BY <1>1, <1>5, <1>6 DEF OnceInv, UploadedOnce
<1> QED BY <1>7, <1>8, <1>9, <1>10 DEF OnceInv

LEMMA OnceInvUploadEntry ==
  ASSUME CInv, OnceInv, UploadEntry
  PROVE  OnceInv'
<1>1. /\ task = "measure" /\ pc = "upload" /\ task' = task /\ pc' \in {"upload", "close"}
      /\ db' = db /\ InDb' = InDb /\ meas' = meas
      /\ pos \in 1..Len(db) /\ db[pos] \in Meas
  BY BacklogTyped DEF UploadEntry, At, Goto, CInv, Control, InDb
<1>2. Injective' /\ Fresh'
  BY <1>1 DEF OnceInv, Injective, Fresh, AfterPublish
<1>5. r
  BY <1>1 DEF OnceInv, GoesWell, WhileWell
<1>3. CASE cutOff' /\ uploads' = uploads /\ pc' = "close"
  BY <1>1, <1>2, <1>3 DEF OnceInv, LogUnsent, CloseCutOff, UploadedOnce, GoesWell, WhileWell
<1>4. CASE Published(db[pos]) /\ pos' = pos + 1 /\ r' = r /\ cutOff' = cutOff
           /\ pc' = (IF pos = Len(db) THEN "close" ELSE "upload")
  <2>1. CASE cutOff
    BY <1>1, <1>2, <1>4, <1>5, <2>1 DEF OnceInv, LogUnsent, CloseCutOff, UploadedOnce, GoesWell
  <2>2. CASE ~ cutOff
    <3>1. uploads[db[pos]] = 0
      BY <1>1, <2>2 DEF OnceInv, LogUnsent
    <3>2. uploads'[db[pos]] = 1 /\ \A n \in Meas : n # db[pos] => uploads'[n] = uploads[n]
      BY <1>1, <1>4, <3>1, PublishedOnce
    <3>3. UploadedOnce'
      BY <1>4, <2>2, <3>2 DEF OnceInv, UploadedOnce
    <3>4. LogUnsent'
      <4> SUFFICES ASSUME NEW i \in 1..Len(db), pc' = "upload"
                   PROVE  uploads'[db[i]] = 0 \/ i < pos'
        BY <1>1 DEF LogUnsent
      <4>1. CASE i = pos \/ i < pos
        BY <1>1, <1>4, <4>1
      <4>2. CASE ~ (i = pos \/ i < pos)
        <5>1. uploads[db[i]] = 0
          BY <1>1, <2>2, <4>2 DEF OnceInv, LogUnsent
        <5>2. db[i] # db[pos] /\ db[i] \in Meas
          BY <1>1, <4>2, BacklogTyped DEF OnceInv, Injective
        <5> QED BY <3>2, <5>1, <5>2
      <4> QED BY <4>1, <4>2
    <3>5. CloseCutOff' /\ GoesWell'
      BY <1>4, <1>5 DEF CloseCutOff, GoesWell
    <3> QED BY <1>2, <3>3, <3>4, <3>5 DEF OnceInv
  <2> QED BY <2>1, <2>2
<1> QED BY <1>3, <1>4 DEF UploadEntry, Goto

LEMMA OnceInvUploadClose ==
  ASSUME CInv, OnceInv, UploadClose
  PROVE  OnceInv'
<1>1. /\ task = "measure" /\ pc = "close" /\ task' = task /\ pc' = "disconnect"
      /\ uploads' = uploads /\ meas' = meas
  BY DEF UploadClose, At, Goto
<1>2. Fresh' /\ CloseCutOff' /\ GoesWell'
  BY <1>1 DEF Fresh, AfterPublish, CloseCutOff, GoesWell, WhileWell
<1>3. CASE db' = <<>> /\ cutOff' = cutOff
  BY <1>1, <1>2, <1>3 DEF OnceInv, Injective, LogUnsent, UploadedOnce
<1>4. CASE db' = db /\ cutOff'
  BY <1>1, <1>2, <1>4 DEF OnceInv, Injective, LogUnsent, UploadedOnce
<1>5. CASE db' = db /\ cutOff' = cutOff /\ ~ r
  BY <1>1, <1>4, <1>5 DEF OnceInv, CloseCutOff
<1> QED BY <1>3, <1>4, <1>5 DEF UploadClose

LEMMA OnceInvStore ==
  ASSUME CInv, OnceInv, StoreLocally
  PROVE  OnceInv'
<1>1. /\ task = "measure" /\ pc = "store" /\ task' = task /\ pc' = "disconnect"
      /\ uploads' = uploads /\ meas' = meas /\ cutOff' = cutOff
      /\ meas \in Meas /\ db \in Seq(Meas)
  BY DEF StoreLocally, At, Goto, CInv, TypeOK, Control
<1>2. Fresh' /\ CloseCutOff' /\ GoesWell' /\ UploadedOnce'
  BY <1>1 DEF OnceInv, Fresh, AfterPublish, CloseCutOff, GoesWell, WhileWell, UploadedOnce
<1>3. uploads[meas] = 0 /\ meas \notin InDb
  BY <1>1, MeasAssumption DEF OnceInv, Fresh, AfterPublish
<1>4. CASE db' = Append(db, meas)
  <2>1. /\ Len(db) \in Nat /\ Len(db') = Len(db) + 1 /\ db'[Len(db) + 1] = meas
        /\ \A i \in 1..Len(db) : db'[i] = db[i] /\ db[i] # meas
    BY <1>1, <1>3, <1>4 DEF InDb
  <2>2. Injective'
    BY <2>1 DEF OnceInv, Injective
  <2>3. LogUnsent'
    <3> SUFFICES ASSUME ~ cutOff, NEW i \in 1..Len(db) + 1 PROVE uploads[db'[i]] = 0
      BY <1>1, <2>1 DEF LogUnsent
    <3>1. CASE i = Len(db) + 1
      BY <1>3, <2>1, <3>1
    <3>2. CASE i \in 1..Len(db)
      BY <1>1, <2>1, <3>2 DEF OnceInv, LogUnsent
    <3> QED BY <2>1, <3>1, <3>2
  <2> QED BY <1>2, <2>2, <2>3 DEF OnceInv
<1>5. CASE UNCHANGED db
  BY <1>1, <1>2, <1>5 DEF OnceInv, Injective, LogUnsent
<1> QED BY <1>4, <1>5 DEF StoreLocally

LEMMA OnceInvStep == CInv /\ OnceInv /\ [Next]_vars => OnceInv'
<1> SUFFICES ASSUME CInv, OnceInv, [Next]_vars PROVE OnceInv'
  OBVIOUS
<1>1. CASE UNCHANGED vars
  BY <1>1, OnceInvOff DEF OffOnce, vars, bootVars, dbVars
<1>2. CASE CompleteWrite \/ Boot \/ BleTask \/ ConfigTask
  BY <1>2, OthersOffOnce, OnceInvOff
<1>3. CASE MeasureTask
  BY <1>3, OthersOffOnce, OnceInvOff, OnceInvReadSensor, OnceInvPublish,
     OnceInvUploadEntry, OnceInvUploadClose, OnceInvStore DEF MeasureTask
<1>4. CASE Environment
  BY <1>4, OthersOffOnce, OnceInvOff DEF Environment, CloudReplies
<1> QED BY <1>1, <1>2, <1>3, <1>4 DEF Next, Program

LEMMA OnceInvAlways == Spec => []OnceInv
<1>1. Init => OnceInv
  BY DEF Init, OnceInv, Injective, Fresh, LogUnsent, CloseCutOff, GoesWell, UploadedOnce
<1> QED BY <1>1, CInvAlways, OnceInvStep, PTL DEF Spec

(***********************************************************************************)
(* As long as no upload of the log was cut off, and its deletion did not fail, no  *)
(* measurement is published twice, through all boots, tasks and losses of power.   *)
(***********************************************************************************)
THEOREM UploadedOnceHolds == Spec => []UploadedOnce
BY OnceInvAlways, PTL DEF OnceInv

-----------------------------------------------------------------------------------
(***********************************************************************************)
(* The promise                                                                     *)
(***********************************************************************************)

Inv == CInv /\ StateInv /\ BacklogInv /\ OnceInv

LEMMA InvAlways == Spec => []Inv
<1>1. Spec => []BacklogInv
  BY CInvAlways, BacklogInvInit, BacklogInvStep, PTL DEF Spec
<1> QED BY <1>1, CInvAlways, StateInvAlways, OnceInvAlways, PTL DEF Inv

LEMMA PromiseInit == Init => Promise!Init
<1> SUFFICES ASSUME Init PROVE Promise!Init
  OBVIOUS
<1>1. Phase = "blank"
  BY DEF Init, MemInit, Phase, PhaseOf, NoWrite, Items
<1>2. Kept = {} /\ Sent = {}
  BY DEF Init, Kept, Sent, InDb
<1>3. faults + losses = 0
  BY DEF Init
<1> QED BY <1>1, <1>2, <1>3 DEF Promise!Init

-----------------------------------------------------------------------------------
(***********************************************************************************)
(* Harm: the budgets only shrink.                                                  *)
(***********************************************************************************)
SomeHarm == faults' + losses' > faults + losses
NoLess   == faults' + losses' >= faults + losses

LEMMA BudgetsTyped == CInv => faults \in Nat /\ losses \in Nat
BY BoundsAssumption DEF CInv, TypeOK

LEMMA HarmOfStep ==
  ASSUME CInv, UNCHANGED losses, Works \/ Fails
  PROVE  NoLess /\ (Fails => SomeHarm)
BY BudgetsTyped DEF Works, Fails, NoLess, SomeHarm

LEMMA SaveWorksOrFails ==
  ASSUME NEW i, NEW v, NEW label, Save(i, v, label)
  PROVE  Works \/ Fails
BY DEF Save

LEMMA StepsWorkOrFail ==
  ASSUME [Next]_vars, ~ PowerLoss
  PROVE  UNCHANGED losses /\ (Works \/ Fails)
<1> USE DEF envVars
<1>1. CASE UNCHANGED vars
  BY <1>1 DEF vars, Works
<1>2. CASE CompleteWrite \/ Boot
  BY <1>2 DEF CompleteWrite, Boot, BootKnown, BootUnknown, BootHalts
<1>3. CASE BleTask
  BY <1>3, SaveWorksOrFails DEF BleTask, BleInit, BleInitButton, BleWait, BleSaves, BleSleep, Sleep
<1>4. CASE ConfigSaves \/ ConfigSleep \/ MeasureSaveConfig \/ EndReached \/ MeasureSleep
  BY <1>4, SaveWorksOrFails DEF ConfigSaves, ConfigSleep, MeasureSaveConfig, EndReached, MeasureSleep, Sleep
<1>5. ASSUME NEW t \in {"measure", "config"}, Online(t) \/ \E c \in Configs : ShadowReply(t, c)
      PROVE  UNCHANGED losses /\ (Works \/ Fails)
  BY <1>5 DEF Online, LoadCreds, ConnectWifi, ShadowInit, ShadowGet, Disconnect,
              DisconnectPanics, ShadowReply
<1>6. CASE (\E m \in Meas : ReadSensor(m)) \/ SensorFails \/ MeasureLoadConfig \/ MqttInit
           \/ TimeInvalid \/ InRange
  BY <1>6 DEF ReadSensor, SensorFails, MeasureLoadConfig, MqttInit, TimeInvalid, InRange
<1>7. CASE PublishCurrent \/ UploadEntry \/ UploadClose \/ StoreLocally
  BY <1>7 DEF PublishCurrent, UploadEntry, UploadClose, StoreLocally
<1>8. CASE Environment
  BY <1>5, <1>8
  DEF Environment, CloudReplies, PhoneWrites, ButtonPress, WakeUp, HatchEnds, Works
<1> QED BY <1>1, <1>2, <1>3, <1>4, <1>5, <1>6, <1>7, <1>8 DEF Next, Program, ConfigTask, MeasureTask

-----------------------------------------------------------------------------------
(***********************************************************************************)
(* The phase                                                                       *)
(***********************************************************************************)

\* Steps off the state leave the phase alone.
LEMMA OffStatePhase ==
  ASSUME CInv, OffState, writing = NoWrite \/ task' = task
  PROVE  Phase' = Phase
BY DEF OffState, Phase, PhaseOf, memVars, NoWrite

\* A save of another item does, too.
LEMMA OtherSavePhase ==
  ASSUME CInv, writing = NoWrite, NEW label, NEW i \in {"ssid", "pass", "hatch"}, NEW v, Save(i, v, label)
  PROVE  Phase' = Phase
<1>1. task' = task /\ flash'["state"] = flash["state"] /\ writing'.item # "state"
  BY DEF Save, SetItem, SetItemFails, Goto, CInv, TypeOK, MemTypeOK, Items, NoWrite
<1> QED BY <1>1 DEF Phase, NoWrite

\* How a step may change the phase.
PhaseMoves ==
  \/ Phase' = Phase
  \/ Phase = "blank" /\ Phase' = "unpaired"
  \/ Phase = "unpaired" /\ Phase' = "waiting"
  \/ Phase = "waiting" /\ Phase' = "measuring"
  \/ Phase = "measuring" /\ Phase' = "waiting"
  \/ Phase' = "blank" /\ SomeHarm

LEMMA PhaseOfDamage == \A s \in Damage : PhaseOf(s) = "blank"
BY DEF Damage, PhaseOf

\* A write of the state that ends, completely or not.
LEMMA PhaseOfEndedWrite ==
  ASSUME CInv, writing.item = "state", writing # NoWrite, writing' = NoWrite,
         \/ flash'["state"] = writing.val
         \/ flash'["state"] \in Damage /\ SomeHarm
  PROVE  PhaseMoves
<1>1. writing.val \in States
  BY DEF CInv, TypeOK, MemTypeOK, ValuesOf, NoWrite
<1>2. Phase' = PhaseOf(flash'["state"])
  BY DEF Phase, NoWrite
<1>3. CASE flash'["state"] = writing.val
  BY <1>1, <1>2, <1>3 DEF PhaseMoves, Phase, PhaseOf, States
<1>4. CASE flash'["state"] \in Damage /\ SomeHarm
  BY <1>2, <1>4, PhaseOfDamage DEF PhaseMoves
<1> QED BY <1>3, <1>4

LEMMA PhaseOfOtherWrite ==
  ASSUME writing.item # "state", writing' = NoWrite, flash'["state"] = flash["state"]
  PROVE  PhaseMoves
BY DEF Phase, PhaseMoves, NoWrite

LEMMA CompleteWritePhase ==
  ASSUME CInv, CompleteWrite
  PROVE  PhaseMoves
<1>1. /\ flash \in [Items -> States \cup Creds \cup Configs \cup Damage]
      /\ writing # NoWrite /\ writing' = NoWrite
      /\ writing.item \in Items /\ writing.val \in ValuesOf(writing.item)
  BY DEF CompleteWrite, FinishWrite, ShortWrite, CInv, TypeOK, MemTypeOK
<1>2. CASE writing.item # "state"
  <2>1. flash'["state"] = flash["state"]
    BY <1>1, <1>2 DEF CompleteWrite, FinishWrite, ShortWrite, Items
  <2> QED BY <1>1, <1>2, <2>1, PhaseOfOtherWrite
<1>3. CASE writing.item = "state"
  <2>1. CASE FinishWrite
    BY <1>1, <1>3, <2>1, PhaseOfEndedWrite DEF FinishWrite, Items
  <2>2. CASE ShortWrite /\ Fails
    <3>1. writing.val \in States
      BY <1>1, <1>3 DEF ValuesOf
    <3>2. flash'["state"] \in Damage
      BY <1>1, <1>3, <2>2, <3>1, CutState DEF ShortWrite, Items
    <3>3. SomeHarm
      BY <2>2, HarmOfStep DEF CompleteWrite, envVars
    <3> QED BY <1>1, <1>3, <3>2, <3>3, PhaseOfEndedWrite
  <2> QED BY <2>1, <2>2 DEF CompleteWrite
<1> QED BY <1>2, <1>3

LEMMA PowerLossPhase ==
  ASSUME CInv, PowerLoss
  PROVE  PhaseMoves /\ SomeHarm
<1>1. SomeHarm
  BY BudgetsTyped DEF PowerLoss, SomeHarm
<1>2. /\ flash \in [Items -> States \cup Creds \cup Configs \cup Damage]
      /\ writing' = NoWrite /\ LoseWrite
      /\ writing # NoWrite => writing.item \in Items /\ writing.val \in ValuesOf(writing.item)
  BY DEF PowerLoss, LoseWrite, CInv, TypeOK, MemTypeOK
<1>3. CASE writing.item # "state"
  <2>1. flash'["state"] = flash["state"]
    BY <1>2, <1>3 DEF LoseWrite, Items
  <2> QED BY <1>1, <1>2, <1>3, <2>1, PhaseOfOtherWrite
<1>4. CASE writing.item = "state"
  <2>1. writing # NoWrite
    BY <1>4 DEF NoWrite
  <2>2. writing.val \in States
    BY <1>2, <1>4, <2>1 DEF ValuesOf
  <2>3. flash'["state"] \in Damage \cup {writing.val}
    BY <1>2, <1>4, <2>1, <2>2, CutState DEF LoseWrite, Items
  <2> QED BY <1>1, <1>2, <1>4, <2>1, <2>3, PhaseOfEndedWrite
<1> QED BY <1>3, <1>4

LEMMA BootPhase ==
  ASSUME CInv, Boot
  PROVE  PhaseMoves
<1>1. task = "boot" /\ writing = NoWrite /\ flash["state"] \in States \cup Damage
  BY DEF Boot, BootKnown, BootUnknown, BootHalts, CInv, Control, Tasks, TypeOK, MemTypeOK, ValuesOf, Items
<1>2. CASE UNCHANGED memVars
  BY <1>1, <1>2 DEF memVars, Phase, PhaseOf, PhaseMoves, NoWrite
<1>3. CASE BootUnknown /\ SetItemFails
  BY <1>1, <1>3 DEF SetItemFails, Phase, PhaseOf, PhaseMoves, NoWrite
<1>4. CASE BootUnknown /\ SetItem("state", "BLE_CONFIG")
  <2>1. Phase' = "blank"
    BY <1>4 DEF SetItem, Phase
  <2>2. CASE ~ Whole("state")
    BY <1>1, <2>1, <2>2, PhaseOfDamage DEF Whole, Phase, PhaseMoves, NoWrite
  <2>3. CASE Fails
    BY <1>4, <2>1, <2>3, HarmOfStep DEF BootUnknown, envVars, PhaseMoves
  <2> QED BY <1>4, <2>2, <2>3 DEF BootUnknown
<1> QED BY <1>2, <1>3, <1>4 DEF Boot, BootKnown, BootUnknown, BootHalts

\* The three places where a task saves the state.
LEMMA StateSavePhase ==
  ASSUME CInv, StateInv, writing = NoWrite, NEW label, NEW v, Save("state", v, label),
         \/ task = "ble" /\ pc = "state" /\ v = "MEASURE_CONFIG"
         \/ task = "config" /\ pc = "state" /\ v = "MEASURE"
         \/ task = "measure" /\ pc = "time" /\ v = "MEASURE_CONFIG"
  PROVE  PhaseMoves
<1>1. task' = task /\ writing.item # "state" /\ Phase = PhaseOf(flash["state"])
  BY DEF Save, Goto, Phase, NoWrite
<1>2. CASE SetItemFails
  BY <1>1, <1>2 DEF SetItemFails, Phase, PhaseMoves, NoWrite
<1>3. CASE SetItem("state", v)
  <2>1. writing' = [item |-> "state", val |-> v]
    BY <1>3 DEF SetItem
  <2>2. CASE task = "ble"
    <3>1. Phase' = "unpaired"
      BY <1>1, <2>1, <2>2 DEF Phase
    <3>2. flash["state"] = "BLE_CONFIG" \/ flash["state"] \in Damage
      BY <2>2 DEF StateInv, StateOfTask, Runs, DoneWithState, NoWrite
    <3>3. Phase \in {"unpaired", "blank"}
      BY <1>1, <3>2, PhaseOfDamage DEF PhaseOf
    <3> QED BY <3>1, <3>3 DEF PhaseMoves
  <2>3. CASE task = "config"
    BY <1>1, <2>1, <2>3 DEF StateInv, StateOfTask, Runs, DoneWithState, Phase, PhaseOf, PhaseMoves
  <2>4. CASE task = "measure"
    BY <1>1, <2>1, <2>4 DEF StateInv, StateOfTask, Runs, DoneWithState, Phase, PhaseOf, PhaseMoves
  <2> QED BY <2>2, <2>3, <2>4
<1> QED BY <1>2, <1>3 DEF Save

LEMMA SavesPhase ==
  ASSUME CInv, StateInv, BleSaves \/ ConfigSaves \/ MeasureSaveConfig \/ EndReached
  PROVE  PhaseMoves
<1> USE DEF At, PhaseMoves
<1>1. CASE BleSaves
  BY <1>1, OtherSavePhase, StateSavePhase DEF BleSaves
<1>2. CASE ConfigSaves
  BY <1>2, OtherSavePhase, StateSavePhase DEF ConfigSaves
<1>3. CASE MeasureSaveConfig
  BY <1>3, OtherSavePhase DEF MeasureSaveConfig
<1>4. CASE EndReached
  BY <1>4, StateSavePhase DEF EndReached
<1> QED BY <1>1, <1>2, <1>3, <1>4

LEMMA OthersPhase ==
  ASSUME CInv,
         \/ \E source \in {"timer", "button"} : WakeUp(source)
         \/ \E c \in Configs : HatchEnds(c)
         \/ BleInit \/ BleInitButton \/ BleWait \/ BleSleep \/ ButtonPress
         \/ \E c \in Creds, keys \in {{"ssid"}, {"pass"}, {"ssid", "pass"}} : PhoneWrites(c, keys)
         \/ \E t \in {"measure", "config"} : Online(t) \/ \E c \in Configs : ShadowReply(t, c)
         \/ ConfigSleep \/ MeasureSleep
         \/ (\E m \in Meas : ReadSensor(m)) \/ SensorFails
         \/ MeasureLoadConfig \/ MqttInit \/ TimeInvalid \/ InRange
         \/ PublishCurrent \/ UploadEntry \/ UploadClose \/ StoreLocally
  PROVE  Phase' = Phase
<1>1. OffState
  BY OthersOffState
<1>2. writing = NoWrite \/ task' = task
  <2>1. CASE (\E source \in {"timer", "button"} : WakeUp(source))
    BY <2>1 DEF WakeUp, CInv, Control, Tasks
  <2>2. CASE (\E c \in Configs : HatchEnds(c)) \/ ButtonPress
             \/ (\E c \in Creds, keys \in {{"ssid"}, {"pass"}, {"ssid", "pass"}} : PhoneWrites(c, keys))
    BY <2>2 DEF HatchEnds, ButtonPress, PhoneWrites, bootVars
  <2>3. CASE \E t \in {"measure", "config"} : Online(t) \/ \E c \in Configs : ShadowReply(t, c)
    BY <2>3 DEF Online, LoadCreds, ConnectWifi, ShadowInit, ShadowGet, Disconnect,
                DisconnectPanics, ShadowReply, At
  <2> QED BY <2>1, <2>2, <2>3
       DEF BleInit, BleInitButton, BleWait, BleSleep, ConfigSleep, MeasureSleep, ReadSensor,
           SensorFails, MeasureLoadConfig, MqttInit, TimeInvalid, InRange, PublishCurrent,
           UploadEntry, UploadClose, StoreLocally, At
<1> QED BY <1>1, <1>2, OffStatePhase

-----------------------------------------------------------------------------------
(***********************************************************************************)
(* The measurements                                                                *)
(***********************************************************************************)

LEMMA OffBacklogKept ==
  ASSUME OffBacklog
  PROVE  Kept' = Kept /\ Sent' = Sent
BY DEF OffBacklog, Kept, Sent, InDb

\* task_measure takes, sends and stores measurements in the state MEASURE only.
LEMMA MeasuringPhase ==
  ASSUME StateInv, task = "measure", pc \notin {"disconnect", "sleep"}, writing = NoWrite
  PROVE  Phase = "measuring"
BY DEF StateInv, StateOfTask, Runs, DoneWithState, Phase, PhaseOf, NoWrite

LEMMA PublishedSends ==
  ASSUME CInv, NEW m \in Meas, Published(m), UNCHANGED db
  PROVE  Kept' = Kept \ {m} /\ Sent' = Sent \cup {m}
<1>1. uploads'[m] > 0 /\ \A n \in Meas : n # m => uploads'[n] = uploads[n]
  BY PublishedCounts DEF Published, CInv, TypeOK
<1>2. uploads'[m] # 0
  BY <1>1
<1>3. InDb' = InDb /\ InDb \subseteq Meas
  BY BacklogTyped DEF InDb
<1> QED BY <1>1, <1>2, <1>3 DEF Kept, Sent

LEMMA ReadSensorPromise ==
  ASSUME Inv, NEW m \in Meas, ReadSensor(m), Phase' = Phase
  PROVE  Promise!Take(m)
<1>1. /\ Phase = "measuring" /\ m \notin InDb /\ InDb' = InDb /\ InDb \subseteq Meas
      /\ uploads' = [uploads EXCEPT ![m] = 0] /\ uploads \in [Meas -> 0..2]
  BY MeasuringPhase, BacklogTyped DEF ReadSensor, At, Inv, CInv, TypeOK, InDb
<1>2. Kept' = Kept /\ m \notin Kept
  BY <1>1 DEF Kept
<1>3. Sent' = Sent \ {m}
  BY <1>1 DEF Sent
<1> QED BY <1>1, <1>2, <1>3 DEF Promise!Take

LEMMA PublishPromise ==
  ASSUME Inv, PublishCurrent, Phase' = Phase
  PROVE  (\E m \in Meas : Promise!Send(m)) \/ UNCHANGED <<Kept, Sent>>
<1>1. Phase = "measuring" /\ meas \in Meas /\ UNCHANGED db /\ CInv
  BY MeasuringPhase DEF PublishCurrent, At, Inv, CInv, Control
<1>2. Published(meas) \/ uploads' = uploads
  BY DEF PublishCurrent
<1>3. CASE Published(meas)
  BY <1>1, <1>3, PublishedSends DEF Promise!Send
<1>4. CASE uploads' = uploads
  BY <1>1, <1>4 DEF Kept, Sent, InDb
<1> QED BY <1>2, <1>3, <1>4

LEMMA UploadEntryPromise ==
  ASSUME Inv, UploadEntry, Phase' = Phase
  PROVE  (\E m \in Meas : Promise!Send(m)) \/ UNCHANGED <<Kept, Sent>>
<1>1. Phase = "measuring" /\ db[pos] \in Meas /\ UNCHANGED db /\ CInv
  BY MeasuringPhase, BacklogTyped DEF UploadEntry, At, Inv, CInv, Control
<1>2. Published(db[pos]) \/ uploads' = uploads
  BY DEF UploadEntry
<1>3. CASE Published(db[pos])
  BY <1>1, <1>3, PublishedSends DEF Promise!Send
<1>4. CASE uploads' = uploads
  BY <1>1, <1>4 DEF Kept, Sent, InDb
<1> QED BY <1>2, <1>3, <1>4

\* The log is deleted after all of it was sent: nothing that is kept is lost.
LEMMA UploadClosePromise ==
  ASSUME Inv, UploadClose
  PROVE  UNCHANGED <<Kept, Sent>>
<1>1. task = "measure" /\ pc = "close" /\ uploads' = uploads
  BY DEF UploadClose, At
<1>2. CASE r /\ db' = <<>>
  <2>1. Kept = {}
    <3>1. \A m \in InDb : uploads[m] > 0
      BY <1>1, <1>2 DEF Inv, BacklogInv, UploadedSoFar
    <3> QED BY <3>1 DEF Kept
  <2>2. Kept' = {}
    BY <1>2 DEF Kept, InDb
  <2> QED BY <1>1, <2>1, <2>2 DEF Sent
<1>3. CASE db' = db
  BY <1>1, <1>3 DEF Kept, Sent, InDb
<1> QED BY <1>2, <1>3 DEF UploadClose

LEMMA StorePromise ==
  ASSUME Inv, StoreLocally, Phase' = Phase
  PROVE  (\E m \in Meas : Promise!Keep(m)) \/ UNCHANGED <<Kept, Sent>>
<1>1. /\ Phase = "measuring" /\ meas \in Meas /\ db \in Seq(Meas)
      /\ task = "measure" /\ pc = "store" /\ uploads' = uploads
  BY MeasuringPhase DEF StoreLocally, At, Inv, CInv, TypeOK, Control
<1>2. uploads[meas] = 0
  BY <1>1, MeasAssumption DEF Inv, OnceInv, Fresh, AfterPublish
<1>3. CASE db' = Append(db, meas)
  <2>1. /\ Len(db) \in Nat /\ Len(db') = Len(db) + 1 /\ db'[Len(db) + 1] = meas
        /\ \A i \in 1..Len(db) : db'[i] = db[i]
    BY <1>1, <1>3
  <2>2. InDb' = InDb \cup {meas}
    BY <2>1 DEF InDb
  <2>3. Kept' = Kept \cup {meas} /\ Sent' = Sent /\ meas \notin Sent
    BY <1>1, <1>2, <2>2 DEF Kept, Sent
  <2> QED BY <1>1, <2>3 DEF Promise!Keep
<1>4. CASE UNCHANGED db
  BY <1>1, <1>4 DEF Kept, Sent, InDb
<1> QED BY <1>3, <1>4 DEF StoreLocally

-----------------------------------------------------------------------------------
(***********************************************************************************)
(* The two together                                                                *)
(***********************************************************************************)

\* A step that moves the phase and leaves the measurements alone.
LEMMA PhasePromise ==
  ASSUME NoLess, PhaseMoves, UNCHANGED <<Kept, Sent>>
  PROVE  Promise!Next
BY DEF NoLess, SomeHarm, PhaseMoves, Promise!Next, Promise!Follows, Promise!Reset, Promise!Pair,
       Promise!Start, Promise!End, Promise!Lose

\* A step that handles a measurement.
LEMMA MeasPromise ==
  ASSUME NoLess,
         \E m \in Meas : Promise!Take(m) \/ Promise!Keep(m) \/ Promise!Send(m)
  PROVE  Promise!Next
BY DEF NoLess, Promise!Next

LEMMA PromiseStep == Inv /\ [Next]_vars => [Promise!Next]_(Promise!vars)
<1> SUFFICES ASSUME Inv, [Next]_vars PROVE Promise!Next
  OBVIOUS
<1>1. CInv /\ StateInv /\ BacklogInv
  BY DEF Inv
<1>2. NoLess
  <2>1. CASE PowerLoss
    BY <1>1, <2>1, PowerLossPhase, BudgetsTyped DEF SomeHarm, NoLess, PowerLoss
  <2>2. CASE ~ PowerLoss
    BY <1>1, <2>2, StepsWorkOrFail, HarmOfStep
  <2> QED BY <2>1, <2>2
<1>3. CASE UNCHANGED vars
  <2>1. Phase' = Phase /\ Kept' = Kept /\ Sent' = Sent
    BY <1>3 DEF vars, memVars, bootVars, dbVars, Phase, PhaseOf, Kept, Sent, InDb
  <2> QED BY <1>2, <2>1, PhasePromise DEF PhaseMoves
<1>4. CASE CompleteWrite \/ Boot \/ PowerLoss
  BY <1>1, <1>2, <1>4, CompleteWritePhase, BootPhase, PowerLossPhase,
     OthersOffBacklog, OffBacklogKept, PhasePromise
<1>5. CASE BleSaves \/ ConfigSaves \/ MeasureSaveConfig \/ EndReached
  BY <1>1, <1>2, <1>5, SavesPhase, OthersOffBacklog, OffBacklogKept, PhasePromise
  DEF BleTask, ConfigTask
<1>6. CASE \E m \in Meas : ReadSensor(m)
  BY <1>1, <1>2, <1>6, OthersPhase, ReadSensorPromise, MeasPromise
<1>7. CASE PublishCurrent
  BY <1>1, <1>2, <1>7, OthersPhase, PublishPromise, MeasPromise, PhasePromise DEF PhaseMoves
<1>8. CASE UploadEntry
  BY <1>1, <1>2, <1>8, OthersPhase, UploadEntryPromise, MeasPromise, PhasePromise DEF PhaseMoves
<1>9. CASE UploadClose
  BY <1>1, <1>2, <1>9, OthersPhase, UploadClosePromise, PhasePromise DEF PhaseMoves
<1>10. CASE StoreLocally
  BY <1>1, <1>2, <1>10, OthersPhase, StorePromise, MeasPromise, PhasePromise DEF PhaseMoves
<1>11. CASE BleTask \/ ConfigTask
  BY <1>1, <1>2, <1>5, <1>11, OthersPhase, OthersOffBacklog, OffBacklogKept, PhasePromise
  DEF BleTask, ConfigTask, PhaseMoves
<1>12. CASE MeasureTask
  BY <1>1, <1>2, <1>5, <1>6, <1>7, <1>8, <1>9, <1>10, <1>12, OthersPhase, OthersOffBacklog,
     OffBacklogKept, PhasePromise
  DEF MeasureTask, PhaseMoves
<1>13. CASE Environment
  BY <1>1, <1>2, <1>4, <1>13, OthersPhase, OthersOffBacklog, OffBacklogKept, PhasePromise
  DEF Environment, CloudReplies, PhaseMoves
<1> QED BY <1>3, <1>4, <1>11, <1>12, <1>13 DEF Next, Program

(***********************************************************************************)
(* For every number of measurements, hatches, failures and losses of power, a Peep *)
(* implements PeepPromise: what it puts by is given up only by being sent, it      *)
(* sends and puts by only in the state MEASURE, and it forgets its pairing only    *)
(* when a flash operation failed or the power was lost.                            *)
(***********************************************************************************)
THEOREM PromiseKept == Spec => KeepsPromise
BY InvAlways, PromiseInit, PromiseStep, PTL DEF Spec, KeepsPromise, Promise!Spec
===================================================================================
