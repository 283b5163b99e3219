-------------------------------- MODULE Peep_proofs --------------------------------
(***********************************************************************************)
(* Proofs about Peep, for every set of credentials, hatches and measurements, any  *)
(* capacity of the log and any number of failures and losses of power.             *)
(***********************************************************************************)
EXTENDS Peep, TLAPS

(***********************************************************************************)
(* What the control flow of the tasks guarantees; TypeOK is inductive only with    *)
(* it, since a task saves and publishes what it earlier put in its variables.      *)
(***********************************************************************************)
Control ==
  /\ task \notin Tasks => writing = NoWrite
  /\ "SYNC" \in bits => ramSsid \in Creds /\ ramPass \in Creds
  /\ task = "ble" /\ pc \in {"ssid", "pass", "hatch", "state"}
       => ramSsid \in Creds /\ ramPass \in Creds
  /\ config = "Default" => task = "measure" /\ pc \in {"disconnect", "sleep"}
  /\ task = "measure" /\ pc \in {"wifi", "shadow", "get", "poll", "mqtt", "time",
                                 "publish", "upload", "close", "store"}
       => meas \in Meas
  /\ task = "measure" /\ pc = "config" /\ r => meas \in Meas
  /\ task = "measure" /\ pc = "upload" => pos \in 1..Len(db)

CInv == TypeOK /\ Control

-----------------------------------------------------------------------------------
(***********************************************************************************)
(* The operations of memory.c keep the files well typed.                           *)
(***********************************************************************************)

LEMMA SetItemTyped ==
  ASSUME MemTypeOK, NEW i \in Items, NEW v \in ValuesOf(i),
         SetItem(i, v) \/ SetItemFails
  PROVE  MemTypeOK'
<1>1. CASE SetItem(i, v)
  BY <1>1 DEF SetItem, MemTypeOK, Damage, Items
<1>2. CASE SetItemFails
  BY <1>2 DEF SetItemFails, MemTypeOK
<1> QED BY <1>1, <1>2

LEMMA EndWriteTyped ==
  ASSUME MemTypeOK, FinishWrite \/ ShortWrite \/ LoseWrite
  PROVE  MemTypeOK'
<1> DEFINE i == writing.item  v == writing.val
<1>1. writing = NoWrite \/ (i \in Items /\ v \in ValuesOf(i))
  BY DEF MemTypeOK
<1>2. ASSUME i \in Items, v \in ValuesOf(i)
      PROVE  Cut(v) \subseteq ValuesOf(i) \cup Damage
  <2>1. CASE v \in Configs
    <3>1. i = "hatch"
      BY <1>2, <2>1, CredsAssumption, HatchesAssumption DEF ValuesOf, Items, Configs, States, Damage
    <3> QED BY <2>1, <3>1 DEF Cut, ValuesOf, Configs, Damage
  <2>2. CASE v \notin Configs
    BY <2>2 DEF Cut, Damage
  <2> QED BY <2>1, <2>2
<1>3. ASSUME i \in Items, NEW x \in ValuesOf(i) \cup Damage,
             flash' = [flash EXCEPT ![i] = x], writing' = NoWrite, ioError' \in BOOLEAN
      PROVE  MemTypeOK'
  <2>1. x \in States \cup Creds \cup Configs \cup Damage
    BY <1>3 DEF ValuesOf, Items
  <2> QED BY <1>3, <2>1 DEF MemTypeOK
<1>4. CASE FinishWrite
  BY <1>1, <1>3, <1>4 DEF FinishWrite, MemTypeOK
<1>5. CASE ShortWrite
  BY <1>1, <1>2, <1>3, <1>5 DEF ShortWrite
<1>6. CASE LoseWrite
  <2>1. CASE writing = NoWrite
    BY <1>6, <2>1 DEF LoseWrite, MemTypeOK
  <2>2. CASE writing # NoWrite
    BY <1>1, <1>2, <1>3, <1>6, <2>2 DEF LoseWrite, MemTypeOK
  <2> QED BY <2>1, <2>2
<1> QED BY <1>4, <1>5, <1>6

-----------------------------------------------------------------------------------
(***********************************************************************************)
(* Type correctness                                                                *)
(***********************************************************************************)

LEMMA CInvInit == Init => CInv
<1> SUFFICES ASSUME Init PROVE CInv
  OBVIOUS
<1>1. MemTypeOK
  BY DEF Init, MemInit, MemTypeOK, Damage
<1>2. TypeOK
  <2>1. pc \in PcOf(task) /\ task \in {"asleep", "boot", "halted"}
    BY DEF Init, PcOf
  <2>2. uploads \in [Meas -> 0..2] /\ db \in Seq(Meas) /\ pos \in Nat
    BY DEF Init
  <2>3. faults \in 0..MaxFaults /\ losses \in 0..MaxLosses
    BY BoundsAssumption DEF Init
  <2> QED BY <1>1, <2>1, <2>2, <2>3 DEF Init, TypeOK, Configs
<1>3. Control
  BY DEF Init, MemInit, Control, Tasks
<1> QED BY <1>2, <1>3 DEF CInv

\* A step that fails does so within the budget.
LEMMA FaultsTyped ==
  ASSUME TypeOK, Works \/ Fails
  PROVE  faults' \in 0..MaxFaults
BY BoundsAssumption DEF TypeOK, Works, Fails

\* Steps that do not run a task: starting, sleeping, waking, losing power.
LEMMA CInvChip ==
  ASSUME CInv, Boot \/ (\E source \in {"timer", "button"} : WakeUp(source)) \/ PowerLoss
               \/ (\E c \in Configs : HatchEnds(c)) \/ CompleteWrite
  PROVE  CInv'
<1> USE DEF CInv, Control, Tasks
<1>1. CASE BootKnown
  <2>1. MemTypeOK' /\ TaskOf(flash["state"]) \in Tasks
    BY <1>1 DEF BootKnown, memVars, TypeOK, MemTypeOK, Whole, TaskOf, ValuesOf, States, Items, NoWrite
  <2> QED BY <1>1, <2>1
       DEF BootKnown, StartTask, FirstCall, Works, TypeOK, PcOf, memVars, bleVars,
           ramVars, dbVars, envVars
<1>2. CASE BootUnknown
  <2>1. MemTypeOK'
    BY <1>2, SetItemTyped DEF BootUnknown, TypeOK, Items, ValuesOf, States
  <2>2. faults' \in 0..MaxFaults
    BY <1>2, FaultsTyped DEF BootUnknown
  <2>3. task' = "ble" /\ pc' = "init" /\ UNCHANGED <<wake, interval>> /\ task = "boot"
    BY <1>2 DEF BootUnknown, StartTask, FirstCall
  <2>4. UNCHANGED <<r, bleVars, ramVars, dbVars, envVars, meas>>
    BY <1>2 DEF BootUnknown
  <2> QED BY <2>1, <2>2, <2>3, <2>4
       DEF TypeOK, PcOf, bleVars, ramVars, dbVars, envVars
<1>3. CASE BootHalts
  BY <1>3, BoundsAssumption
  DEF BootHalts, Fails, TypeOK, MemTypeOK, PcOf, memVars, bleVars, ramVars, dbVars, envVars
<1>4. CASE \E source \in {"timer", "button"} : WakeUp(source)
  BY <1>4 DEF WakeUp, TypeOK, MemTypeOK, PcOf, Configs, memVars, bleVars, ramVars, dbVars, envVars
<1>5. CASE PowerLoss
  <2>1. MemTypeOK' /\ writing' = NoWrite
    BY <1>5, EndWriteTyped DEF PowerLoss, TypeOK, LoseWrite
  <2>2. losses' \in 0..MaxLosses
    BY <1>5, BoundsAssumption DEF PowerLoss, TypeOK
  <2>4. cutOff' \in BOOLEAN
    BY <1>5, Zenon DEF PowerLoss, TypeOK
  <2>3. /\ task' = "boot" /\ pc' = "idle" /\ wake' = {} /\ interval' = "Zero"
        /\ clockOk' = FALSE /\ RestartRam
        /\ UNCHANGED <<db, stored, uploads, ended, faults>>
    BY <1>5 DEF PowerLoss
  <2> QED BY <2>1, <2>2, <2>3, <2>4 DEF RestartRam, TypeOK, PcOf, Configs
<1>6. CASE \E c \in Configs : HatchEnds(c)
  BY <1>6 DEF HatchEnds, TypeOK, MemTypeOK, memVars, bootVars, bleVars, ramVars, dbVars
<1>7. CASE CompleteWrite
  <2>1. MemTypeOK' /\ writing' = NoWrite
    BY <1>7, EndWriteTyped DEF CompleteWrite, TypeOK, FinishWrite, ShortWrite
  <2> QED BY <1>7, <2>1, BoundsAssumption
       DEF CompleteWrite, Works, Fails, TypeOK, bootVars, bleVars, ramVars, dbVars, envVars
<1> QED BY <1>1, <1>2, <1>3, <1>4, <1>5, <1>6, <1>7 DEF Boot

\* memory_set_item as a task calls it.
LEMMA SaveTyped ==
  ASSUME TypeOK, NEW i \in Items, NEW v \in ValuesOf(i), NEW label, Save(i, v, label)
  PROVE  /\ MemTypeOK'
         /\ faults' \in 0..MaxFaults
         /\ pc' = label /\ UNCHANGED <<task, wake, interval>>
BY SetItemTyped, BoundsAssumption DEF Save, TypeOK, Works, Fails, Goto

LEMMA CInvBle ==
  ASSUME CInv, BleTask \/ ButtonPress
               \/ (\E c \in Creds, keys \in {{"ssid"}, {"pass"}, {"ssid", "pass"}} : PhoneWrites(c, keys))
  PROVE  CInv'
<1> USE DEF CInv, Control, Tasks
<1>1. CASE BleInit
  <2>1. faults' \in 0..MaxFaults
    BY <1>1, FaultsTyped DEF BleInit
  <2>2. task = "ble" /\ task' = task /\ pc' \in {"button", "wait"} /\ UNCHANGED <<wake, interval>>
    BY <1>1 DEF BleInit, At, Goto
  <2>3. devices' \subseteq {"ble", "button"} /\ r' \in BOOLEAN
    BY <1>1 DEF BleInit, TypeOK
  <2> QED BY <1>1, <2>1, <2>2, <2>3
       DEF BleInit, TypeOK, MemTypeOK, PcOf, memVars, ramVars, dbVars, envVars
<1>2. CASE BleInitButton
  <2>1. faults' \in 0..MaxFaults
    BY <1>2, FaultsTyped DEF BleInitButton
  <2>2. task = "ble" /\ task' = task /\ pc' = "wait" /\ UNCHANGED <<wake, interval>>
    BY <1>2 DEF BleInitButton, At, Goto
  <2>3. devices' \subseteq {"ble", "button"} /\ r' \in BOOLEAN
    BY <1>2 DEF BleInitButton, TypeOK
  <2> QED BY <1>2, <2>1, <2>2, <2>3
       DEF BleInitButton, TypeOK, MemTypeOK, PcOf, memVars, ramVars, dbVars, envVars
<1>3. CASE BleWait
  BY <1>3 DEF BleWait, At, Goto, Works, TypeOK, MemTypeOK, PcOf, memVars, ramVars, dbVars, envVars
<1>4. CASE BleSaves
  <2>1. /\ MemTypeOK'
        /\ faults' \in 0..MaxFaults
        /\ UNCHANGED <<task, wake, interval>>
        /\ task = "ble" /\ pc' \in {"pass", "hatch", "state", "sleep"}
        /\ ramSsid \in Creds /\ ramPass \in Creds
    <3>1. CASE At("ble", "ssid") /\ Save("ssid", ramSsid, "pass")
      BY <3>1, SaveTyped DEF At, Items, ValuesOf
    <3>2. CASE At("ble", "pass") /\ Save("pass", ramPass, "hatch")
      BY <3>2, SaveTyped DEF At, Items, ValuesOf
    <3>3. CASE At("ble", "hatch") /\ Save("hatch", "Zero", "state")
      BY <3>3, SaveTyped DEF At, Items, ValuesOf, Configs
    <3>4. CASE At("ble", "state") /\ Save("state", "MEASURE_CONFIG", "sleep")
      BY <3>4, SaveTyped DEF At, Items, ValuesOf, States
    <3> QED BY <1>4, <3>1, <3>2, <3>3, <3>4 DEF BleSaves
  <2> QED BY <1>4, <2>1 DEF BleSaves, TypeOK, PcOf, bleVars, ramVars, dbVars, envVars
<1>5. CASE BleSleep
  BY <1>5 DEF BleSleep, At, Sleep, RestartRam, Works, TypeOK, MemTypeOK, PcOf, Configs, memVars, envVars
<1>6. CASE ButtonPress
  BY <1>6 DEF ButtonPress, TypeOK, MemTypeOK, PcOf, memVars, bootVars, ramVars, dbVars, envVars
<1>7. CASE \E c \in Creds, keys \in {{"ssid"}, {"pass"}, {"ssid", "pass"}} : PhoneWrites(c, keys)
  BY <1>7, CredsAssumption DEF PhoneWrites, TypeOK, MemTypeOK, PcOf, memVars, bootVars, ramVars, dbVars, envVars
<1> QED BY <1>1, <1>2, <1>3, <1>4, <1>5, <1>6, <1>7 DEF BleTask

\* What task_measure and task_measure_config share.
LEMMA CInvOnline ==
  ASSUME CInv, NEW t \in {"measure", "config"}, Online(t)
  PROVE  CInv'
<1> USE DEF CInv, Control, Tasks
<1>1. CASE LoadCreds(t)
  <2>1. faults' \in 0..MaxFaults
    BY <1>1, FaultsTyped DEF LoadCreds
  <2>2. /\ task = t /\ task' = t /\ UNCHANGED <<wake, interval>>
        /\ pc' \in (IF t = "measure" THEN {"sensor", "config"} ELSE {"wifi", "disconnect"})
        /\ pc' = "config" => ~ r'
        /\ r' \in BOOLEAN
    BY <1>1 DEF LoadCreds, At, Goto, Skip, TypeOK
  <2> QED BY <1>1, <2>1, <2>2
       DEF LoadCreds, At, TypeOK, MemTypeOK, PcOf, memVars, bleVars, ramVars, dbVars, envVars
<1>2. CASE ConnectWifi(t)
  <2>1. faults' \in 0..MaxFaults
    BY <1>2, FaultsTyped DEF ConnectWifi
  <2>2. /\ task = t /\ pc = "wifi" /\ task' = t /\ UNCHANGED <<wake, interval>>
        /\ pc' \in {"shadow", Skip(t)}
    BY <1>2 DEF ConnectWifi, At, Goto
  <2>3. r' \in BOOLEAN /\ isLocal' \in BOOLEAN /\ clockOk' \in BOOLEAN /\ netInit' \in BOOLEAN
    BY <1>2 DEF ConnectWifi, TypeOK
  <2> QED BY <1>2, <2>1, <2>2, <2>3
       DEF ConnectWifi, Skip, TypeOK, MemTypeOK, PcOf, memVars, bleVars, dbVars
<1>3. CASE ShadowInit(t)
  <2>1. faults' \in 0..MaxFaults
    BY <1>3, FaultsTyped DEF ShadowInit
  <2>2. /\ task = t /\ pc = "shadow" /\ task' = t /\ UNCHANGED <<wake, interval>>
        /\ pc' \in {"get", Skip(t)} /\ r' \in BOOLEAN
    BY <1>3 DEF ShadowInit, At, Goto, TypeOK
  <2> QED BY <1>3, <2>1, <2>2
       DEF ShadowInit, Skip, TypeOK, MemTypeOK, PcOf, memVars, bleVars, ramVars, dbVars, envVars
<1>4. CASE ShadowGet(t)
  <2>1. faults' \in 0..MaxFaults
    BY <1>4, FaultsTyped DEF ShadowGet
  <2>2. /\ task = t /\ pc = "get" /\ task' = t /\ UNCHANGED <<wake, interval>>
        /\ pc' \in {"poll", Skip(t)} /\ r' \in BOOLEAN /\ isShadow' \in BOOLEAN
    BY <1>4 DEF ShadowGet, At, Goto, TypeOK
  <2>3. UNCHANGED <<memVars, bleVars, config, isLocal, netInit, dbVars, envVars, meas>>
    BY <1>4 DEF ShadowGet
  <2> QED BY <2>1, <2>2, <2>3
       DEF Skip, TypeOK, MemTypeOK, PcOf, memVars, bleVars, dbVars, envVars
<1>5. CASE Disconnect(t)
  <2>1. /\ task = t /\ pc = "disconnect" /\ task' = t /\ UNCHANGED <<wake, interval>>
        /\ pc' \in (IF t = "measure" THEN {"sleep"} ELSE {"hatch", "sleep"})
    BY <1>5 DEF Disconnect, At, Goto
  <2> QED BY <1>5, <2>1
       DEF Disconnect, Works, TypeOK, MemTypeOK, PcOf, memVars, bleVars, ramVars, dbVars, envVars
<1>6. CASE DisconnectPanics(t)
  BY <1>6 DEF DisconnectPanics, At, Works, RestartRam, TypeOK, MemTypeOK, PcOf, Configs, memVars, envVars
<1> QED BY <1>1, <1>2, <1>3, <1>4, <1>5, <1>6 DEF Online

LEMMA CInvReply ==
  ASSUME CInv, NEW t \in {"measure", "config"}, NEW c \in Configs, ShadowReply(t, c)
  PROVE  CInv'
<1>1. /\ task = t /\ pc = "poll" /\ task' = t /\ UNCHANGED <<wake, interval>>
      /\ pc' = Skip(t)
  BY DEF ShadowReply, At, Goto
<1>2. c # "Default"
  BY HatchesAssumption DEF Configs
<1> QED BY <1>1, <1>2
     DEF CInv, Control, Tasks, ShadowReply, Skip, Works, TypeOK, MemTypeOK, PcOf, memVars,
         bleVars, dbVars, envVars

LEMMA CInvConfig ==
  ASSUME CInv, ConfigSaves \/ ConfigSleep
  PROVE  CInv'
<1> USE DEF CInv, Control, Tasks
<1>1. CASE ConfigSaves
  <2>1. /\ MemTypeOK'
        /\ faults' \in 0..MaxFaults
        /\ UNCHANGED <<task, wake, interval>>
        /\ task = "config" /\ pc' \in {"state", "sleep"}
    <3>1. CASE At("config", "hatch") /\ Save("hatch", config, "state")
      BY <3>1, SaveTyped DEF At, Items, ValuesOf, TypeOK
    <3>2. CASE At("config", "state") /\ Save("state", "MEASURE", "sleep")
      BY <3>2, SaveTyped DEF At, Items, ValuesOf, States
    <3> QED BY <1>1, <3>1, <3>2 DEF ConfigSaves
  <2> QED BY <1>1, <2>1 DEF ConfigSaves, TypeOK, PcOf, bleVars, ramVars, dbVars, envVars
<1>2. CASE ConfigSleep
  BY <1>2 DEF ConfigSleep, At, Sleep, RestartRam, Works, TypeOK, MemTypeOK, PcOf, Configs, memVars, envVars
<1> QED BY <1>1, <1>2

\* task_measure up to and including its configuration.
LEMMA CInvMeasureHead ==
  ASSUME CInv, (\E m \in Meas : ReadSensor(m)) \/ SensorFails
               \/ MeasureSaveConfig \/ MeasureLoadConfig \/ MqttInit
  PROVE  CInv'
<1> USE DEF CInv, Control, Tasks
<1>1. CASE \E m \in Meas : ReadSensor(m)
  <2> PICK m \in Meas : ReadSensor(m)
    BY <1>1
  <2>1. uploads' \in [Meas -> 0..2] /\ stored' \subseteq Meas
    BY DEF ReadSensor, TypeOK
  <2> QED BY <2>1
       DEF ReadSensor, At, Goto, Works, TypeOK, MemTypeOK, PcOf, memVars, bleVars, ramVars, envVars
<1>2. CASE SensorFails
  <2>1. faults' \in 0..MaxFaults
    BY <1>2, FaultsTyped DEF SensorFails
  <2>2. /\ task = "measure" /\ UNCHANGED <<wake, interval>> /\ writing = NoWrite
        /\ \/ r' = FALSE /\ pc' = "config" /\ task' = task
           \/ task' = "halted" /\ pc' = "idle" /\ r' = r
    BY <1>2 DEF SensorFails, At, Goto
  <2>3. UNCHANGED <<memVars, bleVars, ramVars, dbVars, envVars, meas>> /\ config # "Default"
    BY <1>2 DEF SensorFails, At
  <2>4. pc' \in PcOf(task') /\ r' \in BOOLEAN /\ task' \in Tasks \cup {"halted"}
    BY <2>2 DEF PcOf, TypeOK
  <2> QED BY <2>1, <2>2, <2>3, <2>4
       DEF TypeOK, MemTypeOK, PcOf, memVars, bleVars, ramVars, dbVars, envVars
<1>3. CASE MeasureSaveConfig
  <2>1. /\ MemTypeOK'
        /\ faults' \in 0..MaxFaults
        /\ UNCHANGED <<task, wake, interval>>
        /\ task = "measure" /\ pc = "config" /\ pc' = AfterConfig(r)
    BY <1>3, SaveTyped DEF MeasureSaveConfig, At, Items, ValuesOf, TypeOK
  <2>2. UNCHANGED <<r, bleVars, ramVars, dbVars, envVars, meas>>
    BY <1>3 DEF MeasureSaveConfig
  <2> QED BY <2>1, <2>2
       DEF AfterConfig, TypeOK, PcOf, bleVars, ramVars, dbVars, envVars
<1>4. CASE MeasureLoadConfig
  <2>1. faults' \in 0..MaxFaults
    BY <1>4, FaultsTyped DEF MeasureLoadConfig
  <2>2. /\ task = "measure" /\ pc = "config" /\ task' = task /\ UNCHANGED <<wake, interval>>
        /\ pc' = AfterConfig(r')
    BY <1>4 DEF MeasureLoadConfig, At, Goto
  <2>3. r' \in BOOLEAN /\ (r' => r)
    BY <1>4 DEF MeasureLoadConfig, TypeOK
  <2>4. config' \in Configs \cup {"Default"} /\ (config' = "Default" => ~ r')
    BY <1>4, HatchesAssumption DEF MeasureLoadConfig, Configs
  <2>5. UNCHANGED <<memVars, bleVars, isLocal, isShadow, netInit, dbVars, envVars, meas>>
    BY <1>4 DEF MeasureLoadConfig
  <2>6. /\ pc' \in {"disconnect", "time", "mqtt"}
        /\ pc' = "disconnect" \/ meas \in Meas
        /\ config' = "Default" => pc' = "disconnect"
    BY <2>2, <2>3, <2>4 DEF AfterConfig
  <2> QED BY <2>1, <2>2, <2>3, <2>4, <2>5, <2>6
       DEF TypeOK, MemTypeOK, PcOf, memVars, bleVars, dbVars, envVars
<1>5. CASE MqttInit
  <2>1. faults' \in 0..MaxFaults
    BY <1>5, FaultsTyped DEF MqttInit
  <2>2. /\ task = "measure" /\ pc = "mqtt" /\ writing = NoWrite /\ UNCHANGED <<wake, interval>>
        /\ (task' = "measure" /\ pc' = "time") \/ (task' = "halted" /\ pc' = "idle")
        /\ isLocal' \in BOOLEAN
    BY <1>5 DEF MqttInit, At, Goto, TypeOK
  <2>3. UNCHANGED <<memVars, r, bleVars, config, isShadow, netInit, dbVars, envVars, meas>>
    BY <1>5 DEF MqttInit
  <2>4. TypeOK'
    BY <2>1, <2>2, <2>3
    DEF TypeOK, MemTypeOK, PcOf, memVars, bleVars, dbVars, envVars
  <2>5. Control'
    BY <2>2, <2>3 DEF TypeOK, memVars, bleVars, dbVars
  <2> QED BY <2>4, <2>5
<1> QED BY <1>1, <1>2, <1>3, <1>4, <1>5

\* task_measure from the time check on.
LEMMA CInvMeasureTail ==
  ASSUME CInv, TimeInvalid \/ EndReached \/ InRange \/ PublishCurrent \/ UploadEntry
               \/ UploadClose \/ StoreLocally \/ MeasureSleep
  PROVE  CInv'
<1> USE DEF CInv, Control, Tasks
<1>0. ASSUME NEW m \in Meas, Published(m)
      PROVE  uploads' \in [Meas -> 0..2]
  BY <1>0 DEF Published, TypeOK
<1>1. CASE TimeInvalid
  BY <1>1 DEF TimeInvalid, At, Goto, Works, TypeOK, MemTypeOK, PcOf, memVars, bleVars, ramVars, dbVars, envVars
<1>2. CASE EndReached
  <2>1. /\ MemTypeOK'
        /\ faults' \in 0..MaxFaults
        /\ UNCHANGED <<task, wake, interval>>
        /\ task = "measure" /\ pc = "time" /\ pc' = "disconnect"
    BY <1>2, SaveTyped DEF EndReached, At, Items, ValuesOf, States
  <2>2. UNCHANGED <<r, bleVars, ramVars, dbVars, envVars, meas>>
    BY <1>2 DEF EndReached
  <2> QED BY <2>1, <2>2 DEF TypeOK, PcOf, bleVars, ramVars, dbVars, envVars
<1>3. CASE InRange
  BY <1>3 DEF InRange, At, Goto, Works, TypeOK, MemTypeOK, PcOf, memVars, bleVars, ramVars, dbVars, envVars
<1>4. CASE PublishCurrent
  <2>1. faults' \in 0..MaxFaults
    BY <1>4, FaultsTyped DEF PublishCurrent
  <2>2. /\ task = "measure" /\ pc = "publish" /\ task' = task /\ UNCHANGED <<wake, interval>>
        /\ pc' \in {"disconnect", "upload"}
    BY <1>4 DEF PublishCurrent, At, Goto
  <2>7. r \in BOOLEAN
    BY DEF TypeOK
  <2>8. r' \in BOOLEAN
    BY <1>4, <2>7, Zenon DEF PublishCurrent
  <2>3. uploads' \in [Meas -> 0..2]
    BY <1>0, <1>4, <2>2 DEF PublishCurrent, TypeOK
  <2>4. pos' \in Nat /\ (pc' = "upload" => pos' = 1 /\ db # <<>>)
    BY <1>4 DEF PublishCurrent, Goto, TypeOK
  <2>5. UNCHANGED <<memVars, bleVars, ramVars, db, stored, cutOff, envVars, meas>>
    BY <1>4 DEF PublishCurrent
  <2>6. db # <<>> => 1 \in 1..Len(db)
    BY DEF TypeOK
  <2> QED BY <2>1, <2>2, <2>3, <2>4, <2>5, <2>6, <2>8
       DEF TypeOK, MemTypeOK, PcOf, memVars, bleVars, ramVars, envVars
<1>5. CASE UploadEntry
  <2>1. faults' \in 0..MaxFaults
    BY <1>5, FaultsTyped DEF UploadEntry
  <2>2. /\ task = "measure" /\ pc = "upload" /\ task' = task /\ UNCHANGED <<wake, interval>>
        /\ pc' \in {"close", "upload"} /\ r' \in BOOLEAN
    BY <1>5 DEF UploadEntry, At, Goto, TypeOK
  <2>3. db[pos] \in Meas
    BY <2>2 DEF TypeOK
  <2>4. uploads' \in [Meas -> 0..2]
    BY <1>0, <1>5, <2>3 DEF UploadEntry, TypeOK
  <2>5. pos' \in Nat /\ (pc' = "upload" => pos' \in 1..Len(db))
    BY <1>5, <2>2 DEF UploadEntry, Goto, TypeOK
  <2>6. cutOff' \in BOOLEAN
    BY <1>5 DEF UploadEntry, TypeOK
  <2>7. UNCHANGED <<memVars, bleVars, ramVars, db, stored, envVars, meas>>
    BY <1>5 DEF UploadEntry
  <2> QED BY <2>1, <2>2, <2>4, <2>5, <2>6, <2>7
       DEF TypeOK, MemTypeOK, PcOf, memVars, bleVars, ramVars, envVars
<1>6. CASE UploadClose
  <2>1. faults' \in 0..MaxFaults
    BY <1>6, FaultsTyped DEF UploadClose
  <2>2. /\ task = "measure" /\ pc = "close" /\ task' = task /\ UNCHANGED <<wake, interval>>
        /\ pc' = "disconnect"
    BY <1>6 DEF UploadClose, At, Goto
  <2>6. db' = <<>> \/ db' = db
    BY <1>6, Zenon DEF UploadClose
  <2>7. <<>> \in Seq(Meas) /\ db \in Seq(Meas)
    BY DEF TypeOK
  <2>3. db' \in Seq(Meas)
    BY <2>6, <2>7, Zenon
  <2>5. cutOff' \in BOOLEAN
    BY <1>6, Zenon DEF UploadClose, TypeOK
  <2>4. UNCHANGED <<memVars, r, bleVars, ramVars, pos, stored, uploads, envVars, meas>>
    BY <1>6 DEF UploadClose
  <2> QED BY <2>1, <2>2, <2>3, <2>4, <2>5
       DEF TypeOK, MemTypeOK, PcOf, memVars, bleVars, ramVars, envVars
<1>7. CASE StoreLocally
  <2>1. faults' \in 0..MaxFaults
    BY <1>7, FaultsTyped DEF StoreLocally
  <2>2. /\ task = "measure" /\ pc = "store" /\ task' = task /\ UNCHANGED <<wake, interval>>
        /\ pc' = "disconnect"
    BY <1>7 DEF StoreLocally, At, Goto
  <2>3. db' \in Seq(Meas) /\ stored' \subseteq Meas
    BY <1>7, <2>2 DEF StoreLocally, TypeOK
  <2>4. UNCHANGED <<memVars, r, bleVars, ramVars, pos, uploads, cutOff, envVars, meas>>
    BY <1>7 DEF StoreLocally
  <2> QED BY <2>1, <2>2, <2>3, <2>4
       DEF TypeOK, MemTypeOK, PcOf, memVars, bleVars, ramVars, envVars
<1>8. CASE MeasureSleep
  BY <1>8 DEF MeasureSleep, At, Sleep, RestartRam, Works, TypeOK, MemTypeOK, PcOf, Configs, memVars, envVars
<1> QED BY <1>1, <1>2, <1>3, <1>4, <1>5, <1>6, <1>7, <1>8

LEMMA CInvStep == CInv /\ [Next]_vars => CInv'
<1>1. CInv /\ UNCHANGED vars => CInv'
  BY DEF CInv, TypeOK, MemTypeOK, Control, PcOf, vars, memVars, bootVars, bleVars, ramVars,
         dbVars, envVars
<1>2. CInv /\ Next => CInv'
  BY CInvChip, CInvBle, CInvOnline, CInvReply, CInvConfig, CInvMeasureHead, CInvMeasureTail
  DEF Next, Program, ConfigTask, MeasureTask, Environment, CloudReplies
<1> QED BY <1>1, <1>2

LEMMA CInvAlways == Spec => []CInv
BY CInvInit, CInvStep, PTL DEF Spec

(***********************************************************************************)
(* Every variable keeps its type: no task saves, publishes or sleeps on a value    *)
(* that is not there, such as credentials before BLE has delivered both.           *)
(***********************************************************************************)
THEOREM TypeCorrect == Spec => []TypeOK
BY CInvAlways, PTL DEF CInv

-----------------------------------------------------------------------------------
(***********************************************************************************)
(* The order in which pairing saves its items                                      *)
(***********************************************************************************)

BothWhole == Whole("ssid") /\ Whole("pass")

(***********************************************************************************)
(* CredsBeforeState is not inductive: that the credentials are whole when the      *)
(* state is saved follows from the saves before it, and that a pairing in progress *)
(* cannot spoil the credentials of a paired state follows from app_main, which     *)
(* enters pairing only with a state in flash that is not a paired one.             *)
(***********************************************************************************)
PairingUnpaired ==
  task = "ble" /\ pc # "sleep"
    => flash["state"] \notin Paired /\ (writing.item = "state" => writing.val = "BLE_CONFIG")

OnlyPairingWritesCreds ==
  /\ writing.item = "ssid" => task = "ble" /\ pc = "pass"
  /\ writing.item = "pass" => task = "ble" /\ pc = "hatch"

SavedSoFar ==
  ~ ioError =>
    /\ task \in {"measure", "config"} => BothWhole
    /\ writing.item = "state" /\ writing.val \in Paired => BothWhole
    /\ task = "ble" /\ pc = "pass" => Whole("ssid") \/ writing.item = "ssid"
    /\ task = "ble" /\ pc = "hatch" => Whole("ssid") /\ (Whole("pass") \/ writing.item = "pass")
    /\ task = "ble" /\ pc = "state" => BothWhole

CredsInv == PairingUnpaired /\ OnlyPairingWritesCreds /\ SavedSoFar /\ CredsBeforeState

LEMMA CredsInvInit == Init => CredsInv
BY DEF Init, MemInit, CredsInv, PairingUnpaired, OnlyPairingWritesCreds, SavedSoFar,
       CredsBeforeState, Items, Paired, NoWrite

\* Steps of a task that write nothing and do not enter or leave the saving of pairing.
QuietStep ==
  /\ UNCHANGED memVars
  /\ \/ UNCHANGED <<task, pc>>
     \/ task' = task /\ task # "ble" /\ writing = NoWrite
     \/ task' = task /\ task = "ble" /\ pc # "sleep" /\ pc' \in {"button", "wait", "ssid", "sleep"} /\ writing = NoWrite
     \/ task' \in {"asleep", "boot", "halted"} /\ writing = NoWrite

LEMMA CredsInvQuiet == CredsInv /\ QuietStep => CredsInv'
BY DEF CredsInv, QuietStep, PairingUnpaired, OnlyPairingWritesCreds, SavedSoFar,
       CredsBeforeState, BothWhole, Whole, memVars, NoWrite

\* memory_set_item of the hatch configuration or the state by a measuring task.
LEMMA CredsInvSave ==
  ASSUME CInv, CredsInv, task \in {"measure", "config"}, writing = NoWrite,
         NEW label, NEW i \in {"hatch", "state"}, NEW v, Save(i, v, label)
  PROVE  CredsInv'
<1>1. task' = task /\ flash \in [Items -> States \cup Creds \cup Configs \cup Damage]
  BY DEF Save, Goto, CInv, TypeOK, MemTypeOK
<1>2. CASE SetItem(i, v)
  <2>1. /\ flash'["ssid"] = flash["ssid"] /\ flash'["pass"] = flash["pass"]
        /\ flash'["state"] \in {flash["state"], "Empty"}
    BY <1>1, <1>2 DEF SetItem, Items
  <2>2. writing'.item = i /\ writing'.val = v /\ ioError' = ioError
    BY <1>2 DEF SetItem
  <2> QED BY <1>1, <2>1, <2>2
       DEF CredsInv, PairingUnpaired, OnlyPairingWritesCreds, SavedSoFar, CredsBeforeState,
           BothWhole, Whole, Paired
<1>3. CASE SetItemFails
  BY <1>1, <1>3
  DEF SetItemFails, CredsInv, PairingUnpaired, OnlyPairingWritesCreds, SavedSoFar,
      CredsBeforeState, NoWrite
<1> QED BY <1>2, <1>3 DEF Save

LEMMA CredsInvBoot ==
  ASSUME CInv, CredsInv, BootKnown \/ BootUnknown
  PROVE  CredsInv'
<1>0. /\ task = "boot" /\ writing = NoWrite
      /\ flash \in [Items -> States \cup Creds \cup Configs \cup Damage]
      /\ flash["state"] \in States \cup Damage
  BY DEF BootKnown, BootUnknown, CInv, Control, Tasks, TypeOK, MemTypeOK, ValuesOf, Items
<1>1. CASE BootKnown
  <2>1. /\ UNCHANGED memVars
        /\ pc' \in {"init", "creds"}
        /\ task' = TaskOf(flash["state"]) /\ flash["state"] \in States
    BY <1>0, <1>1 DEF BootKnown, StartTask, FirstCall, Whole
  <2>2. /\ flash["state"] = "BLE_CONFIG" => task' = "ble"
        /\ flash["state"] \in Paired => task' \in {"measure", "config"}
        /\ flash["state"] = "BLE_CONFIG" \/ flash["state"] \in Paired
    BY <2>1 DEF TaskOf, States, Paired
  <2> QED BY <1>0, <2>1, <2>2
       DEF CredsInv, PairingUnpaired, OnlyPairingWritesCreds, SavedSoFar, CredsBeforeState,
           BothWhole, Whole, Paired, memVars, NoWrite
<1>2. CASE BootUnknown
  <2>1. task' = "ble" /\ pc' = "init"
    BY <1>2 DEF BootUnknown, StartTask, FirstCall
  <2>2. CASE SetItem("state", "BLE_CONFIG")
    <3>1. flash'["state"] = "Empty" /\ writing' = [item |-> "state", val |-> "BLE_CONFIG"]
      BY <1>0, <2>2 DEF SetItem, Items
    <3> QED BY <2>1, <3>1
         DEF CredsInv, PairingUnpaired, OnlyPairingWritesCreds, SavedSoFar, CredsBeforeState, Paired
  <2>3. CASE SetItemFails /\ ~ Whole("state")
    <3>1. flash' = flash /\ writing' = NoWrite /\ flash["state"] \notin Paired /\ ioError' = TRUE
      BY <1>0, <2>3 DEF SetItemFails, Whole, Damage, Paired
    <3> QED BY <2>1, <3>1
         DEF CredsInv, PairingUnpaired, OnlyPairingWritesCreds, SavedSoFar, CredsBeforeState, NoWrite
  <2> QED BY <1>2, <2>2, <2>3 DEF BootUnknown
<1> QED BY <1>1, <1>2

LEMMA CredsInvComplete ==
  ASSUME CInv, CredsInv, CompleteWrite
  PROVE  CredsInv'
<1>0. /\ flash \in [Items -> States \cup Creds \cup Configs \cup Damage]
      /\ writing # NoWrite /\ writing' = NoWrite /\ UNCHANGED <<task, pc>>
      /\ writing.item \in Items /\ writing.val \in ValuesOf(writing.item)
  BY DEF CompleteWrite, FinishWrite, ShortWrite, CInv, TypeOK, MemTypeOK, bootVars
<1>1. CASE FinishWrite
  <2>1. flash' = [flash EXCEPT ![writing.item] = writing.val] /\ ioError' = ioError
    BY <1>1 DEF FinishWrite
  <2>2. CASE writing.item \in {"ssid", "pass"}
    <3>1. writing.val \notin Damage
      BY <1>0, <2>2, CredsAssumption DEF ValuesOf, Items
    <3> QED BY <1>0, <2>1, <2>2, <3>1
         DEF CredsInv, PairingUnpaired, OnlyPairingWritesCreds, SavedSoFar, CredsBeforeState,
             BothWhole, Whole, NoWrite, Items
  <2>3. CASE writing.item \in {"hatch", "state"}
    <3>1. flash'["ssid"] = flash["ssid"] /\ flash'["pass"] = flash["pass"]
      BY <1>0, <2>1, <2>3 DEF Items
    <3>2. flash'["state"] = IF writing.item = "state" THEN writing.val ELSE flash["state"]
      BY <1>0, <2>1, <2>3 DEF Items
    <3> QED BY <1>0, <2>1, <2>3, <3>1, <3>2
         DEF CredsInv, PairingUnpaired, OnlyPairingWritesCreds, SavedSoFar, CredsBeforeState,
             BothWhole, Whole, NoWrite, Paired
  <2> QED BY <1>0, <2>2, <2>3 DEF Items
<1>2. CASE ShortWrite
  <2>1. ioError' = TRUE
    BY <1>2 DEF ShortWrite
  <2>2. task = "ble" /\ pc # "sleep" => flash'["state"] \notin Paired
    <3>1. PICK left \in Cut(writing.val) : flash' = [flash EXCEPT ![writing.item] = left]
      BY <1>2 DEF ShortWrite
    <3>2. CASE writing.item # "state"
      BY <1>0, <3>1, <3>2 DEF CredsInv, PairingUnpaired, Items
    <3>3. CASE writing.item = "state"
      <4>1. left \in Damage
        BY <1>0, <3>1, <3>3, HatchesAssumption DEF Cut, ValuesOf, Configs, States, Damage
      <4> QED BY <1>0, <3>1, <3>3, <4>1 DEF Damage, Paired
    <3> QED BY <3>2, <3>3
  <2> QED BY <1>0, <2>1, <2>2
       DEF CredsInv, PairingUnpaired, OnlyPairingWritesCreds, SavedSoFar, CredsBeforeState, NoWrite
<1> QED BY <1>1, <1>2 DEF CompleteWrite

LEMMA CredsInvPowerLoss ==
  ASSUME CInv, CredsInv, PowerLoss
  PROVE  CredsInv'
<1>0. /\ flash \in [Items -> States \cup Creds \cup Configs \cup Damage]
      /\ writing' = NoWrite /\ task' = "boot" /\ ioError' = ioError
      /\ writing = NoWrite \/ (writing.item \in Items /\ writing.val \in ValuesOf(writing.item))
  BY DEF PowerLoss, LoseWrite, CInv, TypeOK, MemTypeOK
<1>1. CASE writing = NoWrite
  <2>1. flash' = flash
    BY <1>1 DEF PowerLoss, LoseWrite
  <2> QED BY <1>0, <2>1
       DEF CredsInv, PairingUnpaired, OnlyPairingWritesCreds, SavedSoFar, CredsBeforeState,
           BothWhole, Whole, NoWrite
<1>2. CASE writing # NoWrite
  <2>1. PICK left \in Cut(writing.val) \cup {writing.val} :
               flash' = [flash EXCEPT ![writing.item] = left]
    BY <1>2 DEF PowerLoss, LoseWrite
  <2>2. CASE writing.item \in {"ssid", "pass"}
    <3>1. flash'["state"] \notin Paired
      BY <1>0, <2>1, <2>2 DEF CredsInv, PairingUnpaired, OnlyPairingWritesCreds, Items
    <3> QED BY <1>0, <3>1
         DEF CredsInv, PairingUnpaired, OnlyPairingWritesCreds, SavedSoFar, CredsBeforeState, NoWrite
  <2>3. CASE writing.item \in {"hatch", "state"}
    <3>1. flash'["ssid"] = flash["ssid"] /\ flash'["pass"] = flash["pass"]
      BY <1>0, <2>1, <2>3 DEF Items
    <3>2. flash'["state"] \in Paired => flash["state"] \in Paired \/ (writing.item = "state" /\ writing.val \in Paired)
      <4>1. CASE writing.item = "hatch"
        BY <1>0, <2>1, <4>1 DEF Items
      <4>2. CASE writing.item = "state"
        <5>0. writing.val \in States
          BY <1>0, <1>2, <4>2 DEF ValuesOf
        <5>1. left \in {"Empty", "Torn", writing.val}
          <6>1. writing.val \notin Configs
            BY <5>0, HatchesAssumption DEF Configs, States
          <6> QED BY <2>1, <6>1 DEF Cut
        <5>2. flash'["state"] = left
          <6>1. flash' = [flash EXCEPT !["state"] = left]
            BY <2>1, <4>2
          <6> QED BY <1>0, <6>1 DEF Items
        <5> QED BY <4>2, <5>1, <5>2 DEF Paired
      <4> QED BY <2>3, <4>1, <4>2
    <3> QED BY <1>0, <3>1, <3>2
         DEF CredsInv, PairingUnpaired, OnlyPairingWritesCreds, SavedSoFar, CredsBeforeState,
             BothWhole, Whole, NoWrite
  <2> QED BY <1>0, <1>2, <2>2, <2>3 DEF Items
<1> QED BY <1>1, <1>2

LEMMA CredsInvBleSaves ==
  ASSUME CInv, CredsInv, BleSaves
  PROVE  CredsInv'
<1>0. /\ flash \in [Items -> States \cup Creds \cup Configs \cup Damage]
      /\ task = "ble" /\ pc # "sleep" /\ writing = NoWrite /\ task' = task
      /\ flash["state"] \notin Paired
  BY DEF BleSaves, At, Save, Goto, CInv, TypeOK, MemTypeOK, CredsInv, PairingUnpaired
<1>1. CASE SetItemFails
  <2>1. flash' = flash /\ writing' = NoWrite /\ ioError' = TRUE
    BY <1>0, <1>1 DEF SetItemFails
  <2> QED BY <1>0, <2>1
       DEF CredsInv, PairingUnpaired, OnlyPairingWritesCreds, SavedSoFar, CredsBeforeState, NoWrite
<1>2. CASE pc = "ssid" /\ SetItem("ssid", ramSsid) /\ pc' = "pass"
  BY <1>0, <1>2
  DEF SetItem, CredsInv, PairingUnpaired, OnlyPairingWritesCreds, SavedSoFar, CredsBeforeState, Items
<1>3. CASE pc = "pass" /\ SetItem("pass", ramPass) /\ pc' = "hatch"
  BY <1>0, <1>3
  DEF SetItem, CredsInv, PairingUnpaired, OnlyPairingWritesCreds, SavedSoFar, CredsBeforeState,
      Whole, Items, NoWrite
<1>4. CASE pc = "hatch" /\ SetItem("hatch", "Zero") /\ pc' = "state"
  BY <1>0, <1>4
  DEF SetItem, CredsInv, PairingUnpaired, OnlyPairingWritesCreds, SavedSoFar, CredsBeforeState,
      BothWhole, Whole, Items, NoWrite
<1>5. CASE pc = "state" /\ SetItem("state", "MEASURE_CONFIG") /\ pc' = "sleep"
  <2>1. flash'["ssid"] = flash["ssid"] /\ flash'["pass"] = flash["pass"] /\ flash'["state"] = "Empty"
    BY <1>0, <1>5 DEF SetItem, Items
  <2> QED BY <1>0, <1>5, <2>1
       DEF SetItem, CredsInv, PairingUnpaired, OnlyPairingWritesCreds, SavedSoFar,
           CredsBeforeState, BothWhole, Whole, Paired
<1> QED BY <1>0, <1>1, <1>2, <1>3, <1>4, <1>5 DEF BleSaves, Save, At, Goto

\* What is left writes nothing.
LEMMA OthersAreQuiet ==
  ASSUME CInv,
         \/ BootHalts
         \/ \E source \in {"timer", "button"} : WakeUp(source)
         \/ \E c \in Configs : HatchEnds(c)
         \/ BleInit \/ BleInitButton \/ BleWait \/ BleSleep \/ ButtonPress
         \/ \E c \in Creds, keys \in {{"ssid"}, {"pass"}, {"ssid", "pass"}} : PhoneWrites(c, keys)
         \/ \E t \in {"measure", "config"} : Online(t) \/ \E c \in Configs : ShadowReply(t, c)
         \/ ConfigSleep \/ MeasureSleep
         \/ (\E m \in Meas : ReadSensor(m)) \/ SensorFails
         \/ MeasureLoadConfig \/ MqttInit \/ TimeInvalid \/ InRange
         \/ PublishCurrent \/ UploadEntry \/ UploadClose \/ StoreLocally
  PROVE  QuietStep
<1> USE DEF QuietStep
<1>1. CASE BootHalts \/ (\E source \in {"timer", "button"} : WakeUp(source))
  BY <1>1 DEF BootHalts, WakeUp, CInv, Control, Tasks
<1>2. CASE (\E c \in Configs : HatchEnds(c)) \/ ButtonPress
           \/ (\E c \in Creds, keys \in {{"ssid"}, {"pass"}, {"ssid", "pass"}} : PhoneWrites(c, keys))
  BY <1>2 DEF HatchEnds, ButtonPress, PhoneWrites, bootVars
<1>3. CASE BleInit \/ BleInitButton \/ BleWait
  BY <1>3 DEF BleInit, BleInitButton, BleWait, At, Goto
<1>4. CASE BleSleep \/ ConfigSleep \/ MeasureSleep
  BY <1>4 DEF BleSleep, ConfigSleep, MeasureSleep, At, Sleep
<1>5. ASSUME NEW t \in {"measure", "config"}, Online(t) \/ \E c \in Configs : ShadowReply(t, c)
      PROVE  QuietStep
  BY <1>5 DEF Online, LoadCreds, ConnectWifi, ShadowInit, ShadowGet, Disconnect,
              DisconnectPanics, ShadowReply, At, Goto
<1>6. CASE (\E m \in Meas : ReadSensor(m)) \/ SensorFails \/ MeasureLoadConfig
           \/ MqttInit \/ TimeInvalid \/ InRange
  BY <1>6 DEF ReadSensor, SensorFails, MeasureLoadConfig, MqttInit, TimeInvalid, InRange, At, Goto
<1>7. CASE PublishCurrent \/ UploadEntry \/ UploadClose \/ StoreLocally
  BY <1>7 DEF PublishCurrent, UploadEntry, UploadClose, StoreLocally, At, Goto
<1> QED BY <1>1, <1>2, <1>3, <1>4, <1>5, <1>6, <1>7

LEMMA CredsInvStep == CInv /\ CredsInv /\ [Next]_vars => CredsInv'
<1> SUFFICES ASSUME CInv, CredsInv, [Next]_vars PROVE CredsInv'
  OBVIOUS
<1>1. CASE UNCHANGED vars
  BY <1>1, CredsInvQuiet DEF QuietStep, vars, bootVars
<1>2. CASE CompleteWrite \/ Boot \/ PowerLoss
  BY <1>2, CredsInvComplete, CredsInvBoot, CredsInvPowerLoss, OthersAreQuiet, CredsInvQuiet DEF Boot
<1>3. CASE BleTask
  BY <1>3, CredsInvBleSaves, OthersAreQuiet, CredsInvQuiet DEF BleTask
<1>4. CASE ConfigSaves
  BY <1>4, CredsInvSave DEF ConfigSaves, At
<1>5. CASE MeasureSaveConfig \/ EndReached
  BY <1>5, CredsInvSave DEF MeasureSaveConfig, EndReached, At
<1>6. CASE MeasureTask \/ ConfigTask
  BY <1>4, <1>5, <1>6, OthersAreQuiet, CredsInvQuiet DEF MeasureTask, ConfigTask
<1>7. CASE Environment
  BY <1>2, <1>7, OthersAreQuiet, CredsInvQuiet DEF Environment, CloudReplies
<1> QED BY <1>1, <1>2, <1>3, <1>6, <1>7 DEF Next, Program

(***********************************************************************************)
(* The pairing task's order of saves protects the paired states at every power     *)
(* loss: a Peep that boots into a WiFi task has whole credentials, if no flash     *)
(* operation failed behind a task's back.                                          *)
(***********************************************************************************)
THEOREM CredsBeforeStateHolds == Spec => []CredsBeforeState
<1>1. Spec => []CredsInv
  BY CInvAlways, CredsInvInit, CredsInvStep, PTL DEF Spec
<1> QED BY <1>1, PTL DEF CredsInv

-----------------------------------------------------------------------------------
(***********************************************************************************)
(* Messages that come while the credentials are saved                              *)
(***********************************************************************************)

(***********************************************************************************)
(* What LateWritesAreSignalled says of the end of the saves, from the first of     *)
(* them on: an item that was saved is what its buffer holds, or SYNC_BIT is set.   *)
(***********************************************************************************)
SavedAsHeld ==
  task = "ble" /\ "SYNC" \notin bits /\ ~ ioError =>
    /\ pc \in {"pass", "hatch", "state"} => Stored("ssid") = ramSsid
    /\ pc \in {"hatch", "state"} => Stored("pass") = ramPass

LEMMA SavedAsHeldInit == Init => SavedAsHeld
BY DEF Init, SavedAsHeld

\* The end of a write leaves what was to be stored; or the failure is on record.
LEMMA StoredOnComplete ==
  ASSUME CInv, CompleteWrite, ~ ioError', NEW i \in {"ssid", "pass"}
  PROVE  Stored(i)' = Stored(i)
<1>1. FinishWrite /\ flash \in [Items -> States \cup Creds \cup Configs \cup Damage]
  BY DEF CompleteWrite, ShortWrite, CInv, TypeOK, MemTypeOK
<1>2. writing.item \in Items
  BY <1>1 DEF FinishWrite, CInv, TypeOK, MemTypeOK
<1> QED BY <1>1, <1>2 DEF FinishWrite, Stored, Items, NoWrite

LEMMA SavedAsHeldSaves ==
  ASSUME CInv, SavedAsHeld, BleSaves
  PROVE  SavedAsHeld'
<1> SUFFICES ASSUME ~ ioError', "SYNC" \notin bits
             PROVE  SavedAsHeld'
  BY DEF SavedAsHeld, BleSaves, bleVars
<1>1. /\ flash \in [Items -> States \cup Creds \cup Configs \cup Damage]
      /\ task = "ble" /\ writing = NoWrite /\ UNCHANGED <<task, bits, ramSsid, ramPass>>
  BY DEF BleSaves, At, Save, Goto, bleVars, CInv, TypeOK, MemTypeOK
<1>2. ASSUME NEW i \in Items, NEW v, NEW label, Save(i, v, label)
      PROVE  /\ pc' = label /\ ~ ioError
             /\ \A j \in {"ssid", "pass"} : Stored(j)' = IF j = i THEN v ELSE Stored(j)
  <2>1. SetItem(i, v) /\ pc' = label
    BY <1>2 DEF Save, SetItemFails, Goto
  <2> QED BY <1>1, <2>1 DEF SetItem, Stored, Items, NoWrite
<1> USE DEF SavedAsHeld, Items
<1>3. CASE At("ble", "ssid") /\ Save("ssid", ramSsid, "pass")
  BY <1>1, <1>2, <1>3
<1>4. CASE At("ble", "pass") /\ Save("pass", ramPass, "hatch")
  BY <1>1, <1>2, <1>4 DEF At
<1>5. CASE At("ble", "hatch") /\ Save("hatch", "Zero", "state")
  BY <1>1, <1>2, <1>5 DEF At
<1>6. CASE At("ble", "state") /\ Save("state", "MEASURE_CONFIG", "sleep")
  BY <1>1, <1>2, <1>6
<1> QED BY <1>3, <1>4, <1>5, <1>6 DEF BleSaves

\* Once both are known every message sets SYNC_BIT.
LEMMA SavedAsHeldPhone ==
  ASSUME CInv, SavedAsHeld,
         NEW c \in Creds, NEW keys \in {{"ssid"}, {"pass"}, {"ssid", "pass"}}, PhoneWrites(c, keys)
  PROVE  SavedAsHeld'
<1>1. CASE pc \in {"pass", "hatch", "state"}
  <2>1. "None" \notin {ramSsid', ramPass'}
    BY <1>1, CredsAssumption DEF PhoneWrites, CInv, Control
  <2>2. "SYNC" \in bits'
    BY <2>1 DEF PhoneWrites
  <2> QED BY <2>2 DEF SavedAsHeld
<1>2. CASE pc \notin {"pass", "hatch", "state"}
  BY <1>2 DEF PhoneWrites, bootVars, SavedAsHeld
<1> QED BY <1>1, <1>2

\* Every other step leaves the buffers alone or is not where they are saved.
LEMMA SavedAsHeldStep == CInv /\ SavedAsHeld /\ [Next]_vars => SavedAsHeld'
<1> SUFFICES ASSUME CInv, SavedAsHeld, [Next]_vars PROVE SavedAsHeld'
  OBVIOUS
<1>1. ASSUME task' # "ble" \/ pc' \notin {"pass", "hatch", "state"}
      PROVE  SavedAsHeld'
  BY <1>1 DEF SavedAsHeld
<1>2. ASSUME UNCHANGED <<memVars, task, pc, ramSsid, ramPass>>, bits \subseteq bits'
      PROVE  SavedAsHeld'
  BY <1>2 DEF SavedAsHeld, memVars, Stored
<1>3. CASE UNCHANGED vars \/ (\E c \in Configs : HatchEnds(c)) \/ ButtonPress
  <2>1. UNCHANGED <<memVars, task, pc, ramSsid, ramPass>> /\ bits \subseteq bits'
    BY <1>3 DEF vars, bootVars, bleVars, HatchEnds, ButtonPress
  <2> QED BY <1>2, <2>1
<1>4. CASE CompleteWrite
  <2>1. UNCHANGED <<task, pc, bits, ramSsid, ramPass>> /\ (ioError => ioError')
    BY <1>4 DEF CompleteWrite, FinishWrite, ShortWrite, bootVars, bleVars
  <2> QED BY <1>4, <2>1, StoredOnComplete DEF SavedAsHeld
<1>5. CASE Boot \/ PowerLoss \/ (\E source \in {"timer", "button"} : WakeUp(source))
  <2>1. task' # "ble" \/ pc' \notin {"pass", "hatch", "state"}
    BY <1>5 DEF Boot, BootKnown, BootUnknown, BootHalts, StartTask, FirstCall, PowerLoss, WakeUp
  <2> QED BY <1>1, <2>1
<1>6. CASE BleInit \/ BleInitButton \/ BleWait \/ BleSleep
  BY <1>1, <1>6 DEF BleInit, BleInitButton, BleWait, BleSleep, Goto, Sleep
<1>7. CASE ConfigTask \/ MeasureTask
  <2>1. task' # "ble"
    <3>1. ASSUME NEW t \in {"measure", "config"}, Online(t)
          PROVE  task' # "ble"
      BY <3>1 DEF Online, LoadCreds, ConnectWifi, ShadowInit, ShadowGet, Disconnect,
                  DisconnectPanics, At, Goto
    <3>2. CASE ConfigSaves \/ ConfigSleep \/ MeasureSaveConfig \/ EndReached \/ MeasureSleep
      BY <3>2 DEF ConfigSaves, ConfigSleep, MeasureSaveConfig, EndReached, MeasureSleep, At,
                  Save, Goto, Sleep
    <3>3. CASE (\E m \in Meas : ReadSensor(m)) \/ SensorFails \/ MeasureLoadConfig \/ MqttInit
               \/ TimeInvalid \/ InRange
      BY <3>3 DEF ReadSensor, SensorFails, MeasureLoadConfig, MqttInit, TimeInvalid, InRange, At, Goto
    <3>4. CASE PublishCurrent \/ UploadEntry \/ UploadClose \/ StoreLocally
      BY <3>4 DEF PublishCurrent, UploadEntry, UploadClose, StoreLocally, At, Goto
    <3> QED BY <1>7, <3>1, <3>2, <3>3, <3>4 DEF ConfigTask, MeasureTask
  <2> QED BY <1>1, <2>1
<1>8. CASE CloudReplies
  BY <1>1, <1>8 DEF CloudReplies, ShadowReply, At, Goto
<1> QED BY <1>3, <1>4, <1>5, <1>6, <1>7, <1>8, SavedAsHeldSaves, SavedAsHeldPhone
     DEF Next, Program, BleTask, Environment

(***********************************************************************************)
(* Whatever phones send and whenever they send it, a credential in flash that is   *)
(* not the one received last has left SYNC_BIT behind, and past the two saves the  *)
(* stored pair is one that the buffers held together.                              *)
(***********************************************************************************)
THEOREM LateWritesAreSignalledHolds == Spec => []LateWritesAreSignalled
<1>1. Spec => []SavedAsHeld
  BY CInvAlways, SavedAsHeldInit, SavedAsHeldStep, PTL DEF Spec
<1>2. SavedAsHeld => LateWritesAreSignalled
  BY DEF SavedAsHeld, LateWritesAreSignalled
<1> QED BY <1>1, <1>2, PTL

-----------------------------------------------------------------------------------
(***********************************************************************************)
(* Credentials that cannot be read                                                 *)
(***********************************************************************************)

CredsReadable == Readable("ssid") /\ Readable("pass")

(***********************************************************************************)
(* UnreadableCredsReboot is not inductive: that nothing is saved and no network is *)
(* used on the way follows from r, false since the credentials were looked for,    *)
(* and from the flags a boot starts with.                                          *)
(***********************************************************************************)
OfflineUntilWifi == task \in {"boot", "asleep", "ble"} => ~ netInit /\ ~ isShadow

UnreadableStops ==
  task \in {"measure", "config"} /\ ~ CredsReadable =>
    /\ pc \in {"creds", "config", "disconnect"} /\ writing = NoWrite
    /\ ~ netInit /\ ~ isShadow
    /\ pc # "creds" => ~ r

UnreadableInv == OfflineUntilWifi /\ UnreadableStops

LEMMA UnreadableInvInit == Init => UnreadableInv
BY DEF Init, UnreadableInv, OfflineUntilWifi, UnreadableStops

\* A measuring task writes other items.
LEMMA MeasuringWritesOthers ==
  ASSUME CInv, CredsInv, task \in {"measure", "config"}, CredsReadable,
         \/ UNCHANGED memVars
         \/ CompleteWrite
         \/ ConfigSaves \/ MeasureSaveConfig \/ EndReached
  PROVE  CredsReadable'
<1>0. flash \in [Items -> States \cup Creds \cup Configs \cup Damage]
  BY DEF CInv, TypeOK, MemTypeOK
<1>1. ASSUME NEW i \in {"hatch", "state"}, NEW v, flash' = [flash EXCEPT ![i] = v] \/ flash' = flash
      PROVE  CredsReadable'
  BY <1>0, <1>1 DEF CredsReadable, Readable, Items
<1>2. ASSUME NEW i \in {"hatch", "state"}, NEW v, NEW label, Save(i, v, label)
      PROVE  CredsReadable'
  BY <1>1, <1>2 DEF Save, SetItem, SetItemFails
<1>3. CASE UNCHANGED memVars
  BY <1>3 DEF memVars, CredsReadable, Readable
<1>4. CASE CompleteWrite
  <2>1. writing # NoWrite
    BY <1>4 DEF CompleteWrite, FinishWrite, ShortWrite
  <2>2. writing.item \in {"hatch", "state"}
    BY <2>1 DEF CInv, TypeOK, MemTypeOK, Items, CredsInv, OnlyPairingWritesCreds
  <2> QED BY <1>1, <1>4, <2>2 DEF CompleteWrite, FinishWrite, ShortWrite
<1>5. CASE ConfigSaves \/ MeasureSaveConfig \/ EndReached
  BY <1>2, <1>5 DEF ConfigSaves, MeasureSaveConfig, EndReached
<1> QED BY <1>3, <1>4, <1>5

LEMMA UnreadableInvStep == CInv /\ CredsInv /\ UnreadableInv /\ [Next]_vars => UnreadableInv'
<1> SUFFICES ASSUME CInv, CredsInv, UnreadableInv, [Next]_vars PROVE UnreadableInv'
  OBVIOUS
<1> USE DEF UnreadableInv, OfflineUntilWifi, UnreadableStops
<1>1. ASSUME task \in {"measure", "config"}, task' = task, CredsReadable,
             \/ UNCHANGED memVars
             \/ CompleteWrite
             \/ ConfigSaves \/ MeasureSaveConfig \/ EndReached
      PROVE  UnreadableInv'
  BY <1>1, MeasuringWritesOthers
<1>2. ASSUME UNCHANGED <<memVars, task, pc, r, netInit, isShadow>>
      PROVE  UnreadableInv'
  BY <1>2 DEF memVars, CredsReadable, Readable
<1>3. ASSUME task' \in {"boot", "asleep", "ble"}, ~ netInit', ~ isShadow'
      PROVE  UnreadableInv'
  BY <1>3
<1>4. CASE \/ UNCHANGED vars \/ (\E c \in Configs : HatchEnds(c)) \/ ButtonPress
           \/ (\E c \in Creds, keys \in {{"ssid"}, {"pass"}, {"ssid", "pass"}} : PhoneWrites(c, keys))
  <2>1. UNCHANGED <<memVars, task, pc, r, netInit, isShadow>>
    BY <1>4 DEF vars, bootVars, ramVars, HatchEnds, ButtonPress, PhoneWrites
  <2> QED BY <1>2, <2>1
<1>5. CASE PowerLoss \/ (\E source \in {"timer", "button"} : WakeUp(source))
  <2>1. task' = "boot"
    BY <1>5 DEF PowerLoss, WakeUp
  <2>2. RestartRam \/ (task = "asleep" /\ UNCHANGED ramVars)
    BY <1>5 DEF PowerLoss, WakeUp
  <2>3. ~ netInit' /\ ~ isShadow'
    BY <2>2 DEF RestartRam, ramVars
  <2> QED BY <1>3, <2>1, <2>3
<1>6. CASE BleTask
  <2>1. task = "ble" /\ task' \in {"ble", "asleep"}
    BY <1>6 DEF BleTask, BleInit, BleInitButton, BleWait, BleSaves, BleSleep, At, Save, Goto, Sleep
  <2>2. ~ netInit' /\ ~ isShadow'
    BY <1>6, <2>1 DEF BleTask, BleInit, BleInitButton, BleWait, BleSaves, BleSleep, Sleep,
                      RestartRam, ramVars
  <2> QED BY <1>3, <2>1, <2>2
<1>7. CASE Boot
  <2>1. task = "boot" /\ writing = NoWrite /\ UNCHANGED ramVars
    BY <1>7 DEF Boot, BootKnown, BootUnknown, BootHalts, CInv, Control, Tasks
  <2>2. CASE BootKnown
    <3>1. UNCHANGED memVars /\ (task' = "ble" \/ pc' = "creds")
      BY <2>2 DEF BootKnown, StartTask, FirstCall
    <3> QED BY <2>1, <3>1 DEF ramVars, memVars
  <2>3. CASE BootUnknown \/ BootHalts
    BY <2>1, <2>3 DEF BootUnknown, BootHalts, StartTask, ramVars
  <2> QED BY <1>7, <2>2, <2>3 DEF Boot
<1>8. CASE CompleteWrite
  <2>1. UNCHANGED <<task, pc, r, netInit, isShadow>> /\ writing # NoWrite
    BY <1>8 DEF CompleteWrite, FinishWrite, ShortWrite, bootVars, ramVars
  <2> QED BY <1>1, <1>8, <2>1
<1>9. ASSUME NEW t \in {"measure", "config"}, Online(t)
      PROVE  UnreadableInv'
  <2>1. CASE LoadCreds(t)
    <3>1. /\ task = t /\ task' = t /\ writing = NoWrite
          /\ pc = "creds" /\ UNCHANGED <<memVars, netInit, isShadow>>
          /\ CredsReadable \/ (pc' \in {"config", "disconnect"} /\ ~ r')
      BY <2>1 DEF LoadCreds, At, Goto, Skip, CredsReadable, ramVars
    <3> QED BY <1>1, <3>1 DEF memVars, CredsReadable, Readable
  <2>2. CASE ConnectWifi(t) \/ ShadowInit(t) \/ ShadowGet(t) \/ Disconnect(t)
    <3>1. /\ task = t /\ task' = t /\ UNCHANGED memVars
          /\ pc \in {"wifi", "shadow", "get"} \/ netInit
      BY <2>2 DEF ConnectWifi, ShadowInit, ShadowGet, Disconnect, At, Goto
    <3> QED BY <1>1, <3>1
  <2>3. CASE DisconnectPanics(t)
    BY <1>3, <2>3 DEF DisconnectPanics, RestartRam
  <2> QED BY <1>9, <2>1, <2>2, <2>3 DEF Online
<1>10. CASE ConfigSaves \/ MeasureSaveConfig \/ EndReached
  <2>1. /\ task \in {"measure", "config"} /\ task' = task
        /\ pc \in {"hatch", "state", "time"} \/ isShadow
    BY <1>10 DEF ConfigSaves, MeasureSaveConfig, EndReached, At, Save, Goto
  <2> QED BY <1>1, <1>10, <2>1
<1>11. CASE ConfigSleep \/ MeasureSleep
  BY <1>3, <1>11 DEF ConfigSleep, MeasureSleep, Sleep, RestartRam
<1>12. CASE MeasureLoadConfig
  <2>1. /\ task = "measure" /\ task' = task /\ pc = "config" /\ pc' = AfterConfig(r')
        /\ UNCHANGED <<memVars, netInit, isShadow>> /\ (r' => r)
    BY <1>12 DEF MeasureLoadConfig, At, Goto
  <2>2. CASE ~ CredsReadable
    BY <2>1, <2>2 DEF AfterConfig, memVars
  <2> QED BY <1>1, <2>1, <2>2
<1>13. CASE SensorFails \/ MqttInit
  <2>1. \/ task' = "halted"
        \/ /\ task = "measure" /\ task' = task /\ pc \in {"sensor", "mqtt"} /\ UNCHANGED memVars
    BY <1>13 DEF SensorFails, MqttInit, At, Goto
  <2> QED BY <1>1, <2>1
<1>14. CASE (\E m \in Meas : ReadSensor(m)) \/ TimeInvalid \/ InRange
            \/ PublishCurrent \/ UploadEntry \/ UploadClose \/ StoreLocally
  <2>1. /\ task = "measure" /\ task' = task /\ UNCHANGED memVars
        /\ pc \in {"sensor", "time", "publish", "upload", "close", "store"}
    BY <1>14 DEF ReadSensor, TimeInvalid, InRange, PublishCurrent, UploadEntry, UploadClose,
                 StoreLocally, At, Goto
  <2> QED BY <1>1, <2>1
<1>15. CASE CloudReplies
  <2>1. /\ task \in {"measure", "config"} /\ task' = task /\ UNCHANGED memVars /\ pc = "poll"
    BY <1>15 DEF CloudReplies, ShadowReply, At, Goto
  <2> QED BY <1>1, <2>1
<1>16. CASE ConfigTask \/ MeasureTask
  BY <1>9, <1>10, <1>11, <1>12, <1>13, <1>14, <1>16 DEF ConfigTask, MeasureTask
<1> HIDE DEF UnreadableInv, OfflineUntilWifi, UnreadableStops
<1> QED BY <1>4, <1>5, <1>6, <1>7, <1>8, <1>15, <1>16 DEF Next, Program, Environment

(***********************************************************************************)
(* A Peep whose stored credentials cannot be read never uses sensor, network or    *)
(* flash again, however often it boots: each of its boots ends in the panic of     *)
(* wifi_disconnect.                                                                *)
(***********************************************************************************)
THEOREM UnreadableCredsRebootHolds == Spec => []UnreadableCredsReboot
<1>1. Spec => []CredsInv
  BY CInvAlways, CredsInvInit, CredsInvStep, PTL DEF Spec
<1>2. Spec => []UnreadableInv
  BY <1>1, CInvAlways, UnreadableInvInit, UnreadableInvStep, PTL DEF Spec
<1>3. UnreadableInv => UnreadableCredsReboot
  BY DEF UnreadableInv, UnreadableStops, CredsReadable, UnreadableCredsReboot
<1> QED BY <1>2, <1>3, PTL

-----------------------------------------------------------------------------------
(***********************************************************************************)
(* The stored state: in which order it changes, and that a measuring Peep does not *)
(* sleep without its timer                                                         *)
(***********************************************************************************)

(***********************************************************************************)
(* app_main started the task that fits the stored state; until the task changes    *)
(* the state, as the last thing but sleep that it does with it, the two go on      *)
(* fitting.  A pairing task may also run on a state that is still being written,   *)
(* or that could not be written.                                                   *)
(***********************************************************************************)
DoneWithState(t) == IF t = "measure" THEN {"disconnect", "sleep"} ELSE {"sleep"}

Runs(t) == task = t /\ pc \notin DoneWithState(t)

StateOfTask ==
  /\ Runs("measure") => flash["state"] = "MEASURE" /\ writing.item # "state"
  /\ Runs("config") => flash["state"] = "MEASURE_CONFIG" /\ writing.item # "state"
  /\ Runs("ble") =>
       \/ flash["state"] = "BLE_CONFIG" /\ writing.item # "state"
       \/ writing = [item |-> "state", val |-> "BLE_CONFIG"]
       \/ ioError /\ flash["state"] \in Damage /\ writing.item # "state"

NotMeasuringInPairing ==
  task = "ble" => flash["state"] # "MEASURE" /\ (writing.item = "state" => writing.val # "MEASURE")

StateInv == StateOfTask /\ NotMeasuringInPairing /\ MeasuringWakesByTimer

LEMMA StateInvInit == Init => StateInv
BY DEF Init, StateInv, StateOfTask, Runs, NotMeasuringInPairing, MeasuringWakesByTimer

\* Steps that leave flash alone and bring no task back to where it needs the state.
OffState ==
  /\ UNCHANGED memVars
  /\ \/ UNCHANGED <<task, pc, wake>>
     \/ task' = task /\ task \in Tasks /\ (pc \in DoneWithState(task) => pc' \in DoneWithState(task))
     \/ task' \in {"boot", "halted"}
     \/ task' = "asleep" /\ (task = "ble" \/ "timer" \in wake')

LEMMA StateInvOff == StateInv /\ OffState => StateInv'
BY DEF StateInv, OffState, StateOfTask, Runs, NotMeasuringInPairing, MeasuringWakesByTimer,
       DoneWithState, Tasks, memVars

LEMMA OthersOffState ==
  ASSUME CInv,
         \/ BootHalts
         \/ \E source \in {"timer", "button"} : WakeUp(source)
         \/ \E c \in Configs : HatchEnds(c)
         \/ BleInit \/ BleInitButton \/ BleWait \/ BleSleep \/ ButtonPress
         \/ \E c \in Creds, keys \in {{"ssid"}, {"pass"}, {"ssid", "pass"}} : PhoneWrites(c, keys)
         \/ \E t \in {"measure", "config"} : Online(t) \/ \E c \in Configs : ShadowReply(t, c)
         \/ ConfigSleep \/ MeasureSleep
         \/ (\E m \in Meas : ReadSensor(m)) \/ SensorFails
         \/ MeasureLoadConfig \/ MqttInit \/ TimeInvalid \/ InRange
         \/ PublishCurrent \/ UploadEntry \/ UploadClose \/ StoreLocally
  PROVE  OffState
<1> USE DEF OffState, DoneWithState, Tasks
<1>1. CASE BootHalts \/ (\E source \in {"timer", "button"} : WakeUp(source))
  BY <1>1 DEF BootHalts, WakeUp
<1>2. CASE (\E c \in Configs : HatchEnds(c)) \/ ButtonPress
           \/ (\E c \in Creds, keys \in {{"ssid"}, {"pass"}, {"ssid", "pass"}} : PhoneWrites(c, keys))
  BY <1>2 DEF HatchEnds, ButtonPress, PhoneWrites, bootVars
<1>3. CASE BleInit \/ BleInitButton \/ BleWait
  BY <1>3 DEF BleInit, BleInitButton, BleWait, At, Goto
<1>4. CASE BleSleep \/ ConfigSleep \/ MeasureSleep
  BY <1>4 DEF BleSleep, ConfigSleep, MeasureSleep, At, Sleep
<1>5. ASSUME NEW t \in {"measure", "config"}, Online(t) \/ \E c \in Configs : ShadowReply(t, c)
      PROVE  OffState
  BY <1>5 DEF Online, LoadCreds, ConnectWifi, ShadowInit, ShadowGet, Disconnect,
              DisconnectPanics, ShadowReply, At, Goto
<1>6. CASE (\E m \in Meas : ReadSensor(m)) \/ SensorFails \/ MeasureLoadConfig
           \/ MqttInit \/ TimeInvalid \/ InRange
  BY <1>6 DEF ReadSensor, SensorFails, MeasureLoadConfig, MqttInit, TimeInvalid, InRange, At, Goto
<1>7. CASE PublishCurrent \/ UploadEntry \/ UploadClose \/ StoreLocally
  BY <1>7 DEF PublishCurrent, UploadEntry, UploadClose, StoreLocally, At, Goto
<1> QED BY <1>1, <1>2, <1>3, <1>4, <1>5, <1>6, <1>7

LEMMA StateInvBoot ==
  ASSUME CInv, StateInv, BootKnown \/ BootUnknown
  PROVE  StateInv'
<1>1. /\ task = "boot" /\ writing = NoWrite
      /\ flash \in [Items -> States \cup Creds \cup Configs \cup Damage]
      /\ flash["state"] \in States \cup Damage
  BY DEF BootKnown, BootUnknown, CInv, Control, Tasks, TypeOK, MemTypeOK, ValuesOf, Items
<1>2. CASE BootKnown
  <2>1. /\ UNCHANGED memVars
        /\ task' = TaskOf(flash["state"]) /\ flash["state"] \in States
    BY <1>1, <1>2 DEF BootKnown, StartTask, Whole
  <2>2. \/ task' = "ble" /\ flash["state"] = "BLE_CONFIG"
        \/ task' = "measure" /\ flash["state"] = "MEASURE"
        \/ task' = "config" /\ flash["state"] = "MEASURE_CONFIG"
    BY <2>1 DEF TaskOf, States
  <2> QED BY <1>1, <2>1, <2>2
       DEF StateInv, StateOfTask, Runs, NotMeasuringInPairing, MeasuringWakesByTimer, memVars, NoWrite
<1>3. CASE BootUnknown
  <2>1. task' = "ble"
    BY <1>3 DEF BootUnknown, StartTask
  <2>2. \/ /\ flash'["state"] = "Empty"
           /\ writing' = [item |-> "state", val |-> "BLE_CONFIG"]
        \/ flash' = flash /\ writing' = NoWrite /\ flash["state"] \in Damage /\ ioError'
    BY <1>1, <1>3 DEF BootUnknown, SetItem, SetItemFails, Whole, Items
  <2> QED BY <2>1, <2>2
       DEF StateInv, StateOfTask, Runs, NotMeasuringInPairing, MeasuringWakesByTimer, NoWrite, Damage
<1> QED BY <1>2, <1>3

\* What an unfinished write of the state can leave behind.
LEMMA CutState == \A s \in States : Cut(s) \subseteq Damage
BY HatchesAssumption DEF Cut, Configs, States, Damage

LEMMA StateInvComplete ==
  ASSUME CInv, StateInv, CompleteWrite
  PROVE  StateInv'
<1>1. /\ flash \in [Items -> States \cup Creds \cup Configs \cup Damage]
      /\ writing # NoWrite /\ writing' = NoWrite /\ UNCHANGED <<task, pc, wake>>
      /\ writing.item \in Items /\ writing.val \in ValuesOf(writing.item)
      /\ ioError => ioError'
  BY DEF CompleteWrite, FinishWrite, ShortWrite, CInv, TypeOK, MemTypeOK, bootVars
<1>2. task # "asleep"
  BY <1>1 DEF CInv, Control, Tasks
<1>3. CASE writing.item # "state"
  <2>1. flash'["state"] = flash["state"]
    BY <1>1, <1>3 DEF CompleteWrite, FinishWrite, ShortWrite, Items
  <2> QED BY <1>1, <1>2, <1>3, <2>1
       DEF StateInv, StateOfTask, Runs, NotMeasuringInPairing, MeasuringWakesByTimer, NoWrite
<1>4. CASE writing.item = "state"
  <2>1. writing.val \in States
    BY <1>1, <1>4 DEF ValuesOf
  <2>2. \/ flash'["state"] = writing.val
        \/ flash'["state"] \in Damage /\ ioError'
    BY <1>1, <1>4, <2>1, CutState DEF CompleteWrite, FinishWrite, ShortWrite, Items
  <2> QED BY <1>1, <1>2, <1>4, <2>1, <2>2
       DEF StateInv, StateOfTask, Runs, NotMeasuringInPairing, MeasuringWakesByTimer, NoWrite, Damage
<1> QED BY <1>3, <1>4

\* memory_set_item of an item that is not the state, by a task that still needs it.
LEMMA StateInvSave ==
  ASSUME CInv, StateInv, writing = NoWrite, task \in Tasks, pc \notin DoneWithState(task),
         NEW label, NEW i \in {"ssid", "pass", "hatch"}, NEW v, Save(i, v, label)
  PROVE  StateInv'
<1>1. task' = task /\ flash'["state"] = flash["state"] /\ writing'.item # "state"
      /\ (ioError => ioError')
  BY DEF Save, SetItem, SetItemFails, Goto, CInv, TypeOK, MemTypeOK, Items, NoWrite
<1> QED BY <1>1
     DEF StateInv, StateOfTask, Runs, NotMeasuringInPairing, MeasuringWakesByTimer, Tasks, NoWrite

\* memory_set_item of the state, by the task that is done with it.
LEMMA StateInvSaveState ==
  ASSUME CInv, StateInv, writing = NoWrite, task \in Tasks,
         NEW label \in DoneWithState(task), NEW v, task = "ble" => v # "MEASURE",
         Save("state", v, label)
  PROVE  StateInv'
<1>1. /\ task' = task /\ pc' = label
      /\ flash'["state"] \in {flash["state"], "Empty"}
      /\ writing' \in {NoWrite, [item |-> "state", val |-> v]}
  BY DEF Save, SetItem, SetItemFails, Goto, CInv, TypeOK, MemTypeOK, Items
<1> QED BY <1>1
     DEF StateInv, StateOfTask, Runs, NotMeasuringInPairing, MeasuringWakesByTimer,
         DoneWithState, Tasks, NoWrite

LEMMA StateInvSaves ==
  ASSUME CInv, StateInv, BleSaves \/ ConfigSaves \/ MeasureSaveConfig \/ EndReached
  PROVE  StateInv'
<1> USE DEF At, DoneWithState, Tasks
<1>1. CASE BleSaves
  BY <1>1, StateInvSave, StateInvSaveState DEF BleSaves
<1>2. CASE ConfigSaves
  BY <1>2, StateInvSave, StateInvSaveState DEF ConfigSaves
<1>3. CASE MeasureSaveConfig
  BY <1>3, StateInvSave DEF MeasureSaveConfig
<1>4. CASE EndReached
  BY <1>4, StateInvSaveState DEF EndReached
<1> QED BY <1>1, <1>2, <1>3, <1>4

LEMMA StateInvStep == CInv /\ StateInv /\ [Next]_vars => StateInv'
<1> SUFFICES ASSUME CInv, StateInv, [Next]_vars PROVE StateInv'
  OBVIOUS
<1>1. CASE UNCHANGED vars
  BY <1>1, StateInvOff DEF OffState, vars, bootVars
<1>2. CASE CompleteWrite \/ Boot
  BY <1>2, StateInvComplete, StateInvBoot, OthersOffState, StateInvOff DEF Boot
<1>3. CASE PowerLoss
  BY <1>3
  DEF PowerLoss, StateInv, StateOfTask, Runs, NotMeasuringInPairing, MeasuringWakesByTimer
<1>4. CASE BleTask \/ ConfigTask \/ MeasureTask
  BY <1>4, StateInvSaves, OthersOffState, StateInvOff DEF BleTask, ConfigTask, MeasureTask
<1>5. CASE Environment
  BY <1>3, <1>5, OthersOffState, StateInvOff DEF Environment, CloudReplies
<1> QED BY <1>1, <1>2, <1>4, <1>5 DEF Next, Program

LEMMA StateInvAlways == Spec => []StateInv
BY CInvAlways, StateInvInit, StateInvStep, PTL DEF Spec

(***********************************************************************************)
(* However the boots before went, a Peep asleep in MEASURE has armed its timer:    *)
(* only task_ble_config_wifi_credentials sleeps without it, and that task neither  *)
(* finds nor leaves the state MEASURE.                                             *)
(***********************************************************************************)
THEOREM MeasuringWakesByTimerHolds == Spec => []MeasuringWakesByTimer
BY StateInvAlways, PTL DEF StateInv

-----------------------------------------------------------------------------------
(***********************************************************************************)
(* The order of the states                                                         *)
(***********************************************************************************)

WritesState == writing' # writing /\ writing'.item = "state"

FollowsStep ==
  LET old == flash["state"]  new == writing'.val IN
    \/ new = "BLE_CONFIG"     /\ (old \in Damage \/ faults' > faults)
    \/ new = "MEASURE_CONFIG" /\ old \in {"BLE_CONFIG", "MEASURE"} \cup (IF ioError THEN Damage ELSE {})
    \/ new = "MEASURE"        /\ old = "MEASURE_CONFIG"

\* The only steps that begin to write the state.
LEMMA StateWriters ==
  ASSUME CInv, [Next]_vars, WritesState
  PROVE  \/ BootUnknown /\ SetItem("state", "BLE_CONFIG")
         \/ At("ble", "state") /\ SetItem("state", "MEASURE_CONFIG")
         \/ At("config", "state") /\ SetItem("state", "MEASURE")
         \/ At("measure", "time") /\ SetItem("state", "MEASURE_CONFIG")
<1> USE DEF WritesState
<1>1. ~ OffState /\ writing' # NoWrite /\ ~ UNCHANGED vars
  BY DEF OffState, memVars, vars, NoWrite
<1>2. ~ CompleteWrite /\ ~ PowerLoss /\ ~ BootKnown
  BY <1>1 DEF CompleteWrite, FinishWrite, ShortWrite, PowerLoss, LoseWrite, BootKnown, memVars
<1>3. BootUnknown \/ BleSaves \/ ConfigSaves \/ MeasureSaveConfig \/ EndReached
  BY <1>1, <1>2, OthersOffState
  DEF Next, Program, Boot, BleTask, ConfigTask, MeasureTask, Environment, CloudReplies
<1>4. ASSUME NEW i, NEW v, NEW label, Save(i, v, label)
      PROVE  i = "state" /\ SetItem(i, v)
  BY <1>4 DEF Save, SetItem, SetItemFails
<1>5. BootUnknown => SetItem("state", "BLE_CONFIG")
  BY DEF BootUnknown, SetItemFails
<1> QED BY <1>3, <1>4, <1>5 DEF BleSaves, ConfigSaves, MeasureSaveConfig, EndReached

LEMMA Follows == CInv /\ StateInv /\ [Next]_vars => [WritesState => FollowsStep]_vars
<1> SUFFICES ASSUME CInv, StateInv, [Next]_vars, WritesState PROVE FollowsStep
  OBVIOUS
<1>1. CASE BootUnknown /\ SetItem("state", "BLE_CONFIG")
  <2>1. ~ Whole("state") \/ faults' = faults + 1
    BY <1>1 DEF BootUnknown, Fails
  <2>2. faults \in Nat
    BY BoundsAssumption DEF CInv, TypeOK
  <2> QED BY <1>1, <2>1, <2>2 DEF Whole, SetItem, FollowsStep
<1>2. CASE At("ble", "state") /\ SetItem("state", "MEASURE_CONFIG")
  BY <1>2 DEF At, SetItem, FollowsStep, StateInv, StateOfTask, Runs, DoneWithState, NoWrite
<1>3. CASE At("config", "state") /\ SetItem("state", "MEASURE")
  BY <1>3 DEF At, SetItem, FollowsStep, StateInv, StateOfTask, Runs, DoneWithState
<1>4. CASE At("measure", "time") /\ SetItem("state", "MEASURE_CONFIG")
  BY <1>4 DEF At, SetItem, FollowsStep, StateInv, StateOfTask, Runs, DoneWithState
<1> QED BY <1>1, <1>2, <1>3, <1>4, StateWriters

(***********************************************************************************)
(* A Peep goes from pairing to waiting for a hatch, to measuring and back to       *)
(* waiting, and it never skips a state; it goes back to pairing only when its      *)
(* state is damaged or a flash operation fails.                                    *)
(***********************************************************************************)
THEOREM StateFollowsHolds == Spec => StateFollows
<1>1. CInv /\ StateInv /\ [Next]_vars
        => [ writing' # writing /\ writing'.item = "state" =>
               LET old == flash["state"]  new == writing'.val IN
               \/ new = "BLE_CONFIG"     /\ (old \in Damage \/ faults' > faults)
               \/ new = "MEASURE_CONFIG" /\ old \in {"BLE_CONFIG", "MEASURE"} \cup (IF ioError THEN Damage ELSE {})
               \/ new = "MEASURE"        /\ old = "MEASURE_CONFIG" ]_vars
  BY Follows DEF WritesState, FollowsStep
<1> QED BY <1>1, CInvAlways, StateInvAlways, PTL DEF Spec, StateFollows
===================================================================================
