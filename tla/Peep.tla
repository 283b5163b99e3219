----------------------------------- MODULE Peep -----------------------------------
(***********************************************************************************)
(* The life of a Peep, boot by boot: app_main dispatches on the stored state, one  *)
(* of the three tasks runs, and every task ends in deep sleep (or hangs, or makes  *)
(* the chip panic and reboot).  Between boots only the flash, the measurement log  *)
(* and the RTC survive.                                                            *)
(*                                                                                 *)
(* The tasks are modelled at the grain of their calls.  What a called component    *)
(* may answer (ble_init, hal_init, wifi_connect, the AWS client) is a choice of    *)
(* the environment; a failure of it draws on the budget MaxFaults, a loss of power *)
(* on MaxLosses.  The local r, is_local_measure and is_shadow_connected of the C   *)
(* code keep their names.                                                          *)
(***********************************************************************************)
EXTENDS Memory, Sequences

CONSTANTS
  Meas,         \* identities of measurements
  DbCapacity,   \* records the measurement log has room for
  MaxFaults,    \* bound: failures of the network, the sensor, BLE and the flash
  MaxLosses     \* bound: losses of power

ASSUME BoundsAssumption ==
  DbCapacity \in Nat /\ MaxFaults \in Nat /\ MaxLosses \in Nat
ASSUME MeasAssumption == "None" \notin Meas

VARIABLES
  task,      \* the task that runs, or "asleep", "boot", "halted"
  pc,        \* the next call of that task
  r,         \* the task's local r: everything has worked so far
  wake,      \* wakeup sources armed for the current deep sleep
  interval,  \* the timer's interval: a configuration's own, "Zero", "Default" or "Minute"
  bits,      \* event group of task_ble_config_wifi_credentials
  devices,   \* which of "ble" and "button" came up in that task
  ramSsid, ramPass,     \* the buffers _ssid and _pass that BLE writes fill
  config,    \* _config of the measuring tasks
  isLocal,   \* is_local_measure
  isShadow,  \* is_shadow_connected
  netInit,   \* has wifi_connect made the WiFi event group since boot?
  clockOk,   \* is time(NULL) past _UNIX_TIMESTAMP_THRESHOLD?
  ended,     \* configurations whose end_unix_timestamp has been reached
  meas,      \* the measurement of this boot, "None" before hal_read
  db,        \* the measurement log (memory_measurement_db.c): a sequence of Meas
  pos,       \* read position in the log during an upload
  stored,    \* history: measurements that memory_measurement_db_add accepted
  uploads,   \* history: how often each measurement was published (2: twice or more)
  cutOff,    \* history: has an upload of the log been interrupted, or its deletion?
  faults, losses   \* how much of the two budgets is spent

bootVars == <<task, pc, wake, interval>>
bleVars  == <<bits, devices, ramSsid, ramPass>>
ramVars  == <<config, isLocal, isShadow, netInit>>
dbVars   == <<db, pos, stored, uploads, cutOff>>
envVars  == <<clockOk, ended, losses>>
vars == <<memVars, bootVars, r, bleVars, ramVars, dbVars, envVars, meas, faults>>

Tasks == {"ble", "measure", "config"}

\* The UUID of a configuration is set (IS_HATCH_CONFIG_VALID).
IsValid(c) == c \in Hatches \cup {"Partial"}

PcOf(t) ==
  CASE t = "ble" -> {"init", "button", "wait", "ssid", "pass", "hatch", "state", "sleep"}
    [] t = "measure" -> {"creds", "sensor", "wifi", "shadow", "get", "poll", "config",
                         "mqtt", "time", "publish", "upload", "close", "store",
                         "disconnect", "sleep"}
    [] t = "config" -> {"creds", "wifi", "shadow", "get", "poll", "disconnect",
                        "hatch", "state", "sleep"}
    [] OTHER -> {"idle"}

TypeOK ==
  /\ MemTypeOK
  /\ task \in Tasks \cup {"asleep", "boot", "halted"}
  /\ pc \in PcOf(task)
  /\ r \in BOOLEAN
  /\ wake \subseteq {"timer", "button"}
  /\ interval \in Configs \cup {"Default", "Minute"}
  /\ bits \subseteq {"SYNC", "BUTTON"}
  /\ devices \subseteq {"ble", "button"}
  /\ ramSsid \in Creds \cup {"None"}
  /\ ramPass \in Creds \cup {"None"}
  /\ config \in Configs \cup {"Default"}
  /\ isLocal \in BOOLEAN
  /\ isShadow \in BOOLEAN
  /\ netInit \in BOOLEAN
  /\ clockOk \in BOOLEAN
  /\ ended \subseteq Configs
  /\ meas \in Meas \cup {"None"}
  /\ db \in Seq(Meas)
  /\ pos \in Nat
  /\ stored \subseteq Meas
  /\ uploads \in [Meas -> 0..2]
  /\ cutOff \in BOOLEAN
  /\ faults \in 0..MaxFaults
  /\ losses \in 0..MaxLosses

\* A new board: nothing in flash, about to boot for the first time.
Init ==
  /\ MemInit
  /\ task = "boot" /\ pc = "idle"
  /\ r = TRUE
  /\ wake = {} /\ interval = "Zero"
  /\ bits = {} /\ devices = {}
  /\ ramSsid = "None" /\ ramPass = "None"
  /\ config = "Zero"
  /\ isLocal = FALSE /\ isShadow = FALSE /\ netInit = FALSE
  /\ clockOk = FALSE
  /\ ended = {"Zero", "Partial"}
  /\ meas = "None"
  /\ db = <<>> /\ pos = 0 /\ stored = {}
  /\ uploads = [m \in Meas |-> 0]
  /\ cutOff = FALSE
  /\ faults = 0 /\ losses = 0

-----------------------------------------------------------------------------------
(***********************************************************************************)
(* Steps                                                                           *)
(***********************************************************************************)

Works == UNCHANGED faults
Fails == faults < MaxFaults /\ faults' = faults + 1

\* Task t is about to make the call named label, and no memory_set_item is under way.
At(t, label) == task = t /\ pc = label /\ writing = NoWrite

Goto(label) == pc' = label /\ UNCHANGED <<task, wake, interval>>

\* memory_set_item(item, val), its result ignored, then on to label.
Save(item, val, label) ==
  /\ \/ SetItem(item, val) /\ Works
     \/ SetItemFails /\ Fails
  /\ Goto(label)

\* The open file is written to the end, or the write stops short.
CompleteWrite ==
  /\ \/ FinishWrite /\ Works
     \/ ShortWrite /\ Fails
  /\ UNCHANGED <<bootVars, r, bleVars, ramVars, dbVars, envVars, meas>>

\* Whatever the chip does next, its RAM starts afresh.
RestartRam ==
  /\ r' = TRUE
  /\ bits' = {} /\ devices' = {}
  /\ ramSsid' = "None" /\ ramPass' = "None"
  /\ config' = "Zero"
  /\ isLocal' = FALSE /\ isShadow' = FALSE /\ netInit' = FALSE
  /\ meas' = "None" /\ pos' = 0

\* esp_deep_sleep_start: RAM is lost, flash and RTC are kept.
Sleep(sources, i) ==
  /\ task' = "asleep" /\ pc' = "idle"
  /\ wake' = sources
  /\ interval' = i
  /\ RestartRam
  /\ Works
  /\ UNCHANGED <<memVars, db, stored, uploads, cutOff, envVars>>

\* The timer or the push button ends the deep sleep.
WakeUp(source) ==
  /\ task = "asleep"
  /\ source \in wake
  /\ task' = "boot"
  /\ wake' = {} /\ interval' = "Zero"
  /\ UNCHANGED <<memVars, pc, r, bleVars, ramVars, dbVars, envVars, meas, faults>>

\* Power is lost at any moment and comes back: the RTC restarts too.
PowerLoss ==
  /\ losses < MaxLosses
  /\ losses' = losses + 1
  /\ LoseWrite
  /\ task' = "boot" /\ pc' = "idle"
  /\ wake' = {} /\ interval' = "Zero"
  /\ RestartRam
  /\ clockOk' = FALSE
  /\ cutOff' = IF task = "measure" /\ pc \in {"upload", "close"} THEN TRUE ELSE cutOff
  /\ UNCHANGED <<db, stored, uploads, ended, faults>>

\* The wall clock passes the end timestamp of a configuration.
HatchEnds(c) ==
  /\ c \notin ended
  /\ ended' = ended \cup {c}
  /\ UNCHANGED <<memVars, bootVars, r, bleVars, ramVars, dbVars, clockOk, losses, meas, faults>>

-----------------------------------------------------------------------------------
(***********************************************************************************)
(* app_main                                                                        *)
(***********************************************************************************)

\* The task that app_main creates for a state.
TaskOf(state) ==
  CASE state = "BLE_CONFIG" -> "ble"
    [] state = "MEASURE" -> "measure"
    [] state = "MEASURE_CONFIG" -> "config"

FirstCall(t) == IF t = "ble" THEN "init" ELSE "creds"

StartTask(t) == task' = t /\ pc' = FirstCall(t) /\ UNCHANGED <<wake, interval>>

\* A whole state was read: run its task.
BootKnown ==
  /\ task = "boot"
  /\ Whole("state")
  /\ StartTask(TaskOf(flash["state"]))
  /\ Works
  /\ UNCHANGED <<memVars, r, bleVars, ramVars, dbVars, envVars, meas>>

\* No valid state, or none that could be read: save BLE configuration and run that.
BootUnknown ==
  /\ task = "boot"
  /\ \/ ~ Whole("state") /\ SetItem("state", "BLE_CONFIG") /\ Works
     \/ ~ Whole("state") /\ SetItemFails /\ Fails
     \/ /\ IoFaults /\ Fails
        /\ SetItem("state", "BLE_CONFIG")
  /\ StartTask("ble")
  /\ UNCHANGED <<r, bleVars, ramVars, dbVars, envVars, meas>>

\* memory_init or memory_measurement_db_init failed: app_main prints for ever.
BootHalts ==
  /\ task = "boot"
  /\ IoFaults
  /\ Fails
  /\ task' = "halted"
  /\ UNCHANGED <<memVars, pc, wake, interval, r, bleVars, ramVars, dbVars, envVars, meas>>

-----------------------------------------------------------------------------------
(***********************************************************************************)
(* task_ble_config_wifi_credentials, and the BLE and GPIO callbacks that run       *)
(* beside it                                                                       *)
(***********************************************************************************)

\* ble_init; if it fails the push button is not set up either, and the task waits on.
\* When only its last call failed, phones can write all the same.
BleInit ==
  /\ At("ble", "init")
  /\ \/ Works /\ devices' = {"ble"} /\ Goto("button") /\ UNCHANGED r
     \/ Fails /\ r' = FALSE /\ Goto("wait") /\ devices' \in {{}, {"ble"}}
  /\ UNCHANGED <<memVars, bits, ramSsid, ramPass, ramVars, dbVars, envVars, meas>>

BleInitButton ==
  /\ At("ble", "button")
  /\ \/ Works /\ devices' = devices \cup {"button"} /\ UNCHANGED r
     \/ Fails /\ r' = FALSE /\ UNCHANGED devices
  /\ Goto("wait")
  /\ UNCHANGED <<memVars, bits, ramSsid, ramPass, ramVars, dbVars, envVars, meas>>

\* Mutant of PhoneWrites: SYNC is set by a message that carries both.
PhoneWritesBoth(c, keys) ==
  /\ task = "ble"
  /\ "ble" \in devices
  /\ ramSsid' = IF "ssid" \in keys THEN c ELSE ramSsid
  /\ ramPass' = IF "pass" \in keys THEN c ELSE ramPass
  /\ bits' = IF keys # {"ssid", "pass"} THEN bits ELSE bits \cup {"SYNC"}
  /\ UNCHANGED <<memVars, bootVars, r, devices, ramVars, dbVars, envVars, meas, faults>>

(***********************************************************************************)
(* _ble_write_callback, in the Bluetooth task, at any time until the chip sleeps:  *)
(* a message carries an ssid, a password or both; SYNC is set when both are known. *)
(***********************************************************************************)
PhoneWrites(c, keys) ==
  /\ task = "ble"
  /\ "ble" \in devices
  /\ ramSsid' = IF "ssid" \in keys THEN c ELSE ramSsid
  /\ ramPass' = IF "pass" \in keys THEN c ELSE ramPass
  /\ bits' = IF "None" \in {ramSsid', ramPass'} THEN bits ELSE bits \cup {"SYNC"}
  /\ UNCHANGED <<memVars, bootVars, r, devices, ramVars, dbVars, envVars, meas, faults>>

\* _push_button_callback: the first press removes the handler and sets BUTTON.
ButtonPress ==
  /\ task = "ble"
  /\ "button" \in devices
  /\ devices' = devices \ {"button"}
  /\ bits' = bits \cup {"BUTTON"}
  /\ UNCHANGED <<memVars, bootVars, r, ramSsid, ramPass, ramVars, dbVars, envVars, meas, faults>>

\* Mutant of BleWait: the push button takes the branch of SYNC.
BleWaitAnyBit ==
  /\ At("ble", "wait")
  /\ bits # {}
  /\ bits' = {}
  /\ Goto("ssid")
  /\ Works
  /\ UNCHANGED <<memVars, r, devices, ramSsid, ramPass, ramVars, dbVars, envVars, meas>>

\* xEventGroupWaitBits without a timeout; SYNC is looked at first.
BleWait ==
  /\ At("ble", "wait")
  /\ bits # {}
  /\ bits' = {}
  /\ Goto(IF "SYNC" \in bits THEN "ssid" ELSE "sleep")
  /\ Works
  /\ UNCHANGED <<memVars, r, devices, ramSsid, ramPass, ramVars, dbVars, envVars, meas>>

\* Mutant of BleSaves: the state is saved before the password.
BleSavesStateEarly ==
  /\ \/ At("ble", "ssid") /\ Save("ssid", ramSsid, "state")
     \/ At("ble", "state") /\ Save("state", "MEASURE_CONFIG", "pass")
     \/ At("ble", "pass") /\ Save("pass", ramPass, "hatch")
     \/ At("ble", "hatch") /\ Save("hatch", "Zero", "sleep")
  /\ UNCHANGED <<r, bleVars, ramVars, dbVars, envVars, meas>>

BleSaves ==
  /\ \/ At("ble", "ssid") /\ Save("ssid", ramSsid, "pass")
     \/ At("ble", "pass") /\ Save("pass", ramPass, "hatch")
     \/ At("ble", "hatch") /\ Save("hatch", "Zero", "state")
     \/ At("ble", "state") /\ Save("state", "MEASURE_CONFIG", "sleep")
  /\ UNCHANGED <<r, bleVars, ramVars, dbVars, envVars, meas>>

BleSleep == At("ble", "sleep") /\ Sleep({"button"}, "Zero")

-----------------------------------------------------------------------------------
(***********************************************************************************)
(* What task_measure and task_measure_config do alike: t is the one that runs      *)
(***********************************************************************************)

\* Where the C code next does something once r is false (or is_local_measure true).
Skip(t) == IF t = "measure" THEN "config" ELSE "disconnect"

\* Mutant of LoadCreds: the length of the password is not looked at.
LoadCredsSsidOnly(t) ==
  /\ At(t, "creds")
  /\ \/ /\ Readable("ssid") /\ Works
        /\ Goto(IF t = "measure" THEN "sensor" ELSE "wifi")
        /\ UNCHANGED r
     \/ /\ IF Readable("ssid") THEN IoFaults /\ Fails ELSE Works
        /\ r' = FALSE
        /\ Goto(Skip(t))
  /\ UNCHANGED <<memVars, bleVars, ramVars, dbVars, envVars, meas>>

\* _get_wifi_ssid_pasword: any positive length will do.
LoadCreds(t) ==
  /\ At(t, "creds")
  /\ \/ /\ Readable("ssid") /\ Readable("pass") /\ Works
        /\ Goto(IF t = "measure" THEN "sensor" ELSE "wifi")
        /\ UNCHANGED r
     \/ /\ IF Readable("ssid") /\ Readable("pass") THEN IoFaults /\ Fails ELSE Works
        /\ r' = FALSE
        /\ Goto(Skip(t))
  /\ UNCHANGED <<memVars, bleVars, ramVars, dbVars, envVars, meas>>

\* The stored ssid and password are whole and belong together.
CredsMatch == Whole("ssid") /\ flash["ssid"] = flash["pass"]

(***********************************************************************************)
(* wifi_connect: true once the AP gave an address and SNTP (or the RTC) the time.  *)
(* A failure makes task_measure go on locally, and task_measure_config give up.    *)
(***********************************************************************************)
ConnectWifi(t) ==
  /\ At(t, "wifi")
  /\ netInit' = TRUE
  /\ \/ /\ CredsMatch /\ Works
        /\ clockOk' = TRUE
        /\ Goto("shadow")
        /\ UNCHANGED <<r, isLocal>>
     \/ /\ IF CredsMatch THEN Fails ELSE Works
        /\ clockOk' \in {clockOk} \cup (IF CredsMatch THEN {TRUE} ELSE {})
        /\ IF t = "measure" THEN isLocal' = TRUE /\ UNCHANGED r
                            ELSE r' = FALSE /\ UNCHANGED isLocal
        /\ Goto(Skip(t))
  /\ UNCHANGED <<memVars, bleVars, config, isShadow, dbVars, ended, losses, meas>>

\* aws_mqtt_shadow_init
ShadowInit(t) ==
  /\ At(t, "shadow")
  /\ \/ Works /\ Goto("get") /\ UNCHANGED r
     \/ Fails /\ r' = FALSE /\ Goto(Skip(t))
  /\ UNCHANGED <<memVars, bleVars, ramVars, dbVars, envVars, meas>>

\* aws_mqtt_shadow_get; task_measure sets is_shadow_connected whatever it returned.
ShadowGet(t) ==
  /\ At(t, "get")
  /\ isShadow' = IF t = "measure" THEN TRUE ELSE isShadow
  /\ \/ Works /\ Goto("poll") /\ UNCHANGED r
     \/ Fails /\ r' = FALSE /\ Goto(Skip(t))
  /\ UNCHANGED <<memVars, bleVars, config, isLocal, netInit, dbVars, envVars, meas>>

(***********************************************************************************)
(* The poll loop: it ends when _shadow_callback has parsed a desired configuration *)
(* c into the zeroed _config and set SYNC_BIT.  A rejected or timed out get and an *)
(* unparsable document leave the loop as it is.                                    *)
(***********************************************************************************)
ShadowReply(t, c) ==
  /\ At(t, "poll")
  /\ config' = c
  /\ Goto(Skip(t))
  /\ Works
  /\ UNCHANGED <<memVars, r, bleVars, isLocal, isShadow, netInit, dbVars, envVars, meas>>

(***********************************************************************************)
(* wifi_disconnect.  It waits on the event group that wifi_connect makes; without  *)
(* one it follows a NULL handle: the chip panics and reboots.                      *)
(***********************************************************************************)
Disconnect(t) ==
  /\ At(t, "disconnect")
  /\ netInit
  /\ Goto(IF t = "config" /\ r THEN "hatch" ELSE "sleep")
  /\ Works
  /\ UNCHANGED <<memVars, r, bleVars, ramVars, dbVars, envVars, meas>>

DisconnectPanics(t) ==
  /\ At(t, "disconnect")
  /\ ~ netInit
  /\ task' = "boot" /\ pc' = "idle"
  /\ RestartRam
  /\ Works
  /\ UNCHANGED <<memVars, wake, interval, db, stored, uploads, cutOff, envVars>>

-----------------------------------------------------------------------------------
(***********************************************************************************)
(* task_measure_config, once it has its configuration                              *)
(***********************************************************************************)

\* Mutant of ConfigSaves: the state is not saved.
ConfigSavesNoState ==
  /\ At("config", "hatch") /\ Save("hatch", config, "sleep")
  /\ UNCHANGED <<r, bleVars, ramVars, dbVars, envVars, meas>>

ConfigSaves ==
  /\ \/ At("config", "hatch") /\ Save("hatch", config, "state")
     \/ At("config", "state") /\ Save("state", "MEASURE", "sleep")
  /\ UNCHANGED <<r, bleVars, ramVars, dbVars, envVars, meas>>

\* Mutant of ConfigSleep: as after pairing, without the timer.
ConfigSleepButton == At("config", "sleep") /\ Sleep({"button"}, "Minute")

ConfigSleep == At("config", "sleep") /\ Sleep({"timer", "button"}, "Minute")

-----------------------------------------------------------------------------------
(***********************************************************************************)
(* task_measure                                                                    *)
(***********************************************************************************)

InDb == {db[i] : i \in 1..Len(db)}

\* hal_init and the BME680 reading; m is a measurement the log does not hold.
ReadSensor(m) ==
  /\ At("measure", "sensor")
  /\ m \notin InDb
  /\ meas' = m
  /\ stored' = stored \ {m}
  /\ uploads' = [uploads EXCEPT ![m] = 0]
  /\ Goto("wifi")
  /\ Works
  /\ UNCHANGED <<memVars, r, bleVars, ramVars, db, pos, cutOff, envVars>>

\* The BME680 does not answer; or the I2C driver does not install, which traps.
SensorFails ==
  /\ At("measure", "sensor")
  /\ Fails
  /\ \/ r' = FALSE /\ Goto("config")
     \/ task' = "halted" /\ pc' = "idle" /\ UNCHANGED <<r, wake, interval>>
  /\ UNCHANGED <<memVars, bleVars, ramVars, dbVars, envVars, meas>>

\* The statement after the configuration block, by its guards.
AfterConfig(ok) == IF ~ ok THEN "disconnect" ELSE IF isLocal THEN "time" ELSE "mqtt"

\* _config goes to flash, also when the get failed and nothing was received into it.
MeasureSaveConfig ==
  /\ At("measure", "config")
  /\ isShadow
  /\ Save("hatch", config, AfterConfig(r))
  /\ UNCHANGED <<r, bleVars, ramVars, dbVars, envVars, meas>>

\* Mutant of MeasureLoadConfig: it goes on with the default interval.
MeasureLoadConfigGoesOn ==
  /\ At("measure", "config")
  /\ ~ isShadow
  /\ LET c == IF Whole("hatch") THEN flash["hatch"] ELSE "Zero" IN
       config' = IF IsValid(c) THEN c ELSE "Default"
  /\ Goto(AfterConfig(r))
  /\ Works
  /\ UNCHANGED <<memVars, r, bleVars, isLocal, isShadow, netInit, dbVars, envVars, meas>>

\* The configuration comes from flash; without a UUID in it the default interval is
\* taken and nothing further is done.
MeasureLoadConfig ==
  /\ At("measure", "config")
  /\ ~ isShadow
  /\ \E c \in Configs :
       /\ \/ c = (IF Whole("hatch") THEN flash["hatch"] ELSE "Zero") /\ Works
          \/ c = "Zero" /\ IoFaults /\ Fails
       /\ config' = IF IsValid(c) THEN c ELSE "Default"
       /\ r' = (r /\ IsValid(c))
  /\ Goto(AfterConfig(r'))
  /\ UNCHANGED <<memVars, bleVars, isLocal, isShadow, netInit, dbVars, envVars, meas>>

\* aws_mqtt_init: without a connection the measurement is a local one; a client that
\* cannot be set up is trapped.
MqttInit ==
  /\ At("measure", "mqtt")
  /\ \/ Works /\ Goto("time") /\ UNCHANGED isLocal
     \/ Fails /\ Goto("time") /\ isLocal' = TRUE
     \/ Fails /\ task' = "halted" /\ pc' = "idle" /\ UNCHANGED <<isLocal, wake, interval>>
  /\ UNCHANGED <<memVars, r, bleVars, config, isShadow, netInit, dbVars, envVars, meas>>

\* The time is not known: the measurement is dropped.
TimeInvalid ==
  /\ At("measure", "time")
  /\ ~ clockOk
  /\ r' = FALSE
  /\ Goto("disconnect")
  /\ Works
  /\ UNCHANGED <<memVars, bleVars, ramVars, dbVars, envVars, meas>>

\* Mutant of EndReached: back to pairing.
EndReachedUnpairs ==
  /\ At("measure", "time")
  /\ clockOk
  /\ config \in ended
  /\ Save("state", "BLE_CONFIG", "disconnect")
  /\ UNCHANGED <<r, bleVars, ramVars, dbVars, envVars, meas>>

\* The end timestamp is reached: wait for the next hatch from the next boot on.
EndReached ==
  /\ At("measure", "time")
  /\ clockOk
  /\ config \in ended
  /\ Save("state", "MEASURE_CONFIG", "disconnect")
  /\ UNCHANGED <<r, bleVars, ramVars, dbVars, envVars, meas>>

InRange ==
  /\ At("measure", "time")
  /\ clockOk
  /\ config \notin ended
  /\ Goto(IF isLocal THEN "store" ELSE "publish")
  /\ Works
  /\ UNCHANGED <<memVars, r, bleVars, ramVars, dbVars, envVars, meas>>

\* aws_mqtt_publish(m) returned true; counted up to "twice or more".
Published(m) ==
  uploads' = [uploads EXCEPT ![m] = IF uploads[m] = 0 THEN 1 ELSE 2]

\* _publish_measurements: the new measurement first.
PublishCurrent ==
  /\ At("measure", "publish")
  /\ \/ /\ Works
        /\ Published(meas)
        /\ pos' = 1
        /\ Goto(IF db = <<>> THEN "disconnect" ELSE "upload")
        /\ UNCHANGED r
     \/ /\ Fails
        /\ r' = FALSE
        /\ Goto("disconnect")
        /\ UNCHANGED <<pos, uploads>>
     \* sent, but the log cannot be opened (when _total is what fails, r stays true,
     \* but nothing looks at it any more)
     \/ /\ IoFaults /\ Fails
        /\ Published(meas)
        /\ Goto("disconnect")
        /\ r' = FALSE
        /\ UNCHANGED pos
  /\ UNCHANGED <<memVars, bleVars, ramVars, db, stored, cutOff, envVars, meas>>

\* The backlog, one record after the other, until one cannot be read or sent.
UploadEntry ==
  /\ At("measure", "upload")
  /\ \/ /\ Works
        /\ Published(db[pos])
        /\ pos' = pos + 1
        /\ Goto(IF pos = Len(db) THEN "close" ELSE "upload")
        /\ UNCHANGED <<r, cutOff>>
     \/ /\ Fails
        /\ r' = FALSE
        /\ cutOff' = TRUE
        /\ Goto("close")
        /\ UNCHANGED <<pos, uploads>>
  /\ UNCHANGED <<memVars, bleVars, ramVars, db, stored, envVars, meas>>

\* Mutant of UploadClose: the log is deleted whether or not the upload succeeded.
UploadCloseDeletes ==
  /\ At("measure", "close")
  /\ db' = <<>>
  /\ Goto("disconnect")
  /\ Works
  /\ UNCHANGED <<memVars, r, bleVars, ramVars, pos, stored, uploads, cutOff, envVars, meas>>

\* Mutant of UploadClose: the log is kept after the upload.
UploadCloseKeeps ==
  /\ At("measure", "close")
  /\ Goto("disconnect")
  /\ Works
  /\ UNCHANGED <<memVars, r, bleVars, ramVars, dbVars, envVars, meas>>

\* Only a backlog that was sent to its end is deleted; the deletion may fail.
UploadClose ==
  /\ At("measure", "close")
  /\ \/ db' = (IF r THEN <<>> ELSE db) /\ Works /\ UNCHANGED cutOff
     \/ r /\ IoFaults /\ Fails /\ cutOff' = TRUE /\ UNCHANGED db
  /\ Goto("disconnect")
  /\ UNCHANGED <<memVars, r, bleVars, ramVars, pos, stored, uploads, envVars, meas>>

\* memory_measurement_db_add, its result ignored.
StoreLocally ==
  /\ At("measure", "store")
  /\ \/ /\ Len(db) < DbCapacity /\ Works
        /\ db' = Append(db, meas)
        /\ stored' = stored \cup {meas}
     \/ /\ IF Len(db) < DbCapacity THEN IoFaults /\ Fails ELSE Works
        /\ UNCHANGED <<db, stored>>
  /\ Goto("disconnect")
  /\ UNCHANGED <<memVars, r, bleVars, ramVars, pos, uploads, cutOff, envVars, meas>>

\* hal_deep_sleep_timer(_config.measure_interval_sec)
MeasureSleep == At("measure", "sleep") /\ Sleep({"timer"}, config)

-----------------------------------------------------------------------------------
Boot == BootKnown \/ BootUnknown \/ BootHalts

BleTask == BleInit \/ BleInitButton \/ BleWait \/ BleSaves \/ BleSleep

Online(t) ==
  \/ LoadCreds(t) \/ ConnectWifi(t)
  \/ ShadowInit(t) \/ ShadowGet(t)
  \/ Disconnect(t) \/ DisconnectPanics(t)

ConfigTask == Online("config") \/ ConfigSaves \/ ConfigSleep

MeasureTask ==
  \/ Online("measure")
  \/ (\E m \in Meas : ReadSensor(m)) \/ SensorFails
  \/ MeasureSaveConfig \/ MeasureLoadConfig
  \/ MqttInit
  \/ TimeInvalid \/ EndReached \/ InRange
  \/ PublishCurrent \/ UploadEntry \/ UploadClose
  \/ StoreLocally
  \/ MeasureSleep

\* What the program itself does next.
Program == CompleteWrite \/ Boot \/ BleTask \/ ConfigTask \/ MeasureTask

CloudReplies == \E t \in {"measure", "config"}, c \in Configs : ShadowReply(t, c)

Environment ==
  \/ CloudReplies
  \/ \E c \in Creds, keys \in {{"ssid"}, {"pass"}, {"ssid", "pass"}} : PhoneWrites(c, keys)
  \/ ButtonPress
  \/ \E source \in {"timer", "button"} : WakeUp(source)
  \/ \E c \in Configs : HatchEnds(c)
  \/ PowerLoss

Next == Program \/ Environment

Spec == Init /\ [][Next]_vars

-----------------------------------------------------------------------------------
(***********************************************************************************)
(* Safety                                                                          *)
(***********************************************************************************)

Paired == {"MEASURE", "MEASURE_CONFIG"}

(***********************************************************************************)
(* A stored state that makes the Peep use WiFi implies stored credentials, however *)
(* the power failed in between: the pairing task saves the state last.  (A failed  *)
(* write goes unnoticed there and voids this.)                                     *)
(***********************************************************************************)
CredsBeforeState ==
  flash["state"] \in Paired /\ ~ ioError => Whole("ssid") /\ Whole("pass")

(***********************************************************************************)
(* A measurement that the log accepted is in the log until it has been published:  *)
(* across failed uploads, reboots, failed deletions and losses of power, nothing   *)
(* deletes a record of the backlog that was not sent.                              *)
(***********************************************************************************)
StoredNotLost == \A m \in stored : m \in InDb \/ uploads[m] > 0

(***********************************************************************************)
(* A record is uploaded twice only because an upload was cut off, by a failure or  *)
(* a loss of power before the log was deleted, and is repeated from its start.     *)
(***********************************************************************************)
UploadedOnce == ~ cutOff => \A m \in Meas : uploads[m] < 2

(***********************************************************************************)
(* The pairing task saves _ssid and _pass while the Bluetooth task may still fill  *)
(* them (task_ble_config_wifi_credentials.c:146).  Past the two saves, what is     *)
(* stored is what the buffers hold, both from before, unless SYNC_BIT is set       *)
(* again: a message that came too late can be told, although no one looks.         *)
(***********************************************************************************)
LateWritesAreSignalled ==
  task = "ble" /\ pc \in {"hatch", "state"} /\ "SYNC" \notin bits /\ ~ ioError
    => Stored("ssid") = ramSsid /\ Stored("pass") = ramPass

(***********************************************************************************)
(* The pairing task ignores a failed save of the credentials and saves its state   *)
(* all the same.  With an ssid or password that cannot be read, a later boot does  *)
(* not reach sensor, network or flash, nor its deep sleep: it goes from the        *)
(* credentials to wifi_disconnect, which resets the chip.                          *)
(***********************************************************************************)
UnreadableCredsReboot ==
  task \in {"measure", "config"} /\ ~ (Readable("ssid") /\ Readable("pass"))
    => pc \in {"creds", "config", "disconnect"} /\ ~ netInit /\ writing = NoWrite

(***********************************************************************************)
(* Nothing is published, and nothing put by for publishing, under a configuration  *)
(* that lacks its end timestamp or under the one made up when there is none: the   *)
(* all-zero _config of a failed shadow get, a torn one and the default all end up  *)
(* elsewhere.                                                                      *)
(***********************************************************************************)
InRangeOfAHatch ==
  task = "measure" /\ pc \in {"publish", "upload", "store"}
    => config \in Hatches \cup {"NoUuid"}

(***********************************************************************************)
(* A sleeping Peep whose state is MEASURE has its timer armed: no task leaves a    *)
(* measuring device to wake by the push button alone.                              *)
(***********************************************************************************)
MeasuringWakesByTimer ==
  task = "asleep" /\ flash["state"] = "MEASURE" => "timer" \in wake

(***********************************************************************************)
(* The stored state follows BLE_CONFIG -> MEASURE_CONFIG -> MEASURE ->             *)
(* MEASURE_CONFIG; pairing is forgotten only when the state in flash is damaged or *)
(* could not be read.                                                              *)
(***********************************************************************************)
StateFollows ==
  [][ writing' # writing /\ writing'.item = "state" =>
        LET old == flash["state"]  new == writing'.val IN
        \/ new = "BLE_CONFIG"     /\ (old \in Damage \/ faults' > faults)
        \/ new = "MEASURE_CONFIG" /\ old \in {"BLE_CONFIG", "MEASURE"} \cup (IF ioError THEN Damage ELSE {})
        \/ new = "MEASURE"        /\ old = "MEASURE_CONFIG" ]_vars

(***********************************************************************************)
(* task_measure.c:357, "haven't reached the end, need to push this measurement to  *)
(* the cloud": a boot that found the end not reached does not go back to sleep     *)
(* with the measurement neither published nor in the log.                          *)
(***********************************************************************************)
PushedOrKept ==
  [][ task = "measure" /\ pc \in {"publish", "upload", "close", "store"} /\ pc' = "disconnect"
        /\ Len(db) < DbCapacity
        => uploads'[meas] > 0 \/ meas \in InDb' ]_vars

(***********************************************************************************)
(* task_measure.c:314, "Can't get config from AWS nor is there a previous config   *)
(* stored in flash memory. We'll go to sleep for awhile and then try again": a     *)
(* measuring boot that ends without a configuration sleeps the default interval.   *)
(***********************************************************************************)
SleepsForAWhile ==
  [][ task = "measure" /\ task' = "asleep" /\ ~ IsValid(config) => interval' = "Default" ]_vars

-----------------------------------------------------------------------------------
(***********************************************************************************)
(* Liveness                                                                        *)
(***********************************************************************************)

(***********************************************************************************)
(* The scheduler runs the task that is ready and the sleep timer fires.            *)
(***********************************************************************************)
Fairness == WF_vars(Program) /\ WF_vars(WakeUp("timer"))

FairSpec == Spec /\ Fairness

(***********************************************************************************)
(* An owner who is needed presses the button and, sooner or later, sends the       *)
(* credentials to a waiting Peep; the shadow service answers a pending get, and    *)
(* not always with a configuration that is of no use.                              *)
(***********************************************************************************)
OwnerHelps ==
  /\ WF_vars(WakeUp("button") /\ "timer" \notin wake)
  /\ SF_vars(pc = "wait" /\ \E c \in Creds : PhoneWrites(c, {"ssid", "pass"}))

CloudAnswers ==
  /\ WF_vars(CloudReplies)
  /\ SF_vars(\E c \in Hatches : c \notin ended /\ ShadowReply("measure", c))

HelpedSpec == FairSpec /\ OwnerHelps /\ CloudAnswers

(***********************************************************************************)
(* task_measure.c:278 and task_measure_config.c:184 log "AWS MQTT shadow get       *)
(* timeout %d seconds": a boot that asked for the shadow does not wait for ever.   *)
(***********************************************************************************)
ShadowGetEnds == pc = "poll" ~> pc # "poll"

(***********************************************************************************)
(* The two places where a Peep stays until its power is cycled: the traps of       *)
(* app_main and of hal_init, and pairing after ble_init failed.                    *)
(***********************************************************************************)
Stranded ==
  task = "halted" \/ (task = "ble" /\ pc = "wait" /\ "ble" \notin devices)

(***********************************************************************************)
(* With the owner and the cloud answering and failures ending some day, a backlog  *)
(* is uploaded and deleted, through all reboots, re-pairings and hatches in        *)
(* between, unless no hatch is left to be measured or the Peep is stranded.        *)
(***********************************************************************************)
BacklogDrains == db # <<>> ~> db = <<>> \/ Hatches \subseteq ended \/ Stranded

(***********************************************************************************)
(* A paired Peep that waits for a hatch gets to measure, unless a power loss       *)
(* destroys its stored state first or it is stranded.                              *)
(***********************************************************************************)
PairedMeasures ==
  flash["state"] = "MEASURE_CONFIG"
    ~> flash["state"] = "MEASURE" \/ Stranded

-----------------------------------------------------------------------------------
(***********************************************************************************)
(* The promise kept                                                                *)
(***********************************************************************************)

\* The phase that a stored state stands for.
PhaseOf(state) ==
  CASE state = "BLE_CONFIG" -> "unpaired"
    [] state = "MEASURE_CONFIG" -> "waiting"
    [] state = "MEASURE" -> "measuring"
    [] OTHER -> "blank"

\* While a state is being saved, the Peep is in the phase it is about to leave.
Phase ==
  IF writing.item # "state" THEN PhaseOf(flash["state"])
  ELSE CASE writing.val = "BLE_CONFIG" -> "blank"
         [] writing.val = "MEASURE_CONFIG" -> (IF task = "ble" THEN "unpaired" ELSE "measuring")
         [] writing.val = "MEASURE" -> "waiting"

Kept == {m \in InDb : uploads[m] = 0}
Sent == {m \in Meas : uploads[m] > 0}

Promise == INSTANCE PeepPromise WITH phase <- Phase, kept <- Kept,
                                      sent <- Sent, harm <- faults + losses

(***********************************************************************************)
(* Every step of a Peep is a step of PeepPromise or leaves it alone: through       *)
(* failing calls, reboots and losses of power a measurement that was put by is     *)
(* given up only by being sent, nothing is sent or put by outside a hatch, and a   *)
(* phase is left for the next one, or for pairing when something failed.           *)
(***********************************************************************************)
KeepsPromise == Promise!Spec

===================================================================================
