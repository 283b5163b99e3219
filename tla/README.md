# Hatchtrack Peep firmware in TLA+

A Peep is a small battery-powered ESP32 that lies among eggs, measures temperature, humidity, pressure and gas, and
publishes the measurements over WiFi and MQTT until the hatch is over. It wakes, does one thing and goes back to deep
sleep. What is hard about it is less what one boot does than what many boots do in sequence, with power that may fail at
any moment, flash writes whose results nobody looks at, a phone that writes over BLE beside the task, and a network that
answers late or not at all.

This directory models that behaviour, checks it with TLC and proves its safety with TLAPS. `PROJECT.json` lists the
components, the runs, the mutants that show that each property can fail, the lines of source each definition stands
for, the findings, the hazards and the theorems.

## The system

| component | source | state it keeps | operations |
|---|---|---|---|
| boot dispatcher | `main/main.c` | none | reads the stored state, creates the task for it |
| named items | `peep/memory.c` | files on SPIFFS: state, ssid, password, hatch configuration | get, set (truncate, then write) |
| pairing task | `main/task_ble_config_wifi_credentials.c` | `_ssid`, `_pass`, an event group | waits for credentials or the button, saves four items, sleeps |
| configuration task | `main/task_measure_config.c` | `_config`, an event group | fetches the device shadow, saves configuration and state, sleeps a minute |
| measuring task | `main/task_measure.c` | `_config`, locals `r`, `is_local_measure`, `is_shadow_connected` | measures, refreshes the configuration, publishes or stores, sleeps |
| measurement log | `peep/memory_measurement_db.c` | one file of fixed-size records, `_fp` | add, total, read_open / read_entry / read_close, delete_all |
| WiFi | `wifi/wifi.c` | event group, `_is_active` | connect (with SNTP), disconnect, event handler |
| BLE server | `ble/ble_server.c` | advertising flags, attribute handles, `_write_buf`, the descriptor | init, GAP and GATT events |
| AWS client | `iot/aws_mqtt.c`, `iot/aws_mqtt_shadow.c` | two library clients with one client ID | init, publish, shadow get and poll |
| JSON | `main/json_parse.c` | none | credentials message, configuration message |
| hardware | `hal/hal.c` | sensor handle | sensor, push button, three kinds of deep sleep |
| UART server (not linked at present) | `peep/uart_server.c` | `_server`: task, callback, receive buffer | enable, disable, register, receiving task, transmit |
| host tool | `util/peep_uart_config/peep_uart_config.c` | port, message, answer, buffer | one message and one answer per option |

They interact by direct calls; by callbacks that run in other tasks (the Bluetooth task calls the write callback, the
system event task calls the WiFi handler, an ISR calls the button callback, the shadow library calls back from its
poll), which share event groups and static buffers with the task that waits; and, between boots, only through flash
(the items and the log), the RTC and the armed wakeup sources.

The boots follow the stored state: `BLE_CONFIG` (pairing) → `MEASURE_CONFIG` (wait for a hatch) → `MEASURE` → (hatch
over) → `MEASURE_CONFIG`.

## Modules

| module | models | checked as |
|---|---|---|
| `Memory` | `memory.c`: items, damage left by power losses and short writes | part of `Peep` |
| `Peep` | the whole device across boots: dispatcher, three tasks, callbacks, log as a sequence, environment | `MCPeep` |
| `Peep_proofs` | theorems about `Peep`: types, the credentials and saves of pairing, the stored state | TLAPS |
| `PeepPromise` | abstract specification: what an owner is promised, without boots, tasks and flash | refined by `Peep` |
| `PeepPromise_proofs` | extends `Peep_proofs` by its measurements (the backlog, the configuration they belong to) and the refinement | TLAPS |
| `MeasurementLog` | abstract specification of the log | refined by `MeasurementDb` |
| `MeasurementDb` | `memory_measurement_db.c` byte by byte, driven as `task_measure` does | `MCMeasurementDb` |
| `MeasurementDb_proofs` | theorems about it, the refinement of `MeasurementLog` among them | TLAPS |
| `BleServer` | `ble_server.c` with the stack's answers in any order, long writes, and the callback registration | `MCBleServer` |
| `BleAttributes` | extends `BleServer` by what phones read: characteristic and descriptor | `MCBleServer` |
| `BleServer_proofs` | theorems about both | TLAPS |
| `Wifi` | `wifi.c`: the calling task beside the event handler | part of `Network` |
| `AwsClient` | `aws_mqtt.c` and `aws_mqtt_shadow.c`, as `task_measure` uses them, with broker and network | part of `Network` |
| `Network` | composes `Wifi` and `AwsClient`: the network of a measuring boot | itself |
| `Network_proofs` | theorems about `Wifi` and `AwsClient`, alone and in `Network` | TLAPS |
| `JsonMessages` | `json_parse.c`, the cut of `_shadow_get_cb` before it, the copies behind it and, with `SleepInterval`, the sleep that follows | `MCJsonMessages` |
| `JsonMessages_proofs` | theorems about `SleepInterval` and `JsonMessages` | TLAPS |
| `UartServer` | `uart_server.c` beside a client and a line | `MCUartServer` |
| `UartServer_proofs` | theorems about it | TLAPS |
| `PeepUartConfig` | the host tool beside a device | itself |
| `PeepUartConfig_proofs` | theorems about it | TLAPS |
| `SleepInterval` | minutes of the configuration → seconds → 32-bit microseconds | part of `JsonMessages` |

### Peep

`task` is the running task (or `"asleep"`, `"boot"`, `"halted"`), `pc` its next call; an action is one call and what
the code does with the result, up to the next call. `r`, `isLocal`, `isShadow`, `config` are the C variables. A saved
item takes two steps: `SetItem` truncates, `CompleteWrite` writes; `PowerLoss` may come between. `At` makes a task wait
for its own write. In the pairing task `PhoneWrites` and `ButtonPress` run beside it at any moment, also between the saves.

Data are abstract. A credentials message is a model value, and the ssid and the password are named by the message
they came with, so that a mixed pair is visible. A configuration is a hatch, or one of the damaged or incomplete
contents the code tells apart: `"Zero"`, `"Partial"` (UUID, no end timestamp) and `"NoUuid"`. A measurement is an
identity. Time is reduced to two facts: is the clock set, and which configurations have ended.

Failures draw on `MaxFaults`, power losses on `MaxLosses`; `IoFaults` says whether flash operations may fail. The log
of `Peep` holds whole records; what short appends do to it is `MeasurementDb`'s subject. `memory_measurement_db_add`
failing in `Peep` leaves the log unchanged. `aws_mqtt_publish` uses QoS 0: success means that the client accepted the
message, and that is what "published" means here.

`wifi_disconnect` without a `wifi_connect` before it (possible when the credentials or the sensor fail) waits on a
NULL event group; FreeRTOS asserts and the chip reboots (`DisconnectPanics`). `RESULT_TEST` and `LOGE_TRAP` loops for
ever are `task = "halted"`; those behind `malloc` and behind arming a wakeup source are left out.

### MeasurementDb and MeasurementLog

`file` is a sequence of bytes `<<measurement, place>>`, so that torn and shifted records are visible. `ReadEntry`
overwrites only as many bytes of `old` as `fread` returns and converts the count to a bool, as the code does. The
abstract log promises what `task_measure` relies on: order of adding, oldest first, emptied only after everything was
handed out, and after a cut (an append that stopped half way) only that the records in front of the cut are safe. The
refinement mapping (`Log`) takes the longest prefix of undamaged records, and counts what was published.

### BleServer

`events` holds answers of the stack on their way; any of them may be delivered next. A byte is known by message and
place. The GATT client writes a message in one write or in prepared writes, may cancel, execute or disappear. The JSON
parser's disregard of the length is `HoldsMessage`/`NothingBehind`: bytes behind the message may or may not make it
reject the whole.

### Wifi

The handler's set-bit and clear-bit calls are separate steps. The connecting task's waits are polls of one second;
`Timeout` polls stand for the 15 or 60 of the callers. `quietStop` remembers that the connection was settled when
`esp_wifi_stop` was called; `gaveUp` that the five seconds of `wifi_disconnect` ran out.

### PeepPromise

Four variables: the phase of the stored state, what is put by, what is sent, and how much has gone wrong. The refinement
mapping (`Promise` in `Peep`) takes a state that is being saved for the phase it is about to leave, the records of the
log that are not published for what is put by, and the failures and losses so far for the harm. Only a step that adds
harm may forget the pairing.

### BleAttributes

Extends `BleServer`: its steps are those of `BleServer`, with reads of both attributes and writes of the descriptor. The
stack has an attribute, and phones find it (`table`), before the event with its handle is handled (`handles`). The
handler answers by comparing handles. `wrote` remembers what the connected phone wrote.

### AwsClient

`call` is the next call of `task_measure`. The broker keeps one session per client ID, and both clients have the same, so
`session` names the one whose connection is open; `connected` is what the library believes. A cut is noticed by nobody
until the library reads (in the poll) or a write fails. The shadow client reconnects by itself in the poll; nothing
reconnects while publishing, because the library would call `_disconnect_cb` only from the poll that no task calls.

### Network

The composition: `task_measure` is in `wifi_connect`, in a client or in `wifi_disconnect`, so the steps of `Wifi` and
`AwsClient` take turns (`Online`), except that the event handler, the access point, the broker and the network go on
meanwhile. The clients talk only after `wifi_connect` returned true; a connection is opened, and a packet carried, only
while the station has an address; being thrown out may or may not cut the connection; `esp_wifi_stop` takes it along.

### JsonMessages

A text is a sequence of brackets, keys and values; jsmn's tokens are the symbols other than closing brackets. The two
parsers take them in pairs without a look at type or size; a last token without a partner reads one that was never
filled in (`LonePair`: any text, or a reset). `Meant`, `Flat` and `ValueOf` are the reference: what the text means as
JSON. Lengths of ssid and password are kept where one of the four buffers on their way counts them. The desired section
is taken to fit the 256 bytes of `_js`. A
document that was parsed is the configuration with which the boot sleeps (`Configure`, `Sleep`). Escapes inside strings, which the code copies undecoded, are below this grain.

### UartServer

The line carries units: the two of a header (magic number and version; length), then the message. `Disturb` loses a unit
or makes the client stop inside a message; both can leave the task inside a message that never comes. What is read in
the place of a length may then be any number. `"undefined"` is the task after `length - n` has wrapped, of which nothing
is said. `peep_message_header.h` is not in the repository, so `Header` is external.

### PeepUartConfig

An option becomes a message of which `payload` says how much of the argument is in it (`"all"`, the `"start"` of a file
longer than the payload, or `"none"`). The port is open, half set up or closed; a write may come out in part, a read may
bring one answer or several. The device carries a message out or refuses it and answers in turn; a message that lacks
its end takes the next one with it. `pieces` counts the messages of which only a part went out.

### SleepInterval

Microseconds are counted in units of 64, of which 2^32 and 10^6 are multiples: no precision is lost, and TLC's
integers suffice. Intervals whose seconds do not fit an `int` (68 years) are excluded by the assumption on `MaxMinutes`.

## Runs

| run | bounds | result |
|---|---|---|
| `peep_safety` | 2 credentials, 1 hatch, 2 measurements, log of 2, 2 faults, 1 power loss, flash faults; symmetric credentials and measurements | holds, 833,000 states |
| `peep_liveness` | 1 credentials, 2 hatches, 2 measurements, log of 1, 1 fault, 1 power loss, no flash faults | holds, 97,800 states |
| `shadow_get_ends`, `sleeps_for_a_while`, `pushed_or_kept` | the liveness instance with 1 hatch, without power losses | violated, see Findings |
| `measurement_db` | 3 measurements, records of 3 bytes, 11 bytes of room, 3 faults | holds, 272,000 states |
| `ble_server` | a message of 2 and one of 4 bytes, MTU 3, buffer 5, 2 refusals; 3 values of the descriptor, one of two bytes | holds, 208,000 states |
| `ble_executes` | the same, 1 refusal | violated |
| `json_messages` | objects of up to 3 members out of 9 (configuration) or 8 (credentials), flat and nested, with and without a reported section before or behind; 7 tokens; intervals about every wrap of the timer up to a day | holds, 38,300 states |
| `network` | 4 polls, 2 drops; 2 attempts, 3 publications, 2 cuts | holds, 279,000 states |
| `uart_server` | messages of 1 to 3 units, a buffer of 2, 3 units ahead, 2 faults | holds, 29,400 states |
| `peep_uart_config` | 4 options out of a text, a file, a number and the query | holds, 47,400 states |

Why the bounds are enough. *Peep*: in `peep_safety` a log of two fills up, is uploaded in two steps and interrupted between them;
identities are reused once they are out of the log, so boots go on for ever within the finite instance. Two faults reach
every pair of failures, for instance an unnoticed failing save in one boot and a failing call in a later one; with one
power loss on top, crashes fall into every window of both. Two credentials are needed to mix. `peep_liveness` has a log
of one, which is full when the second measurement comes, and two hatches, to change hatch over a backlog. The safety
properties that the size of these sets could matter to are theorems for sets of every size.
*MeasurementDb*: 11 bytes are three records
and a rest, so the log gets full in the middle of a record, and a torn record can be followed by whole ones.
*BleServer*: one message fits into a write and the other does not; the buffer is longer than the larger and shorter
than both, so that what an abandoned write leaves makes the next overflow. *Network*: four polls allow the connection, the
time and both timeouts to fall in any order, with two drops a reconnection that fails again; two attempts are a retry
and a failure of it, three publications have a first, an inner and a last, two cuts hit both clients. *JsonMessages*: three
members are the fewest with a doubled name around another, and seven tokens the fewest that three flat members fill
and a text with more than that exceeds; the loops look at no more than two tokens at a time; the timer
wraps at 71.6, 143.2 and 214.7 minutes, and minutes on both sides of each are asked for.
*UartServer*: one message is shorter than the buffer, one fills it and one is refused; two faults leave the task in the
wrong place twice, once on the way back. *PeepUartConfig*: with four options an answer could come three messages late, and behind two torn messages there is still an
option to which the wrong answer is shown.
The values of the descriptor (*BleAttributes*) are none, a subscription, and one with a second byte.

`CHECK_DEADLOCK FALSE` is set where the system really stops: a halted device, a pairing task without BLE, the end of the
boot in `Network`, a tool that has exited or waits for a device that does not answer, a UART server that was disabled,
a BLE server to which the stack refused advertising. `measurement_db` and `json_messages` are checked for deadlock.

### What the properties say

* `CredsBeforeState`: no power loss during pairing leaves a state that needs WiFi without whole credentials, because
  the state is saved last.
* `StoredNotLost`, `UploadedOnce`: accepted measurements stay in the log until published; a second publication
  happens only after an upload that was cut off.
* `InRangeOfAHatch`: no all-zero, torn or default configuration leads to publishing or storing.
* `MeasuringWakesByTimer`: no sleeping Peep in `MEASURE` waits for its button alone.
* `StateFollows`: the order of states, and that pairing is forgotten only through damage or an unreadable item.
* `BacklogDrains`, `PairedMeasures`: progress across boots.
* `LateWritesAreSignalled`: what pairing stores is what its buffers hold, or the bit says that they changed since.
* `UnreadableCredsReboot`: where an ignored failed save leads: to boots that touch nothing and end in `wifi_disconnect`.
* `KeepsPromise`: `Peep` implements `PeepPromise`.
* `PublishesWhatItRead`, `ImplementsLog`: the log file keeps the log's promise.
* `OnePieceArrives`, `CanBeFound`: long writes of one piece arrive, and the Peep advertises or is connected again and again.
* `ReadsItsOwn`, `UuidIsRead`: no phone sees the subscription of the one before; refusals during the set-up do not last.
* `DesiredIsTaken`, `OthersAreRefused`, `ConnectsAsSent`, `TextIsDealtWith`: the JSON messages against what they mean.
* `SleepsTheInterval`, `SleepsAsAsked`: from the document to the timer: exact up to 71 minutes, too short beyond.
* `NoGaps`, `PublishesOnItsSession`: publishing, in spite of QoS 0 and a shared client ID.
* `HandsOverInOrder`, `HandsOverAgain`: messages over the serial line, undisturbed and after disturbances.
* `ShowsItsOwnAnswer`: the host tool pairs messages and answers without identities, as long as at most one was cut short.
* `TrueMeansTime`, `BitsExclude`, `ReportedBeforeDeleted`: WiFi.
* `BootEnds`: a measuring boot gets through its network to deep sleep, but for its two waits without a timeout.

### Fairness

Safety runs assume none. `peep_liveness` assumes: the scheduler runs the ready task and the sleep timer fires (`WF` of
`Program` and of the timer's wakeup); an owner presses the button of a Peep that sleeps without a timer (`WF`) and
sends a waiting Peep both credentials sooner or later (`SF`, because the button may end each wait); the cloud
answers a pending get (`WF`), and not for ever with an ended or unusable configuration when a hatch is still going on
(`SF`). These are assumptions about people and a service, named `OwnerHelps` and `CloudAnswers`; without them the
properties are false, as `shadow_get_ends` shows. With one credentials message the owner always sends the same ones;
with two, mixed credentials can strand a Peep that no timer or state change frees, which is the hazard listed at the
saves. `Stranded` names the places where only cycling the power helps, and excepts them.
`BleAttributes` assumes that the pairing task runs and the stack delivers its events, `Network` that the measuring task
and the system event task are scheduled, `JsonMessages` that its one task is. `UartServer` assumes that its task reads
what there is, that the client goes on sending (`WF`), and that it pauses between messages again and again (`SF`): a
client that never leaves 100 ms between two messages can keep a task that lost its place there for ever. A server that
is disabled, has no callback or is past the wrap is excepted in the property itself. Nothing is assumed of phones,
access points, time servers, brokers, networks and devices.

## Findings

Four runs check what a comment or a log line of the source says, and TLC shows the code does otherwise:

1. `shadow_get_ends` (`task_measure.c:278`): the logged timeout of the shadow get ends nothing; without a usable
   document the Peep polls for ever on its battery.
2. `sleeps_for_a_while` (`task_measure.c:314`): when the get fails, the zeroed configuration is written over the stored
   one and the Peep sleeps zero seconds.
3. `pushed_or_kept` (`task_measure.c:357`): a measurement whose publication fails is dropped, not stored.
4. `ble_executes` (`ble_server.c:375`): a message in two prepared writes is overwritten in the buffer and lost.

Other behaviour worth knowing, which the models follow and no run of its own is about:

* With unreadable credentials, or a sensor that does not answer, a measuring boot reboots in `wifi_disconnect` instead of
  sleeping, because WiFi was not started (`UnreadableCredsReboot`; `task_measure.c:316` says it sleeps for a while).
* Intervals of 72 minutes and more wrap at 32 bits, although `hal.c:300` logs them whole (`SleepsTheInterval`).
* The key documented in `json_parse.h:28`, `measureIntervalSec`, is not the one the parser reads (`Assign`).
* The two numeric options of the host tool (`peep_uart_config.c:65`) are sent with an empty payload, and the device's
  success is taken for theirs (`Amounts`).
* When two messages of the host tool were cut short, the device answers both with one answer, and from then on every option
  may show the answer to the one before it (`peep_uart_config.c:224`). `ShowsItsOwnAnswer` therefore ends at the second
  piece; with one piece it is a theorem.
* The second byte of the BLE descriptor is shifted out when it is read (`ble_server.c:275`, `ValueRead`).

## Proofs

TLAPS checks all theorems completely: every safety invariant and action property of the passing runs, and both
refinements. They use only the assumptions named in the modules with the constants:

* the kinds of values do not overlap: the damaged configurations are none of the hatches, `"None"` and `"Garbled"` are no
  measurements, the empty text has no length and is no number;
* bounds are natural numbers, values of the descriptor have 16 bits, texts are finite sequences of strings, messages of
  the serial line are not empty;
* the shadow documents are JSON up to where they may be cut (`DocumentsAssumption`): in an object every `}` has its
  `{`, and a closing bracket does not follow `"desired"`. The service generates them. Nothing is assumed of what phones
  write, and the assumption is used by `OthersAreRefused` alone.

The invariants named here are inductive unless it is said that they rest on another.

About `Peep` (`Peep_proofs`, then `PeepPromise_proofs`):

* `TypeCorrect`: `Spec => []TypeOK`. `TypeOK` is not inductive: that a save stores a credential, that a published
  measurement exists and that an upload reads inside the log depend on where the task is. `CInv` adds these facts
  (`Control`); each lemma `CInv...` treats one group of actions.
* `CredsBeforeStateHolds`: the inductive `CredsInv` says, unless a write failed
  unnoticed: only the pairing task writes credentials, while it runs the stored state is not one that uses them
  (or the credentials before the present save are whole), and each save begins when those before it are complete.
* `LateWritesAreSignalledHolds`: `SavedAsHeld` says of every point from the first save on, and not only of the last ones,
  that an item that was saved is what its buffer holds or `SYNC_BIT` is set.
* `UnreadableCredsRebootHolds`: `UnreadableStops` adds that `r` stays false once the credentials were looked for and that
  no shadow client exists, `OfflineUntilWifi` that a boot begins without network.
* `MeasuringWakesByTimerHolds`, `StateFollowsHolds`: both from `StateInv`, whose core `StateOfTask` says that a running
  task fits the stored state until it rewrites it (or, in pairing, that the state is damaged after a failed operation, or
  still being written). `StateWriters` finds the four saves of the state among all actions; the action property
  follows for each from the state its task found.
* `StoredNotLostHolds`: the deletion of the log is what could break it, so `BacklogInv` adds
  `UploadedSoFar`: during an upload every record before the read position has been published, and at `"close"` with `r`
  still true every record has. Steps that touch neither the log nor an upload are treated together (`OffBacklog`).
* `InRangeOfAHatchHolds`: `RangeInv` adds that the zeroed and the torn configuration have
  ended from the beginning, `Control` that the default one only occurs in a boot that is already giving up.
* `UploadedOnceHolds`: `OnceInv` adds that the log holds no measurement twice and not the one
  being taken, and that, as long as no upload was cut off, its records are unpublished from the read position on and an
  upload that is still under way has gone well. Steps off the measurements are treated together (`OffOnce`).
* `PromiseKept`: `Spec => KeepsPromise`, the refinement. From the invariants above: each group of actions is shown to
  leave the mapped variables alone or to be one of `PeepPromise`'s steps.

About the log (`MeasurementDb_proofs`):

* `PublishesWhatItReadHolds` from `Reads`: the records still to be read fit into the rest of the
  file. That is why the bool of `read_entry`, which takes a short read for a success, does no harm here.
* `LogImplemented`: `Spec => ImplementsLog`, the refinement. The mapped log is the longest run of whole records from the
  start of the file. `IntactUpTo` describes it by places in the file, so that no induction over the file is needed: the
  last whole record is a maximum of a finite set of numbers, which well-foundedness of `<` gives. An append of a whole
  record to a file without a cut lengthens the run by one; behind a part, whatever is appended makes no record with it
  (`NotARecord`, since the bytes of a record know their places), so the run stays. `Uploaded` ties what was published
  to the phase of the upload and the position in the file. Then `LogStep` maps each action.

About the network (`Network_proofs`):

* `TypeCorrect` of `Wifi` needs to know which values of `left` and `retry` each wait starts from (`Waits`);
  `TrueMeansTimeHolds` ties what is left of the timeout to the clock (`TimeInv`); `BitsExcludeHolds` says which bits each
  half of the handler may find (`BitsInv`); `ReportedBeforeDeletedHolds` rests on an invariant about the queue: which
  events can be behind which, given what the driver does (`DriverInv`, `QuietInv`).
* `NoGapsHolds` and `PublishesOnItsSessionHolds` come from one invariant on session, `inflight` and
  `received`: what is under way follows what arrived, without a gap, and belongs to the publisher's open session.
* `WifiInNetwork` and `ClientsInNetwork`: every step of `Network` is one of
  the component or leaves its variables alone, so the invariants hold in the composition.

About messages (`JsonMessages_proofs`, `UartServer_proofs`, `PeepUartConfig_proofs`, `BleServer_proofs`):

* `SleepsTheIntervalHolds`: from `Computed`, what each phase has computed, and the arithmetic lemma `Wraps`;
  `SleepsTheIntervalOfMessages` carries it over to intervals that come out of documents.
* `JsonTypeCorrect` from `Control`, `Scanning` and `Counted`: in which phase which of the two parsers holds which text, and how far its
  index may be.
* `DesiredIsTakenHolds`: `SectionGiven` says that the parser was given the text up to the first `}`, and a flat object ends
  there; `ReadSoFar` says that before the pair `k` every member holds the last of its values among the pairs before `k`,
  and `Untouched` that nothing was written before that. `ConnectsAsSentHolds` uses the same for the credentials, with
  `Stationed` behind them, `SleepsAsAskedHolds` with `Slept`, which ties the minutes to the document.
* `OthersAreRefusedHolds`: a section cut at the first `}` that `jsmn` still accepts closes everything it opened; by
  `DocumentsAssumption` it then is the object that is meant, has one opening bracket, and its tokens fit. So with more than
  one, or with too many tokens, the parser refused it.
* `HandsOverInOrderHolds`: `OrderInv` says how what the task has not read is framed. `Framed` names, for each message that
  is due, the place where it starts on the line, with a header and the whole message from there on, and no gap
  between two; the one that is being read starts before the line by what was taken of it. Reading moves all places,
  sending adds one at the end. `TypeCorrect` holds through disturbances as well.
* `ShowsItsOwnAnswerHolds`: `CountInv` bounds what is on the line, on the way back and in the buffer by the options given.
  `OwnInv` follows the one message that is waited for: it is on the line (perhaps behind a piece), or its answer is under
  way or in the buffer; between two options nothing is. It was found not to hold beyond one piece, see Findings.
* `ReadsItsOwnHolds`: `TableInv` (a handle is known only of an attribute that is in the table) and `DescriptorInv` (the
  descriptor is what the connected phone wrote), with the arithmetic of `ValueRead`.
* `OnePieceArrivesHolds`: `OnePieceInv` says that without an abandoned write the buffer counts nothing between two
  messages, and during a message in one piece holds what was sent of it, from its start.

TLC only: liveness, because fairness and ENABLED are outside the prover: `BacklogDrains`, `PairedMeasures`, `CanBeFound`,
`UuidIsRead`, `TextIsDealtWith`, `HandsOverAgain` and `BootEnds`. The inductive invariants of the proofs have no TLC run
of their own: TLC checks the properties they imply. The definitions of the modules are written over sets of
places, first and last members and `Cardinality`, not by recursion over a text or a file, so that they can be reasoned about.

## Not modelled

* Characters: the contents of JSON strings and measurements, escapes, the inside of jsmn and nanopb.
* I2C transfers and sensor settings, most of them calls of the vendored BME680 driver; the accelerometer, whose calls are
  commented out. What the program decides on, that a sensor cannot be set up or read, is in `Peep`.
* The builds with `PEEP_TEST_STATE_*` defined, and the tests.
* Former code that is not linked: `peep/ble_server.c` (superseded by `ble/ble_server.c`), `iot/iot_mqtt.c` and `led.c`. No
  caller is left that would say how they are used. `uart_server.c` is not
  linked either, but its counterpart, the host tool, is still there, so both are modelled; `uart_server_tx` changes no state.
* `aws_mqtt_subscribe`, `unsubscribe`, `poll`, `disconnect` and the disconnect callback, indications of the BLE server, and
  `memory_delete_item`: nobody calls or registers them.
* Failing `malloc`s and `ESP_ERROR_CHECK`s of set-up calls, which abort.
* ESP-IDF, Bluedroid, SPIFFS and the AWS library are outside `src/` (their submodules are empty): they appear as choices
  of the environment.

## Plan

Done: everything in the table of modules, with the refinements and proofs above. What is left, in the order of importance:

1. Under which hatch each record of a backlog is published: the UUID is that of the configuration at the time of the
   upload, which after a change of hatch is not the one the record was taken in. It needs a variable for the hatch of each
   record in `Peep`, and all proofs about `Peep` adapted to it.
2. That `Peep`'s log of whole records is what `MeasurementLog` promises: an INSTANCE of it in `Peep`, and a theorem, so
   that the two levels of the log meet.
