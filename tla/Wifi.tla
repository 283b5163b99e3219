------------------------------------ MODULE Wifi ------------------------------------
(***********************************************************************************)
(* wifi/wifi.c: wifi_connect and wifi_disconnect in the task that calls them, once *)
(* each per boot, and beside them the event handler in the system event task,      *)
(* which shares the event group and _is_active with them.  The two tasks may run   *)
(* on different cores: the two event group calls of the handler are two steps.     *)
(*                                                                                 *)
(* Driver, access point and SNTP are the environment.  Events reach the handler in *)
(* the order the driver posts them; those it does not react to are left out.       *)
(***********************************************************************************)
EXTENDS Integers, Sequences

CONSTANTS
  Timeout,    \* timeout_sec of wifi_connect, in polls
  MaxDrops    \* bound: how often the station fails to join or is thrown out

ASSUME TimeoutAssumption == Timeout \in Nat \ {0} /\ MaxDrops \in Nat

VARIABLES
  pc,         \* where the calling task is
  result,     \* what wifi_connect returned, "None" before
  left,       \* timeout_sec, what remains of it
  retry,      \* retry of _init_time
  isActive,   \* _is_active
  group,      \* _wifi_event_group: "none", "live" or "deleted"
  bits,       \* its bits
  driver,     \* "off", "idle" (started), "joining" or "ip"
  queue,      \* events on their way to the handler
  handling,   \* the event in _event_handler and its next call, or Idle
  clockOk,    \* is the year at least 2016?
  drops,      \* how much of MaxDrops is spent
  quietStop,  \* history: esp_wifi_stop found a settled connection
  gaveUp      \* history: wifi_disconnect waited in vain

mainVars    == <<pc, result, left, retry>>
groupVars   == <<group, bits>>
eventVars   == <<queue, handling>>
historyVars == <<quietStop, gaveUp>>
vars == <<mainVars, isActive, groupVars, driver, eventVars, clockOk, drops, historyVars>>

Idle == <<"None", "idle">>

TypeOK ==
  /\ pc \in {"start", "wait", "time", "online", "stop", "stopped", "delete", "done"}
  /\ result \in {"None", "true", "false"}
  /\ left \in 0..Timeout
  /\ retry \in 0..Timeout
  /\ isActive \in BOOLEAN
  /\ group \in {"none", "live", "deleted"}
  /\ bits \subseteq {"CONNECTED", "DISCONNECT"}
  /\ driver \in {"off", "idle", "joining", "ip"}
  /\ queue \in Seq({"START", "GOT_IP", "DISCONNECTED"})
  /\ handling \in {Idle} \cup ({"GOT_IP", "DISCONNECTED"} \X {"set", "clear"})
  /\ clockOk \in BOOLEAN
  /\ drops \in 0..MaxDrops
  /\ quietStop \in BOOLEAN /\ gaveUp \in BOOLEAN

\* The RTC may have kept the time through deep sleep.
Init ==
  /\ pc = "start" /\ result = "None" /\ left = Timeout /\ retry = 0
  /\ isActive = FALSE
  /\ group = "none" /\ bits = {}
  /\ driver = "off"
  /\ queue = <<>> /\ handling = Idle
  /\ clockOk \in BOOLEAN
  /\ drops = 0
  /\ quietStop = FALSE /\ gaveUp = FALSE

-----------------------------------------------------------------------------------
(***********************************************************************************)
(* wifi_connect                                                                    *)
(***********************************************************************************)

Returns(b) == result' = b /\ pc' = "online"

ConnectStart ==
  /\ pc = "start"
  /\ pc' = "wait"
  /\ isActive' = TRUE
  /\ group' = "live"
  /\ driver' = "idle"
  /\ queue' = Append(queue, "START")
  /\ UNCHANGED <<result, left, retry, bits, handling, clockOk, drops, historyVars>>

\* xEventGroupWaitBits sees the bit, now or when it is set.
Connected ==
  /\ pc = "wait"
  /\ "CONNECTED" \in bits
  /\ pc' = "time"
  /\ UNCHANGED <<result, left, retry, isActive, groupVars, driver, eventVars, clockOk, drops, historyVars>>

\* Mutant of PollTimesOut: one more poll is made when nothing is left.
PollTimesOutLate ==
  /\ pc = "wait"
  /\ "CONNECTED" \notin bits
  /\ left' = left - 1
  /\ IF left' >= 0 THEN UNCHANGED <<pc, result>> ELSE Returns("false")
  /\ UNCHANGED <<retry, isActive, groupVars, driver, eventVars, clockOk, drops, historyVars>>

\* A second goes by without it.
PollTimesOut ==
  /\ pc = "wait"
  /\ "CONNECTED" \notin bits
  /\ left' = left - 1
  /\ IF left' > 0 THEN UNCHANGED <<pc, result>> ELSE Returns("false")
  /\ UNCHANGED <<retry, isActive, groupVars, driver, eventVars, clockOk, drops, historyVars>>

\* Mutant of InitTime: the last retry counts as a success.
InitTimeLastRetry ==
  /\ pc = "time"
  /\ retry' = IF clockOk THEN retry ELSE retry + 1
  /\ IF clockOk \/ retry' = left THEN Returns("true") ELSE UNCHANGED <<pc, result>>
  /\ UNCHANGED <<left, isActive, groupVars, driver, eventVars, clockOk, drops, historyVars>>

\* _init_time with what is left of the timeout: one look at the clock.
InitTime ==
  /\ pc = "time"
  /\ retry' = IF clockOk THEN retry ELSE retry + 1
  /\ IF clockOk \/ retry' = left
       THEN Returns(IF retry' < left THEN "true" ELSE "false")
       ELSE UNCHANGED <<pc, result>>
  /\ UNCHANGED <<left, isActive, groupVars, driver, eventVars, clockOk, drops, historyVars>>

-----------------------------------------------------------------------------------
(***********************************************************************************)
(* wifi_disconnect, some time after wifi_connect returned                          *)
(***********************************************************************************)

Deactivate ==
  /\ pc = "online"
  /\ pc' = "stop"
  /\ isActive' = FALSE
  /\ UNCHANGED <<result, left, retry, groupVars, driver, eventVars, clockOk, drops, historyVars>>

\* esp_wifi_stop: a station that is connected leaves, which is an event; one that is
\* only joining may post it as well.
Stop ==
  /\ pc = "stop"
  /\ pc' = "stopped"
  /\ driver' = "off"
  /\ \/ driver \in {"ip", "joining"} /\ queue' = Append(queue, "DISCONNECTED")
     \/ driver # "ip" /\ UNCHANGED queue
  /\ quietStop' = IF driver = "ip" /\ queue = <<>> /\ handling = Idle THEN TRUE ELSE FALSE
  /\ UNCHANGED <<result, left, retry, isActive, groupVars, handling, clockOk, drops, gaveUp>>

\* Mutant of Left: the wait ends with any bit.
LeftAnyBit ==
  /\ pc = "stopped"
  /\ bits # {}
  /\ pc' = "delete"
  /\ UNCHANGED <<result, left, retry, isActive, groupVars, driver, eventVars, clockOk, drops, historyVars>>

\* The wait for WIFI_DISCONNECT_BIT ends, maybe at once with a bit set long before.
Left ==
  /\ pc = "stopped"
  /\ "DISCONNECT" \in bits
  /\ pc' = "delete"
  /\ UNCHANGED <<result, left, retry, isActive, groupVars, driver, eventVars, clockOk, drops, historyVars>>

\* ... or after five seconds.
GiveUp ==
  /\ pc = "stopped"
  /\ "DISCONNECT" \notin bits
  /\ pc' = "delete"
  /\ gaveUp' = TRUE
  /\ UNCHANGED <<result, left, retry, isActive, groupVars, driver, eventVars, clockOk, drops, quietStop>>

Delete ==
  /\ pc = "delete"
  /\ pc' = "done"
  /\ group' = "deleted"
  /\ UNCHANGED <<result, left, retry, isActive, bits, driver, eventVars, clockOk, drops, historyVars>>

-----------------------------------------------------------------------------------
(***********************************************************************************)
(* _event_handler                                                                  *)
(***********************************************************************************)

Take(e) ==
  /\ handling = Idle
  /\ queue # <<>> /\ Head(queue) = e
  /\ queue' = Tail(queue)

\* esp_wifi_connect, which does nothing once the driver is off.
Reconnect ==
  driver' = IF isActive /\ driver = "idle" THEN "joining" ELSE driver

OnStart ==
  /\ Take("START")
  /\ Reconnect
  /\ UNCHANGED <<mainVars, isActive, groupVars, handling, clockOk, drops, historyVars>>

OnGotIp ==
  /\ Take("GOT_IP")
  /\ handling' = <<"GOT_IP", "set">>
  /\ UNCHANGED <<mainVars, isActive, groupVars, driver, clockOk, drops, historyVars>>

OnDisconnected ==
  /\ Take("DISCONNECTED")
  /\ Reconnect
  /\ handling' = <<"DISCONNECTED", "set">>
  /\ UNCHANGED <<mainVars, isActive, groupVars, clockOk, drops, historyVars>>

BitOf(e)    == IF e = "GOT_IP" THEN "CONNECTED" ELSE "DISCONNECT"
OtherBit(e) == IF e = "GOT_IP" THEN "DISCONNECT" ELSE "CONNECTED"

HandlerSets ==
  /\ handling[2] = "set"
  /\ bits' = bits \cup {BitOf(handling[1])}
  /\ handling' = <<handling[1], "clear">>
  /\ UNCHANGED <<mainVars, isActive, group, driver, queue, clockOk, drops, historyVars>>

\* Mutant of HandlerClears: the other bit stays.
HandlerLeaves ==
  /\ handling[2] = "clear"
  /\ handling' = Idle
  /\ UNCHANGED <<mainVars, isActive, groupVars, driver, queue, clockOk, drops, historyVars>>

HandlerClears ==
  /\ handling[2] = "clear"
  /\ bits' = bits \ {OtherBit(handling[1])}
  /\ handling' = Idle
  /\ UNCHANGED <<mainVars, isActive, group, driver, queue, clockOk, drops, historyVars>>

-----------------------------------------------------------------------------------
(***********************************************************************************)
(* Driver, access point, SNTP                                                      *)
(***********************************************************************************)

Joined ==
  /\ driver = "joining"
  /\ driver' = "ip"
  /\ queue' = Append(queue, "GOT_IP")
  /\ UNCHANGED <<mainVars, isActive, groupVars, handling, clockOk, drops, historyVars>>

Dropped ==
  /\ driver \in {"joining", "ip"}
  /\ drops < MaxDrops
  /\ drops' = drops + 1
  /\ driver' = "idle"
  /\ queue' = Append(queue, "DISCONNECTED")
  /\ UNCHANGED <<mainVars, isActive, groupVars, handling, clockOk, historyVars>>

\* SNTP is started by _init_time and goes on after it has given up.
TimeArrives ==
  /\ ~ clockOk
  /\ driver = "ip" /\ pc \in {"time", "online"}
  /\ clockOk' = TRUE
  /\ UNCHANGED <<mainVars, isActive, groupVars, driver, eventVars, drops, historyVars>>

-----------------------------------------------------------------------------------
Main ==
  \/ ConnectStart \/ Connected \/ PollTimesOut \/ InitTime
  \/ Deactivate \/ Stop \/ Left \/ GiveUp \/ Delete

Handler == OnStart \/ OnGotIp \/ OnDisconnected \/ HandlerSets \/ HandlerClears

Next == Main \/ Handler \/ Joined \/ Dropped \/ TimeArrives

\* Safety alone: Network adds what happens while online, and the fairness of the tasks.
Spec == Init /\ [][Next]_vars

-----------------------------------------------------------------------------------
(***********************************************************************************)
(* wifi_connect returns true only when the time is known: task_measure stamps and  *)
(* publishes measurements on the strength of it, also when the time arrived in the *)
(* last poll or the connection was lost meanwhile.                                 *)
(***********************************************************************************)
TrueMeansTime == result = "true" => clockOk

(***********************************************************************************)
(* Between events exactly one of the two bits is set, the one of the last event,   *)
(* although the handler changes them one after the other and the connecting task   *)
(* looks at them in between.                                                       *)
(***********************************************************************************)
BitsExclude == handling = Idle => bits # {"CONNECTED", "DISCONNECT"}

(***********************************************************************************)
(* A settled connection is taken down in order: the event group is deleted only    *)
(* after the handler has reported the disconnection, unless that took more than    *)
(* five seconds.  (After a connection that failed or was lost, a bit that is       *)
(* already set ends the wait before the handler has had its turn.)                 *)
(***********************************************************************************)
ReportedBeforeDeleted ==
  group = "deleted" /\ quietStop /\ ~ gaveUp
    => queue = <<>> /\ handling[2] # "set"
===================================================================================
