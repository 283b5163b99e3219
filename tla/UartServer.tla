-------------------------------- MODULE UartServer --------------------------------
(***********************************************************************************)
(* The UART server: a task that reads messages from the serial line and hands each *)
(* one to a callback.  Nothing marks the start of a message but its header, so     *)
(* after a lost byte the task has to find the next header by itself.               *)
(*                                                                                 *)
(* The line carries units rather than bytes.  A header is two of them: the magic   *)
(* number with the version, and the length.  (peep_message_header.h is not in the  *)
(* repository; uart_server.c compares the first and uses the second.)  The units   *)
(* of a message are not taken for headers.                                         *)
(***********************************************************************************)
EXTENDS Integers, Sequences

CONSTANTS
  Messages,  \* sequences of units, none empty; what the client sends
  RxMax,     \* len of uart_server_enable: the room in rx_buf
  MaxWire,   \* bound on the units that the client is ahead of the task
  MaxFaults  \* bound on lost units, pauses inside a message and late registrations

Units == [kind : {"magic", "length", "data"}, n : Nat]

ASSUME BoundsAssumption ==
  /\ Messages \subseteq Seq(Units) \ {<<>>}
  /\ RxMax \in Nat \ {0}
  /\ MaxWire \in Nat \ {0}
  /\ MaxFaults \in Nat

VARIABLES
  todo,      \* client: what is left to send of a message
  pause,     \* client: "no", "long" (more than the 100 ms of a read) or "over"
  wire,      \* units received by the driver and not read yet
  pc,        \* _uart_server_rx: "off", "header", "body", "callback" or "undefined"
  length,    \* its length of the message under way
  rx_buf,    \* _server.rx_buf up to _server.rx_len
  callback,  \* _server.rx_callback is set
  installed, \* the UART driver is installed
  due,       \* messages begun and not handed over, while there was no fault
  faults     \* faults so far

client == <<todo, pause, due>>
server == <<length, callback, installed>>
vars == <<client, wire, pc, rx_buf, server, faults>>

rx_len == Len(rx_buf)

TypeOK ==
  /\ pause \in {"no", "long", "over"}
  /\ callback \in BOOLEAN /\ installed \in BOOLEAN
  /\ Len(wire) <= MaxWire
  /\ pc \in {"off", "header", "body", "callback", "undefined"}
  /\ rx_len <= RxMax
  /\ pc = "body" => length <= RxMax
  /\ faults \in 0..MaxFaults

Init ==
  /\ todo = <<>> /\ pause = "no" /\ due = <<>>
  /\ wire = <<>>
  /\ pc = "off" /\ length = 0 /\ rx_buf = <<>>
  /\ callback \in BOOLEAN
  /\ installed = FALSE
  /\ faults = 0

-----------------------------------------------------------------------------------
(***********************************************************************************)
(* The client and the line (external)                                              *)
(***********************************************************************************)

Unit(kind, n) == [kind |-> kind, n |-> n]

Header(m) == <<Unit("magic", 0), Unit("length", Len(m))>>

\* A message too long for rx_buf counts as a fault.
Begin(m) ==
  /\ todo = <<>> /\ pause # "long"
  /\ pc \notin {"off", "undefined"}
  /\ todo' = Header(m) \o m
  /\ \/ /\ Len(m) <= RxMax
        /\ due' = IF faults = 0 /\ callback THEN Append(due, m) ELSE due
        /\ UNCHANGED faults
     \/ /\ Len(m) > RxMax /\ faults < MaxFaults
        /\ due' = <<>> /\ faults' = faults + 1
  /\ UNCHANGED <<pause, wire, pc, rx_buf, server>>

Send ==
  /\ todo # <<>> /\ pause # "long"
  /\ Len(wire) < MaxWire
  /\ wire' = Append(wire, Head(todo))
  /\ todo' = Tail(todo)
  /\ pause' = "no"
  /\ UNCHANGED <<due, pc, rx_buf, server, faults>>

Pause ==
  /\ todo = <<>> /\ pause = "no"
  /\ pause' = "long"
  /\ UNCHANGED <<todo, due, wire, pc, rx_buf, server, faults>>

\* A unit is lost on the line, or the client stops inside a message.
Disturb ==
  /\ todo # <<>>
  /\ faults < MaxFaults
  /\ \/ todo' = Tail(todo) /\ UNCHANGED pause
     \/ pause = "no" /\ pause' = "long" /\ UNCHANGED todo
  /\ faults' = faults + 1
  /\ due' = <<>>
  /\ UNCHANGED <<wire, pc, rx_buf, server>>

-----------------------------------------------------------------------------------
(***********************************************************************************)
(* uart_server_enable, disable and register_rx_callback                            *)
(***********************************************************************************)

\* It fails when the task runs, or when the driver is installed already.
Enable ==
  /\ pc = "off"
  /\ ~installed
  /\ installed' = TRUE
  /\ pc' = "header"
  /\ UNCHANGED <<client, wire, length, rx_buf, callback, faults>>

\* The task is deleted, wherever it is; the driver stays, so no Enable follows.
Disable ==
  /\ pc \notin {"off", "undefined"}
  /\ pc' = "off"
  /\ rx_buf' = <<>>
  /\ UNCHANGED <<client, wire, server, faults>>

\* Late, it is given messages from before: this counts as a fault.
Register ==
  /\ ~callback
  /\ callback' = TRUE
  /\ \/ pc = "off" /\ UNCHANGED <<due, faults>>
     \/ pc # "off" /\ faults < MaxFaults /\ due' = <<>> /\ faults' = faults + 1
  /\ UNCHANGED <<todo, pause, wire, pc, length, rx_buf, installed>>

-----------------------------------------------------------------------------------
(***********************************************************************************)
(* _uart_server_rx                                                                 *)
(***********************************************************************************)

\* What is read in the place of the length, when units are missing, is any number.
LengthsOf(unit) == IF unit.kind = "length" THEN {unit.n} ELSE 0..RxMax + 1

\* Mutant of Accepts: a message that does not fit rx_buf is read as well.
AcceptsLong(first, n) == first.kind = "magic"

Accepts(first, n) == first.kind = "magic" /\ n <= RxMax

(***********************************************************************************)
(* A header of its full size.  A bad one is dropped as a whole, and the task goes  *)
(* on to the callback with what is left in rx_buf.  If that is more than the new   *)
(* length, length - n wraps and the read runs over the end of rx_buf.              *)
(***********************************************************************************)
ReadHeader ==
  /\ pc = "header"
  /\ Len(wire) >= 2
  /\ wire' = Tail(Tail(wire))
  /\ \E n \in LengthsOf(wire[2]) :
       \/ /\ Accepts(wire[1], n) /\ rx_len <= n
          /\ pc' = "body" /\ length' = n
       \/ /\ Accepts(wire[1], n) /\ rx_len > n
          /\ pc' = "undefined" /\ length' = n
       \/ /\ ~Accepts(wire[1], n)
          /\ pc' = "callback" /\ UNCHANGED length
  /\ UNCHANGED <<client, rx_buf, callback, installed, faults>>

\* Mutant of ReadTimesOut: the next read asks for the rest of the header.
ReadTimesOutKeepsAll ==
  /\ pause = "long"
  /\ \/ pc = "header" /\ Len(wire) < 2
     \/ pc = "body" /\ wire = <<>>
  /\ pause' = "over"
  /\ UNCHANGED <<todo, due, wire, pc, rx_buf, server, faults>>

(***********************************************************************************)
(* 100 ms without a byte, after all there was has been read: what came of a header *)
(* is overwritten by the next read, what came of a message is kept.                *)
(***********************************************************************************)
ReadTimesOut ==
  /\ pause = "long"
  /\ \/ pc = "header" /\ Len(wire) < 2
     \/ pc = "body" /\ wire = <<>>
  /\ wire' = <<>>
  /\ pause' = "over"
  /\ UNCHANGED <<todo, due, pc, rx_buf, server, faults>>

ReadBody ==
  /\ pc = "body" /\ rx_len < length
  /\ wire # <<>>
  /\ rx_buf' = Append(rx_buf, Head(wire))
  /\ wire' = Tail(wire)
  /\ UNCHANGED <<client, pc, server, faults>>

BodyComplete ==
  /\ pc = "body" /\ rx_len = length
  /\ pc' = "callback"
  /\ UNCHANGED <<client, wire, rx_buf, server, faults>>

\* Mutant of Callback: rx_len is reset only when the callback was not called.
CallbackKeepsLength ==
  /\ pc = "callback"
  /\ pc' = "header"
  /\ rx_buf' = IF callback /\ rx_len # 0 THEN rx_buf ELSE <<>>
  /\ due' = IF callback /\ rx_len # 0 /\ due # <<>> THEN Tail(due) ELSE due
  /\ UNCHANGED <<todo, pause, wire, server, faults>>

\* Without a callback the message stays in rx_buf, and rx_len as it is.
Callback ==
  /\ pc = "callback"
  /\ pc' = "header"
  /\ rx_buf' = IF callback THEN <<>> ELSE rx_buf
  /\ due' = IF callback /\ rx_len # 0 /\ due # <<>> THEN Tail(due) ELSE due
  /\ UNCHANGED <<todo, pause, wire, server, faults>>

-----------------------------------------------------------------------------------
Task == ReadHeader \/ ReadTimesOut \/ ReadBody \/ BodyComplete \/ Callback

Client == Send \/ Pause \/ \E m \in Messages : Begin(m)

Next ==
  \/ Task \/ Client
  \/ Disturb
  \/ Enable \/ Disable \/ Register

(***********************************************************************************)
(* The task reads what there is.  Of the client it is assumed that it goes on      *)
(* sending and that it pauses between two messages again and again.                *)
(***********************************************************************************)
Spec ==
  /\ Init /\ [][Next]_vars
  /\ WF_vars(Task)
  /\ WF_vars(Client) /\ SF_vars(Pause)

-----------------------------------------------------------------------------------
(***********************************************************************************)
(* On an undisturbed line, with the callback registered before the first message,  *)
(* every message is handed over whole and in the order it was sent, with or        *)
(* without a pause before the next.                                                *)
(***********************************************************************************)
HandsOverInOrder ==
  pc = "callback" /\ callback /\ rx_len # 0 /\ faults = 0
    => due # <<>> /\ rx_buf = Head(due)

(***********************************************************************************)
(* Whatever was lost, and wherever it left the task, a whole message is handed     *)
(* over again some day: the pauses between messages bring the task back to a       *)
(* header.                                                                         *)
(***********************************************************************************)
HandsOverAgain ==
  []<>(pc = "callback" /\ callback /\ rx_len # 0 /\ rx_buf \in Messages)
    \/ <>[](pc \in {"off", "undefined"} \/ ~callback)
===================================================================================
