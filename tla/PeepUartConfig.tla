------------------------------ MODULE PeepUartConfig ------------------------------
(***********************************************************************************)
(* The host tool peep_uart_config: for every option of its command line it sends   *)
(* one message over the serial port and waits for one answer.  Messages are taken  *)
(* whole, with what became of the payload; the device is external, it carries out  *)
(* what it received and answers in turn.                                           *)
(***********************************************************************************)
EXTENDS Integers, Sequences

CONSTANTS
  Options,   \* keys of command line options, of those below
  MaxOptions \* bound on the options of a command line

Texts == {"w", "p", "u"}
Files == {"r", "c", "k"}
Numbers == {"s", "t"}

ASSUME OptionsAssumption ==
  Options \subseteq Texts \cup Files \cup Numbers \cup {"e"} /\ MaxOptions \in Nat

VARIABLES
  pc,       \* "option", "open", "write", "read", "show" or "exit"
  key,      \* the option under way
  given,    \* the options so far
  c,        \* _c: the kind of the message, and how much of the argument is in it
  run_once, \* the port was not tried yet
  port,     \* _fd: "closed", "raw" (open, its settings not made) or "ready"
  line,     \* messages on their way to the device
  pieces,   \* history: messages of which only a part went out
  answers,  \* answers on their way to the host
  buf,      \* _buf: the answers read and not dropped yet
  d,        \* _d: the answer that was decoded
  stored    \* device: how much it has of the argument of each option

vars == <<pc, key, given, c, run_once, port, line, pieces, answers, buf, d, stored>>

Amounts == {"all", "start", "none"}
Requests == [kind : Options \cup {"default"}, payload : Amounts]
Answers == [kind : Options \cup {"default", "torn"}, ok : BOOLEAN]
NoAnswer == [kind |-> "default", ok |-> FALSE]

TypeOK ==
  /\ pc \in {"option", "open", "write", "read", "show", "exit"}
  /\ given \in 0..MaxOptions
  /\ c \in Requests /\ d \in Answers
  /\ port \in {"closed", "raw", "ready"} /\ run_once \in BOOLEAN
  /\ Len(line) <= MaxOptions /\ pieces \in 0..MaxOptions
  /\ Len(answers) + Len(buf) <= MaxOptions
  /\ stored \in [Options -> Amounts]
  /\ pc \in {"write", "read", "show"} => ~run_once

Init ==
  /\ pc = "option" /\ key \in Options
  /\ given = 0
  /\ c = [kind |-> "default", payload |-> "none"]
  /\ run_once = TRUE /\ port = "closed"
  /\ line = <<>> /\ pieces = 0 /\ answers = <<>> /\ buf = <<>>
  /\ d = NoAnswer
  /\ stored = [o \in Options |-> "none"]

host == <<key, given, c, run_once, port, d>>
wires == <<line, pieces, answers, buf>>

-----------------------------------------------------------------------------------
(***********************************************************************************)
(* The device (external)                                                           *)
(***********************************************************************************)

\* It carries a message out, or refuses; one that lacks its end takes the next with it.
Device ==
  /\ line # <<>>
  /\ LET m == Head(line) IN
       \/ /\ ~m.torn
          /\ line' = Tail(line)
          /\ \E ok \in BOOLEAN :
               /\ answers' = Append(answers, [kind |-> m.kind, ok |-> ok])
               /\ stored' = IF ok /\ m.kind \in Options
                              THEN [stored EXCEPT ![m.kind] = m.payload] ELSE stored
       \/ /\ m.torn /\ Len(line) > 1
          /\ line' = Tail(Tail(line))
          /\ answers' = Append(answers, [kind |-> "torn", ok |-> FALSE])
          /\ UNCHANGED stored
  /\ UNCHANGED <<pc, host, pieces, buf>>

-----------------------------------------------------------------------------------
(***********************************************************************************)
(* _parse_opt                                                                      *)
(***********************************************************************************)

\* What the payload has of the argument: size is not set for numbers.
PayloadOf(o) ==
  IF o \in Texts THEN {"all"}
  ELSE IF o \in Files THEN {"all", "start"} \* a file of more than PAYLOAD_MAX bytes
  ELSE {"none"}

\* A file that cannot be opened leaves the message as it was initialised; it is sent.
Messages(o) ==
  [kind : {o}, payload : PayloadOf(o)]
    \cup (IF o \in Files THEN [kind : {"default"}, payload : {"none"}] ELSE {})

Option(o) ==
  /\ pc = "option"
  /\ given < MaxOptions
  /\ given' = given + 1
  /\ key' = o
  /\ c' \in Messages(o)
  /\ d' = NoAnswer
  /\ pc' = IF run_once THEN "open" ELSE "write"
  /\ UNCHANGED <<run_once, port, wires, stored>>

Exit ==
  /\ pc = "option"
  /\ pc' = "exit"
  /\ UNCHANGED <<host, wires, stored>>

\* Mutant of UartInit: run_once stays set.
UartInitAgain ==
  /\ pc = "open"
  /\ port' \in {"closed", "raw", "ready"}
  /\ pc' = IF port' = "ready" THEN "write" ELSE "option"
  /\ UNCHANGED <<key, given, c, run_once, d, wires, stored>>

\* _uart_init, once; an option for which it fails is skipped, the next one goes on.
UartInit ==
  /\ pc = "open"
  /\ run_once' = FALSE
  /\ port' \in {"closed", "raw", "ready"}
  /\ pc' = IF port' = "ready" THEN "write" ELSE "option"
  /\ UNCHANGED <<key, given, c, d, wires, stored>>

OnTheLine(torn) == [kind |-> c.kind, payload |-> c.payload, torn |-> torn]

\* A port that is not open, or that is full: a part of the message went out, or nothing.
WriteFails ==
  /\ pc = "write"
  /\ \/ UNCHANGED <<line, pieces>>
     \/ port # "closed" /\ line' = Append(line, OnTheLine(TRUE)) /\ pieces' = pieces + 1
  /\ pc' = "option"
  /\ UNCHANGED <<host, answers, buf, stored>>

\* Mutant of Write: _buf_len is not reset before the answer is read.
WriteKeepsBuffer ==
  /\ pc = "write"
  /\ port # "closed"
  /\ line' = Append(line, OnTheLine(FALSE))
  /\ pc' = "read"
  /\ UNCHANGED <<host, pieces, answers, buf, stored>>

\* write takes the whole message; the answer is awaited with an empty buffer.
Write ==
  /\ pc = "write"
  /\ port # "closed"
  /\ line' = Append(line, OnTheLine(FALSE))
  /\ buf' = <<>>
  /\ pc' = "read"
  /\ UNCHANGED <<host, pieces, answers, stored>>

\* select and read: whatever has arrived, one answer or all of them.
Read ==
  /\ pc = "read"
  /\ \E k \in 1..Len(answers) :
       /\ buf' = buf \o SubSeq(answers, 1, k)
       /\ answers' = SubSeq(answers, k + 1, Len(answers))
  /\ UNCHANGED <<pc, host, line, pieces, stored>>

\* The first answer in the buffer is decoded; the loop has no other end.
Decode ==
  /\ pc = "read"
  /\ buf # <<>>
  /\ d' = Head(buf)
  /\ pc' = "show"
  /\ UNCHANGED <<key, given, c, run_once, port, wires, stored>>

\* The result is printed, except for numbers.
Show ==
  /\ pc = "show"
  /\ pc' = "option"
  /\ UNCHANGED <<host, wires, stored>>

Tool ==
  \/ \E o \in Options : Option(o)
  \/ Exit \/ UartInit \/ Write \/ WriteFails \/ Read \/ Decode \/ Show

Next == Tool \/ Device

Spec == Init /\ [][Next]_vars

-----------------------------------------------------------------------------------
(***********************************************************************************)
(* Answers are not matched with messages: every message has the id 1 and no id is  *)
(* compared.  Still the answer that an option shows is the one to its own message, *)
(* or to the piece that it was taken together with, because the tool sends one     *)
(* message at a time and drops what it has read before.  This lasts up to the      *)
(* second piece: two of them are answered together, and from then on each option   *)
(* may show the answer to the one before.                                          *)
(***********************************************************************************)
ShowsItsOwnAnswer == pc = "show" /\ pieces <= 1 => d.kind \in {c.kind, "torn"}
===================================================================================
