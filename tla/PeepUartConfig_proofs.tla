--------------------------- MODULE PeepUartConfig_proofs ---------------------------
(***********************************************************************************)
(* The safety properties of PeepUartConfig, for every set of options and command   *)
(* lines of every length.  The bounds of the type invariant need a count: what is  *)
(* on the line, on the way back and in the buffer together never exceeds the       *)
(* options given (CountInv).  The answers need to know where the one message that  *)
(* is waited for has got to, while there was at most one piece (OwnInv).           *)
(***********************************************************************************)
EXTENDS PeepUartConfig, SequenceTheorems, TLAPS

OnLine == [kind : Options \cup {"default"}, payload : Amounts, torn : BOOLEAN]

(***********************************************************************************)
(* Types                                                                           *)
(***********************************************************************************)

\* An option that has not sent its message yet.
Unsent == IF pc \in {"open", "write"} THEN 1 ELSE 0

Channels == line \in Seq(OnLine) /\ answers \in Seq(Answers) /\ buf \in Seq(Answers)

CountInv ==
  /\ Len(line) + Len(answers) + Len(buf) + Unsent <= given
  /\ pieces + Unsent <= given

TypeInv == TypeOK /\ Channels /\ CountInv

LEMMA Lengths ==
  ASSUME Channels
  PROVE  /\ Len(line) \in Nat /\ Len(answers) \in Nat /\ Len(buf) \in Nat
  BY LenProperties DEF Channels

LEMMA NotEmpty ==
  ASSUME NEW S, NEW s \in Seq(S), Len(s) = 1
  PROVE  s # <<>>
  OBVIOUS

LEMMA TypeInvInit == Init => TypeInv
<1> SUFFICES ASSUME Init PROVE TypeInv
  OBVIOUS
<1>1. Len(line) = 0 /\ Len(answers) = 0 /\ Len(buf) = 0
  BY DEF Init
<1>2. Channels
  BY EmptySeq DEF Init, Channels
<1>3. TypeOK
  BY <1>1, OptionsAssumption DEF Init, TypeOK, Requests, Answers, Amounts, NoAnswer
<1>4. CountInv
  BY <1>1 DEF Init, CountInv, Unsent
<1> QED
  BY <1>2, <1>3, <1>4 DEF TypeInv

\* Every message that an option can lead to is a request.
LEMMA MessagesAreRequests ==
  ASSUME NEW o \in Options
  PROVE  Messages(o) \subseteq Requests
<1>1. PayloadOf(o) \subseteq Amounts
  BY DEF PayloadOf, Amounts
<1> QED
  BY <1>1 DEF Messages, Requests, Amounts

LEMMA DeviceTypes ==
  ASSUME TypeInv, Device
  PROVE  TypeInv'
<1> DEFINE m == Head(line)
<1>1. line # <<>> /\ m \in OnLine /\ Tail(line) \in Seq(OnLine) /\ Len(Tail(line)) = Len(line) - 1
  BY HeadTailProperties DEF Device, TypeInv, Channels
<1>2. UNCHANGED <<pc, host, pieces, buf>>
  BY DEF Device
<1>3. Len(line) \in Nat /\ Len(answers) \in Nat /\ Len(buf) \in Nat
  BY Lengths DEF TypeInv
<1>4. /\ answers' \in Seq(Answers) /\ Len(answers') = Len(answers) + 1
      /\ line' \in Seq(OnLine) /\ Len(line') <= Len(line) - 1 /\ Len(line') \in Nat
      /\ stored' \in [Options -> Amounts]
  <2>1. CASE ~m.torn
    <3>1. PICK ok \in BOOLEAN :
            /\ answers' = Append(answers, [kind |-> m.kind, ok |-> ok])
            /\ stored' = IF ok /\ m.kind \in Options
                           THEN [stored EXCEPT ![m.kind] = m.payload] ELSE stored
      BY <2>1 DEF Device
    <3>2. [kind |-> m.kind, ok |-> ok] \in Answers /\ m.payload \in Amounts
      BY <1>1 DEF OnLine, Answers
    <3>3. answers' \in Seq(Answers) /\ Len(answers') = Len(answers) + 1
      BY <3>1, <3>2, AppendProperties DEF TypeInv, Channels
    <3>4. line' = Tail(line)
      BY <2>1 DEF Device
    <3>5. stored' \in [Options -> Amounts]
      BY <3>1, <3>2 DEF TypeInv, TypeOK
    <3> QED
      BY <1>1, <1>3, <3>3, <3>4, <3>5, LenProperties
  <2>2. CASE m.torn
    <3>1. /\ Len(line) > 1 /\ line' = Tail(Tail(line)) /\ stored' = stored
          /\ answers' = Append(answers, [kind |-> "torn", ok |-> FALSE])
      BY <2>2 DEF Device
    <3>2. answers' \in Seq(Answers) /\ Len(answers') = Len(answers) + 1
      <4>1. [kind |-> "torn", ok |-> FALSE] \in Answers
        BY DEF Answers
      <4> QED
        BY <3>1, <4>1, AppendProperties DEF TypeInv, Channels
    <3>3. Tail(line) # <<>>
      BY <1>1, <1>3, <3>1, EmptySeq
    <3>4. line' \in Seq(OnLine) /\ Len(line') = Len(line) - 2
      BY <1>1, <1>3, <3>1, <3>3, HeadTailProperties
    <3> QED
      BY <1>3, <3>1, <3>2, <3>4, LenProperties DEF TypeInv, TypeOK
  <2> QED
    BY <2>1, <2>2
<1> QED
  BY <1>2, <1>3, <1>4, OptionsAssumption DEF TypeInv, TypeOK, Channels, CountInv, Unsent, host

LEMMA ReadTypes ==
  ASSUME TypeInv, Read
  PROVE  TypeInv'
<1>1. PICK k \in 1..Len(answers) :
        /\ buf' = buf \o SubSeq(answers, 1, k)
        /\ answers' = SubSeq(answers, k + 1, Len(answers))
  BY DEF Read
<1>2. Len(answers) \in Nat /\ Len(buf) \in Nat /\ k \in Nat
  BY Lengths DEF TypeInv
<1>3. \A i \in 1..Len(answers) : answers[i] \in Answers
  BY ElementOfSeq DEF TypeInv, Channels
<1>4. SubSeq(answers, 1, k) \in Seq(Answers) /\ Len(SubSeq(answers, 1, k)) = k
  <2>1. \A i \in 1..k : answers[i] \in Answers
    BY <1>2, <1>3
  <2> QED
    BY <1>2, <2>1, SubSeqProperties
<1>5. answers' \in Seq(Answers) /\ Len(answers') = Len(answers) - k
  <2>1. \A i \in k + 1 .. Len(answers) : answers[i] \in Answers
    BY <1>2, <1>3
  <2> QED
    BY <1>1, <1>2, <2>1, SubSeqProperties
<1>6. buf' \in Seq(Answers) /\ Len(buf') = Len(buf) + k
  BY <1>1, <1>4, ConcatProperties DEF TypeInv, Channels
<1> QED
  <2>1. UNCHANGED <<pc, host, line, pieces, stored>>
    BY DEF Read
  <2>2. CountInv' /\ Channels'
    BY <1>2, <1>5, <1>6, <2>1 DEF TypeInv, Channels, CountInv, Unsent, host
  <2>3. TypeOK'
    BY <1>2, <1>5, <1>6, <2>1 DEF TypeInv, TypeOK, host
  <2> QED
    BY <2>2, <2>3 DEF TypeInv

LEMMA TypeInvStep == TypeInv /\ [Next]_vars => TypeInv'
<1> SUFFICES ASSUME TypeInv, [Next]_vars PROVE TypeInv'
  OBVIOUS
<1> USE OptionsAssumption
<1>1. Len(line) \in Nat /\ Len(answers) \in Nat /\ Len(buf) \in Nat
  BY Lengths DEF TypeInv
<1>2. \A torn \in BOOLEAN : OnTheLine(torn) \in OnLine
  BY DEF OnTheLine, OnLine, TypeInv, TypeOK, Requests
<1>3. ASSUME NEW o \in Options, Option(o)
      PROVE  TypeInv'
  <2>1. c' \in Requests
    BY <1>3, MessagesAreRequests DEF Option
  <2>2. d' \in Answers
    BY <1>3 DEF Option, NoAnswer, Answers
  <2> QED
    <3>1. CountInv' /\ Channels'
      BY <1>1, <1>3 DEF Option, wires, TypeInv, TypeOK, Channels, CountInv, Unsent
    <3>2. TypeOK'
      BY <1>1, <1>3, <2>1, <2>2 DEF Option, wires, TypeInv, TypeOK, CountInv, Unsent
    <3> QED
      BY <3>1, <3>2 DEF TypeInv
<1>4. CASE Exit
  BY <1>1, <1>4 DEF Exit, host, wires, TypeInv, TypeOK, Channels, CountInv, Unsent
<1>5. CASE UartInit
  <2>1. CountInv' /\ Channels'
    BY <1>1, <1>5 DEF UartInit, wires, TypeInv, TypeOK, Channels, CountInv, Unsent
  <2>2. TypeOK'
    BY <1>1, <1>5 DEF UartInit, wires, TypeInv, TypeOK
  <2> QED
    BY <2>1, <2>2 DEF TypeInv
<1>6. CASE Write
  <2>1. line' \in Seq(OnLine) /\ Len(line') = Len(line) + 1
    BY <1>2, <1>6, AppendProperties DEF Write, TypeInv, Channels
  <2>2. buf' \in Seq(Answers) /\ Len(buf') = 0
    BY <1>6, EmptySeq DEF Write
  <2> QED
    <3>1. Channels'
      BY <1>6, <2>1, <2>2 DEF Write, TypeInv, Channels
    <3>2. Unsent = 1 /\ Unsent' = 0
      BY <1>6 DEF Write, Unsent
    <3>3. CountInv'
      BY <1>1, <1>6, <2>1, <2>2, <3>2 DEF Write, host, TypeInv, TypeOK, CountInv
    <3>4. TypeOK'
      BY <1>1, <1>6, <2>1, <2>2, <3>2 DEF Write, host, TypeInv, TypeOK, CountInv
    <3> QED
      BY <3>1, <3>3, <3>4 DEF TypeInv
<1>7. CASE WriteFails
  <2>1. CASE UNCHANGED <<line, pieces>>
    BY <1>1, <1>7, <2>1 DEF WriteFails, host, TypeInv, TypeOK, Channels, CountInv, Unsent
  <2>2. CASE line' = Append(line, OnTheLine(TRUE)) /\ pieces' = pieces + 1
    <3>1. line' \in Seq(OnLine) /\ Len(line') = Len(line) + 1
      BY <1>2, <2>2, AppendProperties DEF TypeInv, Channels
    <3>2. Channels'
      BY <1>7, <3>1 DEF WriteFails, TypeInv, Channels
    <3>3. Unsent = 1 /\ Unsent' = 0
      BY <1>7 DEF WriteFails, Unsent
    <3>4. CountInv'
      BY <1>1, <1>7, <2>2, <3>1, <3>3 DEF WriteFails, host, TypeInv, TypeOK, CountInv
    <3>5. TypeOK'
      BY <1>1, <1>7, <2>2, <3>1, <3>3 DEF WriteFails, host, TypeInv, TypeOK, CountInv
    <3> QED
      BY <3>2, <3>4, <3>5 DEF TypeInv
  <2> QED
    BY <1>7, <2>1, <2>2 DEF WriteFails
<1>8. CASE Decode
  <2>1. d' \in Answers
    BY <1>8, HeadTailProperties DEF Decode, TypeInv, Channels
  <2> QED
    BY <1>1, <1>8, <2>1 DEF Decode, wires, TypeInv, TypeOK, Channels, CountInv, Unsent
<1>9. CASE Show
  BY <1>1, <1>9 DEF Show, host, wires, TypeInv, TypeOK, Channels, CountInv, Unsent
<1>10. CASE UNCHANGED vars
  BY <1>10 DEF vars, TypeInv, TypeOK, Channels, CountInv, Unsent
<1> QED
  BY <1>3, <1>4, <1>5, <1>6, <1>7, <1>8, <1>9, <1>10, ReadTypes, DeviceTypes DEF Next, Tool

(***********************************************************************************)
(* The lines and buffers never hold more than the options given, on a command line *)
(* of any length, and nothing is written before the port was tried.                *)
(***********************************************************************************)
THEOREM TypeCorrect == Spec => []TypeOK
<1>1. TypeInv => TypeOK
  BY DEF TypeInv
<1> QED
  BY <1>1, TypeInvInit, TypeInvStep, PTL DEF Spec

(***********************************************************************************)
(* Answers                                                                         *)
(***********************************************************************************)

Own(answer) == answer.kind \in {c.kind, "torn"}

\* The message under way is the last on the line, behind the piece, if there is one.
OnItsWay ==
  /\ Len(answers) = 0 /\ Len(buf) = 0
  /\ Len(line) \in 1..2
  /\ Len(line) = 2 => line[1].torn
  /\ ~line[Len(line)].torn /\ line[Len(line)].kind = c.kind

\* The only answer there is belongs to it, and the line is empty.
Answered ==
  /\ Len(line) = 0 /\ Len(answers) + Len(buf) = 1
  /\ Len(answers) = 1 => Own(answers[1])
  /\ Len(buf) = 1 => Own(buf[1])

\* Nothing is waited for: a piece may lie on the line.
Idle ==
  /\ Len(answers) = 0
  /\ Len(line) <= pieces
  /\ Len(line) = 1 => line[1].torn
  /\ pc = "show" => Own(d)

OwnInv == pieces <= 1 => IF pc = "read" THEN OnItsWay \/ Answered ELSE Idle

LEMMA OwnInvInit == Init => OwnInv
  BY EmptySeq DEF Init, OwnInv, Idle

\* A piece is answered together with the message behind it, and leaves the line empty.
LEMMA DeviceAnswers ==
  ASSUME TypeInv, OwnInv, Device
  PROVE  OwnInv'
<1> SUFFICES ASSUME pieces <= 1 PROVE OwnInv'
  BY DEF Device, OwnInv
<1> DEFINE m == Head(line)
<1>1. UNCHANGED <<pc, c, d, pieces, buf>>
  BY DEF Device, host
<1>2. Len(line) \in Nat /\ Len(answers) \in Nat /\ Len(buf) \in Nat
  BY Lengths DEF TypeInv
<1>3. line # <<>> /\ Len(line) > 0 /\ m = line[1]
  BY <1>2, EmptySeq, Lengths DEF Device, TypeInv, Channels
<1>4. m \in OnLine /\ Tail(line) \in Seq(OnLine) /\ Len(Tail(line)) = Len(line) - 1
  BY <1>3, HeadTailProperties DEF TypeInv, Channels
<1>5. CASE pc = "read"
  <2>1. OnItsWay
    BY <1>3, <1>5 DEF OwnInv, Answered
  <2>2. PICK a \in Answers : answers' = Append(answers, a) /\ a.kind \in {m.kind, "torn"}
    <3>1. CASE ~m.torn
      <4>1. PICK ok \in BOOLEAN : answers' = Append(answers, [kind |-> m.kind, ok |-> ok])
        BY <3>1 DEF Device
      <4>2. [kind |-> m.kind, ok |-> ok] \in Answers
        BY <1>4 DEF OnLine, Answers
      <4> QED
        BY <4>1, <4>2
    <3>2. CASE m.torn
      <4>1. answers' = Append(answers, [kind |-> "torn", ok |-> FALSE])
        BY <3>2 DEF Device
      <4>2. [kind |-> "torn", ok |-> FALSE] \in Answers
        BY DEF Answers
      <4> QED
        BY <4>1, <4>2
    <3> QED
      BY <3>1, <3>2
  <2>3. Len(answers') = 1 /\ answers'[1] = a
    BY <2>1, <2>2, AppendProperties DEF OnItsWay, TypeInv, Channels
  <2>4. Len(line') = 0 /\ (m.torn \/ m.kind = c.kind)
    <3>1. CASE ~m.torn
      <4>1. Len(line) = 1
        BY <1>2, <1>3, <2>1, <3>1 DEF OnItsWay
      <4> QED
        BY <1>3, <1>4, <2>1, <3>1, <4>1 DEF Device, OnItsWay
    <3>2. CASE m.torn
      <4>1. Len(line) = 2 /\ line' = Tail(Tail(line))
        BY <1>2, <1>3, <2>1, <3>2 DEF Device, OnItsWay
      <4>2. Len(Tail(line)) = 1
        BY <1>4, <4>1
      <4>3. Tail(line) # <<>>
        BY <1>4, <4>2, NotEmpty
      <4>4. Len(Tail(Tail(line))) = Len(Tail(line)) - 1
        BY <1>4, <4>3, HeadTailProperties
      <4> QED
        BY <3>2, <4>1, <4>2, <4>4
    <3> QED
      BY <3>1, <3>2
  <2>5. a.kind \in {c.kind, "torn"}
    <3>1. CASE ~m.torn
      BY <2>2, <2>4, <3>1
    <3>2. CASE m.torn
      <4>1. answers' = Append(answers, [kind |-> "torn", ok |-> FALSE])
        BY <3>2 DEF Device
      <4>2. [kind |-> "torn", ok |-> FALSE] \in Answers
        BY DEF Answers
      <4>3. answers'[Len(answers) + 1] = [kind |-> "torn", ok |-> FALSE]
        BY <4>1, <4>2, AppendProperties DEF TypeInv, Channels
      <4> QED
        BY <2>1, <2>3, <4>3 DEF OnItsWay
    <3> QED
      BY <3>1, <3>2
  <2>6. Answered'
    BY <1>1, <2>1, <2>3, <2>4, <2>5 DEF OnItsWay, Answered, Own
  <2> QED
    BY <1>1, <1>5, <2>6 DEF OwnInv
<1>6. CASE pc # "read"
  <2>1. Len(line) = 1 /\ line[1].torn
    <3>1. Idle
      BY <1>6 DEF OwnInv
    <3>2. pieces \in Nat
      BY DEF TypeInv, TypeOK
    <3> QED
      BY <1>2, <1>3, <3>1, <3>2 DEF Idle
  <2> QED
    BY <1>2, <1>3, <2>1 DEF Device
<1> QED
  BY <1>5, <1>6

\* There is one answer to read, so all of it is read.
LEMMA ReadsTheAnswer ==
  ASSUME TypeInv, OwnInv, Read
  PROVE  OwnInv'
<1> SUFFICES ASSUME pieces <= 1 PROVE OwnInv'
  BY DEF Read, OwnInv
<1>1. UNCHANGED <<pc, c, d, pieces, line>> /\ pc = "read"
  BY DEF Read, host
<1>2. PICK k \in 1..Len(answers) :
        /\ buf' = buf \o SubSeq(answers, 1, k)
        /\ answers' = SubSeq(answers, k + 1, Len(answers))
  BY DEF Read
<1>3. Len(line) \in Nat /\ Len(answers) \in Nat /\ Len(buf) \in Nat /\ k \in Nat
  BY Lengths DEF TypeInv
<1>4. Answered /\ Len(answers) = 1 /\ Len(buf) = 0 /\ k = 1
  <2>1. Len(answers) > 0 /\ k >= 1 /\ k <= Len(answers)
    BY <1>2, <1>3
  <2>2. Answered
    BY <1>1, <2>1 DEF OwnInv, OnItsWay
  <2>3. Len(answers) = 1
    BY <1>3, <2>1, <2>2 DEF Answered, Own
  <2>4. Len(buf) = 0
    BY <1>3, <2>1, <2>2 DEF Answered, Own
  <2> QED
    BY <1>3, <2>1, <2>2, <2>3, <2>4
<1>5. \A i \in 1..Len(answers) : answers[i] \in Answers
  BY ElementOfSeq DEF TypeInv, Channels
<1>6. /\ SubSeq(answers, 1, k) \in Seq(Answers) /\ Len(SubSeq(answers, 1, k)) = 1
      /\ SubSeq(answers, 1, k)[1] = answers[1]
  BY <1>4, <1>5, SubSeqProperties
<1>7. Len(answers') = 0
  BY <1>2, <1>4, SubSeqEmpty, EmptySeq
<1>8. Len(buf') = 1 /\ buf'[1] = answers[1]
  BY <1>2, <1>4, <1>6, ConcatProperties DEF TypeInv, Channels
<1>9. Answered'
  BY <1>1, <1>4, <1>7, <1>8 DEF Answered, Own
<1> QED
  BY <1>1, <1>9 DEF OwnInv

LEMMA OwnInvStep == TypeInv /\ OwnInv /\ [Next]_vars => OwnInv'
<1> SUFFICES ASSUME TypeInv, OwnInv, [Next]_vars PROVE OwnInv'
  OBVIOUS
<1>1. Len(line) \in Nat /\ Len(answers) \in Nat /\ Len(buf) \in Nat /\ pieces \in Nat
  BY Lengths DEF TypeInv, TypeOK
<1>2. \A torn \in BOOLEAN : OnTheLine(torn) \in OnLine
  BY DEF OnTheLine, OnLine, TypeInv, TypeOK, Requests
<1>3. ASSUME NEW o \in Options, Option(o)
      PROVE  OwnInv'
  BY <1>3 DEF Option, wires, OwnInv, Idle
<1>4. CASE Exit
  BY <1>4 DEF Exit, host, wires, OwnInv, Idle
<1>5. CASE UartInit
  BY <1>5 DEF UartInit, wires, OwnInv, Idle
<1>6. CASE Write
  <2>1. SUFFICES ASSUME pieces <= 1 PROVE OnItsWay'
    BY <1>6 DEF Write, OwnInv
  <2>2. Idle
    BY <1>6, <2>1 DEF Write, OwnInv
  <2>3. /\ Len(line') = Len(line) + 1 /\ line'[Len(line) + 1] = OnTheLine(FALSE)
        /\ \A i \in 1..Len(line) : line'[i] = line[i]
    BY <1>2, <1>6, AppendProperties DEF Write, TypeInv, Channels
  <2>4. Len(buf') = 0 /\ Len(answers') = 0 /\ c' = c
    BY <1>6, <2>2, EmptySeq DEF Write, Idle, host
  <2> QED
    <3>1. Len(line) \in 0..1 /\ (Len(line) = 1 => line'[1].torn)
      <4>1. Len(line) \in 0..1
        BY <1>1, <2>1, <2>2 DEF Idle, Own
      <4> QED
        BY <2>2, <2>3, <4>1 DEF Idle
    <3>2. Len(line') \in 1..2 /\ (Len(line') = 2 => line'[1].torn)
      BY <2>3, <3>1
    <3>3. line'[Len(line')] = OnTheLine(FALSE)
      BY <2>3
    <3> QED
      BY <2>4, <3>2, <3>3 DEF OnItsWay, OnTheLine
<1>7. CASE WriteFails
  <2>1. CASE UNCHANGED <<line, pieces>>
    BY <1>7, <2>1 DEF WriteFails, host, OwnInv, Idle
  <2>2. CASE line' = Append(line, OnTheLine(TRUE)) /\ pieces' = pieces + 1
    <3>1. SUFFICES ASSUME pieces + 1 <= 1 PROVE Idle'
      BY <1>7, <2>2 DEF WriteFails, OwnInv
    <3>2. Len(line) = 0 /\ Len(answers) = 0
      BY <1>1, <1>7, <3>1 DEF WriteFails, OwnInv, Idle
    <3>3. Len(line') = 1 /\ line'[1] = OnTheLine(TRUE)
      BY <1>2, <2>2, <3>2, AppendProperties DEF TypeInv, Channels
    <3>4. answers' = answers /\ pc' = "option"
      BY <1>7 DEF WriteFails
    <3> QED
      BY <1>1, <2>2, <3>2, <3>3, <3>4 DEF Idle, OnTheLine
  <2> QED
    BY <1>7, <2>1, <2>2 DEF WriteFails
<1>8. CASE Decode
  <2>1. SUFFICES ASSUME pieces <= 1 PROVE Idle'
    BY <1>8 DEF Decode, wires, OwnInv
  <2>2. Len(buf) > 0 /\ d' = buf[1]
    BY <1>1, <1>8, EmptySeq DEF Decode, TypeInv, Channels
  <2>3. Answered /\ Len(buf) = 1 /\ Len(answers) = 0
    BY <1>1, <1>8, <2>1, <2>2 DEF Decode, OwnInv, OnItsWay, Answered
  <2> QED
    BY <1>1, <1>8, <2>2, <2>3 DEF Decode, wires, Answered, Idle, Own
<1>9. CASE Show
  BY <1>9 DEF Show, host, wires, OwnInv, Idle
<1>10. CASE UNCHANGED vars
  BY <1>10 DEF vars, OwnInv, OnItsWay, Answered, Idle, Own
<1> QED
  BY <1>3, <1>4, <1>5, <1>6, <1>7, <1>8, <1>9, <1>10, ReadsTheAnswer, DeviceAnswers DEF Next, Tool

(***********************************************************************************)
(* On a command line of any length, with at most one message cut short, no option  *)
(* shows the answer to another one.                                                *)
(***********************************************************************************)
THEOREM ShowsItsOwnAnswerHolds == Spec => []ShowsItsOwnAnswer
<1>1. OwnInv => ShowsItsOwnAnswer
  BY DEF OwnInv, Idle, Own, ShowsItsOwnAnswer
<1> QED
  BY <1>1, TypeInvInit, TypeInvStep, OwnInvInit, OwnInvStep, PTL DEF Spec
===================================================================================
