----------------------------- MODULE UartServer_proofs -----------------------------
(***********************************************************************************)
(* The safety properties of UartServer, for every set of messages, every size of   *)
(* rx_buf and a client any number of units ahead.  That messages are handed over   *)
(* whole and in order rests on the framing of what is on its way: the units that   *)
(* the task has not read are the rest of the message under way, followed by the    *)
(* other messages that are due, each behind its header (Framed).                   *)
(***********************************************************************************)
EXTENDS UartServer, SequenceTheorems, TLAPS

(***********************************************************************************)
(* Types                                                                           *)
(***********************************************************************************)

TypeInv ==
  /\ TypeOK
  /\ todo \in Seq(Units) /\ wire \in Seq(Units) /\ rx_buf \in Seq(Units)
  /\ due \in Seq({m \in Messages : Len(m) <= RxMax})
  /\ length \in Nat
  /\ pc # "off" => installed

LEMMA NotEmpty ==
  ASSUME NEW S, NEW s \in Seq(S), Len(s) > 0
  PROVE  s # <<>>
  OBVIOUS

LEMMA MessageTypes ==
  ASSUME NEW m \in Messages
  PROVE  /\ m \in Seq(Units) /\ Len(m) \in Nat \ {0}
         /\ Header(m) \in Seq(Units) /\ Len(Header(m)) = 2
         /\ Header(m)[1] = Unit("magic", 0) /\ Header(m)[2] = Unit("length", Len(m))
<1>1. m \in Seq(Units) /\ m # <<>>
  BY BoundsAssumption
<1>2. Len(m) \in Nat \ {0}
  BY <1>1, EmptySeq
<1>3. Unit("magic", 0) \in Units /\ Unit("length", Len(m)) \in Units
  BY <1>2 DEF Unit, Units
<1> QED
  BY <1>1, <1>2, <1>3 DEF Header

LEMMA TypeInvInit == Init => TypeInv
<1> SUFFICES ASSUME Init PROVE TypeInv
  OBVIOUS
<1>1. todo = <<>> /\ wire = <<>> /\ rx_buf = <<>> /\ due = <<>>
  BY DEF Init
<1>2. callback \in BOOLEAN /\ installed \in BOOLEAN
  BY Zenon DEF Init
<1> QED
  BY <1>1, <1>2, BoundsAssumption DEF Init, TypeInv, TypeOK, rx_len

LEMMA TypeInvStep == TypeInv /\ [Next]_vars => TypeInv'
<1> SUFFICES ASSUME TypeInv, [Next]_vars PROVE TypeInv'
  OBVIOUS
<1> USE BoundsAssumption DEF TypeInv, TypeOK, rx_len
<1> DEFINE Fitting == {m \in Messages : Len(m) <= RxMax}
<1>1. ASSUME NEW m \in Messages, Begin(m)
      PROVE  TypeInv'
  <2>1. todo' \in Seq(Units)
    BY <1>1, MessageTypes, ConcatProperties DEF Begin
  <2>2. due' \in Seq(Fitting)
    <3>1. CASE Len(m) <= RxMax /\ due' = IF faults = 0 /\ callback THEN Append(due, m) ELSE due
      BY <3>1, AppendProperties
    <3>2. CASE due' = <<>>
      BY <3>2
    <3> QED
      BY <1>1, <3>1, <3>2 DEF Begin
  <2>3. faults' \in 0..MaxFaults
    BY <1>1 DEF Begin
  <2> QED
    BY <1>1, <2>1, <2>2, <2>3 DEF Begin, server
<1>2. CASE Send
  <2>1. Head(todo) \in Units /\ todo' \in Seq(Units)
    BY <1>2, HeadTailProperties DEF Send
  <2>2. wire' \in Seq(Units) /\ Len(wire') = Len(wire) + 1
    BY <1>2, <2>1, AppendProperties DEF Send
  <2> QED
    BY <1>2, <2>1, <2>2 DEF Send, server
<1>3. CASE Pause
  BY <1>3 DEF Pause, server
<1>4. CASE Disturb
  <2>1. todo' \in Seq(Units)
    <3>1. todo # <<>> /\ (todo' = Tail(todo) \/ todo' = todo)
      BY <1>4 DEF Disturb
    <3> QED
      <4>1. Tail(todo) \in Seq(Units)
        BY <3>1, HeadTailProperties
      <4> QED
        BY <3>1, <4>1
  <2>2. pause' \in {"no", "long", "over"} /\ faults' \in 0..MaxFaults /\ due' = <<>>
    BY <1>4 DEF Disturb
  <2> QED
    BY <1>4, <2>1, <2>2 DEF Disturb, server
<1>5. CASE Enable
  BY <1>5 DEF Enable, client
<1>6. CASE Disable
  BY <1>6 DEF Disable, client, server
<1>7. CASE Register
  <2>1. due' \in Seq(Fitting) /\ faults' \in 0..MaxFaults
    <3>1. CASE UNCHANGED <<due, faults>>
      BY <3>1
    <3>2. CASE faults < MaxFaults /\ due' = <<>> /\ faults' = faults + 1
      BY <3>2
    <3> QED
      BY <1>7, <3>1, <3>2 DEF Register
  <2>2. callback' \in BOOLEAN /\ UNCHANGED <<todo, pause, wire, pc, length, rx_buf, installed>>
    BY <1>7 DEF Register
  <2> QED
    BY <2>1, <2>2
<1>8. CASE ReadHeader
  <2>1. Tail(Tail(wire)) \in Seq(Units) /\ Len(Tail(Tail(wire))) = Len(wire) - 2
    <3>1. Len(wire) \in Nat /\ wire # <<>>
      BY <1>8, LenProperties DEF ReadHeader
    <3>2. Tail(wire) \in Seq(Units) /\ Len(Tail(wire)) = Len(wire) - 1
      BY <3>1, HeadTailProperties
    <3>3. Tail(wire) # <<>>
      <4>1. Len(Tail(wire)) > 0
        BY <1>8, <3>1, <3>2 DEF ReadHeader
      <4> QED
        BY <3>2, <4>1, NotEmpty
    <3> QED
      BY <3>1, <3>2, <3>3, HeadTailProperties
  <2>2. PICK n \in LengthsOf(wire[2]) :
          \/ Accepts(wire[1], n) /\ rx_len <= n /\ pc' = "body" /\ length' = n
          \/ Accepts(wire[1], n) /\ rx_len > n /\ pc' = "undefined" /\ length' = n
          \/ ~Accepts(wire[1], n) /\ pc' = "callback" /\ UNCHANGED length
    BY <1>8 DEF ReadHeader
  <2>3. n \in Nat
    <3>1. wire[2] \in Units
      BY <1>8, ElementOfSeq DEF ReadHeader
    <3> QED
      BY <3>1 DEF LengthsOf, Units
  <2>4. length' \in Nat /\ (pc' = "body" => length' <= RxMax) /\ pc' \in {"body", "undefined", "callback"}
    BY <2>2, <2>3 DEF Accepts
  <2> QED
    BY <1>8, <2>1, <2>4 DEF ReadHeader, client
<1>9. CASE ReadTimesOut
  BY <1>9 DEF ReadTimesOut, server
<1>10. CASE ReadBody
  <2>1. Head(wire) \in Units /\ wire' \in Seq(Units) /\ Len(wire') = Len(wire) - 1
    BY <1>10, HeadTailProperties DEF ReadBody
  <2>2. rx_buf' \in Seq(Units) /\ Len(rx_buf') = Len(rx_buf) + 1
    BY <1>10, <2>1, AppendProperties DEF ReadBody
  <2>3. Len(wire) \in Nat /\ Len(rx_buf) \in Nat
    BY LenProperties
  <2> QED
    BY <1>10, <2>1, <2>2, <2>3 DEF ReadBody, client, server
<1>11. CASE BodyComplete
  BY <1>11 DEF BodyComplete, client, server
<1>12. CASE Callback
  <2>1. due' \in Seq(Fitting)
    BY <1>12, HeadTailProperties DEF Callback
  <2>2. rx_buf' \in Seq(Units) /\ Len(rx_buf') <= RxMax
    BY <1>12 DEF Callback
  <2> QED
    BY <1>12, <2>1, <2>2 DEF Callback, server
<1>13. CASE UNCHANGED vars
  BY <1>13 DEF vars, client, server
<1> QED
  BY <1>1, <1>2, <1>3, <1>4, <1>5, <1>6, <1>7, <1>8, <1>9, <1>10, <1>11, <1>12, <1>13
     DEF Next, Task, Client

(***********************************************************************************)
(* rx_buf is never overrun while its length is known: what is read of a message    *)
(* stays within the room there is, whatever was lost on the line before it.        *)
(***********************************************************************************)
THEOREM TypeCorrect == Spec => []TypeOK
<1>1. TypeInv => TypeOK
  BY DEF TypeInv
<1> QED
  BY <1>1, TypeInvInit, TypeInvStep, PTL DEF Spec

(***********************************************************************************)
(* Framing                                                                         *)
(***********************************************************************************)

\* What the client sends of a message.
Sent(m) == Header(m) \o m

(***********************************************************************************)
(* The units of s are those of the messages of d, less the first k.  at gives the  *)
(* place where each message starts, and last the place behind them all.            *)
(***********************************************************************************)
FramedAt(at, s, k, d) ==
  /\ at \in [1..Len(d) + 1 -> Int]
  /\ at[1] = 1 - k /\ at[Len(d) + 1] = Len(s) + 1
  /\ \A i, j \in 1..Len(d) + 1 : i < j => at[i] < at[j]
  /\ \A i \in 1..Len(d) : at[i + 1] = at[i] + 2 + Len(d[i])
  /\ \A i \in 1..Len(d) : \A p \in 1..Len(s) :
       at[i] <= p /\ p < at[i + 1] => s[p] = Sent(d[i])[p - at[i] + 1]

Framed(s, k, d) == \E at : FramedAt(at, s, k, d)

LEMMA SentTypes ==
  ASSUME NEW m \in Messages
  PROVE  /\ Sent(m) \in Seq(Units) /\ Len(Sent(m)) = 2 + Len(m)
         /\ Sent(m)[1] = Unit("magic", 0) /\ Sent(m)[2] = Unit("length", Len(m))
         /\ \A i \in 1..Len(m) : Sent(m)[i + 2] = m[i]
<1>1. /\ m \in Seq(Units) /\ Len(m) \in Nat \ {0}
      /\ Header(m) \in Seq(Units) /\ Len(Header(m)) = 2
      /\ Header(m)[1] = Unit("magic", 0) /\ Header(m)[2] = Unit("length", Len(m))
  BY MessageTypes
<1>2. /\ Sent(m) \in Seq(Units) /\ Len(Sent(m)) = 2 + Len(m)
      /\ \A i \in 1..2 + Len(m) : Sent(m)[i] = IF i <= 2 THEN Header(m)[i] ELSE m[i - 2]
  <2>1. /\ Sent(m) \in Seq(Units) /\ Len(Sent(m)) = Len(Header(m)) + Len(m)
        /\ \A i \in 1..Len(Header(m)) + Len(m) :
             Sent(m)[i] = IF i <= Len(Header(m)) THEN Header(m)[i] ELSE m[i - Len(Header(m))]
    BY <1>1, ConcatProperties DEF Sent
  <2>2. Len(Header(m)) = 2
    BY <1>1
  <2> QED
    BY <2>1, <2>2
<1>3. Sent(m)[1] = Header(m)[1] /\ Sent(m)[2] = Header(m)[2]
  BY <1>1, <1>2
<1>4. \A i \in 1..Len(m) : Sent(m)[i + 2] = m[i]
  BY <1>1, <1>2
<1> QED
  BY <1>1, <1>2, <1>3, <1>4

LEMMA FramedNothing == Framed(<<>>, 0, <<>>)
<1>1. FramedAt([i \in 1..1 |-> 1], <<>>, 0, <<>>)
  BY DEF FramedAt
<1> QED
  BY <1>1 DEF Framed

\* One more message is sent.
LEMMA FramedMore ==
  ASSUME NEW s \in Seq(Units), NEW k \in Nat, NEW d \in Seq(Messages), Framed(s, k, d),
         NEW m \in Messages
  PROVE  Framed(s \o Sent(m), k, Append(d, m))
<1> DEFINE n == Len(d)
           t == s \o Sent(m)
           e == Append(d, m)
<1>1. PICK at : FramedAt(at, s, k, d)
  BY DEF Framed
<1> DEFINE bt == [i \in 1..n + 2 |-> IF i <= n + 1 THEN at[i] ELSE Len(t) + 1]
<1>2. n \in Nat /\ Len(s) \in Nat /\ Len(m) \in Nat
  BY LenProperties, MessageTypes
<1>3. /\ Len(Sent(m)) = 2 + Len(m) /\ Len(t) = Len(s) + 2 + Len(m)
      /\ \A p \in 1..Len(s) + 2 + Len(m) : t[p] = IF p <= Len(s) THEN s[p] ELSE Sent(m)[p - Len(s)]
  <2>1. Sent(m) \in Seq(Units) /\ Len(Sent(m)) = 2 + Len(m)
    BY SentTypes
  <2>2. /\ Len(t) = Len(s) + Len(Sent(m))
        /\ \A p \in 1..Len(s) + Len(Sent(m)) : t[p] = IF p <= Len(s) THEN s[p] ELSE Sent(m)[p - Len(s)]
    <3>1. \A q \in Seq(Units) :
            /\ Len(s \o q) = Len(s) + Len(q)
            /\ \A p \in 1..Len(s) + Len(q) : (s \o q)[p] = IF p <= Len(s) THEN s[p] ELSE q[p - Len(s)]
      BY ConcatProperties
    <3> QED
      BY <2>1, <3>1, Zenon
  <2>3. Len(t) = Len(s) + 2 + Len(m)
    BY <1>2, <2>1, <2>2
  <2>4. Len(s) + Len(Sent(m)) = Len(s) + 2 + Len(m)
    BY <1>2, <2>1
  <2> QED
    BY <2>1, <2>2, <2>3, <2>4
<1>4. Len(e) = n + 1 /\ e[n + 1] = m /\ \A i \in 1..n : e[i] = d[i]
  BY AppendProperties
<1>5. /\ at \in [1..n + 1 -> Int] /\ at[1] = 1 - k /\ at[n + 1] = Len(s) + 1
      /\ \A i, j \in 1..n + 1 : i < j => at[i] < at[j]
      /\ \A i \in 1..n : at[i + 1] = at[i] + 2 + Len(d[i])
  BY <1>1 DEF FramedAt
<1>6. bt \in [1..Len(e) + 1 -> Int] /\ bt[1] = 1 - k /\ bt[Len(e) + 1] = Len(t) + 1
  BY <1>2, <1>3, <1>4, <1>5
<1>a. (\A i \in 1..n + 1 : bt[i] = at[i] /\ at[i] \in Int) /\ bt[n + 2] = Len(s) + 3 + Len(m)
  <2>1. ASSUME NEW i \in 1..n + 1
        PROVE  bt[i] = at[i] /\ at[i] \in Int
    <3>1. i \in 1..n + 2 /\ i <= n + 1
      BY <1>2
    <3> QED
      BY <1>5, <3>1
  <2>2. bt[n + 2] = Len(t) + 1
    <3>1. n + 2 \in 1..n + 2 /\ ~(n + 2 <= n + 1)
      BY <1>2
    <3> QED
      BY <3>1
  <2>3. Len(t) + 1 = Len(s) + 3 + Len(m)
    BY <1>2, <1>3
  <2> QED
    BY <2>1, <2>2, <2>3
<1> HIDE DEF bt, t, e, n
<1>7. \A i, j \in 1..Len(e) + 1 : i < j => bt[i] < bt[j]
  <2> SUFFICES ASSUME NEW i \in 1..n + 2, NEW j \in 1..n + 2, i < j
               PROVE  bt[i] < bt[j]
    BY <1>2, <1>4
  <2>1. CASE j <= n + 1
    <3>1. i \in 1..n + 1 /\ j \in 1..n + 1
      BY <1>2, <2>1
    <3> QED
      BY <1>5, <1>a, <3>1
  <2>2. CASE j = n + 2
    <3>1. i \in 1..n + 1 /\ n + 1 \in 1..n + 1 /\ (i = n + 1 \/ i < n + 1)
      BY <1>2, <2>2
    <3>2. at[i] \in Int /\ at[i] <= Len(s) + 1
      BY <1>2, <1>5, <1>a, <3>1
    <3>3. bt[i] = at[i]
      BY <1>a, <3>1
    <3> QED
      BY <1>2, <1>a, <2>2, <3>2, <3>3
  <2> QED
    BY <1>2, <2>1, <2>2
<1>8. \A i \in 1..Len(e) : bt[i + 1] = bt[i] + 2 + Len(e[i])
  <2> SUFFICES ASSUME NEW i \in 1..n + 1
               PROVE  bt[i + 1] = bt[i] + 2 + Len(e[i])
    BY <1>2, <1>4
  <2>1. CASE i <= n
    <3>1. i \in 1..n /\ i \in 1..n + 1 /\ i + 1 \in 1..n + 1
      BY <1>2, <2>1
    <3> QED
      BY <1>4, <1>5, <1>a, <3>1
  <2>2. CASE i = n + 1
    <3>1. n + 1 \in 1..n + 1 /\ i + 1 = n + 2
      BY <1>2, <2>2
    <3>2. bt[i] = Len(s) + 1 /\ bt[i + 1] = Len(s) + 3 + Len(m) /\ e[i] = m
      BY <1>4, <1>5, <1>a, <2>2, <3>1
    <3> QED
      BY <1>2, <3>2
  <2> QED
    BY <1>2, <2>1, <2>2
<1>9. \A i \in 1..Len(e) : \A p \in 1..Len(t) :
        bt[i] <= p /\ p < bt[i + 1] => t[p] = Sent(e[i])[p - bt[i] + 1]
  <2> SUFFICES ASSUME NEW i \in 1..n + 1, NEW p \in 1..Len(t), bt[i] <= p, p < bt[i + 1]
               PROVE  t[p] = Sent(e[i])[p - bt[i] + 1]
    BY <1>2, <1>4
  <2>0. p \in Nat /\ 1 <= p /\ p \in 1..Len(s) + 2 + Len(m)
    BY <1>2, <1>3
  <2>1. CASE i <= n
    <3>0. i \in 1..n /\ i \in 1..n + 1 /\ i + 1 \in 1..n + 1 /\ n + 1 \in 1..n + 1
          /\ (i + 1 = n + 1 \/ i + 1 < n + 1)
      BY <1>2, <2>1
    <3>1. bt[i] = at[i] /\ bt[i + 1] = at[i + 1] /\ e[i] = d[i] /\ at[i + 1] \in Int
      BY <1>4, <1>a, <3>0
    <3>2. at[i + 1] <= Len(s) + 1
      <4>1. CASE i + 1 = n + 1
        BY <1>2, <1>5, <4>1
      <4>2. CASE i + 1 < n + 1
        BY <1>2, <1>5, <3>0, <3>1, <4>2
      <4> QED
        BY <3>0, <4>1, <4>2
    <3>3. p <= Len(s) /\ p \in 1..Len(s)
      BY <1>2, <2>0, <3>1, <3>2
    <3>4. s[p] = Sent(d[i])[p - at[i] + 1]
      BY <1>1, <3>0, <3>1, <3>3 DEF FramedAt, n
    <3> QED
      BY <1>3, <2>0, <3>1, <3>3, <3>4
  <2>2. CASE i = n + 1
    <3>0. n + 1 \in 1..n + 1
      BY <1>2
    <3>1. bt[i] = Len(s) + 1 /\ e[i] = m
      BY <1>4, <1>5, <1>a, <2>2, <3>0
    <3>2. ~(p <= Len(s)) /\ p - Len(s) = p - bt[i] + 1
      BY <1>2, <2>0, <3>1
    <3>3. t[p] = Sent(m)[p - Len(s)]
      BY <1>3, <2>0, <3>2
    <3> QED
      BY <3>1, <3>2, <3>3
  <2> QED
    BY <1>2, <2>1, <2>2
<1>10. FramedAt(bt, t, k, e)
  BY <1>6, <1>7, <1>8, <1>9 DEF FramedAt
<1> QED
  BY <1>10 DEF Framed, t, e

\* The first unit is taken off the line.
LEMMA FramedTake ==
  ASSUME NEW s \in Seq(Units), s # <<>>, NEW k \in Nat, NEW d \in Seq(Messages), Framed(s, k, d)
  PROVE  Framed(Tail(s), k + 1, d)
<1> DEFINE n == Len(d)
<1>1. PICK at : FramedAt(at, s, k, d)
  BY DEF Framed
<1> DEFINE bt == [i \in 1..n + 1 |-> at[i] - 1]
<1>2. n \in Nat /\ Len(s) \in Nat
  BY LenProperties
<1>3. Len(Tail(s)) = Len(s) - 1 /\ \A p \in 1..Len(Tail(s)) : Tail(s)[p] = s[p + 1]
  BY HeadTailProperties
<1>4. /\ at \in [1..n + 1 -> Int] /\ at[1] = 1 - k /\ at[n + 1] = Len(s) + 1
      /\ \A i, j \in 1..n + 1 : i < j => at[i] < at[j]
      /\ \A i \in 1..n : at[i + 1] = at[i] + 2 + Len(d[i])
  BY <1>1 DEF FramedAt
<1>5. bt \in [1..n + 1 -> Int] /\ bt[1] = 1 - (k + 1) /\ bt[n + 1] = Len(Tail(s)) + 1
  BY <1>2, <1>3, <1>4
<1>a. \A i \in 1..n + 1 : bt[i] = at[i] - 1 /\ at[i] \in Int
  BY <1>4
<1> HIDE DEF bt, n
<1>6. \A i, j \in 1..n + 1 : i < j => bt[i] < bt[j]
  BY <1>4, <1>a
<1>7. \A i \in 1..n : bt[i + 1] = bt[i] + 2 + Len(d[i])
  <2> TAKE i \in 1..n
  <2>1. Len(d[i]) \in Nat
    BY MessageTypes, ElementOfSeq DEF n
  <2>2. i \in 1..n + 1 /\ i + 1 \in 1..n + 1
    BY <1>2
  <2>3. at[i + 1] = at[i] + 2 + Len(d[i]) /\ bt[i] = at[i] - 1 /\ bt[i + 1] = at[i + 1] - 1 /\ at[i] \in Int
    BY <1>4, <1>a, <2>2
  <2>4. at[i + 1] - 1 = (at[i] - 1) + 2 + Len(d[i])
    BY <2>1, <2>3
  <2> QED
    BY <2>3, <2>4
<1>8. \A i \in 1..n : \A p \in 1..Len(Tail(s)) :
        bt[i] <= p /\ p < bt[i + 1] => Tail(s)[p] = Sent(d[i])[p - bt[i] + 1]
  <2> SUFFICES ASSUME NEW i \in 1..n, NEW p \in 1..Len(Tail(s)), bt[i] <= p, p < bt[i + 1]
               PROVE  Tail(s)[p] = Sent(d[i])[p - bt[i] + 1]
    OBVIOUS
  <2>0. i \in 1..n + 1 /\ i + 1 \in 1..n + 1 /\ p \in Int /\ p + 1 \in 1..Len(s)
    BY <1>2, <1>3
  <2>a. bt[i] = at[i] - 1 /\ bt[i + 1] = at[i + 1] - 1 /\ at[i] \in Int /\ at[i + 1] \in Int
    BY <1>a, <2>0
  <2>1. at[i] <= p + 1 /\ p + 1 < at[i + 1]
    BY <2>0, <2>a
  <2>2. s[p + 1] = Sent(d[i])[(p + 1) - at[i] + 1]
    BY <1>1, <2>0, <2>1 DEF FramedAt, n
  <2>3. (p + 1) - at[i] + 1 = p - bt[i] + 1
    BY <2>0, <2>a
  <2> QED
    BY <1>3, <2>2, <2>3
<1>9. FramedAt(bt, Tail(s), k + 1, d)
  BY <1>5, <1>6, <1>7, <1>8 DEF FramedAt, n
<1> QED
  BY <1>9 DEF Framed

\* The first message has been taken whole.
LEMMA FramedDone ==
  ASSUME NEW s \in Seq(Units), NEW d \in Seq(Messages), d # <<>>,
         Framed(s, 2 + Len(d[1]), d)
  PROVE  Framed(s, 0, Tail(d))
<1> DEFINE n == Len(d)
           e == Tail(d)
<1>1. PICK at : FramedAt(at, s, 2 + Len(d[1]), d)
  BY DEF Framed
<1> DEFINE bt == [i \in 1..n |-> at[i + 1]]
<1>2. n \in Nat \ {0} /\ Len(s) \in Nat
  BY LenProperties, EmptySeq
<1>3. Len(e) = n - 1 /\ \A i \in 1..n - 1 : e[i] = d[i + 1]
  BY HeadTailProperties
<1>4. /\ at \in [1..n + 1 -> Int] /\ at[1] = 1 - (2 + Len(d[1])) /\ at[n + 1] = Len(s) + 1
      /\ \A i, j \in 1..n + 1 : i < j => at[i] < at[j]
      /\ \A i \in 1..n : at[i + 1] = at[i] + 2 + Len(d[i])
  BY <1>1 DEF FramedAt
<1>5. at[2] = 1
  <2>1. Len(d[1]) \in Nat
    BY <1>2, MessageTypes, ElementOfSeq
  <2> QED
    BY <1>2, <1>4, <2>1
<1>6. bt \in [1..Len(e) + 1 -> Int] /\ bt[1] = 1 - 0 /\ bt[Len(e) + 1] = Len(s) + 1
  BY <1>2, <1>3, <1>4, <1>5
<1>a. \A i \in 1..n : bt[i] = at[i + 1]
  OBVIOUS
<1>b. Len(e) + 1 = n
  BY <1>2, <1>3
<1> HIDE DEF bt, n
<1>7. \A i, j \in 1..Len(e) + 1 : i < j => bt[i] < bt[j]
  <2> SUFFICES ASSUME NEW i \in 1..n, NEW j \in 1..n, i < j
               PROVE  bt[i] < bt[j]
    BY <1>b
  <2>1. i + 1 \in 1..n + 1 /\ j + 1 \in 1..n + 1 /\ i + 1 < j + 1
    BY <1>2
  <2> QED
    BY <1>4, <1>a, <2>1
<1>8. \A i \in 1..Len(e) : bt[i + 1] = bt[i] + 2 + Len(e[i])
  <2> SUFFICES ASSUME NEW i \in 1..n - 1
               PROVE  bt[i + 1] = bt[i] + 2 + Len(e[i])
    BY <1>3
  <2>1. i \in 1..n /\ i + 1 \in 1..n
    BY <1>2
  <2> QED
    BY <1>3, <1>4, <1>a, <2>1
<1>9. \A i \in 1..Len(e) : \A p \in 1..Len(s) :
        bt[i] <= p /\ p < bt[i + 1] => s[p] = Sent(e[i])[p - bt[i] + 1]
  <2> SUFFICES ASSUME NEW i \in 1..n - 1, NEW p \in 1..Len(s), bt[i] <= p, p < bt[i + 1]
               PROVE  s[p] = Sent(e[i])[p - bt[i] + 1]
    BY <1>3
  <2>0. i \in 1..n /\ i + 1 \in 1..n
    BY <1>2
  <2>1. bt[i] = at[i + 1] /\ bt[i + 1] = at[(i + 1) + 1] /\ e[i] = d[i + 1]
    BY <1>3, <1>a, <2>0
  <2>2. s[p] = Sent(d[i + 1])[p - at[i + 1] + 1]
    BY <1>1, <2>0, <2>1 DEF FramedAt, n
  <2> QED
    BY <2>1, <2>2
<1>10. FramedAt(bt, s, 0, e)
  BY <1>6, <1>7, <1>8, <1>9 DEF FramedAt
<1> QED
  BY <1>10 DEF Framed

\* Of a line of framed messages, the next unit is that of the message under way, and
\* the rest of it is there.
LEMMA FramedNext ==
  ASSUME NEW s \in Seq(Units), NEW k \in Nat, NEW d \in Seq(Messages), Framed(s, k, d)
  PROVE  /\ d = <<>> => Len(s) = 0 /\ k = 0
         /\ d # <<>> => Len(s) >= 2 + Len(d[1]) - k
         /\ d # <<>> /\ s # <<>> /\ k < 2 + Len(d[1]) => s[1] = Sent(d[1])[k + 1]
<1> DEFINE n == Len(d)
<1>1. PICK at : FramedAt(at, s, k, d)
  BY DEF Framed
<1>2. n \in Nat /\ Len(s) \in Nat
  BY LenProperties
<1>3. /\ at \in [1..n + 1 -> Int] /\ at[1] = 1 - k /\ at[n + 1] = Len(s) + 1
      /\ \A i, j \in 1..n + 1 : i < j => at[i] < at[j]
      /\ \A i \in 1..n : at[i + 1] = at[i] + 2 + Len(d[i])
  BY <1>1 DEF FramedAt
<1>4. CASE d = <<>>
  <2>1. 1 - k = Len(s) + 1
    BY <1>3, <1>4
  <2> QED
    BY <1>2, <1>4, <2>1
<1>5. CASE d # <<>>
  <2>1. n \in Nat \ {0}
    BY <1>5, EmptySeq
  <2>2. Len(d[1]) \in Nat
    BY <2>1, MessageTypes, ElementOfSeq
  <2>3. at[2] = 1 - k + 2 + Len(d[1])
    BY <1>3, <2>1, <2>2
  <2>4. at[2] <= Len(s) + 1
    BY <1>2, <1>3, <2>1
  <2>5. ASSUME s # <<>>, k < 2 + Len(d[1])
        PROVE  s[1] = Sent(d[1])[k + 1]
    <3>1. 1 \in 1..Len(s) /\ 1 \in 1..n
      BY <1>2, <2>1, <2>5, EmptySeq
    <3>2. at[1] <= 1 /\ 1 < at[2]
      BY <1>3, <2>2, <2>3, <2>5
    <3>3. s[1] = Sent(d[1])[1 - at[1] + 1]
      BY <1>1, <3>1, <3>2 DEF FramedAt
    <3> QED
      BY <1>3, <3>3
  <2> QED
    BY <1>2, <1>5, <2>2, <2>3, <2>4, <2>5
<1> QED
  BY <1>4, <1>5

(***********************************************************************************)
(* Order                                                                           *)
(***********************************************************************************)

Line == wire \o todo

\* How much of the first message that is due the task has read.
Taken == IF pc = "header" THEN 0 ELSE 2 + rx_len

\* rx_buf has the start of the first message that is due.
UnderWay ==
  /\ due # <<>>
  /\ length = Len(due[1]) /\ rx_len <= length
  /\ \A i \in 1..rx_len : rx_buf[i] = due[1][i]

\* Without a fault; off is the task before it was enabled, or for good.
OrderInv ==
  /\ pc = "off" /\ ~installed => todo = <<>> /\ wire = <<>> /\ rx_buf = <<>> /\ due = <<>>
  /\ faults = 0 /\ pause = "long" => todo = <<>>
  /\ faults = 0 /\ callback /\ pc \notin {"off", "undefined"} =>
       /\ Framed(Line, Taken, due)
       /\ pc = "header" => rx_buf = <<>>
       /\ pc \in {"body", "callback"} => UnderWay
       /\ pc = "callback" => rx_len = length

LEMMA OrderInvInit == Init => OrderInv
  BY DEF Init, OrderInv

\* The line is the same after what the task or the client does to its halves.
LEMMA LineTypes ==
  ASSUME TypeInv
  PROVE  /\ Line \in Seq(Units) /\ Len(Line) = Len(wire) + Len(todo)
         /\ Len(wire) \in Nat /\ Len(todo) \in Nat /\ rx_len \in Nat
         /\ due \in Seq(Messages)
<1>1. Line \in Seq(Units) /\ Len(Line) = Len(wire) + Len(todo)
  BY ConcatProperties DEF Line, TypeInv
<1>2. Len(wire) \in Nat /\ Len(todo) \in Nat /\ rx_len \in Nat
  BY LenProperties DEF TypeInv, rx_len
<1>3. due \in Seq(Messages)
  BY SeqMonotonic DEF TypeInv
<1> QED
  BY <1>1, <1>2, <1>3

\* Taking the first unit of the wire takes the first unit of the line.
LEMMA LineTail ==
  ASSUME NEW w \in Seq(Units), NEW t \in Seq(Units), w # <<>>
  PROVE  w \o t # <<>> /\ Tail(w \o t) = Tail(w) \o t /\ (w \o t)[1] = w[1]
<1>1. Len(w) \in Nat \ {0} /\ Len(t) \in Nat
  BY EmptySeq, LenProperties
<1>2. /\ w \o t \in Seq(Units) /\ Len(w \o t) = Len(w) + Len(t)
      /\ \A i \in 1..Len(w) + Len(t) : (w \o t)[i] = IF i <= Len(w) THEN w[i] ELSE t[i - Len(w)]
  BY ConcatProperties
<1>3. w \o t # <<>>
  <2>1. Len(w \o t) > 0
    BY <1>1, <1>2
  <2> QED
    BY <1>2, <2>1, NotEmpty
<1>4. /\ Tail(w) \in Seq(Units) /\ Len(Tail(w)) = Len(w) - 1
      /\ \A i \in 1..Len(w) - 1 : Tail(w)[i] = w[i + 1]
  BY HeadTailProperties
<1>5. /\ Tail(w) \o t \in Seq(Units) /\ Len(Tail(w) \o t) = Len(Tail(w)) + Len(t)
      /\ \A i \in 1..Len(Tail(w)) + Len(t) :
           (Tail(w) \o t)[i] = IF i <= Len(Tail(w)) THEN Tail(w)[i] ELSE t[i - Len(Tail(w))]
  BY <1>4, ConcatProperties
<1>6. /\ Tail(w \o t) \in Seq(Units) /\ Len(Tail(w \o t)) = Len(w \o t) - 1
      /\ \A i \in 1..Len(Tail(w \o t)) : Tail(w \o t)[i] = (w \o t)[i + 1]
  BY <1>2, <1>3, HeadTailProperties
<1>7. Len(Tail(w \o t)) = Len(Tail(w) \o t)
  BY <1>1, <1>2, <1>4, <1>5, <1>6
<1>8. ASSUME NEW i \in 1..Len(Tail(w \o t))
      PROVE  Tail(w \o t)[i] = (Tail(w) \o t)[i]
  <2>1. i \in Nat /\ 1 <= i /\ i <= Len(w) - 1 + Len(t)
    BY <1>1, <1>2, <1>6
  <2>2. Tail(w \o t)[i] = (w \o t)[i + 1]
    BY <1>6
  <2>3. (w \o t)[i + 1] = IF i + 1 <= Len(w) THEN w[i + 1] ELSE t[i + 1 - Len(w)]
    BY <1>1, <1>2, <2>1
  <2>4. (Tail(w) \o t)[i] = IF i <= Len(w) - 1 THEN Tail(w)[i] ELSE t[i - (Len(w) - 1)]
    <3>1. i \in 1..Len(Tail(w)) + Len(t)
      BY <1>1, <1>4, <2>1
    <3> QED
      BY <1>4, <1>5, <3>1
  <2>5. CASE i <= Len(w) - 1
    BY <1>1, <1>4, <2>1, <2>2, <2>3, <2>4, <2>5
  <2>6. CASE ~(i <= Len(w) - 1)
    <3>1. ~(i + 1 <= Len(w)) /\ i + 1 - Len(w) = i - (Len(w) - 1)
      BY <1>1, <2>1, <2>6
    <3> QED
      BY <2>2, <2>3, <2>4, <2>6, <3>1
  <2> QED
    BY <2>5, <2>6
<1>9. Tail(w \o t) = Tail(w) \o t
  BY <1>5, <1>6, <1>7, <1>8, SeqEqual
<1>10. (w \o t)[1] = w[1]
  BY <1>1, <1>2
<1> QED
  BY <1>3, <1>9, <1>10

\* Moving the first unit from the client to the wire leaves the line as it is.
LEMMA LineMoves ==
  ASSUME NEW w \in Seq(Units), NEW t \in Seq(Units), t # <<>>
  PROVE  Append(w, Head(t)) \o Tail(t) = w \o t
<1>1. Head(t) \in Units /\ Tail(t) \in Seq(Units)
  BY HeadTailProperties
<1>2. t = <<Head(t)>> \o Tail(t)
  <2>1. Len(t) \in Nat \ {0}
    BY EmptySeq
  <2>2. SubSeq(t, 1, Len(t)) = <<t[1]>> \o SubSeq(t, 1 + 1, Len(t))
    BY <2>1, SubSeqRecursiveFirst
  <2>3. Tail(t) = SubSeq(t, 2, Len(t)) /\ SubSeq(t, 1, Len(t)) = t
    BY TailIsSubSeq, SubSeqFull
  <2>4. Head(t) = t[1]
    BY <2>1
  <2> QED
    BY <2>2, <2>3, <2>4
<1>3. Append(w, Head(t)) = w \o <<Head(t)>>
  BY <1>1, AppendIsConcat
<1>4. <<Head(t)>> \in Seq(Units)
  BY <1>1
<1> QED
  BY <1>1, <1>2, <1>3, <1>4, ConcatAssociative

LEMMA BeginInOrder ==
  ASSUME TypeInv, OrderInv, NEW m \in Messages, Begin(m)
  PROVE  OrderInv'
<1>1. todo = <<>> /\ pause # "long" /\ pc \notin {"off", "undefined"}
  BY DEF Begin
<1>2. UNCHANGED <<pause, wire, pc, rx_buf, length, callback, installed>> /\ todo' = Sent(m)
  BY DEF Begin, server, Sent
<1>3. SUFFICES ASSUME faults' = 0, callback
               PROVE  /\ Framed(Line', Taken', due')
                      /\ pc = "header" => rx_buf = <<>>
                      /\ pc \in {"body", "callback"} => UnderWay'
                      /\ pc = "callback" => rx_len = length
  BY <1>1, <1>2 DEF OrderInv, rx_len
<1>4. faults = 0 /\ due' = Append(due, m)
  <2>1. faults \in Nat
    BY BoundsAssumption DEF TypeInv, TypeOK
  <2> QED
    BY <1>3, <2>1 DEF Begin
<1>5. /\ Framed(Line, Taken, due)
      /\ pc = "header" => rx_buf = <<>>
      /\ pc \in {"body", "callback"} => UnderWay
      /\ pc = "callback" => rx_len = length
  BY <1>1, <1>3, <1>4 DEF OrderInv
<1>6. Line \in Seq(Units) /\ rx_len \in Nat /\ due \in Seq(Messages)
  BY LineTypes
<1>7. Taken \in Nat /\ Taken' = Taken
  BY <1>2, <1>6 DEF Taken, rx_len
<1>8. Line = wire /\ Line' = Line \o Sent(m)
  BY <1>1, <1>2, ConcatEmptySeq DEF Line, TypeInv
<1>9. Framed(Line', Taken', due')
  BY <1>4, <1>5, <1>6, <1>7, <1>8, FramedMore
<1>10. UnderWay => UnderWay'
  <2>1. due # <<>> => due' # <<>> /\ due'[1] = due[1]
    BY <1>4, <1>6, AppendProperties, EmptySeq
  <2> QED
    BY <1>2, <2>1 DEF UnderWay, rx_len
<1> QED
  BY <1>5, <1>9, <1>10

LEMMA ReadHeaderInOrder ==
  ASSUME TypeInv, OrderInv, ReadHeader
  PROVE  OrderInv'
<1>1. pc = "header" /\ Len(wire) >= 2 /\ wire' = Tail(Tail(wire)) /\ pc' # "off"
  BY DEF ReadHeader
<1>2. UNCHANGED <<todo, pause, due, rx_buf, callback, installed, faults>>
  BY DEF ReadHeader, client
<1>3. SUFFICES ASSUME faults = 0, callback
               PROVE  /\ Framed(Line', Taken', due)
                      /\ pc' = "body" /\ UnderWay'
  BY <1>1, <1>2 DEF OrderInv
<1>4. Framed(Line, 0, due) /\ rx_buf = <<>> /\ rx_len = 0
  BY <1>1, <1>3 DEF OrderInv, Taken, rx_len
<1>5. Line \in Seq(Units) /\ due \in Seq(Messages) /\ wire \in Seq(Units) /\ todo \in Seq(Units)
  BY LineTypes DEF TypeInv
<1>6. /\ Len(wire) \in Nat /\ wire # <<>> /\ Tail(wire) \in Seq(Units) /\ Tail(wire) # <<>>
      /\ Tail(wire)[1] = wire[2]
  <2>1. Len(wire) \in Nat /\ wire # <<>>
    BY <1>1, <1>5, LenProperties
  <2>2. Tail(wire) \in Seq(Units) /\ Len(Tail(wire)) = Len(wire) - 1
    BY <1>5, <2>1, HeadTailProperties
  <2>3. Len(Tail(wire)) > 0
    BY <1>1, <2>1, <2>2
  <2>4. Tail(wire) # <<>>
    BY <2>2, <2>3, NotEmpty
  <2>5. 1 \in 1..Len(Tail(wire))
    BY <2>1, <2>2, <2>3
  <2>6. Tail(wire)[1] = wire[1 + 1]
    BY <1>5, <2>1, <2>5, HeadTailProperties
  <2> QED
    BY <2>1, <2>2, <2>4, <2>6
<1>7. /\ Line # <<>> /\ Tail(Line) = Tail(wire) \o todo /\ Line[1] = wire[1]
  BY <1>5, <1>6, LineTail DEF Line
<1>8. /\ Tail(Line) \in Seq(Units) /\ Tail(Line) # <<>> /\ Tail(Line)[1] = wire[2]
      /\ Tail(Tail(Line)) = wire' \o todo
  <2>1. Tail(wire) \o todo \in Seq(Units)
    BY <1>5, <1>6, ConcatProperties
  <2>2. /\ Tail(wire) \o todo # <<>> /\ Tail(Tail(wire) \o todo) = Tail(Tail(wire)) \o todo
        /\ (Tail(wire) \o todo)[1] = Tail(wire)[1]
    BY <1>5, <1>6, LineTail
  <2> QED
    BY <1>1, <1>6, <1>7, <2>1, <2>2
<1>9. due # <<>>
  <2>1. Len(Line) # 0
    BY <1>5, <1>7, EmptySeq
  <2> QED
    BY <1>4, <1>5, <2>1, FramedNext
<1>10. due[1] \in Messages /\ Len(due[1]) \in Nat \ {0} /\ Len(due[1]) <= RxMax
  <2>1. 1 \in 1..Len(due)
    BY <1>5, <1>9, EmptySeq
  <2>2. due[1] \in {m \in Messages : Len(m) <= RxMax}
    BY <2>1, ElementOfSeq DEF TypeInv
  <2> QED
    BY <2>2, MessageTypes
<1>11. Framed(Tail(Line), 1, due)
  <2>1. Framed(Tail(Line), 0 + 1, due)
    BY <1>4, <1>5, <1>7, FramedTake
  <2> QED
    BY <2>1
<1>12. Framed(Tail(Tail(Line)), 2, due)
  <2>1. Framed(Tail(Tail(Line)), 1 + 1, due)
    BY <1>5, <1>8, <1>11, FramedTake
  <2> QED
    BY <2>1
<1>13. wire[1] = Unit("magic", 0)
  <2>1. Line[1] = Sent(due[1])[0 + 1]
    BY <1>4, <1>5, <1>7, <1>9, <1>10, FramedNext
  <2> QED
    BY <1>7, <1>10, <2>1, SentTypes
<1>14. wire[2] = Unit("length", Len(due[1]))
  <2>1. Tail(Line)[1] = Sent(due[1])[1 + 1]
    <3>1. 1 \in Nat /\ 1 < 2 + Len(due[1])
      BY <1>10
    <3> QED
      BY <1>5, <1>8, <1>9, <1>11, <3>1, FramedNext
  <2> QED
    BY <1>8, <1>10, <2>1, SentTypes
<1>15. pc' = "body" /\ length' = Len(due[1])
  <2>1. LengthsOf(wire[2]) = {Len(due[1])}
    BY <1>14 DEF LengthsOf, Unit
  <2>2. Accepts(wire[1], Len(due[1])) /\ rx_len <= Len(due[1])
    BY <1>4, <1>10, <1>13 DEF Accepts, Unit
  <2>3. ~(rx_len > Len(due[1]))
    BY <1>4, <1>10
  <2> QED
    BY <2>1, <2>2, <2>3 DEF ReadHeader
<1>16. UnderWay'
  BY <1>2, <1>4, <1>9, <1>10, <1>15 DEF UnderWay, rx_len
<1>17. Line' = Tail(Tail(Line)) /\ Taken' = 2
  <2>1. Line' = Tail(Tail(Line))
    BY <1>2, <1>8 DEF Line
  <2>2. Taken' = 2 + rx_len
    BY <1>2, <1>15 DEF Taken, rx_len
  <2> QED
    BY <1>4, <2>1, <2>2
<1> QED
  BY <1>12, <1>15, <1>16, <1>17

LEMMA ReadBodyInOrder ==
  ASSUME TypeInv, OrderInv, ReadBody
  PROVE  OrderInv'
<1>1. /\ pc = "body" /\ rx_len < length /\ wire # <<>>
      /\ rx_buf' = Append(rx_buf, Head(wire)) /\ wire' = Tail(wire)
      /\ UNCHANGED <<todo, pause, due, pc, length, callback, installed, faults>>
  BY DEF ReadBody, client, server
<1>2. SUFFICES ASSUME faults = 0, callback
               PROVE  Framed(Line', Taken', due) /\ UnderWay'
  BY <1>1 DEF OrderInv
<1>3. Framed(Line, 2 + rx_len, due) /\ UnderWay
  BY <1>1, <1>2 DEF OrderInv, Taken
<1>4. /\ Line \in Seq(Units) /\ due \in Seq(Messages) /\ wire \in Seq(Units) /\ todo \in Seq(Units)
      /\ rx_buf \in Seq(Units) /\ rx_len \in Nat
  BY LineTypes DEF TypeInv
<1>5. Line # <<>> /\ Tail(Line) = Tail(wire) \o todo /\ Line[1] = wire[1]
  BY <1>1, <1>4, LineTail DEF Line
<1>6. /\ rx_len' = rx_len + 1 /\ rx_buf'[rx_len + 1] = wire[1]
      /\ \A i \in 1..rx_len : rx_buf'[i] = rx_buf[i]
  <2>1. Head(wire) \in Units /\ Head(wire) = wire[1]
    BY <1>1, <1>4, HeadTailProperties
  <2> QED
    BY <1>1, <1>4, <2>1, AppendProperties DEF rx_len
<1>7. due # <<>> /\ length = Len(due[1]) /\ \A i \in 1..rx_len : rx_buf[i] = due[1][i]
  BY <1>3 DEF UnderWay
<1>8. due[1] \in Messages /\ Len(due[1]) \in Nat
  <2>1. 1 \in 1..Len(due)
    BY <1>4, <1>7, EmptySeq
  <2> QED
    BY <1>4, <2>1, ElementOfSeq, MessageTypes
<1>9. wire[1] = due[1][rx_len + 1]
  <2>1. 2 + rx_len \in Nat /\ 2 + rx_len < 2 + Len(due[1])
    BY <1>1, <1>4, <1>7, <1>8
  <2>2. Line[1] = Sent(due[1])[(2 + rx_len) + 1]
    BY <1>3, <1>4, <1>5, <1>7, <2>1, FramedNext
  <2>3. rx_len + 1 \in 1..Len(due[1]) /\ (2 + rx_len) + 1 = (rx_len + 1) + 2
    BY <1>1, <1>4, <1>7, <1>8
  <2>4. Sent(due[1])[(rx_len + 1) + 2] = due[1][rx_len + 1]
    BY <1>8, <2>3, SentTypes
  <2> QED
    BY <1>5, <2>2, <2>3, <2>4
<1>10. UnderWay'
  <2>1. rx_len' <= length
    BY <1>1, <1>4, <1>6, <1>7, <1>8
  <2>2. ASSUME NEW i \in 1..rx_len'
        PROVE  rx_buf'[i] = due[1][i]
    <3>1. i = rx_len + 1 \/ i \in 1..rx_len
      BY <1>4, <1>6
    <3> QED
      BY <1>6, <1>7, <1>9, <3>1
  <2> QED
    BY <1>1, <1>7, <2>1, <2>2 DEF UnderWay
<1>11. Line' = Tail(Line) /\ Taken' = (2 + rx_len) + 1
  <2>1. Line' = Tail(Line)
    BY <1>1, <1>5 DEF Line
  <2>2. Taken' = 2 + rx_len'
    BY <1>1 DEF Taken
  <2> QED
    BY <1>4, <1>6, <2>1, <2>2
<1>12. Framed(Line', Taken', due)
  <2>1. 2 + rx_len \in Nat
    BY <1>4
  <2> QED
    BY <1>3, <1>4, <1>5, <1>11, <2>1, FramedTake
<1> QED
  BY <1>10, <1>12

LEMMA CallbackInOrder ==
  ASSUME TypeInv, OrderInv, Callback
  PROVE  OrderInv'
<1>1. /\ pc = "callback" /\ pc' = "header"
      /\ UNCHANGED <<todo, pause, wire, length, callback, installed, faults>>
  BY DEF Callback, server
<1>2. SUFFICES ASSUME faults = 0, callback
               PROVE  Framed(Line', Taken', due') /\ rx_buf' = <<>>
  BY <1>1 DEF OrderInv
<1>3. Framed(Line, 2 + rx_len, due) /\ UnderWay /\ rx_len = length
  BY <1>1, <1>2 DEF OrderInv, Taken
<1>4. Line \in Seq(Units) /\ due \in Seq(Messages)
  BY LineTypes
<1>5. due # <<>> /\ rx_len = Len(due[1]) /\ Len(due[1]) \in Nat \ {0}
  <2>1. due # <<>> /\ rx_len = Len(due[1])
    BY <1>3 DEF UnderWay
  <2>2. 1 \in 1..Len(due)
    BY <1>4, <2>1, EmptySeq
  <2> QED
    BY <1>4, <2>1, <2>2, ElementOfSeq, MessageTypes
<1>6. rx_buf' = <<>> /\ due' = Tail(due)
  BY <1>2, <1>5 DEF Callback
<1>7. Line' = Line /\ Taken' = 0
  BY <1>1 DEF Line, Taken
<1>8. Framed(Line, 2 + Len(due[1]), due)
  BY <1>3, <1>5
<1>9. Framed(Line, 0, Tail(due))
  BY <1>4, <1>5, <1>8, FramedDone
<1> QED
  BY <1>6, <1>7, <1>9

\* Between two messages there is nothing on the line that a pause could lose.
LEMMA ReadTimesOutInOrder ==
  ASSUME TypeInv, OrderInv, ReadTimesOut
  PROVE  OrderInv'
<1>1. /\ pause = "long" /\ pause' = "over" /\ wire' = <<>>
      /\ (pc = "header" /\ Len(wire) < 2) \/ (pc = "body" /\ wire = <<>>)
      /\ UNCHANGED <<todo, due, pc, rx_buf, length, callback, installed, faults>>
  BY DEF ReadTimesOut, server
<1>2. SUFFICES ASSUME faults = 0, callback
               PROVE  wire' = wire
  BY <1>1 DEF OrderInv, Line, Taken, UnderWay, rx_len
<1>3. CASE pc = "header" /\ Len(wire) < 2
  <2>1. Framed(Line, 0, due) /\ todo = <<>>
    BY <1>1, <1>2, <1>3 DEF OrderInv, Taken
  <2>2. Line \in Seq(Units) /\ due \in Seq(Messages) /\ wire \in Seq(Units)
    BY LineTypes DEF TypeInv
  <2>3. Line = wire
    BY <2>1, <2>2, ConcatEmptySeq DEF Line
  <2>4. due = <<>>
    <3>1. SUFFICES ASSUME due # <<>> PROVE FALSE
      OBVIOUS
    <3>2. 1 \in 1..Len(due)
      BY <2>2, <3>1, EmptySeq
    <3>3. Len(due[1]) \in Nat
      BY <2>2, <3>2, ElementOfSeq, MessageTypes
    <3>4. Len(Line) >= 2 + Len(due[1]) - 0
      BY <2>1, <2>2, <3>1, FramedNext
    <3>5. Len(wire) \in Nat
      BY <2>2, LenProperties
    <3> QED
      BY <1>3, <2>3, <3>3, <3>4, <3>5
  <2>5. Len(Line) = 0
    BY <2>1, <2>2, <2>4, FramedNext
  <2> QED
    BY <1>1, <2>2, <2>3, <2>5, EmptySeq
<1>4. CASE pc = "body" /\ wire = <<>>
  BY <1>1, <1>4
<1> QED
  BY <1>1, <1>3, <1>4

LEMMA OrderInvStep == TypeInv /\ OrderInv /\ [Next]_vars => OrderInv'
<1> SUFFICES ASSUME TypeInv, OrderInv, [Next]_vars PROVE OrderInv'
  OBVIOUS
<1>1. CASE Send
  <2>1. todo # <<>> /\ pause' = "no" /\ wire' = Append(wire, Head(todo)) /\ todo' = Tail(todo)
    BY <1>1 DEF Send
  <2>2. UNCHANGED <<due, pc, rx_buf, length, callback, installed, faults>>
    BY <1>1 DEF Send, server
  <2>3. Line' = Line
    BY <2>1, LineMoves DEF Line, TypeInv
  <2> QED
    BY <2>1, <2>2, <2>3 DEF OrderInv, Taken, UnderWay, rx_len
<1>2. CASE Pause
  BY <1>2 DEF Pause, server, OrderInv, Line, Taken, UnderWay, rx_len
<1>3. CASE Disturb
  <2>1. faults' # 0 /\ todo # <<>> /\ UNCHANGED <<wire, pc, installed>>
    BY <1>3, BoundsAssumption DEF Disturb, server, TypeInv, TypeOK
  <2> QED
    BY <2>1 DEF OrderInv
<1>4. CASE Enable
  <2>1. /\ todo = <<>> /\ wire = <<>> /\ rx_buf = <<>> /\ due = <<>> /\ pc' = "header"
        /\ UNCHANGED <<todo, pause, due, wire, rx_buf>>
    BY <1>4 DEF Enable, client, OrderInv
  <2>2. Line' = <<>> /\ Taken' = 0
    BY <2>1 DEF Line, Taken
  <2> QED
    BY <2>1, <2>2, FramedNothing DEF OrderInv
<1>5. CASE Disable
  BY <1>5 DEF Disable, client, server, OrderInv, TypeInv
<1>6. CASE Register
  <2>1. CASE pc = "off" /\ UNCHANGED <<due, faults>>
    BY <1>6, <2>1 DEF Register, OrderInv
  <2>2. CASE pc # "off" /\ faults' = faults + 1
    <3>1. faults' # 0 /\ pc' # "off"
      BY <1>6, <2>2, BoundsAssumption DEF Register, TypeInv, TypeOK
    <3> QED
      BY <3>1 DEF OrderInv
  <2> QED
    BY <1>6, <2>1, <2>2 DEF Register
<1>7. CASE BodyComplete
  BY <1>7 DEF BodyComplete, client, server, OrderInv, Line, Taken, UnderWay, rx_len
<1>8. CASE UNCHANGED vars
  BY <1>8 DEF vars, client, server, OrderInv, Line, Taken, UnderWay, rx_len
<1> QED
  BY <1>1, <1>2, <1>3, <1>4, <1>5, <1>6, <1>7, <1>8, BeginInOrder, ReadHeaderInOrder,
     ReadBodyInOrder, CallbackInOrder, ReadTimesOutInOrder
     DEF Next, Task, Client

(***********************************************************************************)
(* On an undisturbed line every message is handed over whole and in the order it   *)
(* was sent, for every set of messages and however far the client is ahead: the    *)
(* task never loses the framing by itself.                                         *)
(***********************************************************************************)
THEOREM HandsOverInOrderHolds == Spec => []HandsOverInOrder
<1>1. TypeInv /\ OrderInv => HandsOverInOrder
  <2> SUFFICES ASSUME TypeInv, OrderInv, pc = "callback", callback, faults = 0
               PROVE  due # <<>> /\ rx_buf = Head(due)
    BY DEF HandsOverInOrder
  <2>1. due # <<>> /\ Len(rx_buf) = Len(due[1]) /\ \A i \in 1..Len(rx_buf) : rx_buf[i] = due[1][i]
    BY DEF OrderInv, UnderWay, rx_len
  <2>2. 1 \in 1..Len(due) /\ due \in Seq(Messages)
    BY <2>1, LineTypes, EmptySeq
  <2>3. due[1] \in Seq(Units) /\ rx_buf \in Seq(Units)
    BY <2>2, ElementOfSeq, MessageTypes DEF TypeInv
  <2> QED
    BY <2>1, <2>2, <2>3, SeqEqual
<1> QED
  BY <1>1, TypeInvInit, TypeInvStep, OrderInvInit, OrderInvStep, PTL DEF Spec
===================================================================================
