----------------------------- MODULE JsonMessages_proofs -----------------------------
(***********************************************************************************)
(* Theorems about SleepInterval and JsonMessages: what a text says is what the     *)
(* configuration, the station and the timer get, for texts of any length, any      *)
(* number of tokens and any interval.                                              *)
(***********************************************************************************)
EXTENDS JsonMessages, FiniteSetTheorems, SequenceTheorems, WellFoundedInduction, TLAPS

(***********************************************************************************)
(* Places in a text                                                                *)
(***********************************************************************************)

LEMMA Brackets ==
  /\ Left \in Opening /\ Right \in Closing /\ Left # Right
  /\ \A symbol : ~ (symbol \in Opening /\ symbol \in Closing)
<1>1. Left \in Opening /\ Right \in Closing
  BY Zenon DEF Opening, Closing
<1>2. Left # Right
  BY Zenon DEF Left, Right
<1>3. ASSUME NEW symbol, symbol \in Opening, symbol \in Closing
      PROVE  FALSE
  BY <1>3, Zenon DEF Opening, Closing, Left, Right
<1> QED
  BY <1>1, <1>2, <1>3, Zenon

LEMMA Minimum ==
  ASSUME NEW S \in SUBSET Nat, S # {}
  PROVE  \E i \in S : \A j \in S : i <= j
<1>1. PICK i \in S : \A j \in S : ~ (<<j, i>> \in OpToRel(<, Nat))
  BY NatLessThanWellFounded, WFMin
<1>2. \A j \in S : ~ (j < i)
  BY <1>1 DEF OpToRel
<1> QED
  BY <1>2

LEMMA FirstProperties ==
  ASSUME NEW S \in SUBSET Nat, S # {}
  PROVE  First(S) \in S /\ \A j \in S : First(S) <= j
  BY Minimum DEF First

\* One symbol of a kind in a text is counted once.
LEMMA CountsOnce ==
  ASSUME NEW s \in Seq(STRING), NEW S, NEW i \in 1..Len(s),
         \A j \in 1..Len(s) : s[j] \in S <=> j = i
  PROVE  Count(S, s) = 1
<1>1. {j \in 1..Len(s) : s[j] \in S} = {i}
  OBVIOUS
<1> QED
  BY <1>1, FS_Singleton DEF Count

LEMMA PlacesFinite ==
  ASSUME NEW s \in Seq(STRING)
  PROVE  /\ IsFiniteSet(TokenPlaces(s)) /\ Cardinality(TokenPlaces(s)) \in Nat
         /\ Cardinality(TokenPlaces(s)) <= Len(s)
         /\ Len(Tokens(s)) = Cardinality(TokenPlaces(s))
<1>1. Len(s) \in Nat
  OBVIOUS
<1>2. IsFiniteSet(1..Len(s)) /\ Cardinality(1..Len(s)) = Len(s)
  BY <1>1, FS_Interval
<1>3. TokenPlaces(s) \in SUBSET (1..Len(s))
  BY DEF TokenPlaces
<1>4. IsFiniteSet(TokenPlaces(s)) /\ Cardinality(TokenPlaces(s)) <= Len(s)
  BY <1>2, <1>3, FS_Subset
<1>5. Cardinality(TokenPlaces(s)) \in Nat
  BY <1>4, FS_CardinalityType
<1>6. Len(Tokens(s)) = Cardinality(TokenPlaces(s))
  BY <1>5 DEF Tokens
<1> QED
  BY <1>4, <1>5, <1>6

(***********************************************************************************)
(* The tokens of a flat object are its symbols but for the last, and jsmn finds    *)
(* them all.                                                                       *)
(***********************************************************************************)
LEMMA FlatTokens ==
  ASSUME NEW s \in Seq(STRING), Flat(s)
  PROVE  /\ Parses(s)
         /\ Len(Tokens(s)) = Len(s) - 1
         /\ \A k \in 1..Len(s) - 1 : Tokens(s)[k] = s[k]
<1>0. Len(s) \in Nat
  BY LenProperties
<1>1. /\ Len(s) >= 2 /\ Len(s) <= MaxTokens + 1
      /\ s[1] = Left /\ s[Len(s)] = Right
      /\ \A i \in 2..Len(s) - 1 : s[i] \notin Opening \cup Closing
  BY Zenon DEF Flat
<1>7. ASSUME NEW i \in 1..Len(s)
      PROVE  /\ i = 1 => s[i] \in Opening /\ s[i] \notin Closing
             /\ i = Len(s) => s[i] \in Closing /\ s[i] \notin Opening
             /\ i # 1 /\ i # Len(s) => s[i] \notin Opening /\ s[i] \notin Closing
  BY <1>0, <1>1, Brackets
<1>2. TokenPlaces(s) = 1..Len(s) - 1
  BY <1>0, <1>1, <1>7 DEF TokenPlaces
<1>3. Cardinality(TokenPlaces(s)) = Len(s) - 1
  BY <1>0, <1>1, <1>2, FS_Interval
<1>4. Len(Tokens(s)) = Len(s) - 1
  BY <1>3, PlacesFinite
<1>5. ASSUME NEW k \in 1..Len(s) - 1
      PROVE  Tokens(s)[k] = s[k]
  <2>1. ASSUME NEW i \in 1..Len(s) - 1
        PROVE  Cardinality({j \in TokenPlaces(s) : j <= i}) = i
    <3>1. {j \in TokenPlaces(s) : j <= i} = 1..i
      BY <1>0, <1>1, <1>2
    <3>2. i \in Int /\ 1 <= i
      BY <1>0
    <3>3. Cardinality(1..i) = i
      BY <3>2, FS_Interval
    <3> QED
      BY <3>1, <3>3
  <2>2. (CHOOSE i \in TokenPlaces(s) : Cardinality({j \in TokenPlaces(s) : j <= i}) = k) = k
    BY <1>2, <2>1
  <2> QED
    BY <1>3, <2>2 DEF Tokens
<1>6. Complete(s)
  <2>1. Count(Opening, s) = 1
    <3>1. \A j \in 1..Len(s) : s[j] \in Opening <=> j = 1
      BY <1>0, <1>1, <1>7
    <3>2. 1 \in 1..Len(s)
      BY <1>0, <1>1
    <3> QED
      BY <3>1, <3>2, CountsOnce
  <2>2. Count(Closing, s) = 1
    <3>1. \A j \in 1..Len(s) : s[j] \in Closing <=> j = Len(s)
      BY <1>0, <1>1, <1>7
    <3>2. Len(s) \in 1..Len(s)
      BY <1>0, <1>1
    <3> QED
      BY <3>1, <3>2, CountsOnce
  <2> QED
    BY <2>1, <2>2 DEF Complete
<1> QED
  BY <1>0, <1>1, <1>4, <1>5, <1>6, MaxTokensAssumption DEF Parses

\* A text that jsmn parses and that starts with an object has a closing bracket.
LEMMA ParsedIsLonger ==
  ASSUME NEW s \in Seq(STRING), Parses(s), Tokens(s)[1] = Left
  PROVE  Len(Tokens(s)) + 1 <= Len(s)
<1> DEFINE Places == TokenPlaces(s)
           Upto(i) == {j \in Places : j <= i}
           at == CHOOSE i \in Places : Cardinality(Upto(i)) = 1
<1>0. Len(s) \in Nat
  BY LenProperties
<1>1. IsFiniteSet(1..Len(s)) /\ Cardinality(1..Len(s)) = Len(s)
  BY <1>0, FS_Interval
<1>2. Len(Tokens(s)) = Cardinality(Places) /\ Cardinality(Places) \in Nat \ {0}
  BY PlacesFinite DEF Parses
<1>3. /\ Places # {}
      /\ Places \in SUBSET (1..Len(s))
      /\ Places \in SUBSET Nat
  <2>1. Places # {}
    BY <1>2, FS_EmptySet
  <2>2. Places \in SUBSET (1..Len(s))
    BY DEF TokenPlaces
  <2>3. 1..Len(s) \subseteq Nat
    BY <1>0
  <2> QED
    BY <2>1, <2>2, <2>3, Zenon
<1>4. PICK i \in Places : \A j \in Places : i <= j
  BY <1>3, Minimum
<1>5. Upto(i) = {i}
  BY <1>3, <1>4
<1>6. at \in Places
  BY <1>5, FS_Singleton
<1>7. s[at] = Left
  <2>1. 1 \in 1..Cardinality(Places)
    BY <1>2
  <2> QED
    BY <2>1 DEF Tokens
<1> HIDE DEF at
<1>8. at \in {k \in 1..Len(s) : s[k] \in Opening}
  BY <1>3, <1>6, <1>7, Brackets
<1>9. Count(Opening, s) # 0
  <2>1. {k \in 1..Len(s) : s[k] \in Opening} \in SUBSET (1..Len(s))
    OBVIOUS
  <2>2. IsFiniteSet({k \in 1..Len(s) : s[k] \in Opening})
    BY <1>1, <2>1, FS_Subset
  <2> QED
    BY <1>8, <2>2, FS_EmptySet DEF Count
<1>10. PICK c \in 1..Len(s) : s[c] \in Closing
  <2>1. Count(Closing, s) # 0
    BY <1>9 DEF Parses, Complete
  <2>2. {k \in 1..Len(s) : s[k] \in Closing} # {}
    BY <2>1, FS_EmptySet DEF Count
  <2> QED
    BY <2>2
<1>11. Places \in SUBSET (1..Len(s) \ {c})
  BY <1>10 DEF TokenPlaces
<1>12. IsFiniteSet(1..Len(s) \ {c}) /\ Cardinality(1..Len(s) \ {c}) = Len(s) - 1
  BY <1>1, <1>10, FS_RemoveElement
<1>13. Cardinality(Places) <= Len(s) - 1
  BY <1>11, <1>12, FS_Subset
<1> QED
  BY <1>0, <1>2, <1>13

-----------------------------------------------------------------------------------
(***********************************************************************************)
(* SleepsTheInterval holds for every bound on the intervals.                       *)
(***********************************************************************************)

\* What each phase has computed.
Computed ==
  /\ minutes \in Nat
  /\ phase \in {"shadow", "measured", "asleep"}
  /\ phase # "shadow" => sec = minutes * 60
  /\ phase = "asleep" => units = (minutes * 60 * UnitsPerSec) % UnitsWrap

\* The product wraps from 72 minutes on, and then it is smaller than it should be.
LEMMA Wraps ==
  ASSUME NEW m \in Nat
  PROVE  /\ m <= 71 => (m * 60 * UnitsPerSec) % UnitsWrap = m * 60 * UnitsPerSec
         /\ m > 71  => (m * 60 * UnitsPerSec) % UnitsWrap < m * 60 * UnitsPerSec
  BY DEF UnitsPerSec, UnitsWrap

LEMMA ComputedInit == Init => Computed
  BY MaxMinutesAssumption DEF Init, Computed

LEMMA ComputedStep == Computed /\ [Next]_vars => Computed'
<1> SUFFICES ASSUME Computed, [Next]_vars PROVE Computed'
  OBVIOUS
<1>1. CASE \E m \in 0..MaxMinutes : ParseConfig(m)
  BY <1>1, MaxMinutesAssumption DEF ParseConfig, SecondsOf, Computed
<1>2. CASE DeepSleepTimer
  BY <1>2 DEF DeepSleepTimer, WakeupTime, Computed
<1>3. CASE UNCHANGED vars
  BY <1>3 DEF vars, Computed
<1> QED BY <1>1, <1>2, <1>3 DEF Next

LEMMA ComputedSleeps == Computed => SleepsTheInterval
<1> SUFFICES ASSUME Computed, phase = "asleep"
             PROVE  /\ minutes <= 71 => units = minutes * 60 * UnitsPerSec
                    /\ minutes > 71  => units < minutes * 60 * UnitsPerSec
  BY DEF SleepsTheInterval
<1> QED
  BY Wraps DEF Computed

LEMMA Units == UnitsWrap \in Nat \ {0} /\ UnitsPerSec \in Nat
  BY SMT DEF UnitsWrap, UnitsPerSec

LEMMA TypeOKInit == Init => TypeOK
  BY MaxMinutesAssumption, Units DEF Init, TypeOK

LEMMA TypeOKStep == TypeOK /\ [Next]_vars => TypeOK'
<1> SUFFICES ASSUME TypeOK, [Next]_vars PROVE TypeOK'
  OBVIOUS
<1> USE MaxMinutesAssumption DEF TypeOK
<1>1. CASE \E m \in 0..MaxMinutes : ParseConfig(m)
  BY <1>1, MaxMinutesAssumption DEF ParseConfig, SecondsOf
<1>2. CASE DeepSleepTimer
  <2>1. sec * UnitsPerSec \in Nat
    BY Units
  <2>2. (sec * UnitsPerSec) % UnitsWrap \in 0..UnitsWrap - 1
    BY <2>1, Units
  <2> QED
    BY <1>2, <2>2 DEF DeepSleepTimer, WakeupTime
<1>3. CASE UNCHANGED vars
  BY <1>3 DEF vars
<1> QED BY <1>1, <1>2, <1>3 DEF Next

\* The seconds and the wrapped microseconds stay in their ranges.
THEOREM TypeCorrect == Spec => []TypeOK
  BY TypeOKInit, TypeOKStep, PTL DEF Spec

(***********************************************************************************)
(* Whatever interval a hatch configuration asks for, up to 71 minutes are slept    *)
(* exactly, and of more a part is lost to the 32 bits of hal_deep_sleep_timer.     *)
(***********************************************************************************)
THEOREM SleepsTheIntervalHolds == Spec => []SleepsTheInterval
  BY ComputedSleeps, ComputedInit, ComputedStep, PTL DEF Spec

-----------------------------------------------------------------------------------
(***********************************************************************************)
(* The control of the two parsers: TypeOK and what is known at each pc.            *)
(***********************************************************************************)

\* The two functions, the text they were given and what they have returned.
Control ==
  /\ pc \in {"find", "scan", "parse", "pairs", "connect", "done", "panic"}
  /\ parser \in {"hatch", "wifi"}
  /\ result \in {"none", "true", "false"}
  /\ parser = "hatch" => text \in Documents
  /\ parser = "wifi" => text \in Messages
  /\ js \in Seq(STRING) /\ Len(js) <= Len(text)
  /\ num \in [DOMAIN NoNumbers -> Int]
  /\ pc \in {"find", "scan"} => parser = "hatch"
  /\ pc \in {"find", "scan", "parse", "pairs", "panic"} => result = "none"
  /\ pc = "connect" => parser = "wifi" /\ result = "true"

\* jsmn made tokens of the text, the first of them an object.
Accepted(s) == Parses(s) /\ Tokens(s)[1] = Left

\* The index of the two loops.
Counted ==
  /\ n \in Nat
  /\ pc # "pairs" => n <= Len(text)
  /\ pc = "parse" => n = 0
  /\ pc = "pairs" => n % 2 = 1 /\ n <= Len(Tokens(js)) + 1

\* The message of a phone is given whole.
GivenWhole == parser = "wifi" => pc \notin {"find", "scan"} /\ js = text

\* What became of the text that a parser was given.
Answered ==
  /\ pc \in {"pairs", "panic"} \/ result = "true" => Accepted(js)
  /\ result = "false" => ~ Accepted(js)

\* _shadow_get_cb between the first "desired" and the first } after it.
Scanning ==
  pc = "scan" =>
    /\ Positions("desired", text) # {}
    /\ n \in Start - 1..Len(text)
    /\ \A i \in Start..n : text[i] # Right

LEMMA TextIsSeq == Control => text \in Seq(STRING) /\ Len(text) \in Nat /\ Len(js) \in Nat
  BY TextsAssumption DEF Control

LEMMA TextStays == JsonNext => parser' = parser /\ text' = text
  BY DEF JsonNext, FindDesired, Scan, Section, ParseTokens, Pair, LonePair, Return, Connect,
         jsonVars, parsed

LEMMA StrtolIsInt ==
  ASSUME NEW value
  PROVE  Strtol(value) \in Int
<1>1. CASE value \in DOMAIN Number
  <2>1. Number[value] \in Int
    BY <1>1, NumberAssumption, Zenon
  <2> QED
    BY <1>1, <2>1 DEF Strtol
<1>2. CASE value \notin DOMAIN Number
  BY <1>2 DEF Strtol
<1> QED
  BY <1>1, <1>2

LEMMA AssignTypes ==
  ASSUME NEW key, NEW value, num \in [DOMAIN NoNumbers -> Int], Assign(key, value)
  PROVE  num' \in [DOMAIN NoNumbers -> Int]
  BY StrtolIsInt DEF Assign, NoNumbers, SecondsOf

LEMMA PositionsOf ==
  ASSUME NEW s \in Seq(STRING), Positions("desired", s) # {}
  PROVE  /\ First(Positions("desired", s)) \in 1..Len(s)
         /\ First(Positions("desired", s)) \in Positions("desired", s)
<1>1. Positions("desired", s) \in SUBSET (1..Len(s)) /\ 1..Len(s) \in SUBSET Nat
  BY LenProperties DEF Positions
<1> QED
  BY <1>1, FirstProperties

LEMMA ControlInit == JsonInit => Control /\ Counted /\ Answered
<1> SUFFICES ASSUME JsonInit PROVE Control /\ Counted /\ Answered
  OBVIOUS
<1>1. text \in Seq(STRING) /\ Len(text) \in Nat
  <2>1. text \in Documents \cup Messages
    BY Zenon DEF JsonInit
  <2>2. text \in Seq(STRING)
    BY <2>1, TextsAssumption, Zenon
  <2> QED
    BY <2>2, LenProperties
<1>2. NoNumbers \in [DOMAIN NoNumbers -> Int]
  BY DEF NoNumbers
<1>3. js \in Seq(STRING) /\ Len(js) <= Len(text)
  <2>1. CASE js = <<>>
    BY <1>1, <2>1
  <2>2. CASE js = text
    BY <1>1, <2>2
  <2> QED
    BY <2>1, <2>2, Zenon DEF JsonInit
<1>4. Control
  BY <1>2, <1>3 DEF JsonInit, Control
<1>5. Counted
  <2>1. n = 0 /\ pc # "pairs"
    BY DEF JsonInit
  <2> QED
    BY <1>1, <2>1 DEF Counted
<1>6. Answered
  BY DEF JsonInit, Answered
<1> QED
  BY <1>4, <1>5, <1>6

LEMMA StartInText ==
  ASSUME Control, Positions("desired", text) # {}
  PROVE  Start \in 2..Len(text) + 1
<1>1. First(Positions("desired", text)) \in 1..Len(text) /\ Len(text) \in Nat
  BY TextIsSeq, PositionsOf
<1> QED
  BY <1>1 DEF Start

LEMMA ScanningStep == Control /\ Scanning /\ JsonNext => Scanning'
<1> SUFFICES ASSUME Control, Scanning, JsonNext, pc' = "scan"
             PROVE  /\ Positions("desired", text) # {}
                    /\ n' \in Start - 1..Len(text)
                    /\ \A i \in Start..n' : text[i] # Right
  BY TextStays DEF Scanning, Start
<1>0. Len(text) \in Nat
  BY TextIsSeq
<1>1. CASE FindDesired
  <2>1. Positions("desired", text) # {} /\ n' = First(Positions("desired", text))
    BY <1>1 DEF FindDesired, Ends
  <2>2. Start \in 2..Len(text) + 1 /\ n' = Start - 1
    <3>1. First(Positions("desired", text)) \in 1..Len(text)
      BY <2>1, TextIsSeq, PositionsOf
    <3> QED
      BY <1>0, <2>1, <3>1, StartInText DEF Start
  <2> QED
    BY <1>0, <2>1, <2>2
<1>2. CASE Scan
  <2>1. /\ Positions("desired", text) # {}
        /\ n \in Start - 1..Len(text)
        /\ \A i \in Start..n : text[i] # Right
    BY <1>2 DEF Scan, Scanning
  <2>2. n < Len(text) /\ text[n + 1] # Right /\ n' = n + 1
    BY <1>2 DEF Scan
  <2>3. Start \in 2..Len(text) + 1
    BY <2>1, StartInText
  <2> QED
    BY <1>0, <2>1, <2>2, <2>3
<1> QED
  BY <1>1, <1>2 DEF JsonNext, Section, ParseTokens, Pair, LonePair, Return, Connect, Ends

\* The section that Section cuts out, and that nothing else changes it.
LEMMA SectionCut ==
  ASSUME Control, Scanning, Section
  PROVE  \/ /\ pc' = "done" /\ result' = "none" /\ js' = js
            /\ Positions("desired", text) # {} /\ Start \in 2..Len(text) + 1
            /\ \A i \in Start..Len(text) : text[i] # Right
         \/ /\ pc' = "parse" /\ result' = result
            /\ Positions("desired", text) # {} /\ Start \in 2..Len(text) + 1
            /\ \E e \in Start..Len(text) :
                  /\ text[e] = Right /\ js' = SubSeq(text, Start, e)
                  /\ \A i \in Start..e - 1 : text[i] # Right
<1>0. /\ Positions("desired", text) # {}
      /\ n \in Start - 1..Len(text)
      /\ \A i \in Start..n : text[i] # Right
  BY DEF Section, Scanning
<1>1. Start \in 2..Len(text) + 1 /\ Len(text) \in Nat
  BY <1>0, StartInText, TextIsSeq
<1>2. CASE n = Len(text) /\ Ends("none") /\ UNCHANGED <<n, js>>
  BY <1>0, <1>1, <1>2 DEF Ends
<1>3. CASE n < Len(text) /\ text[n + 1] = Right /\ js' = SubSeq(text, Start, n + 1)
           /\ n' = 0 /\ pc' = "parse" /\ UNCHANGED result
  <2>1. n + 1 \in Start..Len(text) /\ n + 1 - 1 = n
    BY <1>0, <1>1, <1>3
  <2> QED
    BY <1>0, <1>1, <1>3, <2>1
<1> QED
  BY <1>2, <1>3 DEF Section

LEMMA ControlStep == Control /\ Scanning /\ JsonNext => Control'
<1> SUFFICES ASSUME Control, Scanning, JsonNext PROVE Control'
  OBVIOUS
<1> USE DEF Control, parsed
<1>0. text \in Seq(STRING) /\ Len(text) \in Nat
  BY TextIsSeq
<1>1. CASE FindDesired
  BY <1>1 DEF FindDesired, Ends
<1>2. CASE Scan
  BY <1>2 DEF Scan
<1>3. CASE Section
  <2>1. js' \in Seq(STRING) /\ Len(js') <= Len(text)
    <3>1. CASE js' = js
      BY <3>1
    <3>2. ASSUME NEW e \in Start..Len(text), Start \in 2..Len(text) + 1,
                 js' = SubSeq(text, Start, e)
          PROVE  js' \in Seq(STRING) /\ Len(js') <= Len(text)
      <4>1. Start \in Int /\ e \in Int /\ 1 <= Start /\ Start <= e /\ e <= Len(text)
        BY <1>0, <3>2
      <4>2. \A i \in Start..e : text[i] \in STRING
        BY <1>0, <4>1, ElementOfSeq
      <4>3. SubSeq(text, Start, e) \in Seq(STRING) /\ Len(SubSeq(text, Start, e)) = e - Start + 1
        BY <1>0, <4>1, <4>2, SubSeqProperties
      <4> QED
        BY <1>0, <3>2, <4>1, <4>3
    <3> QED
      BY <1>3, <3>1, <3>2, SectionCut
  <2> QED
    BY <1>3, <2>1 DEF Section, Ends
<1>4. CASE ParseTokens
  BY <1>4 DEF ParseTokens, Ends
<1>5. CASE Pair
  <2>1. num' \in [DOMAIN NoNumbers -> Int]
    BY <1>5, AssignTypes DEF Pair
  <2> QED
    BY <1>5, <2>1 DEF Pair
<1>6. CASE LonePair
  <2>1. num' \in [DOMAIN NoNumbers -> Int]
    BY <1>6, AssignTypes DEF LonePair
  <2> QED
    BY <1>6, <2>1 DEF LonePair
<1>7. CASE Return
  BY <1>7 DEF Return
<1>8. CASE Connect
  BY <1>8 DEF Connect
<1> QED
  BY <1>1, <1>2, <1>3, <1>4, <1>5, <1>6, <1>7, <1>8 DEF JsonNext

LEMMA LonePairOr ==
  ASSUME LonePair
  PROVE  /\ pc = "pairs" /\ n + 1 = Len(Tokens(js))
         /\ js' = js /\ result' = result /\ station' = station
         /\ \/ pc' = "pairs" /\ n' = n + 2 /\ Assign(Tokens(js)[n + 1], "junk")
            \/ pc' = "panic" /\ n' = n /\ UNCHANGED parsed
  BY DEF LonePair

LEMMA CountedStep == Control /\ Scanning /\ Counted /\ Answered /\ JsonNext => Counted'
<1> SUFFICES ASSUME Control, Scanning, Counted, Answered, JsonNext PROVE Counted'
  OBVIOUS
<1> USE DEF Counted, parsed
<1>0. /\ Len(text) \in Nat /\ js \in Seq(STRING) /\ text' = text /\ n \in Nat
      /\ Len(Tokens(js)) \in Nat /\ Len(js) <= Len(text) /\ Len(js) \in Nat
  BY TextIsSeq, TextStays, PlacesFinite DEF Control
<1>1. CASE FindDesired
  <2>1. CASE Positions("desired", text) = {}
    BY <1>0, <1>1, <2>1 DEF FindDesired, Ends
  <2>2. CASE Positions("desired", text) # {}
    <3>1. First(Positions("desired", text)) \in 1..Len(text)
      BY <2>2, TextIsSeq, PositionsOf
    <3> QED
      BY <1>0, <1>1, <2>2, <3>1 DEF FindDesired, Ends
  <2> QED
    BY <2>1, <2>2
<1>2. CASE Scan
  BY <1>0, <1>2 DEF Scan
<1>3. CASE Section
  <2>1. (n' = n /\ pc' = "done") \/ (n' = 0 /\ pc' = "parse")
    BY <1>3, Zenon DEF Section, Ends
  <2>2. pc = "scan"
    BY <1>3 DEF Section
  <2> QED
    BY <1>0, <2>1, <2>2
<1>4. CASE ParseTokens
  <2>1. pc = "parse" /\ n = 0 /\ js' = js
    BY <1>4 DEF ParseTokens
  <2>2. CASE Parses(js) /\ Tokens(js)[1] = Left
    BY <1>0, <1>4, <2>1, <2>2 DEF ParseTokens
  <2>3. CASE ~ (Parses(js) /\ Tokens(js)[1] = Left)
    BY <1>0, <1>4, <2>1, <2>3 DEF ParseTokens, Ends
  <2> QED
    BY <2>2, <2>3
<1>5. CASE Pair
  <2>1. /\ pc = "pairs" /\ pc' = "pairs" /\ js' = js
        /\ n' = n + 2 /\ n + 1 < Len(Tokens(js))
    BY <1>5 DEF Pair
  <2>2. (n + 2) % 2 = 1 /\ n + 2 <= Len(Tokens(js)) + 1
    BY <1>0, <2>1
  <2> QED
    BY <1>0, <2>1, <2>2
<1>6. CASE LonePair
  <2>1. pc = "pairs" /\ n + 1 = Len(Tokens(js)) /\ js' = js
    BY <1>6, LonePairOr
  <2>2. CASE pc' = "pairs" /\ n' = n + 2
    <3>1. (n + 2) % 2 = 1 /\ n + 2 <= Len(Tokens(js)) + 1
      BY <1>0, <2>1
    <3> QED
      BY <1>0, <2>1, <2>2, <3>1
  <2>3. CASE pc' = "panic" /\ n' = n
    <3>1. n <= Len(Tokens(js)) /\ Len(Tokens(js)) <= Len(js)
      BY <1>0, <2>1, PlacesFinite
    <3> QED
      BY <1>0, <2>3, <3>1
  <2> QED
    BY <1>6, <2>2, <2>3, LonePairOr
<1>7. CASE Return
  <2>1. n' = 0 /\ pc' \in {"connect", "done"}
    BY <1>7 DEF Return
  <2> QED
    BY <1>0, <2>1
<1>8. CASE Connect
  BY <1>0, <1>8 DEF Connect
<1> QED
  BY <1>1, <1>2, <1>3, <1>4, <1>5, <1>6, <1>7, <1>8 DEF JsonNext

LEMMA AnsweredStep == Control /\ Scanning /\ Answered /\ JsonNext => Answered'
<1> SUFFICES ASSUME Control, Scanning, Answered, JsonNext PROVE Answered'
  OBVIOUS
<1> USE DEF Answered
<1>1. CASE FindDesired
  BY <1>1 DEF FindDesired, Ends, Control
<1>2. CASE Scan
  BY <1>2 DEF Scan
<1>3. CASE Section
  <2>1. result = "none" /\ result' = "none" /\ pc' \in {"parse", "done"}
    BY <1>3 DEF Section, Ends, Control
  <2> QED
    BY <2>1
<1>4. CASE ParseTokens
  <2>1. js' = js /\ result = "none"
    BY <1>4 DEF ParseTokens, Control
  <2>2. CASE Accepted(js)
    BY <1>4, <2>1, <2>2 DEF ParseTokens, Accepted
  <2>3. CASE ~ Accepted(js)
    BY <1>4, <2>1, <2>3 DEF ParseTokens, Accepted, Ends
  <2> QED
    BY <2>2, <2>3
<1>5. CASE Pair
  BY <1>5 DEF Pair
<1>6. CASE LonePair
  <2>1. pc = "pairs" /\ result' = result /\ js' = js
    BY <1>6, LonePairOr
  <2> QED
    BY <2>1
<1>7. CASE Return
  BY <1>7 DEF Return
<1>8. CASE Connect
  BY <1>8 DEF Connect
<1> QED
  BY <1>1, <1>2, <1>3, <1>4, <1>5, <1>6, <1>7, <1>8 DEF JsonNext

LEMMA GivenWholeStep == Control /\ GivenWhole /\ JsonNext => GivenWhole'
<1> SUFFICES ASSUME Control, GivenWhole, JsonNext, parser = "wifi"
             PROVE  pc' \notin {"find", "scan"} /\ js' = text
  BY TextStays DEF GivenWhole
<1> QED
  BY LonePairOr DEF GivenWhole, JsonNext, FindDesired, Scan, Section, ParseTokens, Ends, Pair,
                    Return, Connect

-----------------------------------------------------------------------------------
(***********************************************************************************)
(* The steps of MessagesSpec: one of the text, or one of SleepInterval.            *)
(***********************************************************************************)
ParserInv == Control /\ Scanning /\ Counted /\ GivenWhole /\ Answered

LEMMA MessagesSteps ==
  ASSUME [MessagesNext]_<<jsonVars, vars>>
  PROVE  /\ [JsonNext]_jsonVars /\ [Next]_vars
         /\ UNCHANGED jsonVars \/ UNCHANGED vars
  BY DEF MessagesNext, Configure, Sleep, Next

LEMMA ParserInvInit == MessagesInit => ParserInv
  BY ControlInit DEF MessagesInit, ParserInv, Scanning, GivenWhole, JsonInit

LEMMA ParserInvStep == ParserInv /\ [MessagesNext]_<<jsonVars, vars>> => ParserInv'
<1> SUFFICES ASSUME ParserInv, [MessagesNext]_<<jsonVars, vars>> PROVE ParserInv'
  OBVIOUS
<1>1. CASE JsonNext
  BY <1>1, ControlStep, ScanningStep, CountedStep, GivenWholeStep, AnsweredStep DEF ParserInv
<1>2. CASE UNCHANGED jsonVars
  BY <1>2 DEF ParserInv, jsonVars, parsed, Control, Scanning, Counted, GivenWhole, Answered, Start
<1> QED
  BY <1>1, <1>2, MessagesSteps

LEMMA ParserInvHolds == MessagesSpec => []ParserInv
  BY ParserInvInit, ParserInvStep, PTL DEF MessagesSpec

LEMMA ParserInvTypes == ParserInv /\ TypeOK => JsonTypeOK
<1> SUFFICES ASSUME ParserInv, TypeOK PROVE JsonTypeOK
  OBVIOUS
<1>1. n \in 0..Len(text)
  <2>1. Len(text) \in Nat /\ Len(js) \in Nat /\ n \in Nat /\ Len(js) <= Len(text)
    BY TextIsSeq DEF ParserInv, Control, Counted
  <2>2. CASE pc # "pairs"
    BY <2>1, <2>2 DEF ParserInv, Counted
  <2>3. CASE pc = "pairs"
    <3>1. Len(Tokens(js)) + 1 <= Len(js) /\ Len(Tokens(js)) \in Nat
      BY <2>3, ParsedIsLonger, PlacesFinite DEF ParserInv, Control, Answered, Accepted
    <3>2. n <= Len(Tokens(js)) + 1
      BY <2>3 DEF ParserInv, Counted
    <3> QED
      BY <2>1, <3>1, <3>2
  <2> QED
    BY <2>2, <2>3
<1> QED
  BY <1>1 DEF JsonTypeOK, ParserInv, Control, Counted

(***********************************************************************************)
(* The index stays within the text and the pairs start at odd places: the loops of *)
(* _shadow_get_cb and of the two parsers never look behind their texts.            *)
(***********************************************************************************)
THEOREM JsonTypeCorrect == MessagesSpec => []JsonTypeOK
<1>1. MessagesInit => TypeOK
  BY TypeOKInit DEF MessagesInit
<1>2. TypeOK /\ [MessagesNext]_<<jsonVars, vars>> => TypeOK'
  BY MessagesSteps, TypeOKStep
<1> QED
  BY <1>1, <1>2, ParserInvHolds, ParserInvTypes, PTL DEF MessagesSpec

-----------------------------------------------------------------------------------
(***********************************************************************************)
(* The section that is cut out of a shadow document                                *)
(***********************************************************************************)

\* The text from Start up to the first } there.
IsSection(s) ==
  /\ Positions("desired", text) # {} /\ Start \in 2..Len(text) + 1
  /\ \E e \in Start..Len(text) :
        /\ text[e] = Right /\ s = SubSeq(text, Start, e)
        /\ \A i \in Start..e - 1 : text[i] # Right

NoSection ==
  \/ Positions("desired", text) = {}
  \/ Start \in 2..Len(text) + 1 /\ \A i \in Start..Len(text) : text[i] # Right

\* What the parser of a shadow document is given; without a section it is not called.
SectionGiven ==
  parser = "hatch" =>
    /\ pc \in {"parse", "pairs", "panic"} \/ result # "none" => IsSection(js)
    /\ pc = "done" /\ result = "none" => NoSection

LEMMA SectionGivenStep == Control /\ Scanning /\ SectionGiven /\ JsonNext => SectionGiven'
<1> SUFFICES ASSUME Control, Scanning, SectionGiven, JsonNext, parser = "hatch"
             PROVE  /\ pc' \in {"parse", "pairs", "panic"} \/ result' # "none" => IsSection(js')
                    /\ pc' = "done" /\ result' = "none" => NoSection
  BY TextStays DEF SectionGiven, IsSection, NoSection, Start
<1> USE DEF SectionGiven
<1>1. CASE FindDesired
  BY <1>1 DEF FindDesired, Ends, Control, NoSection
<1>2. CASE Scan
  BY <1>2 DEF Scan, Control
<1>3. CASE Section
  <2>1. result = "none" /\ pc' # "panic"
    BY <1>3 DEF Section, Control, Ends
  <2>2. pc' = "done" /\ result' = "none" => NoSection
    BY <1>3, SectionCut DEF NoSection
  <2>3. pc' = "parse" => IsSection(js')
    BY <1>3, SectionCut DEF IsSection
  <2>4. (pc' = "done" /\ result' = "none") \/ (pc' = "parse" /\ result' = "none")
    BY <1>3, <2>1, SectionCut
  <2> QED
    BY <2>2, <2>3, <2>4
<1>4. CASE ParseTokens
  BY <1>4 DEF ParseTokens, Ends, Control
<1>5. CASE Pair
  BY <1>5 DEF Pair, Control
<1>6. CASE LonePair
  BY <1>6, LonePairOr DEF Control
<1>7. CASE Return
  BY <1>7 DEF Return
<1>8. CASE Connect
  BY <1>8 DEF Connect, Control
<1> QED
  BY <1>1, <1>2, <1>3, <1>4, <1>5, <1>6, <1>7, <1>8 DEF JsonNext

LEMMA PartOf ==
  ASSUME NEW s \in Seq(STRING), NEW i \in 1..Len(s), NEW e \in i..Len(s)
  PROVE  /\ SubSeq(s, i, e) \in Seq(STRING)
         /\ Len(SubSeq(s, i, e)) = e - i + 1
         /\ \A k \in 1..e - i + 1 : SubSeq(s, i, e)[k] = s[i + k - 1]
<1>1. Len(s) \in Nat /\ i \in Int /\ e \in Int /\ i <= e /\ 1 <= i /\ e <= Len(s)
  BY LenProperties
<1>2. \A k \in i..e : s[k] \in STRING
  BY <1>1, ElementOfSeq
<1> QED
  BY <1>1, <1>2, SubSeqProperties

\* The object at i ends where its brackets are all closed for the first time.
LEMMA ObjectEnds ==
  ASSUME NEW s \in Seq(STRING), NEW i \in Nat \ {0}, ObjectAt(s, i) # <<>>
  PROVE  /\ s[i] \in Opening
         /\ \E e \in i..Len(s) :
              /\ ObjectAt(s, i) = SubSeq(s, i, e)
              /\ \A j \in i..Len(s) : Complete(SubSeq(s, i, j)) => e <= j
<1> DEFINE ends == {j \in i..Len(s) : Complete(SubSeq(s, i, j))}
<1>1. s[i] \in Opening /\ ends # {} /\ ObjectAt(s, i) = SubSeq(s, i, First(ends))
  BY Zenon DEF ObjectAt
<1>2. ends \in SUBSET (i..Len(s)) /\ i..Len(s) \in SUBSET Nat
  OBVIOUS
<1>3. First(ends) \in ends /\ \A j \in ends : First(ends) <= j
  BY <1>1, <1>2, FirstProperties
<1> HIDE DEF ends
<1>4. First(ends) \in i..Len(s)
  BY <1>2, <1>3
<1>5. \A j \in i..Len(s) : Complete(SubSeq(s, i, j)) => First(ends) <= j
  BY <1>3 DEF ends
<1> QED
  BY <1>1, <1>4, <1>5

LEMMA OneSection ==
  ASSUME Control, NEW s, NEW t, IsSection(s), IsSection(t)
  PROVE  s = t
<1>0. Start \in Nat /\ Len(text) \in Nat
  BY TextIsSeq DEF IsSection
<1>1. PICK d \in Start..Len(text) :
        /\ text[d] = Right /\ s = SubSeq(text, Start, d)
        /\ \A i \in Start..d - 1 : text[i] # Right
  BY DEF IsSection
<1>2. PICK e \in Start..Len(text) :
        /\ text[e] = Right /\ t = SubSeq(text, Start, e)
        /\ \A i \in Start..e - 1 : text[i] # Right
  BY DEF IsSection
<1>3. d = e
  BY <1>0, <1>1, <1>2
<1> QED
  BY <1>1, <1>2, <1>3

\* A flat desired section is the section that is cut out.
LEMMA FlatIsSection ==
  ASSUME Control, parser = "hatch", Flat(Meant)
  PROVE  IsSection(Meant)
<1>1. Meant # <<>>
  BY DEF Flat
<1>2. Positions("desired", text) # {} /\ Meant = ObjectAt(text, Start)
  BY <1>1, Zenon DEF Meant
<1>3. Start \in 2..Len(text) + 1 /\ text \in Seq(STRING) /\ Len(text) \in Nat
  BY <1>2, StartInText, TextIsSeq
<1>4. PICK e \in Start..Len(text) : Meant = SubSeq(text, Start, e)
  BY <1>1, <1>2, <1>3, ObjectEnds
<1>5. Start \in 1..Len(text) /\ e \in Int /\ Start <= e
  BY <1>3, <1>4
<1>6. /\ Len(Meant) = e - Start + 1
      /\ \A k \in 1..e - Start + 1 : Meant[k] = text[Start + k - 1]
  BY <1>3, <1>4, <1>5, PartOf
<1>7. /\ Len(Meant) >= 2
      /\ Meant[1] = Left /\ Meant[Len(Meant)] = Right
      /\ \A i \in 2..Len(Meant) - 1 : Meant[i] \notin Opening \cup Closing
  BY Zenon DEF Flat
<1>8. text[e] = Right
  BY <1>5, <1>6, <1>7
<1>9. ASSUME NEW i \in Start..e - 1
      PROVE  text[i] # Right
  <2>1. i - Start + 1 \in 1..e - Start + 1 /\ Start + (i - Start + 1) - 1 = i
    BY <1>5
  <2>2. text[i] = Meant[i - Start + 1]
    BY <1>6, <2>1
  <2>3. CASE i = Start
    BY <1>5, <1>7, <2>2, <2>3, Brackets
  <2>4. CASE i # Start
    <3>1. i - Start + 1 \in 2..Len(Meant) - 1
      BY <1>5, <1>6, <2>4
    <3> QED
      BY <1>7, <2>2, <3>1, Brackets
  <2> QED
    BY <2>3, <2>4
<1> QED
  BY <1>2, <1>3, <1>4, <1>8, <1>9 DEF IsSection

\* So the parser is given a flat section whole, and accepts it.
LEMMA FlatIsAccepted ==
  ASSUME Control, Answered, SectionGiven, parser = "hatch", pc = "done", Flat(Meant)
  PROVE  result = "true" /\ js = Meant
<1>1. IsSection(Meant)
  BY FlatIsSection
<1>2. result # "none"
  <2>1. ~ NoSection
    BY <1>1, TextIsSeq DEF IsSection, NoSection
  <2> QED
    BY <2>1 DEF SectionGiven
<1>3. js = Meant
  BY <1>1, <1>2, OneSection DEF SectionGiven
<1>4. Accepted(js)
  <2>1. js \in Seq(STRING) /\ Len(js) >= 2
    BY <1>3, Zenon DEF Control, Flat
  <2>2. Parses(js) /\ Tokens(js)[1] = js[1]
    BY <1>3, <2>1, FlatTokens, LenProperties
  <2> QED
    BY <1>3, <2>2, Zenon DEF Accepted, Flat
<1> QED
  BY <1>2, <1>3, <1>4 DEF Answered, Control

-----------------------------------------------------------------------------------
(***********************************************************************************)
(* What the loop over the pairs has read of a flat object: the last value so far.  *)
(***********************************************************************************)
Named(s, keys, k) == {i \in 2..k : i % 2 = 0 /\ s[i] \in keys}

LastIn(S) == CHOOSE i \in S : \A j \in S : j <= i

ValueUpTo(s, keys, k) ==
  IF Named(s, keys, k) = {} THEN "" ELSE s[LastIn(Named(s, keys, k)) + 1]

LEMMA ValueOfWhole == \A s, keys : ValueOf(s, keys, "") = ValueUpTo(s, keys, Len(s) - 1)
  BY Zenon DEF ValueOf, ValueUpTo, Named, LastIn

LEMMA ValueOfNone == \A s, keys : ValueUpTo(s, keys, 1) = ""
<1>1. \A s, keys : Named(s, keys, 1) = {}
  BY DEF Named
<1> QED
  BY <1>1 DEF ValueUpTo

LEMMA ValueOfNext ==
  ASSUME NEW s, NEW keys, NEW k \in Nat, k % 2 = 1
  PROVE  ValueUpTo(s, keys, k + 2) =
           IF s[k + 1] \in keys THEN s[k + 2] ELSE ValueUpTo(s, keys, k)
<1>1. (k + 1) % 2 = 0 /\ (k + 2) % 2 = 1 /\ k >= 1
  OBVIOUS
<1>2. CASE s[k + 1] \in keys
  <2>1. k + 1 \in Named(s, keys, k + 2)
    BY <1>1, <1>2 DEF Named
  <2>2. \A j \in Named(s, keys, k + 2) : j \in Int /\ j <= k + 1
    BY <1>1 DEF Named
  <2>3. LastIn(Named(s, keys, k + 2)) = k + 1
    BY <2>1, <2>2 DEF LastIn
  <2>4. s[(k + 1) + 1] = s[k + 2]
    OBVIOUS
  <2>5. ValueUpTo(s, keys, k + 2) = s[(k + 1) + 1]
    BY <2>1, <2>3, Zenon DEF ValueUpTo
  <2> QED
    BY <1>2, <2>4, <2>5, Zenon
<1>3. CASE s[k + 1] \notin keys
  <2>1. Named(s, keys, k + 2) = Named(s, keys, k)
    BY <1>1, <1>3 DEF Named
  <2>2. ValueUpTo(s, keys, k + 2) = ValueUpTo(s, keys, k)
    BY <2>1, Zenon DEF ValueUpTo
  <2> QED
    BY <1>3, <2>2, Zenon
<1> QED
  BY <1>2, <1>3

SsidKeys == {"wifiSSID", "WIFISSID"}
PassKeys == {"wifiPassword", "WIFIPASSWORD"}

\* The configuration or the credentials hold what stands before the place k.
ReadUpTo(k) ==
  /\ parser = "hatch" =>
       /\ uuid = ValueUpTo(js, {"hatchUUID"}, k)
       /\ num = [end      |-> Strtol(ValueUpTo(js, {"endUnixTimestamp"}, k)),
                 interval |-> 60 * Strtol(ValueUpTo(js, {"measureIntervalMin"}, k)),
                 offset   |-> Strtol(ValueUpTo(js, {"temperatureOffsetCelsius"}, k))]
  /\ parser = "wifi" =>
       /\ ssid = Cut(ValueUpTo(js, SsidKeys, k), 32)
       /\ pass = Cut(ValueUpTo(js, PassKeys, k), 64)

\* Nothing is written before the pairs, nor when the text is refused.
Untouched ==
  pc \in {"find", "scan", "parse"} \/ (pc = "done" /\ result # "true") =>
    uuid = "" /\ num = NoNumbers /\ ssid = "" /\ pass = ""

ReadSoFar ==
  Flat(js) =>
    /\ pc = "pairs" => ReadUpTo(n)
    /\ result = "true" => ReadUpTo(Len(js) - 1)

LEMMA EmptyValue == Strtol("") = 0 /\ Cut("", 32) = "" /\ Cut("", 64) = ""
  BY NumberAssumption, LengthAssumption, Zenon DEF Strtol, Cut

LEMMA SixtyTimesNone == 60 * 0 = 0
  OBVIOUS

LEMMA ReadNothing ==
  ASSUME uuid = "", num = NoNumbers, ssid = "", pass = ""
  PROVE  ReadUpTo(1)
<1>1. /\ ValueUpTo(js, {"hatchUUID"}, 1) = ""
      /\ Strtol(ValueUpTo(js, {"endUnixTimestamp"}, 1)) = 0
      /\ Strtol(ValueUpTo(js, {"measureIntervalMin"}, 1)) = 0
      /\ Strtol(ValueUpTo(js, {"temperatureOffsetCelsius"}, 1)) = 0
      /\ Cut(ValueUpTo(js, SsidKeys, 1), 32) = ""
      /\ Cut(ValueUpTo(js, PassKeys, 1), 64) = ""
  BY EmptyValue, ValueOfNone, Zenon
<1> QED
  BY <1>1, SixtyTimesNone, Zenon DEF ReadUpTo, NoNumbers

\* One pair of the loop reads one member.
LEMMA ReadPair ==
  ASSUME NEW key, NEW value, n \in Nat, n % 2 = 1, ReadUpTo(n),
         js[n + 1] = key, js[n + 2] = value, Assign(key, value),
         parser' = parser, js' = js, n' = n + 2
  PROVE  ReadUpTo(n)'
<1>1. \A keys : ValueUpTo(js, keys, n + 2) =
                  IF key \in keys THEN value ELSE ValueUpTo(js, keys, n)
  BY ValueOfNext
<1>2. CASE parser = "wifi"
  <2>1. /\ ssid' = IF key \in SsidKeys THEN Cut(value, 32) ELSE ssid
        /\ pass' = IF key \in PassKeys THEN Cut(value, 64) ELSE pass
    BY <1>2, Zenon DEF Assign, SsidKeys, PassKeys
  <2>2. /\ ssid = Cut(ValueUpTo(js, SsidKeys, n), 32)
        /\ pass = Cut(ValueUpTo(js, PassKeys, n), 64)
    BY <1>2 DEF ReadUpTo
  <2>3. /\ ssid' = Cut(ValueUpTo(js, SsidKeys, n + 2), 32)
        /\ pass' = Cut(ValueUpTo(js, PassKeys, n + 2), 64)
    BY <1>1, <2>1, <2>2
  <2> QED
    BY <1>2, <2>3 DEF ReadUpTo
<1>3. CASE parser = "hatch"
  <2> DEFINE e(k) == Strtol(ValueUpTo(js, {"endUnixTimestamp"}, k))
             i(k) == Strtol(ValueUpTo(js, {"measureIntervalMin"}, k))
             o(k) == Strtol(ValueUpTo(js, {"temperatureOffsetCelsius"}, k))
  <2>1. /\ uuid = ValueUpTo(js, {"hatchUUID"}, n)
        /\ num = [end |-> e(n), interval |-> 60 * i(n), offset |-> o(n)]
    BY <1>3 DEF ReadUpTo
  <2>2. uuid' = ValueUpTo(js, {"hatchUUID"}, n + 2)
    <3>1. uuid' = IF key = "hatchUUID" THEN value ELSE uuid
      BY <1>3, Zenon DEF Assign
    <3> QED
      BY <1>1, <2>1, <3>1
  <2>3. /\ e(n + 2) = IF key = "endUnixTimestamp" THEN Strtol(value) ELSE e(n)
        /\ i(n + 2) = IF key = "measureIntervalMin" THEN Strtol(value) ELSE i(n)
        /\ o(n + 2) = IF key = "temperatureOffsetCelsius" THEN Strtol(value) ELSE o(n)
    BY <1>1
  <2>4. num' = CASE key = "endUnixTimestamp" -> [num EXCEPT !.end = Strtol(value)]
                 [] key = "measureIntervalMin" -> [num EXCEPT !.interval = Strtol(value) * 60]
                 [] key = "temperatureOffsetCelsius" -> [num EXCEPT !.offset = Strtol(value)]
                 [] OTHER -> num
    BY <1>3 DEF Assign, SecondsOf
  <2> HIDE DEF e, i, o
  <2>5. num' = [end |-> e(n + 2), interval |-> 60 * i(n + 2), offset |-> o(n + 2)]
    <3>1. 60 * Strtol(value) = Strtol(value) * 60
      BY StrtolIsInt
    <3> QED
      BY <2>1, <2>3, <2>4, <3>1
  <2> USE DEF e, i, o
  <2> QED
    BY <1>3, <2>2, <2>5 DEF ReadUpTo
<1>4. CASE parser \notin {"wifi", "hatch"}
  BY <1>4 DEF ReadUpTo
<1> QED
  BY <1>2, <1>3, <1>4

LEMMA UntouchedStep == Control /\ Untouched /\ JsonNext => Untouched'
<1> SUFFICES ASSUME Control, Untouched, JsonNext PROVE Untouched'
  OBVIOUS
<1> USE DEF Untouched, parsed
<1>1. CASE FindDesired
  BY <1>1 DEF FindDesired
<1>2. CASE Scan
  BY <1>2 DEF Scan
<1>3. CASE Section
  BY <1>3 DEF Section
<1>4. CASE ParseTokens
  BY <1>4 DEF ParseTokens
<1>5. CASE Pair
  BY <1>5 DEF Pair
<1>6. CASE LonePair
  BY <1>6, LonePairOr
<1>7. CASE Return
  BY <1>7 DEF Return
<1>8. CASE Connect
  BY <1>8 DEF Connect, Control
<1> QED
  BY <1>1, <1>2, <1>3, <1>4, <1>5, <1>6, <1>7, <1>8 DEF JsonNext

LEMMA ReadSoFarStep ==
  Control /\ Counted /\ Untouched /\ ReadSoFar /\ JsonNext => ReadSoFar'
<1> SUFFICES ASSUME Control, Counted, Untouched, ReadSoFar, JsonNext, Flat(js')
             PROVE  /\ pc' = "pairs" => ReadUpTo(n)'
                    /\ result' = "true" => ReadUpTo(Len(js) - 1)'
  BY DEF ReadSoFar
<1>0. js \in Seq(STRING) /\ Len(js) \in Nat /\ n \in Nat /\ parser' = parser
  BY TextIsSeq, TextStays DEF Control, Counted
<1>a. ASSUME js' = js
      PROVE  /\ Flat(js) /\ Len(js) >= 2 /\ Len(js) % 2 = 0
             /\ Len(Tokens(js)) = Len(js) - 1
             /\ \A k \in 1..Len(js) - 1 : Tokens(js)[k] = js[k]
  <2>1. Flat(js)
    BY <1>a
  <2> QED
    BY <1>0, <2>1, FlatTokens DEF Flat
<1>1. CASE FindDesired \/ Scan \/ Section
  BY <1>1 DEF FindDesired, Scan, Section, Ends, Control
<1>4. CASE ParseTokens
  <2>1. js' = js /\ pc = "parse" /\ result = "none"
    BY <1>4 DEF ParseTokens, Control
  <2>2. result' # "true" /\ (pc' = "pairs" => n' = 1)
    BY <1>4, <2>1 DEF ParseTokens, Ends
  <2>3. ReadUpTo(1)'
    <3>1. ReadUpTo(1)
      BY <2>1, ReadNothing DEF Untouched
    <3> QED
      BY <1>0, <1>4, <2>1, <3>1 DEF ParseTokens, parsed, ReadUpTo
  <2>4. n' = 1 => ReadUpTo(n)'
    BY <2>3
  <2> QED
    BY <2>2, <2>4
<1>5. CASE Pair
  <2>1. /\ pc = "pairs" /\ js' = js /\ n + 1 < Len(Tokens(js)) /\ n' = n + 2
        /\ Assign(Tokens(js)[n + 1], Tokens(js)[n + 2]) /\ result' = "none"
    BY <1>5 DEF Pair, Control
  <2>2. n + 1 \in 1..Len(js) - 1 /\ n + 2 \in 1..Len(js) - 1
    BY <1>0, <1>a, <2>1
  <2>3. Assign(js[n + 1], js[n + 2])
    BY <1>a, <2>1, <2>2
  <2>4. ReadUpTo(n) /\ n % 2 = 1
    BY <1>a, <2>1 DEF ReadSoFar, Counted
  <2>5. ReadUpTo(n)'
    BY <1>0, <2>1, <2>3, <2>4, ReadPair
  <2> QED
    BY <2>1, <2>5
<1>6. CASE LonePair
  <2>1. pc = "pairs" /\ n + 1 = Len(Tokens(js)) /\ js' = js
    BY <1>6, LonePairOr
  <2>2. (n + 2) % 2 = 1
    <3>1. n % 2 = 1
      BY <2>1 DEF Counted
    <3> QED
      BY <1>0, <3>1
  <2>3. Len(js) % 2 = 0 /\ Len(Tokens(js)) = Len(js) - 1
    BY <1>a, <2>1
  <2>4. n + 2 = Len(js)
    BY <1>0, <2>1, <2>3
  <2> QED
    BY <2>2, <2>3, <2>4
<1>7. CASE Return
  <2>1. pc = "pairs" /\ n >= Len(Tokens(js)) /\ js' = js /\ pc' # "pairs"
    BY <1>7 DEF Return
  <2>2. n % 2 = 1 /\ n <= Len(Tokens(js)) + 1
    BY <2>1 DEF Counted
  <2>3. n = Len(js) - 1
    <3>1. Len(js) % 2 = 0 /\ Len(Tokens(js)) = Len(js) - 1
      BY <1>a, <2>1
    <3>2. n # Len(js)
      BY <2>2, <3>1
    <3>3. n >= Len(js) - 1 /\ n <= Len(js)
      BY <1>0, <2>1, <2>2, <3>1
    <3> QED
      BY <1>0, <3>2, <3>3
  <2>4. ReadUpTo(Len(js) - 1)
    BY <1>a, <2>1, <2>3 DEF ReadSoFar
  <2>5. ReadUpTo(Len(js) - 1)'
    BY <1>0, <1>7, <2>1, <2>4 DEF Return, parsed, ReadUpTo
  <2> QED
    BY <2>1, <2>5
<1>8. CASE Connect
  <2>1. js' = js /\ result' = result /\ pc' = "done"
    BY <1>8 DEF Connect
  <2>2. result = "true" => ReadUpTo(Len(js) - 1)
    BY <1>a, <2>1 DEF ReadSoFar
  <2>3. ReadUpTo(Len(js) - 1) => ReadUpTo(Len(js) - 1)'
    BY <1>0, <1>8, <2>1 DEF Connect, parsed, ReadUpTo
  <2> QED
    BY <2>1, <2>2, <2>3
<1> QED
  BY <1>1, <1>4, <1>5, <1>6, <1>7, <1>8 DEF JsonNext

-----------------------------------------------------------------------------------
(***********************************************************************************)
(* The station and the sleep: what is done with the values that were read.         *)
(***********************************************************************************)

\* Only wifi_connect writes the station, from both buffers.
Stationed ==
  station # <<"", "">> =>
    /\ parser = "wifi" /\ pc = "done" /\ result = "true"
    /\ station = <<Cut(ssid, 31), Cut(pass, 63)>>

LEMMA StationedStep == Control /\ Stationed /\ JsonNext => Stationed'
<1> SUFFICES ASSUME Control, Stationed, JsonNext PROVE Stationed'
  OBVIOUS
<1> USE DEF Stationed
<1>1. CASE Connect
  BY <1>1 DEF Connect, Control, parsed
<1>2. CASE ~ Connect
  <2>1. station' = station /\ pc # "done"
    BY <1>2, LonePairOr DEF JsonNext, FindDesired, Scan, Section, ParseTokens, Pair, LonePair, Return
  <2> QED
    BY <2>1
<1> QED
  BY <1>1, <1>2

MessagesInv == ParserInv /\ SectionGiven /\ Untouched /\ ReadSoFar /\ Stationed

LEMMA MessagesInvInit == MessagesInit => MessagesInv
<1> SUFFICES ASSUME MessagesInit PROVE MessagesInv
  OBVIOUS
<1>1. ParserInv
  BY ParserInvInit
<1>2. pc \notin {"pairs", "panic", "done"} /\ result = "none"
  BY DEF MessagesInit, JsonInit
<1>3. SectionGiven
  BY DEF MessagesInit, JsonInit, SectionGiven
<1>4. Untouched /\ ReadSoFar /\ Stationed
  BY <1>2 DEF MessagesInit, JsonInit, Untouched, ReadSoFar, Stationed
<1> QED
  BY <1>1, <1>3, <1>4 DEF MessagesInv

LEMMA MessagesInvStep == MessagesInv /\ [MessagesNext]_<<jsonVars, vars>> => MessagesInv'
<1> SUFFICES ASSUME MessagesInv, [MessagesNext]_<<jsonVars, vars>> PROVE MessagesInv'
  OBVIOUS
<1>1. ParserInv'
  BY ParserInvStep DEF MessagesInv
<1>2. CASE JsonNext
  BY <1>1, <1>2, SectionGivenStep, UntouchedStep, ReadSoFarStep, StationedStep
     DEF MessagesInv, ParserInv
<1>3. CASE UNCHANGED jsonVars
  BY <1>1, <1>3 DEF MessagesInv, jsonVars, parsed, SectionGiven, IsSection, NoSection, Start,
                    Untouched, ReadSoFar, ReadUpTo, Stationed
<1> QED
  BY <1>2, <1>3, MessagesSteps

LEMMA MessagesInvHolds == MessagesSpec => []MessagesInv
  BY MessagesInvInit, MessagesInvStep, PTL DEF MessagesSpec

(***********************************************************************************)
(* A shadow document with a flat desired section gives exactly that configuration: *)
(* _shadow_get_cb hands on that section and json_parse_hatch_config_msg reads the  *)
(* last value of each of its members.                                              *)
(***********************************************************************************)
THEOREM DesiredIsTakenHolds == MessagesSpec => []DesiredIsTaken
<1>1. MessagesInv => DesiredIsTaken
  <2> SUFFICES ASSUME MessagesInv, parser = "hatch", pc = "done", Flat(Meant)
               PROVE  /\ result = "true"
                      /\ uuid = ValueOf(Meant, {"hatchUUID"}, "")
                      /\ num = [end      |-> Strtol(ValueOf(Meant, {"endUnixTimestamp"}, "")),
                                interval |-> 60 * Strtol(ValueOf(Meant, {"measureIntervalMin"}, "")),
                                offset   |-> Strtol(ValueOf(Meant, {"temperatureOffsetCelsius"}, ""))]
    BY Zenon DEF DesiredIsTaken
  <2>1. result = "true" /\ js = Meant
    BY FlatIsAccepted DEF MessagesInv, ParserInv
  <2>2. ReadUpTo(Len(js) - 1)
    BY <2>1 DEF MessagesInv, ReadSoFar
  <2> HIDE DEF MessagesInv
  <2> QED
    BY <2>1, <2>2, ValueOfWhole, Zenon DEF ReadUpTo
<1> QED
  BY <1>1, MessagesInvHolds, PTL

LEMMA NotBlank == station[1] # "" => station # <<"", "">>
<1> SUFFICES ASSUME station = <<"", "">> PROVE station[1] = ""
  OBVIOUS
<1>1. <<"", "">>[1] = ""
  OBVIOUS
<1> QED
  BY <1>1, Zenon

LEMMA CutTwice ==
  ASSUME NEW value
  PROVE  /\ Cut(value, 31) = value => Cut(Cut(value, 32), 31) = value
         /\ Cut(value, 63) = value => Cut(Cut(value, 64), 63) = value
<1>1. CASE value \notin DOMAIN Length
  BY <1>1, Zenon DEF Cut
<1>2. CASE value \in DOMAIN Length
  <2>1. Length[value] \in Nat
    BY <1>2, LengthAssumption, Zenon
  <2>2. /\ Length[value] > 32 => Length[value] > 31
        /\ Length[value] > 64 => Length[value] > 63
    BY <2>1
  <2> QED
    BY <2>2, Zenon DEF Cut
<1> QED
  BY <1>1, <1>2

(***********************************************************************************)
(* None of the buffers between the phone and the station cuts an ssid of up to 31  *)
(* or a password of up to 63 bytes: wifi_connect takes what was written.           *)
(***********************************************************************************)
THEOREM ConnectsAsSentHolds == MessagesSpec => []ConnectsAsSent
<1>1. MessagesInv => ConnectsAsSent
  <2> DEFINE s == ValueOf(Meant, {"wifiSSID", "WIFISSID"}, "")
             p == ValueOf(Meant, {"wifiPassword", "WIFIPASSWORD"}, "")
  <2> SUFFICES ASSUME MessagesInv, parser = "wifi", pc = "done", result = "true",
                      station[1] # "", Flat(Meant)
               PROVE  /\ Cut(s, 31) = s => station[1] = s
                      /\ Cut(p, 63) = p => station[2] = p
    BY Zenon DEF ConnectsAsSent
  <2>1. js = Meant
    BY DEF MessagesInv, ParserInv, GivenWhole, Meant
  <2>2. station = <<Cut(ssid, 31), Cut(pass, 63)>>
    <3>1. station # <<"", "">>
      BY NotBlank, Zenon
    <3> QED
      BY <3>1, Zenon DEF MessagesInv, Stationed
  <2>3. ReadUpTo(Len(js) - 1)
    BY <2>1 DEF MessagesInv, ReadSoFar
  <2> HIDE DEF MessagesInv
  <2>4. ssid = Cut(s, 32) /\ pass = Cut(p, 64)
    BY <2>1, <2>3, ValueOfWhole, Zenon DEF ReadUpTo, SsidKeys, PassKeys
  <2> HIDE DEF s, p
  <2> QED
    BY <2>2, <2>4, CutTwice
<1> QED
  BY <1>1, MessagesInvHolds, PTL

\* A boot that sleeps was configured by its document, and of that asks for minutes.
Slept ==
  /\ phase # "shadow" => Configured /\ sec = num.interval
  /\ Computed

LEMMA SleptInit == MessagesInit => Slept
  BY ComputedInit DEF MessagesInit, Init, Slept

LEMMA SleptStep == Slept /\ [MessagesNext]_<<jsonVars, vars>> => Slept'
<1> SUFFICES ASSUME Slept, [MessagesNext]_<<jsonVars, vars>> PROVE Slept'
  OBVIOUS
<1>1. Computed'
  BY ComputedStep, MessagesSteps DEF Slept
<1>2. CASE JsonNext /\ UNCHANGED vars
  <2>1. phase' = phase /\ sec' = sec
    BY <1>2 DEF vars
  <2>2. ~ Configured
    BY <1>2, LonePairOr DEF Configured, JsonNext, FindDesired, Scan, Section, ParseTokens,
                            Pair, Return, Connect
  <2> QED
    BY <1>1, <2>1, <2>2 DEF Slept
<1>3. CASE UNCHANGED jsonVars
  <2>1. Configured' <=> Configured
    BY <1>3 DEF jsonVars, Configured
  <2>2. num' = num
    BY <1>3 DEF jsonVars
  <2>3. CASE Configure
    BY <1>1, <2>1, <2>2, <2>3 DEF Configure, Slept
  <2>4. CASE Sleep
    BY <1>1, <2>1, <2>2, <2>4 DEF Sleep, DeepSleepTimer, Slept
  <2>5. CASE UNCHANGED vars
    BY <1>1, <2>1, <2>2, <2>5 DEF vars, Slept
  <2> QED
    BY <2>3, <2>4, <2>5 DEF MessagesNext
<1> QED
  BY <1>2, <1>3 DEF MessagesNext

LEMMA SleptHolds == MessagesSpec => []Slept
  BY SleptInit, SleptStep, PTL DEF MessagesSpec

(***********************************************************************************)
(* From the document to the timer: at most 71 minutes are slept as the desired     *)
(* section asks, whatever else the document holds.                                 *)
(***********************************************************************************)
THEOREM SleepsAsAskedHolds == MessagesSpec => []SleepsAsAsked
<1>1. MessagesInv /\ DesiredIsTaken /\ Slept => SleepsAsAsked
  <2> DEFINE asked == Strtol(ValueOf(Meant, {"measureIntervalMin"}, ""))
  <2> SUFFICES ASSUME DesiredIsTaken, Slept, phase = "asleep", Flat(Meant), asked <= 71
               PROVE  units = asked * 60 * UnitsPerSec
    BY Zenon DEF SleepsAsAsked
  <2>1. Configured /\ sec = num.interval
    BY DEF Slept
  <2>2. num.interval = 60 * asked
    <3> DEFINE e == Strtol(ValueOf(Meant, {"endUnixTimestamp"}, ""))
               o == Strtol(ValueOf(Meant, {"temperatureOffsetCelsius"}, ""))
    <3>1. num = [end |-> e, interval |-> 60 * asked, offset |-> o]
      BY <2>1, Zenon DEF DesiredIsTaken, Configured
    <3> HIDE DEF e, o, asked
    <3> QED
      BY <3>1
  <2>3. asked \in Int
    BY StrtolIsInt
  <2>4. minutes \in Nat /\ sec = minutes * 60
    BY DEF Slept, Computed
  <2> HIDE DEF asked
  <2>5. minutes = asked
    BY <2>1, <2>2, <2>3, <2>4
  <2>6. units = (minutes * 60 * UnitsPerSec) % UnitsWrap
    BY DEF Slept, Computed
  <2>7. (minutes * 60 * UnitsPerSec) % UnitsWrap = minutes * 60 * UnitsPerSec
    BY <2>4, <2>5, Wraps
  <2> QED
    BY <2>5, <2>6, <2>7
<1> QED
  BY <1>1, MessagesInvHolds, DesiredIsTakenHolds, SleptHolds, PTL

\* SleepsTheInterval also of the intervals that come out of a document.
THEOREM SleepsTheIntervalOfMessages == MessagesSpec => []SleepsTheInterval
  BY ComputedSleeps, SleptHolds, PTL DEF Slept

-----------------------------------------------------------------------------------
(***********************************************************************************)
(* Documents that are refused                                                      *)
(***********************************************************************************)

\* The first token of a text that does not start with a closing bracket is its start.
LEMMA FirstToken ==
  ASSUME NEW s \in Seq(STRING), 1 \in 1..Len(s), s[1] \notin Closing
  PROVE  Tokens(s)[1] = s[1]
<1> DEFINE Places == TokenPlaces(s)
<1>1. Places \in SUBSET Nat /\ 1 \in Places /\ \A j \in Places : 1 <= j
  BY LenProperties DEF TokenPlaces
<1>2. IsFiniteSet(Places) /\ Cardinality(Places) \in Nat
  BY PlacesFinite
<1>3. 1 \in 1..Cardinality(Places)
  BY <1>1, <1>2, FS_EmptySet
<1>4. Cardinality({j \in Places : j <= 1}) = 1
  <2>1. {j \in Places : j <= 1} = {1}
    BY <1>1
  <2> QED
    BY <2>1, FS_Singleton
<1>5. ASSUME NEW i \in Places, Cardinality({j \in Places : j <= i}) = 1
      PROVE  i = 1
  <2>1. {1, i} \in SUBSET {j \in Places : j <= i}
    BY <1>1
  <2>2. IsFiniteSet({j \in Places : j <= i})
    BY <1>2, FS_Subset
  <2>3. PICK x : {j \in Places : j <= i} = {x}
    BY <1>5, <2>2, FS_Singleton
  <2> QED
    BY <2>1, <2>3
<1>6. (CHOOSE i \in Places : Cardinality({j \in Places : j <= i}) = 1) = 1
  BY <1>1, <1>4, <1>5
<1> QED
  BY <1>3, <1>6 DEF Tokens

LEMMA CountFinite ==
  ASSUME NEW s \in Seq(STRING), NEW S
  PROVE  IsFiniteSet({i \in 1..Len(s) : s[i] \in S}) /\ Count(S, s) \in Nat
<1>1. IsFiniteSet(1..Len(s))
  BY LenProperties, FS_Interval
<1>2. {i \in 1..Len(s) : s[i] \in S} \in SUBSET (1..Len(s))
  OBVIOUS
<1> QED
  BY <1>1, <1>2, FS_Subset, FS_CardinalityType DEF Count

\* An end of a section that is in the section itself: at most the first }.
LEMMA FewRights ==
  ASSUME NEW s \in Seq(STRING), NEW e \in Nat, \A i \in 1..Len(s) : i # e => s[i] # Right
  PROVE  Count({Right}, s) \in 0..1
<1>1. {i \in 1..Len(s) : s[i] \in {Right}} \in SUBSET {e}
  OBVIOUS
<1>2. IsFiniteSet({e}) /\ Cardinality({e}) = 1
  BY FS_Singleton
<1>3. Cardinality({i \in 1..Len(s) : s[i] \in {Right}}) <= 1
  BY <1>1, <1>2, FS_Subset
<1>4. Count({Right}, s) \in Nat /\ Count({Right}, s) <= 1
  BY <1>3, CountFinite, Zenon DEF Count
<1> QED
  BY <1>4

(***********************************************************************************)
(* A section that is accepted starts with the object that is meant, and goes on to *)
(* the first } at least to its end.                                                *)
(***********************************************************************************)
LEMMA AcceptedMeant ==
  ASSUME Control, parser = "hatch", IsSection(js), Accepted(js)
  PROVE  /\ Meant # <<>> /\ Meant \in Seq(STRING)
         /\ Count({Left}, Meant) <= 1
         /\ Len(Tokens(Meant)) <= MaxTokens
<1>0. /\ text \in Seq(STRING) /\ Len(text) \in Nat /\ text \in Documents
      /\ Positions("desired", text) # {} /\ Start \in 2..Len(text) + 1
  BY TextIsSeq DEF Control, IsSection
<1>1. PICK e \in Start..Len(text) :
        /\ text[e] = Right /\ js = SubSeq(text, Start, e)
        /\ \A i \in Start..e - 1 : text[i] # Right
  BY DEF IsSection
<1>2. Start \in 1..Len(text) /\ e \in Int /\ Start <= e /\ e <= Len(text)
  BY <1>0, <1>1
<1>3. /\ js \in Seq(STRING) /\ Len(js) = e - Start + 1
      /\ \A k \in 1..e - Start + 1 : js[k] = text[Start + k - 1]
  BY <1>0, <1>1, <1>2, PartOf
<1>4. text[Start] \in Opening
  <2>1. text[Start] \notin Closing
    <3> DEFINE d == First(Positions("desired", text))
    <3>1. d \in Positions("desired", text) /\ d \in 1..Len(text) /\ Start = d + 1
      BY <1>0, PositionsOf DEF Start
    <3> HIDE DEF d
    <3>2. d < Len(text)
      BY <1>0, <1>2, <3>1
    <3> QED
      BY <1>0, <3>1, <3>2, DocumentsAssumption
  <2>2. js[1] = text[Start] /\ 1 \in 1..Len(js)
    BY <1>2, <1>3
  <2>3. Tokens(js)[1] = text[Start]
    BY <1>3, <2>1, <2>2, FirstToken
  <2> QED
    BY <2>3, Brackets DEF Accepted
<1> DEFINE ends == {j \in Start..Len(text) : Complete(SubSeq(text, Start, j))}
<1>5. e \in ends
  BY <1>1, <1>2, Zenon DEF Accepted, Parses
<1>6. Meant = ObjectAt(text, Start) /\ Meant = SubSeq(text, Start, First(ends))
  <2>1. ObjectAt(text, Start) = SubSeq(text, Start, First(ends))
    BY <1>4, <1>5, Zenon DEF ObjectAt
  <2>2. Meant = ObjectAt(text, Start)
    BY <1>0, Zenon DEF Meant
  <2> QED
    BY <2>1, <2>2
<1>7. First(ends) \in Start..e
  <2>1. ends \in SUBSET Nat /\ ends # {}
    BY <1>2, <1>5
  <2>2. First(ends) \in ends /\ First(ends) <= e
    BY <1>5, <2>1, FirstProperties
  <2>3. ends \in SUBSET (Start..Len(text))
    OBVIOUS
  <2> QED
    BY <1>2, <2>2, <2>3
<1> HIDE DEF ends
<1>8. PICK m \in Start..e : m = First(ends)
  BY <1>7
<1>9. /\ Meant \in Seq(STRING) /\ Len(Meant) = m - Start + 1
      /\ \A k \in 1..m - Start + 1 : Meant[k] = text[Start + k - 1]
  <2>1. m \in Start..Len(text)
    BY <1>2, <1>8
  <2>2. Meant = SubSeq(text, Start, m)
    BY <1>6, <1>8
  <2>3. /\ SubSeq(text, Start, m) \in Seq(STRING)
        /\ Len(SubSeq(text, Start, m)) = m - Start + 1
        /\ \A k \in 1..m - Start + 1 : SubSeq(text, Start, m)[k] = text[Start + k - 1]
    BY <1>0, <1>2, <2>1, PartOf
  <2> QED
    BY <2>2, <2>3, Zenon
<1>10. m \in Int /\ Start <= m /\ m <= e /\ Len(Meant) \in Nat
  BY <1>2, <1>8, <1>9
<1>11. Meant # <<>>
  <2>1. Len(Meant) # 0
    <3>1. Len(Meant) = m - Start + 1
      BY <1>9, Zenon
    <3>2. m - Start + 1 # 0
      BY <1>2, <1>10
    <3> QED
      BY <3>1, <3>2, Zenon
  <2> QED
    BY <2>1, EmptySeq, Zenon
<1>12. Count({Left}, Meant) <= 1
  <2>1. e - Start + 1 \in Nat
    BY <1>2
  <2>2. ASSUME NEW k \in 1..Len(Meant), k # e - Start + 1
        PROVE  Meant[k] # Right
    <3>1. Start + k - 1 \in Start..e - 1 /\ k \in 1..m - Start + 1
      BY <1>2, <1>9, <1>10, <2>2
    <3> QED
      BY <1>1, <1>9, <3>1
  <2>3. Count({Right}, Meant) \in 0..1
    BY <1>9, <2>1, <2>2, FewRights
  <2>4. Count({Left}, Meant) = Count({Right}, Meant)
    BY <1>0, <1>2, <1>6, DocumentsAssumption
  <2> QED
    BY <2>3, <2>4
<1>13. Len(Tokens(Meant)) <= Len(Tokens(js))
  <2>1. \A k \in 1..Len(Meant) : k \in 1..Len(js) /\ Meant[k] = js[k]
    BY <1>2, <1>3, <1>9, <1>10
  <2>2. TokenPlaces(Meant) \in SUBSET TokenPlaces(js)
    BY <2>1 DEF TokenPlaces
  <2> QED
    BY <1>3, <1>9, <2>2, PlacesFinite, FS_Subset
<1>14. Len(Tokens(js)) <= MaxTokens
  BY MaxTokensAssumption, <1>3, PlacesFinite DEF Accepted, Parses
<1> QED
  BY <1>3, <1>9, <1>11, <1>12, <1>13, <1>14, MaxTokensAssumption, PlacesFinite

(***********************************************************************************)
(* Of a document of JSON whose desired section holds an object, is too long or     *)
(* missing, nothing is taken: the configuration stays as it was.                   *)
(***********************************************************************************)
THEOREM OthersAreRefusedHolds == MessagesSpec => []OthersAreRefused
<1>1. MessagesInv => OthersAreRefused
  <2> SUFFICES ASSUME MessagesInv, parser = "hatch", pc = "done",
                      \/ Meant = <<>>
                      \/ Count({Left}, Meant) > 1
                      \/ Len(Tokens(Meant)) > MaxTokens
               PROVE  result # "true" /\ uuid = "" /\ num = NoNumbers
    BY Zenon DEF OthersAreRefused
  <2>1. result # "true"
    <3> SUFFICES ASSUME result = "true" PROVE FALSE
      OBVIOUS
    <3>1. Control /\ IsSection(js) /\ Accepted(js)
      BY DEF MessagesInv, ParserInv, SectionGiven, Answered
    <3>2. /\ Meant # <<>> /\ Meant \in Seq(STRING)
          /\ Count({Left}, Meant) <= 1
          /\ Len(Tokens(Meant)) <= MaxTokens
      BY <3>1, AcceptedMeant
    <3>3. Count({Left}, Meant) \in Nat /\ Len(Tokens(Meant)) \in Nat
      BY <3>2, CountFinite, PlacesFinite
    <3> QED
      BY <3>2, <3>3, MaxTokensAssumption
  <2> QED
    BY <2>1 DEF MessagesInv, Untouched
<1> QED
  BY <1>1, MessagesInvHolds, PTL
===================================================================================
