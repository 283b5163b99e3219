---------------------------- MODULE MeasurementDb_proofs ----------------------------
(***********************************************************************************)
(* What an upload publishes from the measurement log, and that the file of bytes   *)
(* implements MeasurementLog, for every record length, every capacity and any      *)
(* number of faults.  Reads: as long as total counts only records that are in the  *)
(* file whole, no read is short.  For the refinement, the records in front of the  *)
(* first cut are characterised by their places (IntactUpTo), bytes put behind a    *)
(* part are shown to make no record with it, and Uploaded says how many records    *)
(* each phase of an upload has published.                                          *)
(***********************************************************************************)
EXTENDS MeasurementDb, SequenceTheorems, WellFoundedInduction, TLAPS

USE RecordAssumption, CapacityAssumption

-----------------------------------------------------------------------------------
(***********************************************************************************)
(* Sequences of bytes                                                              *)
(***********************************************************************************)

LEMMA Records ==
  ASSUME NEW m \in Meas
  PROVE  BytesOf(m) \in Seq(Byte) /\ Len(BytesOf(m)) = RecordLen
  BY DEF BytesOf, Byte

LEMMA JunkBytes == Junk \in Seq(Byte) /\ Len(Junk) = RecordLen
  BY DEF Junk, Byte

LEMMA Parts ==
  ASSUME NEW S, NEW s \in Seq(S), NEW m \in Nat \ {0}, NEW n \in Nat, n <= Len(s), m <= n + 1
  PROVE  SubSeq(s, m, n) \in Seq(S) /\ Len(SubSeq(s, m, n)) = n - m + 1
<1>1. \A i \in m..n : s[i] \in S
  BY LenProperties
<1> QED
  BY <1>1, SubSeqProperties

\* Bytes at the end keep what is in front of them in its place.
LEMMA Longer ==
  ASSUME file \in Seq(Byte), Len(file) <= Capacity,
         NEW m \in Meas, NEW k \in 0..RecordLen, AppendBytes(m, k)
  PROVE  file' \in Seq(Byte) /\ Len(file') <= Capacity
<1>1. SubSeq(BytesOf(m), 1, k) \in Seq(Byte) /\ Len(SubSeq(BytesOf(m), 1, k)) = k
  BY Records, Parts
<1> QED
  BY <1>1, ConcatProperties DEF AppendBytes

\* The smaller of two numbers.
LEMMA MinOfTwo ==
  ASSUME NEW a \in Int, NEW b \in Int
  PROVE  Min({a, b}) = IF a <= b THEN a ELSE b
  BY DEF Min
-----------------------------------------------------------------------------------
(***********************************************************************************)
(* Multiples of the record length                                                  *)
(***********************************************************************************)

LEMMA OneRecordLess ==
  ASSUME NEW t \in Nat, t >= 1
  PROVE  (t - 1) * RecordLen = t * RecordLen - RecordLen /\ t * RecordLen >= RecordLen
  OBVIOUS

LEMMA WholeRecords ==
  ASSUME NEW n \in Nat
  PROVE  n \div RecordLen \in Nat /\ (n \div RecordLen) * RecordLen <= n
  OBVIOUS

-----------------------------------------------------------------------------------
(***********************************************************************************)
(* The invariant                                                                   *)
(***********************************************************************************)

\* Behind pos there are still total whole records.
Left == pos + total * RecordLen <= Len(file)

Reads ==
  /\ pc = "write" => adding \in Meas
  /\ pc \in {"idle", "open"} => pos = 0
  /\ pc \in {"open", "entry"} => total >= 1 /\ Left
  /\ pc = "publish" => Left
  /\ PublishesWhatItRead

DInv == TypeOK /\ Reads

LEMMA InitHolds == Init => DInv
  BY JunkBytes DEF Init, DInv, TypeOK, Reads, PublishesWhatItRead

LEMMA Fresh ==
  ASSUME FreshLocals, file' \in Seq(Byte), Len(file') <= Capacity,
         fp' \in {"NULL", "append", "read"}, faults' \in 0..MaxFaults
  PROVE  DInv'
  BY JunkBytes, EmptySeq DEF FreshLocals, DInv, TypeOK, Reads, PublishesWhatItRead

LEMMA Faults ==
  ASSUME TypeOK, Works \/ Fails
  PROVE  faults' \in 0..MaxFaults
  BY DEF TypeOK, Works, Fails

\* A read that succeeds fills all of old.
LEMMA ReadIsWhole ==
  ASSUME DInv, ReadEntry
  PROVE  /\ total >= 1 /\ Left /\ total' = total - 1
         /\ UNCHANGED <<file, fp, adding, sent>>
         /\ pos \in Nat /\ pos + RecordLen <= Len(file) /\ Len(file) \in Nat
         /\ \/ r' = FALSE /\ pc' = "close" /\ UNCHANGED <<old, pos>>
            \/ /\ r' = TRUE /\ pc' = "publish" /\ pos' = pos + RecordLen
               /\ old' = SubSeq(file, pos + 1, pos + RecordLen)
               /\ old' \in Seq(Byte) /\ Len(old') = RecordLen
<1> USE DEF DInv, TypeOK
<1>1. total >= 1 /\ Left /\ total' = total - 1 /\ UNCHANGED <<file, fp, adding, sent>>
  BY DEF ReadEntry, Reads
<1>2. pos \in Nat /\ pos + RecordLen <= Len(file) /\ Len(file) \in Nat
  <2>1. PICK x \in Int : x = total * RecordLen /\ x >= RecordLen
    BY <1>1, OneRecordLess
  <2>2. Len(file) \in Nat /\ pos + x <= Len(file)
    BY <1>1, <2>1, LenProperties DEF Left
  <2>3. pos \in Nat /\ x >= RecordLen
    BY <2>1, <2>2
  <2> QED
    BY <2>2, <2>3
<1>3. CASE r' = FALSE /\ UNCHANGED <<old, pos>>
  BY <1>1, <1>2, <1>3 DEF ReadEntry
<1>4. ASSUME NEW n, n = Min({RecordLen, Len(file) - pos}),
             old' = SubSeq(file, pos + 1, pos + n) \o SubSeq(old, n + 1, RecordLen),
             pos' = pos + n, r' = IF n = 0 THEN FALSE ELSE TRUE
      PROVE  /\ r' = TRUE /\ pc' = "publish" /\ pos' = pos + RecordLen
             /\ old' = SubSeq(file, pos + 1, pos + RecordLen)
             /\ old' \in Seq(Byte) /\ Len(old') = RecordLen
  <2>1. n = RecordLen
    <3>1. RecordLen \in Int /\ Len(file) - pos \in Int /\ RecordLen <= Len(file) - pos
      BY <1>2
    <3>2. Min({RecordLen, Len(file) - pos}) = RecordLen
      BY <3>1, MinOfTwo
    <3> QED
      BY <1>4, <3>2, Zenon
  <2>2. r' = TRUE /\ pc' = "publish" /\ pos' = pos + RecordLen
    BY <1>4, <2>1 DEF ReadEntry
  <2>3. SubSeq(old, n + 1, RecordLen) = <<>>
    BY <2>1, SubSeqEmpty
  <2>4. SubSeq(file, pos + 1, pos + RecordLen) \in Seq(Byte)
        /\ Len(SubSeq(file, pos + 1, pos + RecordLen)) = RecordLen
    BY <1>2, Parts
  <2>5. old' = SubSeq(file, pos + 1, pos + RecordLen)
    BY <1>4, <2>1, <2>3, <2>4, ConcatEmptySeq
  <2> QED
    BY <2>2, <2>4, <2>5
<1> QED
  BY <1>1, <1>2, <1>3, <1>4 DEF ReadEntry

LEMMA ReadEntryStep == DInv /\ ReadEntry => DInv'
<1> SUFFICES ASSUME DInv, ReadEntry PROVE DInv'
  OBVIOUS
<1>1. /\ total >= 1 /\ Left /\ total' = total - 1
      /\ UNCHANGED <<file, fp, adding, sent>>
      /\ pos \in Nat /\ pos + RecordLen <= Len(file) /\ Len(file) \in Nat
  BY ReadIsWhole
<1> USE DEF DInv, TypeOK
<1>2. faults' \in 0..MaxFaults
  BY Faults DEF ReadEntry
<1>3. total' \in Nat
  BY <1>1
<1>4. CASE r' = FALSE /\ pc' = "close" /\ UNCHANGED <<old, pos>>
  BY <1>1, <1>2, <1>3, <1>4 DEF Reads, PublishesWhatItRead
<1>5. CASE /\ r' = TRUE /\ pc' = "publish" /\ pos' = pos + RecordLen
           /\ old' = SubSeq(file, pos + 1, pos + RecordLen)
           /\ old' \in Seq(Byte) /\ Len(old') = RecordLen
  <2>1. pos' >= RecordLen /\ old' = SubSeq(file', pos' - RecordLen + 1, pos')
    <3>1. pos' - RecordLen + 1 = pos + 1
      BY <1>1, <1>5
    <3> QED
      BY <1>1, <1>5, <3>1
  <2>2. Left'
    BY <1>1, <1>5, OneRecordLess DEF Left
  <2> QED
    BY <1>1, <1>2, <1>3, <1>5, <2>1, <2>2 DEF Reads, PublishesWhatItRead
<1> QED
  BY <1>4, <1>5, ReadIsWhole

LEMMA Step == DInv /\ [Next]_vars => DInv'
<1> SUFFICES ASSUME DInv, [Next]_vars PROVE DInv'
  OBVIOUS
<1> USE DEF DInv, TypeOK
<1>0. Works \/ Fails => faults' \in 0..MaxFaults
  BY Faults
<1>1. ASSUME NEW m \in Meas, AddOpen(m) PROVE DInv'
  <2>1. pc' \in {"idle", "write"} /\ (pc' = "write" => adding' \in Meas)
    BY <1>1 DEF AddOpen
  <2> QED
    BY <1>0, <1>1, <2>1 DEF AddOpen, Reads, PublishesWhatItRead, Left
<1>2. CASE AddWrite
  <2>1. PICK k \in 0..RecordLen : AppendBytes(adding, k)
    BY <1>2 DEF AddWrite
  <2>2. adding \in Meas
    BY <1>2 DEF AddWrite, Reads
  <2>3. file' \in Seq(Byte) /\ Len(file') <= Capacity
    BY <2>1, <2>2, Longer
  <2> QED
    BY <1>0, <1>2, <2>3, Fresh DEF AddWrite
<1>3. CASE Total
  <2>1. total' \in Nat /\ total' >= 1 /\ total' * RecordLen <= Len(file)
    BY <1>3, WholeRecords DEF Total
  <2>2. pos = 0 /\ pc' = "open" /\ UNCHANGED <<file, fp, pos, adding, old, r, sent>>
    BY <1>3 DEF Total, Reads
  <2> QED
    BY <1>0, <1>3, <2>1, <2>2 DEF Total, Reads, PublishesWhatItRead, Left
<1>4. CASE ReadOpen
  <2>1. pc' \in {"entry", "close"} /\ fp' \in {"NULL", "append", "read"} /\ r' \in BOOLEAN
    BY <1>4 DEF ReadOpen
  <2> QED
    BY <1>0, <1>4, <2>1 DEF ReadOpen, Reads, PublishesWhatItRead, Left
<1>5. CASE ReadEntry
  BY <1>5, ReadEntryStep
<1>6. CASE Publish
  <2>1. pc' \in {"entry", "close"} /\ (pc' = "entry" => total # 0)
    BY <1>6 DEF Publish
  <2>2. r' \in BOOLEAN
    BY <1>6 DEF Publish
  <2>3. sent' \in Seq(Seq(Byte))
    <3>1. sent' = sent \/ sent' = Append(sent, old)
      BY <1>6 DEF Publish
    <3>2. Append(sent, old) \in Seq(Seq(Byte))
      BY AppendProperties
    <3> QED
      BY <3>1, <3>2
  <2>4. UNCHANGED <<file, fp, pos, adding, total, old>> /\ Left
    BY <1>6 DEF Publish, Reads
  <2> QED
    BY <1>0, <1>6, <2>1, <2>2, <2>3, <2>4 DEF Publish, Reads, PublishesWhatItRead, Left
<1>7. CASE ReadClose
  <2>1. CASE r
    BY <1>0, <1>7, <2>1 DEF ReadClose, callVars, Reads, PublishesWhatItRead
  <2>2. CASE ~ r
    BY <1>0, <1>7, <2>2, Fresh DEF ReadClose
  <2> QED
    BY <2>1, <2>2
<1>8. CASE DeleteAll
  <2>1. file' = <<>> \/ file' = file
    BY <1>8 DEF DeleteAll
  <2>2. <<>> \in Seq(Byte) /\ Len(<<>>) <= Capacity
    OBVIOUS
  <2>3. file' \in Seq(Byte) /\ Len(file') <= Capacity
    BY <2>1, <2>2
  <2> QED
    BY <1>0, <1>8, <2>3, Fresh DEF DeleteAll
<1>9. CASE PowerLoss
  <2>1. CASE pc = "write"
    <3>1. PICK k \in 0..RecordLen : AppendBytes(adding, k)
      BY <1>9, <2>1 DEF PowerLoss
    <3>2. file' \in Seq(Byte) /\ Len(file') <= Capacity
      BY <2>1, <3>1, Longer DEF Reads
    <3> QED
      BY <1>0, <1>9, <3>2, Fresh DEF PowerLoss
  <2>2. CASE pc # "write"
    BY <1>0, <1>9, <2>2, Fresh DEF PowerLoss
  <2> QED
    BY <2>1, <2>2
<1>10. CASE UNCHANGED vars
  BY <1>10 DEF vars, callVars, Reads, PublishesWhatItRead, Left
<1> QED
  BY <1>1, <1>2, <1>3, <1>4, <1>5, <1>6, <1>7, <1>8, <1>9, <1>10 DEF Next

-----------------------------------------------------------------------------------
\* Every variable of MeasurementDb keeps its type; the file never outgrows the partition.
THEOREM TypeCorrect == Spec => []TypeOK
<1>1. DInv => TypeOK
  BY DEF DInv
<1> QED BY <1>1, InitHolds, Step, PTL DEF Spec

(***********************************************************************************)
(* Every record that is published was read whole from the file just before, for    *)
(* every record length and however the file was cut short.                         *)
(***********************************************************************************)
THEOREM PublishesWhatItReadHolds == Spec => []PublishesWhatItRead
<1>1. DInv => PublishesWhatItRead
  BY DEF DInv, Reads
<1> QED BY <1>1, InitHolds, Step, PTL DEF Spec

-----------------------------------------------------------------------------------
(***********************************************************************************)
(* The records of a file                                                           *)
(***********************************************************************************)
RecordOf(f, i) == SubSeq(f, (i - 1) * RecordLen + 1, i * RecordLen)

Whole(f) == Len(f) \div RecordLen

\* The first n records are whole, and with the next one the order ends.
IntactUpTo(f, n) ==
  /\ n \in 0..Whole(f)
  /\ \A i \in 1..n : NameOf(RecordOf(f, i)) # "Garbled"
  /\ n = Whole(f) \/ NameOf(RecordOf(f, n + 1)) = "Garbled"

IntactOf(f) ==
  LET n == Max({j \in 0..Whole(f) : \A i \in 1..j : NameOf(RecordOf(f, i)) # "Garbled"})
  IN [i \in 1..n |-> NameOf(RecordOf(f, i))]

LEMMA IntactIs == Intact = IntactOf(file) /\ Intact' = IntactOf(file')
  BY DEF Intact, IntactOf, Record, RecordOf, Whole

LEMMA Maximum ==
  ASSUME NEW k \in Nat, NEW S \in SUBSET (0..k), S # {}
  PROVE  \E i \in S : \A j \in S : j <= i
<1> DEFINE T == {d \in Nat : k - d \in S}
<1>1. T \in SUBSET Nat /\ T # {}
  <2>1. PICK i \in S : TRUE
    OBVIOUS
  <2>2. k - i \in Nat /\ k - (k - i) = i
    BY <2>1
  <2> QED
    BY <2>1, <2>2
<1> HIDE DEF T
<1>2. PICK d \in T : \A e \in T : ~ (<<e, d>> \in OpToRel(<, Nat))
  BY <1>1, NatLessThanWellFounded, WFMin
<1>3. \A e \in T : ~ (e < d)
  BY <1>1, <1>2 DEF OpToRel
<1>4. d \in Nat /\ k - d \in S
  BY <1>2 DEF T
<1>5. ASSUME NEW j \in S
      PROVE  j <= k - d
  <2>1. k - j \in Nat /\ k - (k - j) = j
    OBVIOUS
  <2>2. k - j \in T
    BY <2>1 DEF T
  <2>3. ~ (k - j < d)
    BY <1>3, <2>2
  <2> QED
    BY <1>4, <2>1, <2>3
<1> QED
  BY <1>4, <1>5

LEMMA IntactLength ==
  ASSUME NEW f \in Seq(Byte), NEW n, IntactUpTo(f, n)
  PROVE  IntactOf(f) = [i \in 1..n |-> NameOf(RecordOf(f, i))] /\ Len(IntactOf(f)) = n
<1> DEFINE S == {j \in 0..Whole(f) : \A i \in 1..j : NameOf(RecordOf(f, i)) # "Garbled"}
<1>0. Whole(f) \in Nat
  BY LenProperties, WholeRecords DEF Whole
<1>1. n \in S
  BY Zenon DEF IntactUpTo
<1>2. \A j \in S : j <= n
  <2> SUFFICES ASSUME NEW j \in S, j > n PROVE FALSE
    BY <1>0 DEF IntactUpTo
  <2>1. n + 1 \in 1..j /\ n # Whole(f)
    BY <1>0 DEF IntactUpTo
  <2> QED
    BY <2>1 DEF IntactUpTo
<1>3. S \in SUBSET Int
  BY <1>0
<1> HIDE DEF S
<1>4. Max(S) = n
  <2>1. \A x \in S : (\A y \in S : x >= y) => x = n
    BY <1>1, <1>2, <1>3
  <2>2. \A y \in S : n >= y
    BY <1>1, <1>2, <1>3
  <2> QED
    BY <1>1, <2>1, <2>2 DEF Max
<1>5. n \in Nat
  BY <1>0 DEF IntactUpTo
<1>6. IntactOf(f) = [i \in 1..n |-> NameOf(RecordOf(f, i))]
  BY <1>4, Zenon DEF IntactOf, S
<1> QED
  BY <1>5, <1>6

LEMMA IntactExists ==
  ASSUME NEW f \in Seq(Byte)
  PROVE  \E n : IntactUpTo(f, n)
<1> DEFINE S == {j \in 0..Whole(f) : \A i \in 1..j : NameOf(RecordOf(f, i)) # "Garbled"}
<1>0. Whole(f) \in Nat
  BY LenProperties, WholeRecords DEF Whole
<1>1. 0 \in S /\ S \in SUBSET (0..Whole(f))
  BY <1>0
<1>2. PICK n \in S : \A j \in S : j <= n
  BY <1>0, <1>1, Maximum
<1>3. n \in 0..Whole(f) /\ \A i \in 1..n : NameOf(RecordOf(f, i)) # "Garbled"
  BY <1>2
<1>4. ASSUME n # Whole(f), NameOf(RecordOf(f, n + 1)) # "Garbled"
      PROVE  FALSE
  <2>1. n + 1 \in 0..Whole(f) /\ \A i \in 1..n + 1 : i \in 1..n \/ i = n + 1
    BY <1>0, <1>3, <1>4
  <2>2. n + 1 \in S
    BY <1>3, <1>4, <2>1
  <2> QED
    BY <1>0, <1>2, <1>3, <2>2
<1> QED
  BY <1>3, <1>4 DEF IntactUpTo

LEMMA NamesRecords ==
  ASSUME NEW m \in Meas
  PROVE  NameOf(BytesOf(m)) = m /\ NameOf(BytesOf(m)) # "Garbled"
<1>1. ASSUME NEW x \in Meas, BytesOf(x) = BytesOf(m)
      PROVE  x = m
  <2>1. BytesOf(x)[1] = <<x, 1>> /\ BytesOf(m)[1] = <<m, 1>>
    BY DEF BytesOf
  <2> QED
    BY <1>1, <2>1
<1>2. (CHOOSE x \in Meas : BytesOf(m) = BytesOf(x)) = m
  BY <1>1
<1>3. NameOf(BytesOf(m)) = m
  BY <1>2 DEF NameOf
<1>4. m # "Garbled"
  BY MeasAssumption, Zenon
<1> QED
  BY <1>3, <1>4, Zenon

LEMMA NamesOnlyRecords ==
  ASSUME NEW bytes, \A m \in Meas : bytes # BytesOf(m)
  PROVE  NameOf(bytes) = "Garbled"
  BY Zenon DEF NameOf

LEMMA Names ==
  ASSUME NEW bytes
  PROVE  NameOf(bytes) \in Meas \cup {"Garbled"}
  BY Zenon DEF NameOf

LEMMA Multiples ==
  ASSUME NEW i \in Nat, NEW j \in Nat, i <= j
  PROVE  /\ i * RecordLen \in Nat /\ i * RecordLen <= j * RecordLen
         /\ (i + 1) * RecordLen = i * RecordLen + RecordLen
<1>1. PICK d \in Nat : j = i + d
  OBVIOUS
<1>2. j * RecordLen = i * RecordLen + d * RecordLen
  BY <1>1
<1>3. d * RecordLen \in Nat /\ i * RecordLen \in Nat
  OBVIOUS
<1>4. (i + 1) * RecordLen = i * RecordLen + RecordLen
  OBVIOUS
<1> QED
  BY <1>2, <1>3, <1>4

\* How many whole records a file of so many bytes has.
LEMMA WholeOf ==
  ASSUME NEW f \in Seq(Byte)
  PROVE  /\ Whole(f) \in Nat /\ Len(f) \in Nat
         /\ Whole(f) * RecordLen <= Len(f)
         /\ Len(f) < Whole(f) * RecordLen + RecordLen
<1>1. Len(f) \in Nat
  BY LenProperties
<1>2. \A k \in Nat : k \div RecordLen \in Nat /\ (k \div RecordLen) * RecordLen <= k
                     /\ k < (k \div RecordLen) * RecordLen + RecordLen
  OBVIOUS
<1> QED
  BY <1>1, <1>2 DEF Whole

LEMMA WholeIs ==
  ASSUME NEW f \in Seq(Byte), NEW k \in Nat,
         k * RecordLen <= Len(f), Len(f) < k * RecordLen + RecordLen
  PROVE  Whole(f) = k
<1>1. /\ Whole(f) \in Nat /\ Len(f) \in Nat
      /\ Whole(f) * RecordLen <= Len(f)
      /\ Len(f) < Whole(f) * RecordLen + RecordLen
  BY WholeOf
<1>2. CASE Whole(f) < k
  <2>1. Whole(f) + 1 \in Nat /\ Whole(f) + 1 <= k
    BY <1>1, <1>2
  <2>2. (Whole(f) + 1) * RecordLen <= k * RecordLen
    BY <2>1, Multiples
  <2>3. (Whole(f) + 1) * RecordLen = Whole(f) * RecordLen + RecordLen
    BY <1>1, Multiples
  <2> QED
    BY <1>1, <2>2, <2>3, Multiples
<1>3. CASE Whole(f) > k
  <2>1. k + 1 \in Nat /\ k + 1 <= Whole(f)
    BY <1>1, <1>3
  <2>2. (k + 1) * RecordLen <= Whole(f) * RecordLen
    BY <1>1, <2>1, Multiples
  <2>3. (k + 1) * RecordLen = k * RecordLen + RecordLen
    BY Multiples
  <2> QED
    BY <1>1, <2>2, <2>3, Multiples
<1> QED
  BY <1>1, <1>2, <1>3

\* The record i of a file, byte by byte.
LEMMA RecordBytes ==
  ASSUME NEW f \in Seq(Byte), NEW i \in 1..Whole(f)
  PROVE  /\ RecordOf(f, i) \in Seq(Byte) /\ Len(RecordOf(f, i)) = RecordLen
         /\ (i - 1) * RecordLen \in Nat
         /\ (i - 1) * RecordLen + RecordLen <= Len(f)
         /\ \A k \in 1..RecordLen : RecordOf(f, i)[k] = f[(i - 1) * RecordLen + k]
<1>1. /\ Whole(f) \in Nat /\ Len(f) \in Nat
      /\ Whole(f) * RecordLen <= Len(f)
  BY WholeOf
<1>2. i \in Nat /\ i - 1 \in Nat /\ i <= Whole(f) /\ (i - 1) + 1 = i
  BY <1>1
<1>3. i * RecordLen <= Whole(f) * RecordLen /\ i * RecordLen \in Nat
  BY <1>1, <1>2, Multiples
<1>4. (i - 1) * RecordLen \in Nat /\ i * RecordLen = (i - 1) * RecordLen + RecordLen
  BY <1>2, Multiples
<1> DEFINE a == (i - 1) * RecordLen
<1>5. a \in Nat /\ a + RecordLen <= Len(f) /\ RecordOf(f, i) = SubSeq(f, a + 1, a + RecordLen)
  BY <1>1, <1>3, <1>4 DEF RecordOf
<1> HIDE DEF a
<1>6. \A k \in a + 1..a + RecordLen : f[k] \in Byte
  BY <1>1, <1>5, ElementOfSeq
<1>7. /\ SubSeq(f, a + 1, a + RecordLen) \in Seq(Byte)
      /\ Len(SubSeq(f, a + 1, a + RecordLen)) = RecordLen
      /\ \A k \in 1..RecordLen : SubSeq(f, a + 1, a + RecordLen)[k] = f[a + k]
  <2>1. a + 1 \in Int /\ a + RecordLen \in Int /\ (a + RecordLen) - (a + 1) + 1 = RecordLen
    BY <1>5
  <2>2. /\ SubSeq(f, a + 1, a + RecordLen) \in Seq(Byte)
        /\ Len(SubSeq(f, a + 1, a + RecordLen)) =
             IF a + 1 <= a + RecordLen THEN (a + RecordLen) - (a + 1) + 1 ELSE 0
        /\ \A k \in 1..(a + RecordLen) - (a + 1) + 1 :
             SubSeq(f, a + 1, a + RecordLen)[k] = f[(a + 1) + k - 1]
    BY <1>6, <2>1, SubSeqProperties
  <2>3. \A k \in 1..RecordLen : (a + 1) + k - 1 = a + k
    BY <1>5
  <2> QED
    BY <1>5, <2>1, <2>2, <2>3
<1>8. RecordOf(f, i) \in Seq(Byte) /\ Len(RecordOf(f, i)) = RecordLen
  BY <1>5, <1>7
<1>9. \A k \in 1..RecordLen : RecordOf(f, i)[k] = f[a + k]
  BY <1>5, <1>7
<1> QED
  BY <1>5, <1>8, <1>9 DEF a

-----------------------------------------------------------------------------------
(***********************************************************************************)
(* What an addition does to the records, whole or cut short                        *)
(***********************************************************************************)
Grown(f, m, k) == f \o SubSeq(BytesOf(m), 1, k)

LEMMA GrownBytes ==
  ASSUME NEW f \in Seq(Byte), NEW m \in Meas, NEW k \in 0..RecordLen
  PROVE  /\ Grown(f, m, k) \in Seq(Byte) /\ Len(Grown(f, m, k)) = Len(f) + k
         /\ \A i \in 1..Len(f) : Grown(f, m, k)[i] = f[i]
         /\ \A i \in 1..k : Grown(f, m, k)[Len(f) + i] = <<m, i>>
<1> DEFINE part == SubSeq(BytesOf(m), 1, k)
<1>1. /\ BytesOf(m) \in Seq(Byte) /\ Len(BytesOf(m)) = RecordLen
      /\ \A i \in 1..RecordLen : BytesOf(m)[i] = <<m, i>>
  BY Records DEF BytesOf
<1>2. part \in Seq(Byte) /\ Len(part) = k
  BY <1>1, Parts
<1>3. \A i \in 1..k : part[i] = <<m, i>>
  <2>1. \A i \in 1..k : BytesOf(m)[i] \in Byte /\ 1 + i - 1 = i
    BY <1>1, ElementOfSeq
  <2>2. \A i \in 1..k - 1 + 1 : part[i] = BytesOf(m)[1 + i - 1]
    BY <2>1, SubSeqProperties
  <2> QED
    BY <1>1, <2>1, <2>2
<1> HIDE DEF part
<1>4. Grown(f, m, k) = f \o part
  BY DEF Grown, part
<1>5. Len(f) \in Nat
  BY LenProperties
<1>6. /\ f \o part \in Seq(Byte) /\ Len(f \o part) = Len(f) + Len(part)
      /\ \A i \in 1..Len(f) + Len(part) :
            (f \o part)[i] = IF i <= Len(f) THEN f[i] ELSE part[i - Len(f)]
  BY <1>2, ConcatProperties
<1>7. \A i \in 1..Len(f) : (f \o part)[i] = f[i]
  BY <1>2, <1>5, <1>6
<1>8. ASSUME NEW i \in 1..k
      PROVE  (f \o part)[Len(f) + i] = <<m, i>>
  <2>1. Len(f) + i \in 1..Len(f) + Len(part) /\ ~ (Len(f) + i <= Len(f)) /\ Len(f) + i - Len(f) = i
    BY <1>2, <1>5
  <2> QED
    BY <1>3, <1>6, <2>1
<1> QED
  BY <1>2, <1>4, <1>6, <1>7, <1>8

LEMMA WholeGrown ==
  ASSUME NEW f \in Seq(Byte), NEW m \in Meas, NEW k \in 0..RecordLen
  PROVE  \/ Whole(Grown(f, m, k)) = Whole(f)
         \/ Whole(Grown(f, m, k)) = Whole(f) + 1
<1> DEFINE g == Grown(f, m, k)
           w == Whole(f)
           x == Whole(f) * RecordLen
<1>1. g \in Seq(Byte) /\ Len(g) = Len(f) + k
  BY GrownBytes
<1>2. w \in Nat /\ Len(f) \in Nat /\ x <= Len(f) /\ Len(f) < x + RecordLen
  BY WholeOf
<1>3. x \in Nat /\ (w + 1) * RecordLen = x + RecordLen
  BY <1>2, Multiples
<1>4. CASE Len(g) < x + RecordLen
  <2>1. x <= Len(g)
    BY <1>1, <1>2
  <2> QED
    BY <1>1, <1>2, <1>4, <2>1, WholeIs
<1>5. CASE ~ (Len(g) < x + RecordLen)
  <2>1. x + RecordLen <= Len(g) /\ Len(g) < x + RecordLen + RecordLen
    BY <1>1, <1>2, <1>3, <1>5
  <2>2. (w + 1) * RecordLen <= Len(g) /\ Len(g) < (w + 1) * RecordLen + RecordLen /\ w + 1 \in Nat
    BY <1>2, <1>3, <2>1
  <2>3. Whole(g) = w + 1
    BY <1>1, <2>2, WholeIs
  <2> QED
    BY <2>3
<1> QED
  BY <1>4, <1>5

LEMMA SameRecords ==
  ASSUME NEW f \in Seq(Byte), NEW m \in Meas, NEW k \in 0..RecordLen, NEW i \in 1..Whole(f)
  PROVE  RecordOf(Grown(f, m, k), i) = RecordOf(f, i)
<1> DEFINE g == Grown(f, m, k)
           a == (i - 1) * RecordLen
<1>1. g \in Seq(Byte) /\ \A j \in 1..Len(f) : g[j] = f[j]
  BY GrownBytes
<1>2. i \in 1..Whole(g)
  BY WholeGrown, WholeOf
<1>3. /\ RecordOf(f, i) \in Seq(Byte) /\ Len(RecordOf(f, i)) = RecordLen
      /\ a \in Nat /\ a + RecordLen <= Len(f)
      /\ \A j \in 1..RecordLen : RecordOf(f, i)[j] = f[a + j]
  BY RecordBytes
<1>4. /\ RecordOf(g, i) \in Seq(Byte) /\ Len(RecordOf(g, i)) = RecordLen
      /\ \A j \in 1..RecordLen : RecordOf(g, i)[j] = g[a + j]
  BY <1>1, <1>2, RecordBytes
<1> HIDE DEF g, a
<1>5. \A j \in 1..RecordLen : a + j \in 1..Len(f)
  BY <1>3, LenProperties
<1>6. \A j \in 1..RecordLen : RecordOf(g, i)[j] = RecordOf(f, i)[j]
  BY <1>1, <1>3, <1>4, <1>5
<1>7. RecordOf(g, i) = RecordOf(f, i)
  BY <1>3, <1>4, <1>6, SeqEqual
<1> QED
  BY <1>7 DEF g

(***********************************************************************************)
(* Bytes of a record come in its own order: put behind a part of another record,   *)
(* they never make up a record with it.                                            *)
(***********************************************************************************)
LEMMA NotARecord ==
  ASSUME NEW bytes, NEW m, NEW i \in 2..RecordLen, bytes[i] = <<m, 1>>
  PROVE  NameOf(bytes) = "Garbled"
<1>1. ASSUME NEW x \in Meas, bytes = BytesOf(x)
      PROVE  FALSE
  <2>1. BytesOf(x)[i] = <<x, i>>
    BY DEF BytesOf
  <2> QED
    BY <1>1, <2>1
<1> QED
  BY <1>1, NamesOnlyRecords

LEMMA GrownIntact ==
  ASSUME NEW f \in Seq(Byte), NEW m \in Meas, NEW k \in 0..RecordLen, NEW n, IntactUpTo(f, n)
  PROVE  /\ n \in Nat /\ n * RecordLen \in Nat /\ n * RecordLen <= Len(f)
         /\ Len(f) # n * RecordLen \/ k # RecordLen => IntactUpTo(Grown(f, m, k), n)
         /\ Len(f) = n * RecordLen /\ k = RecordLen =>
              /\ IntactUpTo(Grown(f, m, k), n + 1)
              /\ RecordOf(Grown(f, m, k), n + 1) = BytesOf(m)
<1> DEFINE g == Grown(f, m, k)
           a == n * RecordLen
<1>1. /\ g \in Seq(Byte) /\ Len(g) = Len(f) + k
      /\ \A i \in 1..k : g[Len(f) + i] = <<m, i>>
  BY GrownBytes
<1>2. /\ Whole(f) \in Nat /\ Len(f) \in Nat
      /\ Whole(f) * RecordLen <= Len(f) /\ Len(f) < Whole(f) * RecordLen + RecordLen
  BY WholeOf
<1>3. n \in Nat /\ n <= Whole(f)
  BY <1>2 DEF IntactUpTo
<1>4. a \in Nat /\ a <= Whole(f) * RecordLen /\ Whole(f) * RecordLen \in Nat
  BY <1>2, <1>3, Multiples
<1>5. a <= Len(f)
  BY <1>2, <1>4
<1>6. Whole(g) \in Nat /\ (Whole(g) = Whole(f) \/ Whole(g) = Whole(f) + 1)
  BY <1>2, WholeGrown
<1>7. \A i \in 1..Whole(f) : RecordOf(g, i) = RecordOf(f, i)
  BY SameRecords
<1> HIDE DEF g
<1>8. \A i \in 1..n : NameOf(RecordOf(g, i)) # "Garbled"
  <2>1. \A i \in 1..n : i \in 1..Whole(f)
    BY <1>2, <1>3
  <2> QED
    BY <1>7, <2>1, Zenon DEF IntactUpTo
<1>9. CASE n < Whole(f)
  <2>1. n + 1 \in 1..Whole(f) /\ n \in 0..Whole(g) /\ n # Whole(f)
    BY <1>2, <1>3, <1>6, <1>9
  <2>2. NameOf(RecordOf(g, n + 1)) = "Garbled"
    BY <1>7, <2>1, Zenon DEF IntactUpTo
  <2>3. IntactUpTo(g, n)
    BY <1>8, <2>1, <2>2, Zenon DEF IntactUpTo
  <2>4. Len(f) # a
    <3>1. (n + 1) * RecordLen <= Whole(f) * RecordLen /\ (n + 1) * RecordLen = a + RecordLen
      BY <1>2, <1>3, <2>1, Multiples
    <3> QED
      BY <1>2, <1>4, <3>1
  <2> QED
    BY <1>3, <1>4, <1>5, <2>3, <2>4 DEF g
<1>10. CASE n = Whole(f) /\ Whole(g) = Whole(f)
  <2>1. IntactUpTo(g, n)
    <3>1. n \in 0..Whole(g)
      BY <1>3, <1>10
    <3> QED
      BY <1>8, <1>10, <3>1, Zenon DEF IntactUpTo
  <2>2. ~ (Len(f) = a /\ k = RecordLen)
    <3>1. Len(g) < a + RecordLen
      BY <1>1, <1>10, WholeOf
    <3> QED
      BY <1>1, <1>4, <3>1
  <2> QED
    BY <1>3, <1>4, <1>5, <2>1, <2>2 DEF g
<1>11. CASE n = Whole(f) /\ Whole(g) = n + 1
  <2>1. n + 1 \in 1..Whole(g) /\ (n + 1) - 1 = n
    BY <1>3, <1>11
  <2>2. /\ RecordOf(g, n + 1) \in Seq(Byte) /\ Len(RecordOf(g, n + 1)) = RecordLen
        /\ a + RecordLen <= Len(g)
        /\ \A j \in 1..RecordLen : RecordOf(g, n + 1)[j] = g[a + j]
    BY <1>1, <2>1, RecordBytes
  <2>3. Len(f) < a + RecordLen /\ a + RecordLen <= Len(f) + k
    BY <1>1, <1>2, <1>11, <2>2
  <2>4. CASE a < Len(f)
    <3> DEFINE place == Len(f) - a + 1
    <3>1. place \in 2..RecordLen /\ a + place = Len(f) + 1 /\ 1 \in 1..k
      BY <1>2, <1>4, <2>3, <2>4
    <3>2. RecordOf(g, n + 1)[place] = <<m, 1>>
      <4>1. place \in 1..RecordLen
        BY <3>1
      <4> HIDE DEF place
      <4> QED
        BY <1>1, <2>2, <3>1, <4>1
    <3> HIDE DEF place
    <3>3. NameOf(RecordOf(g, n + 1)) = "Garbled"
      BY <3>1, <3>2, NotARecord
    <3>4. IntactUpTo(g, n)
      <4>1. n \in 0..Whole(g)
        BY <1>3, <1>11
      <4> QED
        BY <1>8, <3>3, <4>1, Zenon DEF IntactUpTo
    <3> QED
      BY <1>3, <1>4, <1>5, <2>4, <3>4 DEF g
  <2>5. CASE a = Len(f)
    <3>1. k = RecordLen
      BY <1>2, <1>4, <2>3, <2>5
    <3>2. RecordOf(g, n + 1) = BytesOf(m)
      <4>1. BytesOf(m) \in Seq(Byte) /\ Len(BytesOf(m)) = RecordLen
        BY Records
      <4>2. \A j \in 1..RecordLen : BytesOf(m)[j] = <<m, j>>
        BY DEF BytesOf
      <4>3. \A j \in 1..RecordLen : RecordOf(g, n + 1)[j] = <<m, j>>
        BY <1>1, <2>2, <2>5, <3>1
      <4> QED
        BY <2>2, <4>1, <4>2, <4>3, SeqEqual
    <3>3. IntactUpTo(g, n + 1)
      <4>1. n + 1 \in 0..Whole(g) /\ \A i \in 1..n + 1 : i \in 1..n \/ i = n + 1
        BY <1>3, <1>11
      <4>2. NameOf(RecordOf(g, n + 1)) # "Garbled"
        BY <3>2, NamesRecords, Zenon
      <4> QED
        BY <1>8, <1>11, <4>1, <4>2, Zenon DEF IntactUpTo
    <3> QED
      BY <1>3, <1>4, <1>5, <2>5, <3>1, <3>2, <3>3 DEF g
  <2> QED
    BY <1>2, <1>4, <1>5, <2>4, <2>5
<1> QED
  BY <1>2, <1>3, <1>6, <1>9, <1>10, <1>11

-----------------------------------------------------------------------------------
(***********************************************************************************)
(* What an upload has published at each call                                       *)
(***********************************************************************************)
Uploaded ==
  /\ pc \in {"idle", "write", "open"} => sent = <<>>
  /\ pc = "open" => total = Whole(file)
  /\ pc = "entry" => pos = Len(sent) * RecordLen /\ total + Len(sent) = Whole(file)
  /\ pc = "publish" => /\ pos = Len(sent) * RecordLen + RecordLen
                       /\ total + Len(sent) + 1 = Whole(file)
  /\ (pc = "close" /\ r = TRUE) \/ pc = "delete" => Len(sent) = Whole(file) /\ Len(sent) > 0

LEMMA UploadedInit == Init => Uploaded
  BY DEF Init, Uploaded

LEMMA UploadedFresh == FreshLocals => Uploaded'
  BY DEF FreshLocals, Uploaded

LEMMA UploadedStep == DInv /\ Uploaded /\ [Next]_vars => Uploaded'
<1> SUFFICES ASSUME DInv, Uploaded, [Next]_vars PROVE Uploaded'
  OBVIOUS
<1>0. /\ file \in Seq(Byte) /\ Whole(file) \in Nat /\ sent \in Seq(Seq(Byte)) /\ Len(sent) \in Nat
      /\ total \in Nat
  BY WholeOf, LenProperties DEF DInv, TypeOK
<1> USE DEF Uploaded
<1>1. ASSUME NEW m \in Meas, AddOpen(m) PROVE Uploaded'
  BY <1>1 DEF AddOpen
<1>3. CASE Total
  BY <1>3 DEF Total, Whole
<1>4. CASE ReadOpen
  <2>1. Whole(file)' = Whole(file) /\ sent = <<>> /\ sent' = sent /\ total' = total /\ pos' = pos
    BY <1>4 DEF ReadOpen, Whole
  <2>2. pos = 0 /\ total = Whole(file)
    BY <1>4 DEF ReadOpen, DInv, Reads
  <2>3. Len(sent) = 0 /\ 0 * RecordLen = 0
    BY <2>1
  <2>4. pc' = "entry" \/ (pc' = "close" /\ r' = FALSE)
    BY <1>4 DEF ReadOpen
  <2> QED
    BY <1>0, <2>1, <2>2, <2>3, <2>4
<1>5. CASE ReadEntry
  <2>1. /\ total' = total - 1 /\ UNCHANGED <<file, sent>>
        /\ (r' = FALSE /\ pc' = "close") \/ (pc' = "publish" /\ pos' = pos + RecordLen)
    BY <1>5, ReadIsWhole
  <2>2. Whole(file)' = Whole(file)
    BY <2>1 DEF Whole
  <2>3. pos = Len(sent) * RecordLen /\ total + Len(sent) = Whole(file)
    BY <1>5 DEF ReadEntry
  <2> QED
    BY <1>0, <2>1, <2>2, <2>3
<1>6. CASE Publish
  <2>1. Whole(file)' = Whole(file) /\ total' = total /\ pos' = pos
    BY <1>6 DEF Publish, Whole
  <2>2. pos = Len(sent) * RecordLen + RecordLen /\ total + Len(sent) + 1 = Whole(file)
    BY <1>6 DEF Publish
  <2>3. CASE sent' = Append(sent, old) /\ pc' = IF total = 0 THEN "close" ELSE "entry"
    <3>1. Len(sent') = Len(sent) + 1
      BY <2>3, AppendProperties DEF DInv, TypeOK
    <3>2. Len(sent') * RecordLen = Len(sent) * RecordLen + RecordLen
      BY <1>0, <3>1, Multiples
    <3> QED
      BY <1>0, <2>1, <2>2, <2>3, <3>1, <3>2
  <2>4. CASE r' = FALSE /\ pc' = "close"
    BY <2>4
  <2> QED
    BY <1>6, <2>3, <2>4 DEF Publish
<1>7. CASE ReadClose
  <2>1. CASE r = TRUE
    BY <1>7, <2>1 DEF ReadClose, callVars, Whole
  <2>2. CASE r # TRUE
    <3>1. ~ r
      BY <2>2 DEF DInv, TypeOK
    <3> QED
      BY <1>7, <3>1, UploadedFresh DEF ReadClose
  <2> QED
    BY <2>1, <2>2
<1>8. CASE AddWrite \/ DeleteAll \/ PowerLoss
  BY <1>8, UploadedFresh DEF AddWrite, DeleteAll, PowerLoss
<1>10. CASE UNCHANGED vars
  BY <1>10 DEF vars, callVars, Whole
<1> QED
  BY <1>1, <1>3, <1>4, <1>5, <1>6, <1>7, <1>8, <1>10 DEF Next

-----------------------------------------------------------------------------------
(***********************************************************************************)
(* Every step is a step of the log, or none                                        *)
(***********************************************************************************)

LEMMA NoRecords == <<>> \in Seq(Byte) /\ Len(<<>>) = 0 /\ IntactOf(<<>>) = <<>>
<1>1. <<>> \in Seq(Byte) /\ Len(<<>>) = 0
  BY EmptySeq
<1>2. 0 * RecordLen = 0
  OBVIOUS
<1>3. Whole(<<>>) = 0
  <2>1. \A f \in Seq(Byte) : Len(f) = 0 => 0 * RecordLen <= Len(f) /\ Len(f) < 0 * RecordLen + RecordLen
    BY <1>2
  <2>2. \A f \in Seq(Byte) : Len(f) = 0 => Whole(f) = 0
    BY <2>1, WholeIs
  <2> QED
    BY <1>1, <2>2, Zenon
<1>4. IntactUpTo(<<>>, 0)
  BY <1>3 DEF IntactUpTo
<1>5. IntactOf(<<>>) = [i \in 1..0 |-> NameOf(RecordOf(<<>>, i))]
  BY <1>1, <1>4, IntactLength
<1> QED
  BY <1>1, <1>5

LEMMA LogInit == Init => Log!Init
<1> SUFFICES ASSUME Init PROVE Log!Init
  OBVIOUS
<1>1. file = <<>> /\ sent = <<>>
  BY DEF Init
<1>2. Intact = <<>> /\ Len(file) = 0
  BY <1>1, NoRecords, IntactIs
<1>3. ~ (Len(file) # RecordLen * Len(Intact))
  BY <1>2
<1> QED
  BY <1>1, <1>2, <1>3 DEF Log!Init

LEMMA SameLog ==
  ASSUME UNCHANGED <<file, sent>>
  PROVE  UNCHANGED Log!logVars
<1>1. Intact' = Intact
  BY IntactIs
<1> QED
  BY <1>1 DEF Log!logVars

LEMMA StopLog ==
  ASSUME UNCHANGED file, sent' = <<>>
  PROVE  Log!Next
<1>1. Intact' = Intact /\ Len(sent') = 0
  BY IntactIs
<1>2. Log!Stop
  BY <1>1 DEF Log!Stop
<1> QED
  BY <1>2 DEF Log!Next

\* What Intact and cut are of a file.
LEMMA IntactFacts ==
  ASSUME NEW f \in Seq(Byte), NEW n, IntactUpTo(f, n)
  PROVE  /\ n \in Nat /\ n <= Whole(f) /\ Len(IntactOf(f)) = n
         /\ RecordLen * Len(IntactOf(f)) = n * RecordLen /\ n * RecordLen \in Nat
<1>1. n \in Nat /\ n <= Whole(f)
  BY WholeOf DEF IntactUpTo
<1>2. Len(IntactOf(f)) = n
  BY IntactLength
<1>3. RecordLen * n = n * RecordLen /\ n * RecordLen \in Nat
  BY <1>1
<1> QED
  BY <1>1, <1>2, <1>3

LEMMA GrowLog ==
  ASSUME file \in Seq(Byte), sent = <<>>, sent' = <<>>,
         NEW m \in Meas, NEW k \in 0..RecordLen, AppendBytes(m, k)
  PROVE  [Log!Next]_Log!logVars
<1>1. file' = Grown(file, m, k)
  BY DEF AppendBytes, Grown
<1>2. file' \in Seq(Byte) /\ Len(file') = Len(file) + k /\ Len(file) \in Nat
  BY <1>1, GrownBytes, LenProperties
<1>3. PICK n : IntactUpTo(file, n)
  BY IntactExists
<1>4. /\ n \in Nat /\ n * RecordLen \in Nat /\ n * RecordLen <= Len(file)
      /\ Len(file) # n * RecordLen \/ k # RecordLen => IntactUpTo(file', n)
      /\ Len(file) = n * RecordLen /\ k = RecordLen =>
           IntactUpTo(file', n + 1) /\ RecordOf(file', n + 1) = BytesOf(m)
  BY <1>1, <1>3, GrownIntact
<1>5. Len(Intact) = n /\ RecordLen * Len(Intact) = n * RecordLen
  BY <1>3, IntactIs, IntactFacts
<1>6. \A i \in 1..n : RecordOf(file', i) = RecordOf(file, i)
  <2>1. \A i \in 1..n : i \in 1..Whole(file)
    BY <1>3, <1>4, IntactFacts, WholeOf
  <2> QED
    BY <1>1, <2>1, SameRecords
<1>7. Intact = [i \in 1..n |-> NameOf(RecordOf(file, i))]
  BY <1>3, IntactIs, IntactLength
<1>8. CASE Len(file) # n * RecordLen \/ k # RecordLen
  <2>1. Intact' = [i \in 1..n |-> NameOf(RecordOf(file', i))]
    BY <1>2, <1>4, <1>8, IntactIs, IntactLength
  <2>2. Intact' = Intact
    BY <1>6, <1>7, <2>1
  <2>3. CASE k = 0
    <3>1. Len(file') = Len(file)
      BY <1>2, <2>3
    <3> QED
      BY <2>2, <3>1 DEF Log!logVars
  <2>4. CASE k # 0 /\ Len(file) # n * RecordLen
    <3>1. Len(file') # n * RecordLen
      BY <1>2, <1>4, <2>4
    <3> QED
      BY <1>5, <2>2, <2>4, <3>1 DEF Log!logVars
  <2>5. CASE k # 0 /\ Len(file) = n * RecordLen
    <3>1. Len(file') # n * RecordLen
      BY <1>2, <2>5
    <3>2. Log!CutShort
      BY <1>5, <2>2, <3>1 DEF Log!CutShort
    <3> QED
      BY <3>2 DEF Log!Next
  <2> QED
    BY <2>3, <2>4, <2>5
<1>9. CASE Len(file) = n * RecordLen /\ k = RecordLen
  <2>1. IntactUpTo(file', n + 1) /\ RecordOf(file', n + 1) = BytesOf(m)
    BY <1>4, <1>9
  <2>2. Intact' = [i \in 1..n + 1 |-> NameOf(RecordOf(file', i))]
    BY <1>2, <2>1, IntactIs, IntactLength
  <2>3. Len(Intact') = n + 1 /\ RecordLen * Len(Intact') = (n + 1) * RecordLen
    BY <1>2, <2>1, IntactIs, IntactFacts
  <2>4. Intact' = Append(Intact, m)
    <3>1. Intact'[n + 1] = m
      BY <1>4, <2>1, <2>2, NamesRecords
    <3>2. \A i \in 1..n : Intact'[i] = Intact[i]
      BY <1>4, <1>6, <1>7, <2>2
    <3> DEFINE Name == Meas \cup {"Garbled"}
    <3>3. Intact \in Seq(Name) /\ Intact' \in Seq(Name)
      BY <1>4, <1>7, <2>2, Names
    <3>4. m \in Name
      OBVIOUS
    <3> HIDE DEF Name
    <3>5. /\ Append(Intact, m) \in Seq(Name) /\ Len(Append(Intact, m)) = Len(Intact) + 1
          /\ \A i \in 1..Len(Intact) : Append(Intact, m)[i] = Intact[i]
          /\ Append(Intact, m)[Len(Intact) + 1] = m
      BY <3>3, <3>4, AppendProperties
    <3>6. \A i \in 1..Len(Intact') : Intact'[i] = Append(Intact, m)[i]
      BY <1>4, <1>5, <2>3, <3>1, <3>2, <3>5
    <3>7. Len(Intact') = Len(Append(Intact, m))
      BY <1>5, <2>3, <3>5
    <3> QED
      BY <3>3, <3>5, <3>6, <3>7, SeqEqual
  <2>5. Len(file') = (n + 1) * RecordLen
    BY <1>2, <1>4, <1>9, Multiples
  <2>6. Log!Add(m)
    BY <1>5, <1>9, <2>3, <2>4, <2>5 DEF Log!Add
  <2> QED
    BY <2>6 DEF Log!Next
<1> QED
  BY <1>8, <1>9

LEMMA PublishLog ==
  ASSUME DInv, Uploaded, pc = "publish", sent' = Append(sent, old), UNCHANGED file
  PROVE  Log!Next
<1> DEFINE h == Len(sent)
<1>1. /\ file \in Seq(Byte) /\ sent \in Seq(Seq(Byte)) /\ old \in Seq(Byte) /\ h \in Nat
      /\ total \in Nat
  BY LenProperties DEF DInv, TypeOK
<1>2. pos = h * RecordLen + RecordLen /\ total + h + 1 = Whole(file)
  BY DEF Uploaded
<1>3. /\ Len(sent') = h + 1 /\ sent'[h + 1] = old /\ sent' # <<>>
  BY <1>1, AppendProperties
<1> HIDE DEF h
<1>4. old = RecordOf(file, h + 1)
  <2>1. old = SubSeq(file, pos - RecordLen + 1, pos)
    BY DEF DInv, Reads, PublishesWhatItRead
  <2>2. /\ h * RecordLen \in Nat /\ (h + 1) * RecordLen = h * RecordLen + RecordLen
        /\ (h + 1) - 1 = h
    BY <1>1, Multiples
  <2>3. pos - RecordLen + 1 = h * RecordLen + 1
    BY <1>2, <2>2
  <2> QED
    BY <1>2, <2>1, <2>2, <2>3 DEF RecordOf
<1>5. PICK n : IntactUpTo(file, n)
  BY <1>1, IntactExists
<1>6. /\ n \in Nat /\ n <= Whole(file) /\ Len(Intact) = n
      /\ RecordLen * Len(Intact) = n * RecordLen /\ n * RecordLen \in Nat
      /\ Intact = [i \in 1..n |-> NameOf(RecordOf(file, i))]
  BY <1>1, <1>5, IntactIs, IntactFacts, IntactLength
<1>7. Intact' = Intact
  BY IntactIs
<1> DEFINE o == IF sent' = <<>> THEN "None" ELSE NameOf(sent'[Len(sent')])
<1>8. o = NameOf(RecordOf(file, h + 1))
  BY <1>3, <1>4
<1>9. CASE h < n
  <2>1. o = Intact[h + 1]
    BY <1>1, <1>6, <1>8, <1>9
  <2>2. Log!HandOut
    BY <1>3, <1>6, <1>7, <1>9, <2>1 DEF Log!HandOut, h
  <2> QED
    BY <2>2 DEF Log!Next
<1>10. CASE h >= n
  <2>1. n + 1 \in Nat /\ n + 1 <= Whole(file) /\ Whole(file) \in Nat
    BY <1>1, <1>2, <1>6, <1>10
  <2>2. (n + 1) * RecordLen <= Whole(file) * RecordLen /\ (n + 1) * RecordLen = n * RecordLen + RecordLen
    BY <1>6, <2>1, Multiples
  <2>3. Len(file) \in Nat /\ Whole(file) * RecordLen <= Len(file) /\ Whole(file) * RecordLen \in Nat
    BY <1>1, <2>1, WholeOf, Multiples
  <2>4. Len(file) # RecordLen * Len(Intact)
    BY <1>6, <2>2, <2>3
  <2>5. o \in Meas \cup {"Garbled"}
    BY <1>8, Names
  <2>6. Log!HandOut
    BY <1>3, <1>6, <1>7, <1>10, <2>4, <2>5 DEF Log!HandOut, h
  <2> QED
    BY <2>6 DEF Log!Next
<1> QED
  BY <1>1, <1>6, <1>9, <1>10

LEMMA ClearLog ==
  ASSUME DInv, Uploaded, pc = "delete", file' = <<>>, sent' = <<>>
  PROVE  Log!Next
<1>1. file \in Seq(Byte)
  BY DEF DInv, TypeOK
<1>2. Len(sent) = Whole(file) /\ Len(sent) > 0
  BY DEF Uploaded
<1>3. PICK n : IntactUpTo(file, n)
  BY <1>1, IntactExists
<1>4. n \in Nat /\ n <= Whole(file) /\ Len(Intact) = n
  BY <1>1, <1>3, IntactIs, IntactFacts
<1>5. Intact' = <<>> /\ Len(file') = 0 /\ Len(sent') = 0
  BY NoRecords, IntactIs
<1>6. RecordLen * Len(Intact') = 0
  BY <1>5
<1>7. Log!Clear
  BY <1>2, <1>4, <1>5, <1>6 DEF Log!Clear
<1> QED
  BY <1>7 DEF Log!Next

LEMMA LogStep == DInv /\ Uploaded /\ [Next]_vars => [Log!Next]_Log!logVars
<1> SUFFICES ASSUME DInv, Uploaded, [Next]_vars PROVE [Log!Next]_Log!logVars
  OBVIOUS
<1>1. CASE UNCHANGED <<file, sent>>
  BY <1>1, SameLog
<1>2. CASE UNCHANGED file /\ sent' = <<>>
  BY <1>2, StopLog
<1>3. ASSUME pc = "write", sent' = <<>>, NEW k \in 0..RecordLen, AppendBytes(adding, k)
      PROVE  [Log!Next]_Log!logVars
  BY <1>3, GrowLog DEF DInv, TypeOK, Reads, Uploaded
<1>4. CASE AddWrite
  <2>1. pc = "write" /\ sent' = <<>> /\ \E k \in 0..RecordLen : AppendBytes(adding, k)
    BY <1>4 DEF AddWrite, FreshLocals
  <2> QED
    BY <1>3, <2>1
<1>5. CASE (\E m \in Meas : AddOpen(m)) \/ Total \/ ReadOpen \/ ReadEntry
  BY <1>1, <1>5 DEF AddOpen, Total, ReadOpen, ReadEntry
<1>6. CASE Publish
  BY <1>1, <1>6, PublishLog DEF Publish
<1>7. CASE ReadClose
  BY <1>1, <1>2, <1>7 DEF ReadClose, callVars, FreshLocals
<1>8. CASE DeleteAll
  BY <1>2, <1>8, ClearLog DEF DeleteAll, FreshLocals
<1>9. CASE PowerLoss
  <2>1. CASE pc = "write"
    BY <1>3, <1>9, <2>1 DEF PowerLoss, FreshLocals
  <2>2. CASE pc # "write"
    BY <1>2, <1>9, <2>2 DEF PowerLoss, FreshLocals
  <2> QED
    BY <2>1, <2>2
<1>10. CASE UNCHANGED vars
  BY <1>1, <1>10 DEF vars, callVars
<1> QED
  BY <1>4, <1>5, <1>6, <1>7, <1>8, <1>9, <1>10 DEF Next

(***********************************************************************************)
(* The file implements the log that task_measure is promised: whatever additions   *)
(* are cut short, whichever operations fail and whenever power is lost, no record  *)
(* in front of a cut is lost, changed, reordered or skipped, and the file is only  *)
(* removed after all of them were published.                                       *)
(***********************************************************************************)
THEOREM LogImplemented == Spec => ImplementsLog
<1>1. Spec => [](DInv /\ Uploaded)
  BY InitHolds, UploadedInit, Step, UploadedStep, PTL DEF Spec
<1> QED
  BY <1>1, LogInit, LogStep, PTL DEF Spec, ImplementsLog, Log!Spec
===================================================================================
