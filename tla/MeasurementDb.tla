-------------------------------- MODULE MeasurementDb --------------------------------
(***********************************************************************************)
(* peep/memory_measurement_db.c at the grain of its file operations, driven the    *)
(* way task_measure does: memory_measurement_db_add at the end of a local boot,    *)
(* and in _publish_measurements the calls total, read_open, read_entry ...,        *)
(* read_close, delete_all.  One task makes all these calls, one after the other,   *)
(* so the mutex is always free.                                                    *)
(*                                                                                 *)
(* The file is a sequence of bytes; a byte is known by its record and its place in *)
(* it.  RecordLen stands for sizeof(struct hatch_measurement), which is 20.        *)
(***********************************************************************************)
EXTENDS Integers, Sequences, FiniteSetsExt

CONSTANTS
  Meas,        \* identities of measurements
  RecordLen,   \* bytes of a record
  Capacity,    \* bytes the SPIFFS partition has room for
  MaxFaults    \* bound: failing file operations and publications, losses of power

ASSUME RecordAssumption == RecordLen \in Nat \ {0}
ASSUME MeasAssumption == "Garbled" \notin Meas
ASSUME CapacityAssumption == Capacity \in Nat /\ MaxFaults \in Nat

VARIABLES
  file,      \* the bytes of /p/db, none when it does not exist
  fp,        \* what _fp is: "NULL", or open to "append" or to "read"
  pos,       \* read position of _fp
  pc,        \* the next call of task_measure
  adding,    \* the record that is being added
  total,     \* the local total of _publish_measurements
  old,       \* its local old: RecordLen bytes, at first whatever the stack held
  r,         \* its local r
  sent,      \* the records this upload has published
  faults     \* how much of MaxFaults is spent

callVars == <<pos, adding, total, old, r, sent>>
vars == <<file, fp, pc, callVars, faults>>

BytesOf(m) == [k \in 1..RecordLen |-> <<m, k>>]

Junk == [k \in 1..RecordLen |-> <<"Junk", k>>]

Byte == (Meas \cup {"Junk"}) \X (1..RecordLen)

TypeOK ==
  /\ file \in Seq(Byte) /\ Len(file) <= Capacity
  /\ fp \in {"NULL", "append", "read"}
  /\ pos \in 0..Len(file)
  /\ pc \in {"idle", "write", "open", "entry", "publish", "close", "delete"}
  /\ adding \in Meas \cup {"None"}
  /\ total \in Nat
  /\ old \in Seq(Byte) /\ Len(old) = RecordLen
  /\ r \in BOOLEAN
  /\ sent \in Seq(Seq(Byte))
  /\ faults \in 0..MaxFaults

Init ==
  /\ file = <<>>
  /\ fp = "NULL" /\ pos = 0
  /\ pc = "idle" /\ adding = "None"
  /\ total = 0 /\ old = Junk /\ r = TRUE /\ sent = <<>>
  /\ faults = 0

Works == UNCHANGED faults
Fails == faults < MaxFaults /\ faults' = faults + 1

\* The locals of the next call, and of the next boot, start afresh.
FreshLocals ==
  /\ pc' = "idle"
  /\ pos' = 0 /\ adding' = "None"
  /\ total' = 0 /\ old' = Junk /\ r' = TRUE /\ sent' = <<>>

\* The first k bytes of m are at the end of the file, if there is room for them.
AppendBytes(m, k) ==
  /\ Len(file) + k <= Capacity
  /\ file' = file \o SubSeq(BytesOf(m), 1, k)

-----------------------------------------------------------------------------------
(***********************************************************************************)
(* memory_measurement_db_add                                                       *)
(***********************************************************************************)

\* fopen "a"; if it fails the call is over, its result ignored.
AddOpen(m) ==
  /\ pc = "idle" /\ fp = "NULL"
  /\ \/ Works /\ fp' = "append" /\ pc' = "write" /\ adding' = m
     \/ Fails /\ UNCHANGED <<fp, pc, adding>>
  /\ UNCHANGED <<file, pos, total, old, r, sent>>

\* fwrite and fclose: all of the record, or a part of it (none also counts as one)
\* after an error or when the partition is full.
AddWrite ==
  /\ pc = "write"
  /\ IF Len(file) + RecordLen <= Capacity
       THEN \/ AppendBytes(adding, RecordLen) /\ Works
            \/ Fails /\ \E k \in 0..RecordLen : AppendBytes(adding, k)
       ELSE Works /\ \E k \in 0..RecordLen : AppendBytes(adding, k)
  /\ fp' = "NULL"
  /\ FreshLocals

-----------------------------------------------------------------------------------
(***********************************************************************************)
(* _publish_measurements, after it has published the new measurement               *)
(***********************************************************************************)

\* Mutant of Total: the part of a record at the end is counted as one.
TotalRoundsUp ==
  /\ pc = "idle" /\ fp = "NULL"
  /\ total' = (Len(file) + RecordLen - 1) \div RecordLen
  /\ total' > 0
  /\ pc' = "open"
  /\ Works
  /\ UNCHANGED <<file, fp, pos, adding, old, r, sent>>

\* memory_measurement_db_total; nothing follows when it is 0 (or fopen failed).
Total ==
  /\ pc = "idle" /\ fp = "NULL"
  /\ total' = Len(file) \div RecordLen
  /\ total' > 0
  /\ pc' = "open"
  /\ Works
  /\ UNCHANGED <<file, fp, pos, adding, old, r, sent>>

ReadOpen ==
  /\ pc = "open" /\ fp = "NULL"
  /\ \/ Works /\ fp' = "read" /\ pc' = "entry" /\ UNCHANGED r
     \/ Fails /\ r' = FALSE /\ pc' = "close" /\ UNCHANGED fp
  /\ UNCHANGED <<file, pos, adding, total, old, sent>>

(***********************************************************************************)
(* memory_measurement_db_read_entry: fread stores as many bytes as there are, and  *)
(* the count it returns is returned as a bool.                                     *)
(***********************************************************************************)
ReadEntry ==
  /\ pc = "entry" /\ fp = "read"
  /\ total' = total - 1
  /\ \/ /\ Works
        /\ LET n == Min({RecordLen, Len(file) - pos}) IN
             /\ old' = SubSeq(file, pos + 1, pos + n) \o SubSeq(old, n + 1, RecordLen)
             /\ pos' = pos + n
             /\ r' = IF n = 0 THEN FALSE ELSE TRUE
     \/ Fails /\ r' = FALSE /\ UNCHANGED <<old, pos>>
  /\ pc' = IF r' THEN "publish" ELSE "close"
  /\ UNCHANGED <<file, fp, adding, sent>>

\* Mutant of Publish: the loop does not stop when total has been counted down.
PublishUntilEof ==
  /\ pc = "publish"
  /\ sent' = Append(sent, old)
  /\ pc' = "entry"
  /\ Works
  /\ UNCHANGED <<file, fp, pos, adding, total, old, r>>

\* aws_mqtt_publish of the record in old.
Publish ==
  /\ pc = "publish"
  /\ \/ /\ Works
        /\ sent' = Append(sent, old)
        /\ pc' = IF total = 0 THEN "close" ELSE "entry"
        /\ UNCHANGED r
     \/ /\ Fails
        /\ r' = FALSE
        /\ pc' = "close"
        /\ UNCHANGED sent
  /\ UNCHANGED <<file, fp, pos, adding, total, old>>

\* Mutant of ReadClose: the log is deleted also when a publication failed.
ReadCloseDeletes ==
  /\ pc = "close"
  /\ fp' = "NULL"
  /\ pc' = "delete" /\ UNCHANGED callVars
  /\ Works
  /\ UNCHANGED file

\* memory_measurement_db_read_close, which does nothing when read_open had failed.
ReadClose ==
  /\ pc = "close"
  /\ fp' = "NULL"
  /\ IF r THEN pc' = "delete" /\ UNCHANGED callVars ELSE FreshLocals
  /\ Works
  /\ UNCHANGED file

\* memory_measurement_db_delete_all, its result ignored.
DeleteAll ==
  /\ pc = "delete" /\ fp = "NULL"
  /\ \/ Works /\ file' = <<>>
     \/ Fails /\ UNCHANGED file
  /\ FreshLocals
  /\ UNCHANGED fp

-----------------------------------------------------------------------------------
\* Power is lost: of a record that is being written any part may have arrived.
PowerLoss ==
  /\ Fails
  /\ IF pc = "write" THEN \E k \in 0..RecordLen : AppendBytes(adding, k) ELSE UNCHANGED file
  /\ fp' = "NULL"
  /\ FreshLocals

Next ==
  \/ (\E m \in Meas : AddOpen(m)) \/ AddWrite
  \/ Total \/ ReadOpen \/ ReadEntry \/ Publish \/ ReadClose \/ DeleteAll
  \/ PowerLoss

Spec == Init /\ [][Next]_vars

-----------------------------------------------------------------------------------
Record(i) == SubSeq(file, (i - 1) * RecordLen + 1, i * RecordLen)

NameOf(bytes) ==
  IF \E m \in Meas : bytes = BytesOf(m)
    THEN CHOOSE m \in Meas : bytes = BytesOf(m)
    ELSE "Garbled"

\* The records in front of the first byte that is out of place.
Intact ==
  LET n == Max({j \in 0..(Len(file) \div RecordLen) :
                  \A i \in 1..j : NameOf(Record(i)) # "Garbled"})
  IN [i \in 1..n |-> NameOf(Record(i))]

(***********************************************************************************)
(* What is published from the log was all read just now: read_entry takes a short  *)
(* read for a success, and yet no tail of an earlier record, or of the stack, is   *)
(* published, because total counts whole records only.                             *)
(***********************************************************************************)
PublishesWhatItRead ==
  pc = "publish" => pos >= RecordLen /\ old = SubSeq(file, pos - RecordLen + 1, pos)

(***********************************************************************************)
(* The file, whatever was cut short in it and however uploads ended, implements    *)
(* the log: no record in front of a cut is lost, changed, reordered or skipped,    *)
(* and the file is removed only after all of them were published.                  *)
(***********************************************************************************)
Log == INSTANCE MeasurementLog WITH
  log    <- Intact,
  cut    <- Len(file) # RecordLen * Len(Intact),
  handed <- Len(sent),
  out    <- IF sent = <<>> THEN "None" ELSE NameOf(sent[Len(sent)])

ImplementsLog == Log!Spec
===================================================================================
