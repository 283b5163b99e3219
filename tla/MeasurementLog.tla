------------------------------- MODULE MeasurementLog -------------------------------
(***********************************************************************************)
(* What the measurement log promises to task_measure, without files, positions and *)
(* bytes.  Records are kept in the order of adding and handed out oldest first;    *)
(* the log is emptied only after all of them have been handed out.  An addition    *)
(* that stops half way cuts the log: the records before the cut are not affected,  *)
(* those added after it may come out garbled, and emptying the log heals it.       *)
(***********************************************************************************)
EXTENDS Integers, Sequences

CONSTANT Meas    \* identities of measurements

VARIABLES
  log,      \* the records before the cut
  cut,      \* has an addition stopped half way since the log was last emptied?
  handed,   \* how many records this upload has handed out
  out       \* the last of them

logVars == <<log, cut, handed, out>>

Init == log = <<>> /\ cut = FALSE /\ handed = 0 /\ out = "None"

\* A record added behind the cut is not promised anything.
Add(m) ==
  /\ handed = 0
  /\ ~ cut
  /\ log' = Append(log, m)
  /\ UNCHANGED <<cut, handed, out>>

CutShort ==
  /\ handed = 0
  /\ cut' = TRUE
  /\ UNCHANGED <<log, handed, out>>

HandOut ==
  /\ \/ handed < Len(log) /\ out' = log[handed + 1]
     \/ handed >= Len(log) /\ cut /\ out' \in Meas \cup {"Garbled"}
  /\ handed' = handed + 1
  /\ UNCHANGED <<log, cut>>

\* The upload is given up, or done without the log being emptied.
Stop ==
  /\ handed' = 0 /\ out' = "None"
  /\ UNCHANGED <<log, cut>>

Clear ==
  /\ handed > 0 /\ handed >= Len(log)
  /\ log' = <<>> /\ cut' = FALSE
  /\ handed' = 0 /\ out' = "None"

Next == (\E m \in Meas : Add(m)) \/ CutShort \/ HandOut \/ Stop \/ Clear

Spec == Init /\ [][Next]_logVars
===================================================================================
