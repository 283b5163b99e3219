------------------------------- MODULE PeepPromise --------------------------------
(***********************************************************************************)
(* What a Peep promises its owner, with no boots, tasks, flash or network in it:   *)
(* it is paired, waits for a hatch, and measures until the hatch ends; only while  *)
(* it measures does it send measurements or put them by; a measurement that was    *)
(* put by stays so until it has been sent; and pairing is forgotten only when      *)
(* something went wrong.                                                           *)
(*                                                                                 *)
(* Peep implements this specification: see Promise in Peep.tla.                    *)
(***********************************************************************************)
EXTENDS Integers

CONSTANT Meas      \* identities of measurements

VARIABLES
  phase,  \* "blank": no state stored, or a damaged one; "unpaired"; "waiting" for a
          \* hatch; or "measuring" one
  kept,   \* measurements put by
  sent,   \* measurements sent
  harm    \* how much has gone wrong: failures and losses of power

vars == <<phase, kept, sent, harm>>

Init == phase = "blank" /\ kept = {} /\ sent = {} /\ harm = 0

\* The phases, each left for the next one only.
Follows(old, new) == phase = old /\ phase' = new /\ UNCHANGED <<kept, sent>>

Reset == Follows("blank", "unpaired")
Pair  == Follows("unpaired", "waiting")
Start == Follows("waiting", "measuring")
End   == Follows("measuring", "waiting")

\* The stored state is damaged or cannot be read, and the Peep is to be paired anew.
Lose == harm' > harm /\ phase' = "blank" /\ UNCHANGED <<kept, sent>>

\* A new measurement; its identity is one that was sent or dropped before.
Take(m) ==
  /\ phase = "measuring"
  /\ m \notin kept
  /\ sent' = sent \ {m}
  /\ UNCHANGED <<phase, kept>>

Keep(m) ==
  /\ phase = "measuring"
  /\ m \notin sent
  /\ kept' = kept \cup {m}
  /\ UNCHANGED <<phase, sent>>

Send(m) ==
  /\ phase = "measuring"
  /\ kept' = kept \ {m}
  /\ sent' = sent \cup {m}
  /\ UNCHANGED phase

Next ==
  /\ harm' >= harm
  /\ \/ Reset \/ Pair \/ Start \/ End \/ Lose
     \/ \E m \in Meas : Take(m) \/ Keep(m) \/ Send(m)
     \/ UNCHANGED <<phase, kept, sent>>

Spec == Init /\ [][Next]_vars
===================================================================================
