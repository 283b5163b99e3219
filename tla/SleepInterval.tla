------------------------------- MODULE SleepInterval -------------------------------
(***********************************************************************************)
(* How long a Peep sleeps: the desired configuration names a number of minutes     *)
(* (json_parse.c), which is kept as seconds and handed to hal_deep_sleep_timer,    *)
(* where the microseconds are computed in 32 bits before they are widened to 64.   *)
(*                                                                                 *)
(* Microseconds are counted in units of 64: both 1000000 and 2^32 are multiples of *)
(* 64, so that this loses nothing and keeps the numbers in TLC's range.            *)
(***********************************************************************************)
EXTENDS Integers

CONSTANT MaxMinutes    \* bound: the longest interval that is asked for

\* The seconds fit the int in which json_parse_hatch_config_msg multiplies.
ASSUME MaxMinutesAssumption == MaxMinutes \in Nat /\ 60 * MaxMinutes <= 2147483647

UnitsPerSec == 15625          \* 1000000 / 64
UnitsWrap   == 67108864       \* 2^32 / 64

VARIABLES
  phase,     \* "shadow", then "measured", then "asleep"
  minutes,   \* measureIntervalMin of the desired configuration, once it is parsed
  sec,       \* _config.measure_interval_sec
  units      \* wakeup_time_usec, in units of 64

vars == <<phase, minutes, sec, units>>

TypeOK ==
  /\ phase \in {"shadow", "measured", "asleep"}
  /\ minutes \in 0..MaxMinutes
  /\ sec \in 0..60 * MaxMinutes
  /\ units \in 0..UnitsWrap - 1

Init ==
  /\ phase = "shadow"
  /\ minutes = 0
  /\ sec = 0 /\ units = 0

\* Mutant of SecondsOf: the number is taken for seconds.
SecondsOfSeconds(m) == m

SecondsOf(m) == m * 60

\* Mutant of WakeupTime: computed in 31 bits.
WakeupTimeSigned(s) == (s * UnitsPerSec) % (UnitsWrap \div 2)

\* uint64_t wakeup_time_usec = sec * 1000000, of a uint32_t and an int.
WakeupTime(s) == (s * UnitsPerSec) % UnitsWrap

ParseConfig(m) ==
  /\ phase = "shadow"
  /\ minutes' = m
  /\ sec' = SecondsOf(m)
  /\ phase' = "measured"
  /\ UNCHANGED units

DeepSleepTimer ==
  /\ phase = "measured"
  /\ units' = WakeupTime(sec)
  /\ phase' = "asleep"
  /\ UNCHANGED <<minutes, sec>>

Next == DeepSleepTimer \/ \E m \in 0..MaxMinutes : ParseConfig(m)

Spec == Init /\ [][Next]_vars

-----------------------------------------------------------------------------------
(***********************************************************************************)
(* A Peep that is asked for an interval of at most 71 minutes sleeps exactly that; *)
(* asked for a longer one it wakes earlier than that, and never later.             *)
(***********************************************************************************)
SleepsTheInterval ==
  phase = "asleep" =>
    /\ minutes <= 71 => units = minutes * 60 * UnitsPerSec
    /\ minutes > 71  => units < minutes * 60 * UnitsPerSec

===================================================================================
