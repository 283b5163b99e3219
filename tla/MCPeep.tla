---------------------------------- MODULE MCPeep ----------------------------------
(* Peep on small sets, for TLC. *)
EXTENDS Peep, TLC

CONSTANTS c1, c2, h1, h2, m1, m2

TwoCreds == {c1, c2}
OneCreds == {c1}
OneHatch == {h1}
TwoHatches == {h1, h2}
TwoMeas == {m1, m2}

\* Hatches, measurements, and credentials are interchangeable.
Symmetric ==
  Permutations({c1, c2}) \cup Permutations({h1, h2}) \cup Permutations({m1, m2})
===================================================================================
