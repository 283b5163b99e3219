----------------------------- MODULE MCJsonMessages -----------------------------
(* JsonMessages on short texts, for TLC. *)
EXTENDS JsonMessages, SequencesExt

\* A member of an object, flat or not.
HatchMembers == {
  <<"hatchUUID", "u1">>, <<"hatchUUID", "u2">>,
  <<"endUnixTimestamp", "50">>,
  <<"measureIntervalMin", "15">>,
  <<"measureIntervalSec", "900">>,
  <<"temperatureOffsetCelsius", "2">>,
  <<"other", "{", "hatchUUID", "u2", "}">>,
  <<"other", "[", "hatchUUID", "]">>,
  <<"other", "[", "x", "x", "]">> }

WifiMembers == {
  <<"wifiSSID", "home">>, <<"WIFISSID", "long">>, <<"wifiSSID", "longest">>,
  <<"wifiPassword", "key">>, <<"wifiPassword", "longkey">>, <<"WIFIPASSWORD", "hexkey">>,
  <<"wifiSSID">>,
  <<"other", "{", "wifiSSID", "home", "}">> }

Objects(members) ==
  { <<"{">> \o FlattenSeq(ms) \o <<"}">> : ms \in UNION {[1..k -> members] : k \in 0..3} }

Reported == <<"reported", "{", "hatchUUID", "r", "endUnixTimestamp", "99", "}">>

\* The shadow's state: the two sections in either order, or one of them; or cut short.
ShortDocuments ==
  UNION { { <<"{", "state", "{", "desired">> \o d \o <<"}", "}">>,
            <<"{", "state", "{", "desired">> \o d \o Reported \o <<"}", "}">>,
            <<"{", "state", "{">> \o Reported \o <<"desired">> \o d \o <<"}", "}">> }
          : d \in Objects(HatchMembers) }
  \cup { <<"{", "state", "{">> \o Reported \o <<"}", "}">>,
         <<"{", "state", "{", "desired", "{", "hatchUUID">>,
         <<"{", "state", "{", "desired", "x", "}", "}">> }

\* The numbers in the texts; as intervals, those about every wrap of the timer.
Numerals ==
  0..2 \cup {15, 50, 99, 900} \cup 70..73 \cup 142..145 \cup 214..216 \cup {720, 1439, 1440}

\* Each of them as interval, in a section of its own.
Intervals ==
  { <<"{", "state", "{", "desired", "{", "measureIntervalMin", ToString(k), "}", "}", "}">>
    : k \in Numerals }

AllDocuments == ShortDocuments \cup Intervals

ShortMessages ==
  Objects(WifiMembers) \cup {<<"{", "wifiSSID", "home">>, <<"[", "x", "]">>, <<>>}

ShortTokens == 7
Numbers == [v \in {ToString(k) : k \in Numerals} |-> CHOOSE k \in Numerals : ToString(k) = v]
Lengths == [v \in {"long", "longest", "longkey", "hexkey"} |->
              CASE v = "long" -> 31 [] v = "longest" -> 32 [] v = "longkey" -> 63 [] v = "hexkey" -> 64]
=================================================================================
