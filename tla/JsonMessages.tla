------------------------------- MODULE JsonMessages -------------------------------
(***********************************************************************************)
(* The two JSON messages a Peep receives, from their text to what is done with     *)
(* them: the WiFi credentials that a phone writes, which end up in the station     *)
(* configuration of wifi_connect, and the shadow document of AWS IoT, of which     *)
(* _shadow_get_cb cuts out the desired section for json_parse_hatch_config_msg;    *)
(* its interval is slept at the end of the boot (SleepInterval).                   *)
(*                                                                                 *)
(* A text is a sequence of symbols: brackets, keys and values, without the commas  *)
(* and colons.  The tokens that jsmn makes of it are then the symbols other than   *)
(* the closing brackets.  Both parsers take tokens in pairs and do not look at the *)
(* type or the size of a token.                                                    *)
(***********************************************************************************)
EXTENDS SleepInterval, Sequences, FiniteSets

CONSTANTS
  Documents,  \* texts: shadow documents
  Messages,   \* texts: what phones write
  MaxTokens,  \* tokens that t[] has room for (16)
  Number,     \* what strtol makes of a value; of every other text it makes 0
  Length      \* the length of an ssid or password, where it is not short

ASSUME MaxTokensAssumption == MaxTokens \in Nat \ {0}
ASSUME TextsAssumption == Documents \cup Messages \subseteq Seq(STRING)
ASSUME LengthAssumption ==
  /\ \A value \in DOMAIN Length : Length[value] \in Nat
  /\ "" \notin DOMAIN Length
ASSUME NumberAssumption ==
  /\ \A value \in DOMAIN Number : Number[value] \in Int
  /\ "" \notin DOMAIN Number

VARIABLES
  pc,      \* "find", "scan", "parse", "pairs", "connect", "done" or "panic"
  parser,  \* which of the two functions the text is for: "hatch" or "wifi"
  text,    \* the text received
  n,       \* the index n of the loop under way
  js,      \* the text given to the parser
  result,  \* what the parser returned; "none" before
  uuid, num,       \* struct hatch_configuration: its UUID and its three numbers
  ssid, pass,      \* the buffers _ssid and _pass
  station          \* wifi_config.sta: the ssid and password in use

jsonVars == <<pc, parser, text, n, js, result, uuid, num, ssid, pass, station>>

NoNumbers == [end |-> 0, interval |-> 0, offset |-> 0]

JsonTypeOK ==
  /\ TypeOK
  /\ pc \in {"find", "scan", "parse", "pairs", "connect", "done", "panic"}
  /\ parser \in {"hatch", "wifi"}
  /\ n \in 0..Len(text)
  /\ result \in {"none", "true", "false"}
  /\ num \in [DOMAIN NoNumbers -> Int]
  /\ pc = "pairs" => n % 2 = 1

JsonInit ==
  /\ \/ parser = "hatch" /\ text \in Documents /\ js = <<>> /\ pc = "find"
     \/ parser = "wifi" /\ text \in Messages /\ js = text /\ pc = "parse"
  /\ n = 0
  /\ result = "none"
  /\ uuid = "" /\ num = NoNumbers
  /\ ssid = "" /\ pass = ""
  /\ station = <<"", "">>

parsed == <<uuid, num, ssid, pass>>

Ends(value) == pc' = "done" /\ result' = value

-----------------------------------------------------------------------------------
(***********************************************************************************)
(* _shadow_get_cb: what follows the first "desired": up to the first }             *)
(***********************************************************************************)

\* The brackets of an object.
Left  == "{"
Right == "}"

Positions(symbol, s) == {i \in 1..Len(s) : s[i] = symbol}

First(S) == CHOOSE i \in S : \A j \in S : i <= j

\* strstr; n is then the number of symbols before the section.
FindDesired ==
  /\ pc = "find"
  /\ IF Positions("desired", text) = {}
       THEN Ends("none") /\ UNCHANGED n
       ELSE n' = First(Positions("desired", text)) /\ pc' = "scan" /\ UNCHANGED result
  /\ UNCHANGED <<parser, text, js, parsed, station>>

Start == First(Positions("desired", text)) + 1

\* Mutant of Scan: the n++ is missing.
ScanInPlace ==
  /\ pc = "scan"
  /\ n < Len(text) /\ text[n + 1] # Right
  /\ UNCHANGED jsonVars

Scan ==
  /\ pc = "scan"
  /\ n < Len(text) /\ text[n + 1] # Right
  /\ n' = n + 1
  /\ UNCHANGED <<pc, parser, text, js, result, parsed, station>>

\* Mutant of Section: the scan goes on to the last }.
SectionToTheEnd ==
  /\ pc = "scan"
  /\ n = Len(text) \/ text[n + 1] = Right
  /\ js' = SubSeq(text, Start, Len(text))
  /\ n' = 0 /\ pc' = "parse" /\ UNCHANGED result
  /\ UNCHANGED <<parser, text, parsed, station>>

\* The loop has ended: the section is handed on, with its }, if it has one.
Section ==
  /\ pc = "scan"
  /\ \/ /\ n = Len(text)
        /\ Ends("none") /\ UNCHANGED <<n, js>>
     \/ /\ n < Len(text) /\ text[n + 1] = Right
        /\ js' = SubSeq(text, Start, n + 1)
        /\ n' = 0 /\ pc' = "parse" /\ UNCHANGED result
  /\ UNCHANGED <<parser, text, parsed, station>>

-----------------------------------------------------------------------------------
(***********************************************************************************)
(* jsmn_parse, as far as the two parsers depend on it                              *)
(***********************************************************************************)

Opening == {Left, "["}
Closing == {Right, "]"}

TokenPlaces(s) == {i \in 1..Len(s) : s[i] \notin Closing}

\* The symbols at those places, in their order.
Tokens(s) ==
  [k \in 1..Cardinality(TokenPlaces(s)) |->
     s[CHOOSE i \in TokenPlaces(s) : Cardinality({j \in TokenPlaces(s) : j <= i}) = k]]

Count(S, s) == Cardinality({i \in 1..Len(s) : s[i] \in S})

\* Every bracket is closed; texts are nested properly up to where they are cut.
Complete(s) == Count(Opening, s) = Count(Closing, s)

\* jsmn_parse finds a complete text, of no more tokens than t[] has room for.
Parses(s) == Complete(s) /\ Len(Tokens(s)) \in 1..MaxTokens

-----------------------------------------------------------------------------------
(***********************************************************************************)
(* json_parse_wifi_credentials_msg and json_parse_hatch_config_msg                 *)
(***********************************************************************************)

\* Mutant of ParseTokens: a negative r is taken for a number of tokens.
ParseTokensNegative ==
  /\ pc = "parse"
  /\ IF Parses(js) /\ Tokens(js)[1] = Left
       THEN n' = 1 /\ pc' = "pairs" /\ UNCHANGED result
       ELSE Ends(IF js # <<>> /\ js[1] = Left THEN "true" ELSE "false") /\ UNCHANGED n
  /\ UNCHANGED <<parser, text, js, parsed, station>>

\* "Object expected", or on to the pairs.
ParseTokens ==
  /\ pc = "parse"
  /\ IF Parses(js) /\ Tokens(js)[1] = Left
       THEN n' = 1 /\ pc' = "pairs" /\ UNCHANGED result
       ELSE Ends("false") /\ UNCHANGED n
  /\ UNCHANGED <<parser, text, js, parsed, station>>

\* strncpy into a buffer of max bytes: a longer text loses its end.
Cut(value, max) ==
  IF value \in DOMAIN Length /\ Length[value] > max THEN "cut" ELSE value

Strtol(value) == IF value \in DOMAIN Number THEN Number[value] ELSE 0

\* The pair key, value: strcmp for the configuration, strcasecmp for the credentials.
Assign(key, value) ==
  /\ uuid' = IF parser = "hatch" /\ key = "hatchUUID" THEN value ELSE uuid
  /\ num' =
       CASE parser = "hatch" /\ key = "endUnixTimestamp" -> [num EXCEPT !.end = Strtol(value)]
         [] parser = "hatch" /\ key = "measureIntervalMin" -> [num EXCEPT !.interval = SecondsOf(Strtol(value))]
         [] parser = "hatch" /\ key = "temperatureOffsetCelsius" -> [num EXCEPT !.offset = Strtol(value)]
         [] OTHER -> num
  /\ ssid' = IF parser = "wifi" /\ key \in {"wifiSSID", "WIFISSID"} THEN Cut(value, 32) ELSE ssid
  /\ pass' = IF parser = "wifi" /\ key \in {"wifiPassword", "WIFIPASSWORD"} THEN Cut(value, 64) ELSE pass

\* Mutant of Pair: the second n++ is missing.
PairOverlaps ==
  /\ pc = "pairs"
  /\ n + 1 < Len(Tokens(js))
  /\ Assign(Tokens(js)[n + 1], Tokens(js)[n + 2])
  /\ n' = n + 1
  /\ UNCHANGED <<pc, parser, text, js, result, station>>

Pair ==
  /\ pc = "pairs"
  /\ n + 1 < Len(Tokens(js))
  /\ Assign(Tokens(js)[n + 1], Tokens(js)[n + 2])
  /\ n' = n + 2
  /\ UNCHANGED <<pc, parser, text, js, result, station>>

(***********************************************************************************)
(* A last token without a partner is paired with a token that jsmn has not filled  *)
(* in: its bounds are what the stack held.  The value is some text, or the copy    *)
(* runs out of its buffers and the chip resets.                                    *)
(***********************************************************************************)
LonePair ==
  /\ pc = "pairs"
  /\ n + 1 = Len(Tokens(js))
  /\ \/ Assign(Tokens(js)[n + 1], "junk") /\ n' = n + 2 /\ UNCHANGED pc
     \/ pc' = "panic" /\ UNCHANGED <<n, parsed>>
  /\ UNCHANGED <<parser, text, js, result, station>>

\* What task_ble_config_wifi_credentials saves, a later boot loads and connects with.
Return ==
  /\ pc = "pairs"
  /\ n >= Len(Tokens(js))
  /\ result' = "true"
  /\ n' = 0
  /\ pc' = IF parser = "wifi" /\ ssid # "" /\ pass # "" THEN "connect" ELSE "done"
  /\ UNCHANGED <<parser, text, js, parsed, station>>

\* Mutant of Connect: as if the buffers of the station were a byte shorter.
ConnectShorter ==
  /\ pc = "connect"
  /\ station' = <<Cut(ssid, 30), Cut(pass, 62)>>
  /\ pc' = "done"
  /\ UNCHANGED <<parser, text, n, js, result, parsed>>

\* wifi_connect copies all but the last byte of each buffer.
Connect ==
  /\ pc = "connect"
  /\ station' = <<Cut(ssid, 31), Cut(pass, 63)>>
  /\ pc' = "done"
  /\ UNCHANGED <<parser, text, n, js, result, parsed>>

-----------------------------------------------------------------------------------
(***********************************************************************************)
(* A document that was parsed is the configuration of this boot; at its end        *)
(* task_measure sleeps the interval.                                               *)
(***********************************************************************************)

JsonNext ==
  \/ FindDesired \/ Scan \/ Section
  \/ ParseTokens \/ Pair \/ LonePair \/ Return
  \/ Connect

Configured == parser = "hatch" /\ pc = "done" /\ result = "true"

\* _shadow_callback sets SYNC_BIT: sec is the measure_interval_sec of the document.
Configure ==
  /\ Configured
  /\ \E m \in 0..MaxMinutes : ParseConfig(m) /\ sec' = num.interval

Sleep == Configured /\ DeepSleepTimer

\* Nothing is left to do with the text.
Finished == pc \in {"done", "panic"} /\ (Configured => phase = "asleep")

MessagesInit == JsonInit /\ Init

MessagesNext ==
  \/ JsonNext /\ UNCHANGED vars
  \/ (Configure \/ Sleep) /\ UNCHANGED jsonVars
  \/ Finished /\ UNCHANGED <<jsonVars, vars>>

MessagesSpec ==
  MessagesInit /\ [][MessagesNext]_<<jsonVars, vars>> /\ WF_<<jsonVars, vars>>(MessagesNext)

-----------------------------------------------------------------------------------
(***********************************************************************************)
(* Reference: what a text means as JSON                                            *)
(***********************************************************************************)

\* The object that starts at i: up to the bracket that closes it.
ObjectAt(s, i) ==
  LET ends == {j \in i..Len(s) : Complete(SubSeq(s, i, j))} IN
    IF s[i] \in Opening /\ ends # {} THEN SubSeq(s, i, First(ends)) ELSE <<>>

(***********************************************************************************)
(* What the service sends is JSON up to where it is cut: in an object every } has  *)
(* its {, and the name "desired" is followed by a value.                           *)
(***********************************************************************************)
ASSUME DocumentsAssumption ==
  \A s \in Documents :
    /\ \A i \in 1..Len(s) : Count({Left}, ObjectAt(s, i)) = Count({Right}, ObjectAt(s, i))
    /\ \A i \in Positions("desired", s) : i < Len(s) => s[i + 1] \notin Closing

\* The object that is meant: the message, or the value of "desired".
Meant ==
  IF parser = "wifi" THEN text
  ELSE IF Positions("desired", text) = {} THEN <<>>
  ELSE ObjectAt(text, Start)

\* Only keys and values between its two brackets, and not too many.
Flat(s) ==
  /\ Len(s) >= 2 /\ Len(s) % 2 = 0
  /\ s[1] = Left /\ s[Len(s)] = Right
  /\ \A i \in 2..Len(s) - 1 : s[i] \notin Opening \cup Closing
  /\ Len(s) <= MaxTokens + 1

\* The value of the last member named by one of the keys, else the default.
ValueOf(s, keys, default) ==
  LET named == {i \in 2..Len(s) - 1 : i % 2 = 0 /\ s[i] \in keys} IN
    IF named = {} THEN default ELSE s[(CHOOSE i \in named : \A j \in named : j <= i) + 1]

-----------------------------------------------------------------------------------
(***********************************************************************************)
(* A shadow document whose desired section is a flat object gives exactly that     *)
(* configuration: wherever the section stands in the document, whatever else the   *)
(* document holds, and the last one wins of members of the same name.              *)
(***********************************************************************************)
DesiredIsTaken ==
  parser = "hatch" /\ pc = "done" /\ Flat(Meant) =>
    /\ result = "true"
    /\ uuid = ValueOf(Meant, {"hatchUUID"}, "")
    /\ num = [end      |-> Strtol(ValueOf(Meant, {"endUnixTimestamp"}, "")),
              interval |-> 60 * Strtol(ValueOf(Meant, {"measureIntervalMin"}, "")),
              offset   |-> Strtol(ValueOf(Meant, {"temperatureOffsetCelsius"}, ""))]

(***********************************************************************************)
(* A desired section with an object inside is cut short by _shadow_get_cb, and one *)
(* of too many members does not fit t[]: either is refused as a whole, and the     *)
(* configuration stays as it was.                                                  *)
(***********************************************************************************)
OthersAreRefused ==
  parser = "hatch" /\ pc = "done"
    /\ (Meant = <<>> \/ Count({Left}, Meant) > 1 \/ Len(Tokens(Meant)) > MaxTokens)
    => result # "true" /\ uuid = "" /\ num = NoNumbers

(***********************************************************************************)
(* The station connects with the credentials that the phone sent, up to an ssid of *)
(* 31 and a password of 63 bytes: none of the buffers on the way cuts it.          *)
(***********************************************************************************)
ConnectsAsSent ==
  parser = "wifi" /\ pc = "done" /\ result = "true" /\ station[1] # "" /\ Flat(Meant) =>
    LET s == ValueOf(Meant, {"wifiSSID", "WIFISSID"}, "")
        p == ValueOf(Meant, {"wifiPassword", "WIFIPASSWORD"}, "")
    IN  /\ Cut(s, 31) = s => station[1] = s
        /\ Cut(p, 63) = p => station[2] = p

(***********************************************************************************)
(* From the shadow document to the timer of the chip: up to 71 minutes the Peep    *)
(* sleeps exactly the measureIntervalMin of the desired section, whatever          *)
(* precedes, follows or repeats it.                                                *)
(***********************************************************************************)
SleepsAsAsked ==
  phase = "asleep" /\ Flat(Meant) =>
    LET asked == Strtol(ValueOf(Meant, {"measureIntervalMin"}, "")) IN
      asked <= 71 => units = asked * 60 * UnitsPerSec

\* Every text is dealt with: the loops end, and a configured boot goes to sleep.
TextIsDealtWith == <>Finished
===================================================================================
