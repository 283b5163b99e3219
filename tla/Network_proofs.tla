------------------------------ MODULE Network_proofs ------------------------------
(***********************************************************************************)
(* The safety properties of Wifi and of AwsClient, for every timeout and any       *)
(* number of drops, publications and cuts, alone and in Network.                   *)
(***********************************************************************************)
EXTENDS Network, SequenceTheorems, TLAPS

(***********************************************************************************)
(* Wifi.  Each property has an inductive invariant of its own: what the polls have *)
(* left (TimeInv), what the two calls of the handler do to the bits (BitsInv), and *)
(* which event was the last one of a connection (DriverInv, QuietInv).             *)
(***********************************************************************************)

Events == {"START", "GOT_IP", "DISCONNECTED"}

(***********************************************************************************)
(* Types                                                                           *)
(***********************************************************************************)

\* wifi_connect has left when it returned, and waits only as long as a poll is left.
Waits == /\ pc \in {"start", "wait"} => left > 0
         /\ pc = "time" => retry < left
         /\ pc # "time" => retry <= left
         /\ pc \in {"start", "wait"} => retry = 0

TypeInv == TypeOK /\ Waits

LEMMA TypeInvInit == Init => TypeInv
<1> SUFFICES ASSUME Init PROVE TypeInv
  OBVIOUS
<1>1. isActive \in BOOLEAN /\ clockOk \in BOOLEAN /\ quietStop \in BOOLEAN /\ gaveUp \in BOOLEAN
  BY Zenon DEF Init
<1> QED
  BY <1>1, TimeoutAssumption DEF Init, TypeInv, TypeOK, Waits

LEMMA TypeInvStep == TypeInv /\ [Next]_vars => TypeInv'
<1> SUFFICES ASSUME TypeInv, [Next]_vars PROVE TypeInv'
  OBVIOUS
<1> USE TimeoutAssumption DEF TypeInv, TypeOK, Waits
<1>1. CASE ConnectStart
  BY <1>1 DEF ConnectStart, historyVars
<1>2. CASE Connected
  BY <1>2 DEF Connected, historyVars, groupVars, eventVars
<1>3. CASE PollTimesOut
  BY <1>3 DEF PollTimesOut, Returns, historyVars, groupVars, eventVars
<1>4. CASE InitTime
  BY <1>4 DEF InitTime, Returns, historyVars, groupVars, eventVars
<1>5. CASE Deactivate
  BY <1>5 DEF Deactivate, historyVars, groupVars, eventVars
<1>6. CASE Stop
  BY <1>6 DEF Stop, groupVars
<1>7. CASE Left
  BY <1>7 DEF Left, historyVars, groupVars, eventVars
<1>8. CASE GiveUp
  BY <1>8 DEF GiveUp, groupVars, eventVars
<1>9. CASE Delete
  BY <1>9 DEF Delete, historyVars, eventVars
<1>10. CASE OnStart
  BY <1>10 DEF OnStart, Take, Reconnect, mainVars, historyVars, groupVars
<1>11. CASE OnGotIp
  BY <1>11 DEF OnGotIp, Take, mainVars, historyVars, groupVars
<1>12. CASE OnDisconnected
  BY <1>12 DEF OnDisconnected, Take, Reconnect, mainVars, historyVars, groupVars
<1>13. CASE HandlerSets
  <2>1. PICK e \in {"GOT_IP", "DISCONNECTED"} : handling = <<e, "set">>
    BY <1>13 DEF HandlerSets, Idle
  <2>2. handling' = <<e, "clear">> /\ bits' \subseteq {"CONNECTED", "DISCONNECT"}
    BY <1>13, <2>1 DEF HandlerSets, BitOf
  <2>3. handling' \in {Idle} \cup ({"GOT_IP", "DISCONNECTED"} \X {"set", "clear"})
    BY <2>2
  <2>4. UNCHANGED <<mainVars, isActive, group, driver, queue, clockOk, drops, historyVars>>
    BY <1>13 DEF HandlerSets
  <2> QED
    BY <2>2, <2>3, <2>4 DEF mainVars, historyVars
<1>14. CASE HandlerClears
  <2>1. bits' \subseteq {"CONNECTED", "DISCONNECT"} /\ handling' = Idle
    BY <1>14 DEF HandlerClears
  <2>2. UNCHANGED <<mainVars, isActive, group, driver, queue, clockOk, drops, historyVars>>
    BY <1>14 DEF HandlerClears
  <2> QED
    BY <2>1, <2>2 DEF mainVars, historyVars
<1>15. CASE Joined
  BY <1>15 DEF Joined, mainVars, historyVars, groupVars
<1>16. CASE Dropped
  BY <1>16 DEF Dropped, mainVars, historyVars, groupVars
<1>17. CASE TimeArrives
  BY <1>17 DEF TimeArrives, mainVars, historyVars, groupVars, eventVars
<1>18. CASE UNCHANGED vars
  BY <1>18 DEF vars, mainVars, historyVars, groupVars, eventVars
<1> QED
  BY <1>1, <1>2, <1>3, <1>4, <1>5, <1>6, <1>7, <1>8, <1>9, <1>10, <1>11, <1>12,
     <1>13, <1>14, <1>15, <1>16, <1>17, <1>18 DEF Next, Main, Handler

\* Every variable of Wifi keeps its type, for every timeout.
THEOREM TypeCorrect == Spec => []TypeOK
<1>1. TypeInv => TypeOK
  BY DEF TypeInv
<1> QED BY <1>1, TypeInvInit, TypeInvStep, PTL DEF Spec
-----------------------------------------------------------------------------------
(***********************************************************************************)
(* TrueMeansTime                                                                   *)
(***********************************************************************************)

TimeInv ==
  /\ pc \in {"start", "wait", "time"} => result = "None"
  /\ pc = "time" => retry \in Nat /\ left \in Nat /\ retry < left
  /\ TrueMeansTime

LEMMA TimeInvStep == TypeInv /\ TimeInv /\ [Next]_vars => TimeInv'
<1> SUFFICES ASSUME TypeInv, TimeInv, [Next]_vars PROVE TimeInv'
  OBVIOUS
<1> USE DEF TimeInv, TrueMeansTime
<1>1. CASE ConnectStart
  BY <1>1 DEF ConnectStart
<1>2. CASE Connected
  BY <1>2 DEF Connected, TypeInv, TypeOK, Waits, historyVars
<1>3. CASE PollTimesOut
  BY <1>3 DEF PollTimesOut, Returns
<1>4. CASE InitTime
  <2>1. clockOk => result' = "true" /\ pc' = "online" /\ clockOk'
    BY <1>4 DEF InitTime, Returns
  <2>2. ~ clockOk => result' # "true" /\ (pc' = "time" => retry' < left')
    BY <1>4, TimeoutAssumption DEF InitTime, Returns, TypeInv, TypeOK
  <2>3. TypeInv'
    BY TypeInvStep
  <2>4. pc' \in {"time", "online"} /\ (pc' = "time" => result' = "None")
    BY <1>4 DEF InitTime, Returns
  <2>5. result' = "true" => clockOk'
    BY <1>4, <2>2 DEF InitTime
  <2>6. pc' = "time" => retry' \in Nat /\ left' \in Nat /\ retry' < left'
    BY <2>3, TimeoutAssumption DEF TypeInv, TypeOK, Waits
  <2> QED
    BY <2>4, <2>5, <2>6
<1>5. CASE Deactivate \/ Stop \/ Left \/ GiveUp \/ Delete
  BY <1>5 DEF Deactivate, Stop, Left, GiveUp, Delete
<1>6. CASE OnStart \/ OnGotIp \/ OnDisconnected \/ HandlerSets \/ HandlerClears
  BY <1>6 DEF OnStart, OnGotIp, OnDisconnected, HandlerSets, HandlerClears, mainVars
<1>7. CASE Joined \/ Dropped
  BY <1>7 DEF Joined, Dropped, mainVars
<1>8. CASE TimeArrives
  BY <1>8 DEF TimeArrives, mainVars
<1>9. CASE UNCHANGED vars
  BY <1>9 DEF vars, mainVars
<1> QED
  BY <1>1, <1>2, <1>3, <1>4, <1>5, <1>6, <1>7, <1>8, <1>9 DEF Next, Main, Handler

(***********************************************************************************)
(* A true of wifi_connect means that the time is known, whatever the timeout: a    *)
(* look at the clock that fails leaves true out of reach in the last poll.         *)
(***********************************************************************************)
THEOREM TrueMeansTimeHolds == Spec => []TrueMeansTime
<1>1. Init => TimeInv
  BY DEF Init, TimeInv, TrueMeansTime
<1>2. TimeInv => TrueMeansTime
  BY DEF TimeInv
<1> QED BY <1>1, <1>2, TypeInvInit, TypeInvStep, TimeInvStep, PTL DEF Spec

-----------------------------------------------------------------------------------
(***********************************************************************************)
(* BitsExclude: both bits are set only between the two calls of the handler.       *)
(***********************************************************************************)

BitsInv == handling[2] # "clear" => bits # {"CONNECTED", "DISCONNECT"}

LEMMA BitsInvStep == TypeOK /\ BitsInv /\ [Next]_vars => BitsInv'
<1> SUFFICES ASSUME TypeOK, BitsInv, [Next]_vars PROVE BitsInv'
  OBVIOUS
<1> USE DEF BitsInv
<1>1. CASE ConnectStart \/ Connected \/ PollTimesOut \/ InitTime
  BY <1>1 DEF ConnectStart, Connected, PollTimesOut, InitTime, groupVars, eventVars
<1>2. CASE Deactivate \/ Stop \/ Left \/ GiveUp \/ Delete
  BY <1>2 DEF Deactivate, Stop, Left, GiveUp, Delete, groupVars, eventVars
<1>3. CASE OnStart
  BY <1>3 DEF OnStart, groupVars
<1>4. CASE OnGotIp \/ OnDisconnected
  BY <1>4 DEF OnGotIp, OnDisconnected, Take, Idle, groupVars
<1>5. CASE HandlerSets
  BY <1>5 DEF HandlerSets
<1>6. CASE HandlerClears
  BY <1>6 DEF HandlerClears, OtherBit
<1>7. CASE Joined \/ Dropped
  BY <1>7 DEF Joined, Dropped, groupVars
<1>8. CASE TimeArrives
  BY <1>8 DEF TimeArrives, groupVars, eventVars
<1>9. CASE UNCHANGED vars
  BY <1>9 DEF vars, groupVars, eventVars
<1> QED
  BY <1>1, <1>2, <1>3, <1>4, <1>5, <1>6, <1>7, <1>8, <1>9 DEF Next, Main, Handler

\* Whenever the handler is idle, at most one of the two bits is set.
THEOREM BitsExcludeHolds == Spec => []BitsExclude
<1>1. Init => BitsInv
  BY DEF Init, BitsInv, Idle
<1>2. BitsInv => BitsExclude
  BY DEF BitsInv, BitsExclude, Idle
<1>3. TypeInv => TypeOK
  BY DEF TypeInv
<1> QED BY <1>1, <1>2, <1>3, TypeInvInit, TypeInvStep, BitsInvStep, PTL DEF Spec
-----------------------------------------------------------------------------------
(***********************************************************************************)
(* ReportedBeforeDeleted                                                           *)
(***********************************************************************************)

Latest == queue[Len(queue)]

\* While the station has its address, the last event that was posted is GOT_IP.
DriverInv ==
  driver = "ip" =>
    /\ queue # <<>> => Latest = "GOT_IP"
    /\ queue = <<>> /\ handling # Idle => handling[1] = "GOT_IP"
    /\ queue = <<>> /\ handling = Idle => "DISCONNECT" \notin bits

\* What is left to do of the disconnection that esp_wifi_stop posted.
Pending ==
  \/ queue = <<"DISCONNECTED">> /\ handling = Idle
  \/ queue = <<>> /\ handling = <<"DISCONNECTED", "set">>

Reported == queue = <<>> /\ handling[2] # "set"

QuietInv ==
  /\ quietStop => /\ pc \in {"stopped", "delete", "done"}
                  /\ driver = "off"
                  /\ (Pending /\ "DISCONNECT" \notin bits) \/ Reported
                  /\ pc # "stopped" /\ ~ gaveUp => Reported
  /\ group = "deleted" => pc = "done"

LEMMA Tails ==
  ASSUME NEW S, NEW q \in Seq(S), q # <<>>
  PROVE  /\ Tail(q) # <<>> => Tail(q)[Len(Tail(q))] = q[Len(q)]
         /\ Tail(q) = <<>> => Head(q) = q[Len(q)]
<1>1. Len(q) \in Nat \ {0}
  BY EmptySeq
<1>2. Tail(q) \in Seq(S) /\ Len(Tail(q)) = Len(q) - 1
  BY HeadTailProperties
<1>3. ASSUME Tail(q) # <<>> PROVE Tail(q)[Len(Tail(q))] = q[Len(q)]
  <2>1. Len(Tail(q)) \in 1..Len(Tail(q))
    BY <1>2, <1>3, EmptySeq
  <2> QED
    BY <1>1, <1>2, <2>1, HeadTailProperties
<1>4. ASSUME Tail(q) = <<>> PROVE Head(q) = q[Len(q)]
  <2>1. Len(q) - 1 = Len(<<>>)
    BY <1>2, <1>4
  <2>2. Len(q) = 1
    BY <1>1, <2>1
  <2> QED
    BY <2>2
<1> QED
  BY <1>3, <1>4

LEMMA Appends ==
  ASSUME NEW S, NEW q \in Seq(S), NEW e \in S
  PROVE  Append(q, e) # <<>> /\ Append(q, e)[Len(Append(q, e))] = e
  BY AppendProperties

\* The driver posts its events in order, and only Joined gives the station an address.
LEMMA DriverInvStep == TypeOK /\ DriverInv /\ [Next]_vars => DriverInv'
<1> SUFFICES ASSUME TypeOK, DriverInv, [Next]_vars, driver' = "ip"
             PROVE  DriverInv'
  BY DEF DriverInv
<1> DEFINE Kept == UNCHANGED <<bits, driver, queue, handling>>
<1>0. Kept => DriverInv'
  BY DEF DriverInv, Latest
<1>1. CASE ConnectStart \/ Stop
  BY <1>1 DEF ConnectStart, Stop
<1>2. CASE Connected \/ PollTimesOut \/ InitTime
  BY <1>0, <1>2 DEF Connected, PollTimesOut, InitTime, groupVars, eventVars
<1>3. CASE Deactivate \/ Left \/ GiveUp \/ Delete
  BY <1>0, <1>3 DEF Deactivate, Left, GiveUp, Delete, groupVars, eventVars
<1>4. CASE TimeArrives \/ UNCHANGED vars
  BY <1>0, <1>4 DEF TimeArrives, vars, groupVars, eventVars
<1>5. CASE OnStart \/ OnGotIp \/ OnDisconnected
  <2>1. driver = "ip" /\ queue # <<>> /\ queue' = Tail(queue) /\ UNCHANGED bits
    BY <1>5 DEF OnStart, OnGotIp, OnDisconnected, Take, Reconnect, groupVars
  <2>2. /\ queue' # <<>> => Latest' = "GOT_IP"
        /\ queue' = <<>> => Head(queue) = "GOT_IP"
    BY <2>1, Tails DEF DriverInv, Latest, TypeOK
  <2>3. queue' = <<>> => handling' = <<"GOT_IP", "set">>
    BY <1>5, <2>2 DEF OnStart, OnGotIp, OnDisconnected, Take
  <2> QED
    BY <2>2, <2>3 DEF DriverInv, Idle
<1>6. CASE HandlerSets
  <2>1. UNCHANGED <<driver, queue>> /\ handling' = <<handling[1], "clear">> /\ handling # Idle
    BY <1>6 DEF HandlerSets, Idle
  <2> QED
    BY <2>1 DEF DriverInv, Latest, Idle
<1>7. CASE HandlerClears
  <2>1. UNCHANGED <<driver, queue>> /\ handling' = Idle /\ handling # Idle
    BY <1>7 DEF HandlerClears, Idle
  <2>2. queue = <<>> => "DISCONNECT" \notin bits'
    BY <1>7, <2>1 DEF HandlerClears, OtherBit, DriverInv
  <2> QED
    BY <2>1, <2>2 DEF DriverInv, Latest
<1>8. CASE Joined
  <2>1. queue' = Append(queue, "GOT_IP")
    BY <1>8 DEF Joined
  <2> QED
    BY <2>1, Appends DEF DriverInv, Latest, TypeOK
<1>9. CASE Dropped
  BY <1>9 DEF Dropped
<1> QED
  BY <1>1, <1>2, <1>3, <1>4, <1>5, <1>6, <1>7, <1>8, <1>9 DEF Next, Main, Handler

(***********************************************************************************)
(* After a quiet stop the only events are the disconnection's own: the bit is not  *)
(* set before the handler sets it, and Left waits for that.                        *)
(***********************************************************************************)
LEMMA QuietInvStep == TypeOK /\ DriverInv /\ QuietInv /\ [Next]_vars => QuietInv'
<1> SUFFICES ASSUME TypeOK, DriverInv, QuietInv, [Next]_vars PROVE QuietInv'
  OBVIOUS
<1> USE DEF QuietInv, Pending, Reported
<1>1. CASE ConnectStart
  BY <1>1 DEF ConnectStart, historyVars
<1>2. CASE Connected \/ PollTimesOut \/ InitTime
  BY <1>2 DEF Connected, PollTimesOut, InitTime, Returns, historyVars, groupVars, eventVars
<1>3. CASE Deactivate
  BY <1>3 DEF Deactivate, historyVars, groupVars, eventVars
<1>4. CASE Stop
  <2>1. CASE quietStop'
    <3>1. driver = "ip" /\ queue = <<>> /\ handling = Idle /\ "DISCONNECT" \notin bits
      BY <1>4, <2>1 DEF Stop, DriverInv
    <3>2. queue' = <<"DISCONNECTED">> /\ handling' = Idle /\ UNCHANGED bits
      BY <1>4, <3>1 DEF Stop, groupVars
    <3> QED
      BY <1>4, <3>1, <3>2 DEF Stop, groupVars
  <2>2. CASE ~ quietStop'
    BY <1>4, <2>2 DEF Stop, groupVars
  <2> QED
    BY <2>1, <2>2
<1>5. CASE Left
  BY <1>5 DEF Left, historyVars, groupVars, eventVars
<1>6. CASE GiveUp
  BY <1>6 DEF GiveUp, groupVars, eventVars
<1>7. CASE Delete
  BY <1>7 DEF Delete, historyVars, eventVars
<1>8. CASE OnStart \/ OnGotIp
  BY <1>8 DEF OnStart, OnGotIp, Take, Reconnect, Idle, mainVars, historyVars, groupVars
<1>9. CASE OnDisconnected
  BY <1>9 DEF OnDisconnected, Take, Reconnect, Idle, mainVars, historyVars, groupVars
<1>10. CASE HandlerSets
  BY <1>10 DEF HandlerSets, Idle, mainVars, historyVars
<1>11. CASE HandlerClears
  BY <1>11 DEF HandlerClears, Idle, mainVars, historyVars
<1>12. CASE Joined \/ Dropped \/ TimeArrives
  BY <1>12 DEF Joined, Dropped, TimeArrives, mainVars, historyVars, groupVars, eventVars
<1>13. CASE UNCHANGED vars
  BY <1>13 DEF vars, mainVars, historyVars, groupVars, eventVars
<1> QED
  BY <1>1, <1>2, <1>3, <1>4, <1>5, <1>6, <1>7, <1>8, <1>9, <1>10, <1>11, <1>12, <1>13
     DEF Next, Main, Handler

(***********************************************************************************)
(* wifi_disconnect deletes the event group of a settled connection only after the  *)
(* handler has set its bit, however often the station was thrown out before that.  *)
(***********************************************************************************)
THEOREM ReportedBeforeDeletedHolds == Spec => []ReportedBeforeDeleted
<1>1. Init => DriverInv /\ QuietInv
  BY DEF Init, DriverInv, QuietInv
<1>2. QuietInv => ReportedBeforeDeleted
  BY DEF QuietInv, ReportedBeforeDeleted, Reported
<1>3. TypeInv => TypeOK
  BY DEF TypeInv
<1> QED
  BY <1>1, <1>2, <1>3, TypeInvInit, TypeInvStep, DriverInvStep, QuietInvStep, PTL DEF Spec

-----------------------------------------------------------------------------------
\* Whatever the clients above do, the WiFi makes the steps of Wifi and no other.
LEMMA WifiStep == [NetworkNext]_<<vars, awsVars>> => [Next]_vars
<1> SUFFICES ASSUME [NetworkNext]_<<vars, awsVars>>, ~ UNCHANGED vars PROVE Next
  OBVIOUS
<1>1. CASE Task
  BY <1>1 DEF Task, WifiConnect, UseClients, WifiDisconnect, Next, Main
<1>2. CASE EventTask
  BY <1>2 DEF EventTask, Next
<1>3. CASE Environment
  BY <1>3 DEF Environment, Next
<1> QED
  BY <1>1, <1>2, <1>3 DEF NetworkNext

(***********************************************************************************)
(* The same with the AWS IoT clients above, which keep the task between            *)
(* wifi_connect and wifi_disconnect for as long as they like: Network implements   *)
(* Wifi.                                                                           *)
(***********************************************************************************)
THEOREM WifiInNetwork ==
  NetworkSpec => [](TypeOK /\ TrueMeansTime /\ BitsExclude /\ ReportedBeforeDeleted)
<1>1. NetworkInit => Init
  BY DEF NetworkInit
<1>2. NetworkSpec => Spec
  BY <1>1, WifiStep, PTL DEF NetworkSpec, Spec
<1> QED
  BY <1>2, TypeCorrect, TrueMeansTimeHolds, BitsExcludeHolds, ReportedBeforeDeletedHolds, PTL

-----------------------------------------------------------------------------------
(***********************************************************************************)
(* AwsClient: what aws_mqtt_publish's "true" is worth                              *)
(***********************************************************************************)

\* Every publication that was sent on the open session has arrived or is on its way.
Order ==
  /\ \A i \in received, j \in inflight : i < j
  /\ session = "mqtt" => received \cup inflight = 1..sent
  /\ session # "mqtt" => inflight = {}
  /\ call \notin {"publish", "sleep", "asleep"} => sent = 0
  /\ call = "publish" => sent < Publications

\* The session is lost by a cut or by sleeping, and nothing publishes without one.
Owned == call = "publish" /\ cuts = 0 => session = "mqtt" /\ "mqtt" \in connected

AInv == AwsTypeOK /\ Order /\ NoGaps /\ Owned

USE DEF Clients, Calls

LEMMA AwsInvInit == AwsInit => AInv
<1> SUFFICES ASSUME AwsInit PROVE AInv
  OBVIOUS
<1>1. AwsTypeOK
  <2>1. sync \in BOOLEAN
    BY DEF AwsInit
  <2> QED
    BY BoundsAssumption, <2>1 DEF AwsInit, AwsTypeOK
<1>2. Order /\ NoGaps /\ Owned
  BY DEF AwsInit, Order, NoGaps, Owned
<1> QED
  BY <1>1, <1>2 DEF AInv

-----------------------------------------------------------------------------------
\* The types, action by action; Order bounds the number of publications.
LEMMA AwsTypeStep == AwsTypeOK /\ Order /\ [AwsNext]_awsVars => AwsTypeOK'
<1> SUFFICES ASSUME AwsTypeOK, Order, [AwsNext]_awsVars PROVE AwsTypeOK'
  OBVIOUS
<1> USE BoundsAssumption DEF AwsTypeOK
<1>1. CASE UNCHANGED awsVars
  BY <1>1 DEF awsVars
<1>2. CASE CutNetwork
  BY <1>2 DEF CutNetwork
<1>3. CASE Deliver
  BY <1>3 DEF Deliver, shadow
<1>4. CASE Answer
  BY <1>4 DEF Answer, data
<1>5. CASE ShadowInit \/ ShadowConnect \/ SetAutoreconnect
  BY <1>5 DEF ShadowInit, ShadowConnect, SetAutoreconnect, Open, shadow, data
<1>6. CASE ShadowGet \/ PollAnswered \/ PollReconnects
  BY <1>6 DEF ShadowGet, PollAnswered, PollReconnects, Open, shadow, data
<1>7. CASE PollDone \/ ShadowDisconnect \/ MqttInit
  BY <1>7 DEF PollDone, ShadowDisconnect, MqttInit, shadow, data
<1>8. CASE MqttConnect
  BY <1>8 DEF MqttConnect, Open, shadow
<1>9. CASE MqttRetry
  <2>1. timeout_sec' \in Int /\ timeout_sec' <= InitTimeout
    BY <1>9 DEF MqttRetry
  <2>2. call' \in {"mqtt_connect", "sleep"}
    BY <1>9 DEF MqttRetry
  <2> QED
    BY <1>9, <2>1, <2>2 DEF MqttRetry, shadow, data
<1>10. CASE Publish
  BY <1>10 DEF Publish, Published, Order, shadow
<1>11. CASE PublishFails \/ GoToSleep
  BY <1>11 DEF PublishFails, GoToSleep, shadow, data
<1> QED
  BY <1>1, <1>2, <1>3, <1>4, <1>5, <1>6, <1>7, <1>8, <1>9, <1>10, <1>11 DEF AwsNext, Talk

-----------------------------------------------------------------------------------
(***********************************************************************************)
(* The order, action by action: only Deliver and Publish touch what was sent, and  *)
(* a session is opened only before the first publication.                          *)
(***********************************************************************************)
LEMMA AwsOrderStep == AInv /\ [AwsNext]_awsVars => Order' /\ NoGaps' /\ Owned'
<1> SUFFICES ASSUME AwsTypeOK, Order, NoGaps, Owned, [AwsNext]_awsVars
             PROVE  Order' /\ NoGaps' /\ Owned'
  BY DEF AInv
<1> USE BoundsAssumption DEF AwsTypeOK, Order, NoGaps, Owned
<1>1. CASE UNCHANGED awsVars
  BY <1>1 DEF awsVars
<1>2. CASE CutNetwork
  BY <1>2 DEF CutNetwork
<1>3. CASE Deliver
  <2>1. PICK i \in inflight :
          /\ \A j \in inflight : i <= j
          /\ inflight' = inflight \ {i}
          /\ received' = received \cup {i}
    BY <1>3 DEF Deliver
  <2>2. UNCHANGED <<call, connected, session, sent, cuts>>
    BY <1>3 DEF Deliver
  <2>3. received \cup inflight = 1..sent
    BY <2>1
  <2>4. \A k \in 1..i : k = i \/ k \in received
    BY <2>1, <2>3
  <2>5. NoGaps'
    BY <2>1, <2>4
  <2>6. \A a \in received', b \in inflight' : a < b
    BY <2>1
  <2>7. received' \cup inflight' = 1..sent
    BY <2>1, <2>3
  <2> QED
    BY <2>1, <2>2, <2>5, <2>6, <2>7
<1>4. CASE Answer
  BY <1>4 DEF Answer, data
<1>5. CASE ShadowInit \/ ShadowConnect \/ SetAutoreconnect
  BY <1>5 DEF ShadowInit, ShadowConnect, SetAutoreconnect, Open, shadow, data
<1>6. CASE ShadowGet \/ PollAnswered \/ PollReconnects
  BY <1>6 DEF ShadowGet, PollAnswered, PollReconnects, Open, shadow, data
<1>7. CASE PollDone \/ MqttInit
  BY <1>7 DEF PollDone, MqttInit, shadow, data
<1>8. CASE ShadowDisconnect
  <2>1. sent = 0 /\ inflight = {}
    BY <1>8 DEF ShadowDisconnect
  <2>2. call' \in {"mqtt_init", "sleep"}
    BY <1>8 DEF ShadowDisconnect
  <2> QED
    BY <1>8, <2>1, <2>2 DEF ShadowDisconnect, shadow, data
<1>9. CASE MqttConnect
  <2>1. sent = 0 /\ inflight = {} /\ received = {} /\ 1..sent = {}
    BY <1>9 DEF MqttConnect
  <2>2. sent' = 0 /\ inflight' = {} /\ received' = {}
    BY <1>9, <2>1 DEF MqttConnect, Open
  <2>3. NoGaps' /\ Order'
    <3>1. NoGaps'
      BY <2>2
    <3>2. 1..sent' = {} /\ (call' = "publish" => sent' < Publications)
      BY <2>2
    <3> QED
      BY <1>9, <2>2, <3>2 DEF MqttConnect
  <2>4. Owned'
    BY <1>9 DEF MqttConnect, Open
  <2> QED
    BY <2>3, <2>4
<1>10. CASE MqttRetry
  <2>1. call' \in {"mqtt_connect", "sleep"}
    BY <1>10 DEF MqttRetry
  <2> QED
    BY <1>10, <2>1 DEF MqttRetry, shadow, data
<1>11. CASE Publish
  <2>1. 1..sent + 1 = (1..sent) \cup {sent + 1}
    OBVIOUS
  <2>2. sent' = sent + 1 /\ UNCHANGED <<received, session, connected, cuts>>
    BY <1>11 DEF Publish
  <2>3. call' \in {"publish", "sleep"} /\ (call' = "publish" => sent' < Publications)
    BY <1>11, <2>2 DEF Publish, Published
  <2>4. CASE session = "mqtt"
    <3>1. inflight' = inflight \cup {sent + 1}
      BY <1>11, <2>4 DEF Publish
    <3>2. \A i \in received', j \in inflight' : i < j
      BY <2>2, <3>1
    <3>3. received' \cup inflight' = 1..sent'
      BY <2>1, <2>2, <2>4, <3>1
    <3> QED
      BY <1>11, <2>2, <2>3, <2>4, <3>2, <3>3 DEF Publish
  <2>5. CASE session # "mqtt"
    <3>1. inflight' = inflight
      BY <1>11, <2>5 DEF Publish
    <3> QED
      BY <1>11, <2>2, <2>3, <2>5, <3>1 DEF Publish
  <2> QED
    BY <2>4, <2>5
<1>12. CASE PublishFails \/ GoToSleep
  BY <1>12 DEF PublishFails, GoToSleep, shadow, data
<1> QED
  BY <1>1, <1>2, <1>3, <1>4, <1>5, <1>6, <1>7, <1>8, <1>9, <1>10, <1>11, <1>12 DEF AwsNext, Talk

LEMMA AwsInvHolds == AwsSpec => []AInv
<1>1. AInv /\ [AwsNext]_awsVars => AInv'
  BY AwsTypeStep, AwsOrderStep DEF AInv
<1> QED
  BY AwsInvInit, <1>1, PTL DEF AwsSpec

-----------------------------------------------------------------------------------
(***********************************************************************************)
(* What arrives at the broker is the beginning of what aws_mqtt_publish returned   *)
(* true for, for any number of publications and of cuts at any moment.             *)
(***********************************************************************************)
THEOREM NoGapsHolds == AwsSpec => []NoGaps
<1>1. AInv => NoGaps
  BY DEF AInv
<1> QED
  BY AwsInvHolds, <1>1, PTL

(***********************************************************************************)
(* On a network that was not cut nothing is missing while the task publishes, even *)
(* when the disconnection of the shadow client, whose client ID is the same, has   *)
(* failed.                                                                         *)
(***********************************************************************************)
THEOREM PublishesOnItsSessionHolds == AwsSpec => []PublishesOnItsSession
<1>1. AInv => PublishesOnItsSession
  BY DEF AInv, Owned, Order, PublishesOnItsSession
<1> QED
  BY AwsInvHolds, <1>1, PTL

\* The variables keep their types.
THEOREM AwsTypeCorrect == AwsSpec => []AwsTypeOK
<1>1. AInv => AwsTypeOK
  BY DEF AInv
<1> QED
  BY AwsInvHolds, <1>1, PTL

-----------------------------------------------------------------------------------
\* Whatever the WiFi below does, the clients make the steps of AwsClient and no other.
LEMMA ClientsStep == [NetworkNext]_<<vars, awsVars>> => [AwsNext]_awsVars
<1> SUFFICES ASSUME [NetworkNext]_<<vars, awsVars>>, ~ UNCHANGED awsVars PROVE AwsNext
  OBVIOUS
<1>1. CASE Task
  BY <1>1 DEF Task, WifiConnect, UseClients, WifiDisconnect, AwsNext
<1>2. CASE EventTask
  BY <1>2 DEF EventTask
<1>3. CASE Environment
  BY <1>3 DEF Environment, AwsNext
<1> QED
  BY <1>1, <1>2, <1>3 DEF NetworkNext

(***********************************************************************************)
(* The same with the WiFi below, which is lost and joined again while the clients  *)
(* talk: Network implements AwsClient.                                             *)
(***********************************************************************************)
THEOREM ClientsInNetwork == NetworkSpec => [](AwsTypeOK /\ NoGaps /\ PublishesOnItsSession)
<1>1. NetworkInit => AwsInit
  BY DEF NetworkInit
<1>2. NetworkSpec => AwsSpec
  BY <1>1, ClientsStep, PTL DEF NetworkSpec, AwsSpec
<1> QED
  BY <1>2, AwsTypeCorrect, NoGapsHolds, PublishesOnItsSessionHolds, PTL
===================================================================================
