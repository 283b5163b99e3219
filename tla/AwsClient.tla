--------------------------------- MODULE AwsClient ---------------------------------
(***********************************************************************************)
(* The two AWS IoT clients of a measuring boot, as task_measure uses them one      *)
(* after the other: aws_mqtt_shadow gets the shadow document, aws_mqtt publishes.  *)
(* Both connect with the UUID of the Peep as their client ID, so the broker keeps  *)
(* one session for the two of them: whoever connects ends the session of the       *)
(* other.  Publications have QoS 0: aws_mqtt_publish returns when they have been   *)
(* handed to the socket.                                                           *)
(*                                                                                 *)
(* The library and the network are external: a call of the library succeeds or    *)
(* fails, the network may be cut without anybody noticing, and a client that has   *)
(* lost its connection learns it in aws_iot_shadow_yield or by a failing write.    *)
(***********************************************************************************)
EXTENDS Integers

CONSTANTS
  InitTimeout,  \* timeout_sec of aws_mqtt_init: its attempts, one second apart
  Publications, \* a measurement and the backlog behind it
  MaxCuts       \* bound on the cuts of the network

ASSUME BoundsAssumption ==
  /\ InitTimeout \in Int
  /\ Publications \in Nat \ {0}
  /\ MaxCuts \in Nat

VARIABLES
  call,         \* the call that task_measure makes next
  timeout_sec,  \* the parameter that aws_mqtt_init counts down
  connected,    \* the clients that the library takes for connected
  session,      \* the client whose connection to the broker is open, or "none"
  answer,       \* the answer to the get: what the broker has of it
  sync,         \* SYNC_BIT: _shadow_callback got a configuration
  sent,         \* publications that aws_mqtt_publish returned true for
  inflight,     \* those on their way to the broker
  received,     \* those that arrived
  cuts          \* cuts so far

awsVars == <<call, timeout_sec, connected, session, answer, sync, sent, inflight,
          received, cuts>>

shadow == <<answer, sync>>
data == <<sent, inflight, received>>

Clients == {"shadow", "mqtt"}
Calls == {"shadow_init", "shadow_connect", "shadow_auto", "shadow_get", "shadow_poll",
        "shadow_disconnect", "mqtt_init", "mqtt_connect", "mqtt_retry",
        "publish", "sleep", "asleep", "trap"}

AwsTypeOK ==
  /\ call \in Calls
  /\ timeout_sec \in Int /\ timeout_sec <= InitTimeout
  /\ connected \subseteq Clients
  /\ sync \in BOOLEAN
  /\ session \in Clients \cup {"none"}
  /\ answer \in {"none", "asked", "usable", "useless", "rejected", "over"}
  /\ sent \in 0..Publications
  /\ inflight \subseteq 1..sent /\ received \subseteq 1..sent
  /\ cuts \in 0..MaxCuts

AwsInit ==
  /\ call = "shadow_init"
  /\ timeout_sec = InitTimeout
  /\ connected = {}
  /\ session = "none"
  /\ answer = "none"
  /\ sync = FALSE
  /\ sent = 0 /\ inflight = {} /\ received = {}
  /\ cuts = 0

-----------------------------------------------------------------------------------
(***********************************************************************************)
(* The network and the broker                                                      *)
(***********************************************************************************)

\* A connection is up: the session of the other client, if it has one, is closed.
Open(c) == session' = c /\ connected' = connected \cup {c} /\ inflight' = {}

\* Whatever is under way is lost; neither client notices.
CutNetwork ==
  /\ cuts < MaxCuts /\ session # "none"
  /\ session' = "none"
  /\ inflight' = {}
  /\ \/ answer \in {"none", "asked"} /\ UNCHANGED answer
     \/ answer # "none" /\ answer' = "over"
  /\ cuts' = cuts + 1
  /\ UNCHANGED <<call, timeout_sec, connected, sync, sent, received>>

\* TCP delivers in order.
Deliver ==
  /\ \E i \in inflight :
       /\ \A j \in inflight : i <= j
       /\ inflight' = inflight \ {i}
       /\ received' = received \cup {i}
  /\ UNCHANGED <<call, timeout_sec, connected, session, shadow, sent, cuts>>

\* The shadow service answers with a document, usable or not, or rejects the get.
Answer ==
  /\ session = "shadow" /\ answer = "asked"
  /\ answer' \in {"usable", "useless", "rejected"}
  /\ UNCHANGED <<call, timeout_sec, connected, session, sync, data, cuts>>

-----------------------------------------------------------------------------------
(***********************************************************************************)
(* aws_mqtt_shadow_init, which does not use its timeout_sec, shadow_get and poll   *)
(***********************************************************************************)

ShadowInit ==
  /\ call = "shadow_init"
  /\ call' \in {"shadow_connect", "sleep"}
  /\ UNCHANGED <<timeout_sec, connected, session, shadow, data, cuts>>

ShadowConnect ==
  /\ call = "shadow_connect"
  /\ \/ Open("shadow") /\ call' = "shadow_auto"
     \/ call' = "sleep" /\ UNCHANGED <<connected, session, inflight>>
  /\ UNCHANGED <<timeout_sec, shadow, sent, received, cuts>>

(***********************************************************************************)
(* aws_iot_shadow_set_autoreconnect_status: from here on the client reconnects by  *)
(* itself.  A failure leaves the connection open.                                  *)
(***********************************************************************************)
SetAutoreconnect ==
  /\ call = "shadow_auto"
  /\ call' \in {"shadow_get", "sleep"}
  /\ UNCHANGED <<timeout_sec, connected, session, shadow, data, cuts>>

\* A get that fails skips the poll loop, but not the disconnection.
ShadowGet ==
  /\ call = "shadow_get"
  /\ \/ /\ answer' = IF session = "shadow" THEN "asked" ELSE "over"
        /\ call' = "shadow_poll"
     \/ call' = "shadow_disconnect" /\ UNCHANGED answer
  /\ UNCHANGED <<timeout_sec, connected, session, sync, data, cuts>>

\* The library hands _shadow_get_cb an answer, or its timeout; only the first one.
PollAnswered ==
  /\ call = "shadow_poll"
  /\ answer \in {"asked", "usable", "useless", "rejected"}
  /\ sync' = (answer = "usable")
  /\ answer' = "over"
  /\ UNCHANGED <<call, timeout_sec, connected, session, data, cuts>>

\* A yield notices the end of the connection and, maybe after some time, reconnects.
PollReconnects ==
  /\ call = "shadow_poll"
  /\ session # "shadow"
  /\ \/ Open("shadow")
     \/ connected' = connected \ {"shadow"} /\ UNCHANGED <<session, inflight>>
  /\ UNCHANGED <<call, timeout_sec, shadow, sent, received, cuts>>

\* The loop ends on SYNC_BIT alone.
PollDone ==
  /\ call = "shadow_poll"
  /\ sync
  /\ call' = "shadow_disconnect"
  /\ UNCHANGED <<timeout_sec, connected, session, shadow, data, cuts>>

(***********************************************************************************)
(* The configuration is saved, and the shadow client disconnected.  The result is  *)
(* ignored: when the call fails the broker may keep the session.  After a get that *)
(* failed r is false, and the rest of the boot is skipped.                         *)
(***********************************************************************************)
ShadowDisconnect ==
  /\ call = "shadow_disconnect"
  /\ connected' = connected \ {"shadow"}
  /\ session' \in {session, "none"}
  /\ call' = IF sync THEN "mqtt_init" ELSE "sleep"
  /\ UNCHANGED <<timeout_sec, shadow, data, cuts>>

-----------------------------------------------------------------------------------
(***********************************************************************************)
(* aws_mqtt_init and aws_mqtt_publish                                              *)
(***********************************************************************************)

\* aws_iot_mqtt_init; its failure is a trap, after which this boot does nothing.
MqttInit ==
  /\ call = "mqtt_init"
  /\ call' \in {"mqtt_connect", "trap"}
  /\ UNCHANGED <<timeout_sec, connected, session, shadow, data, cuts>>

\* aws_iot_mqtt_connect, in a do-while loop.
MqttConnect ==
  /\ call = "mqtt_connect"
  /\ \/ Open("mqtt") /\ call' = "publish"
     \/ call' = "mqtt_retry" /\ UNCHANGED <<connected, session, inflight>>
  /\ UNCHANGED <<timeout_sec, shadow, sent, received, cuts>>

\* Mutant of MqttRetry: timeout_sec is not counted down.
MqttRetryForEver ==
  /\ call = "mqtt_retry"
  /\ call' = IF timeout_sec > 0 THEN "mqtt_connect" ELSE "sleep"
  /\ UNCHANGED <<timeout_sec, connected, session, shadow, data, cuts>>

\* Mutant of MqttRetry: r is what it was before the loop, true.
MqttRetryTrue ==
  /\ call = "mqtt_retry"
  /\ timeout_sec' = timeout_sec - 1
  /\ call' = IF timeout_sec' > 0 THEN "mqtt_connect" ELSE "publish"
  /\ UNCHANGED <<connected, session, shadow, data, cuts>>

\* Its condition, a second later: aws_mqtt_init returns false when the time is over.
MqttRetry ==
  /\ call = "mqtt_retry"
  /\ timeout_sec' = timeout_sec - 1
  /\ call' = IF timeout_sec' > 0 THEN "mqtt_connect" ELSE "sleep"
  /\ UNCHANGED <<connected, session, shadow, data, cuts>>

\* Mutant of Published: the loop over the backlog makes one pass too many.
PublishedOneMore == IF sent' > Publications THEN "sleep" ELSE "publish"

Published == IF sent' = Publications THEN "sleep" ELSE "publish"

\* Mutant of Publish: a connection that has ended is opened again, as _disconnect_cb does.
PublishReconnects ==
  /\ call = "publish" /\ "mqtt" \in connected
  /\ session' = "mqtt"
  /\ sent' = sent + 1
  /\ inflight' = inflight \cup {sent + 1}
  /\ call' = Published
  /\ UNCHANGED <<timeout_sec, connected, shadow, received, cuts>>

(***********************************************************************************)
(* aws_mqtt_publish hands the message to the socket.  On a connection that is gone *)
(* the write may still succeed.                                                    *)
(***********************************************************************************)
Publish ==
  /\ call = "publish" /\ "mqtt" \in connected
  /\ sent' = sent + 1
  /\ inflight' = IF session = "mqtt" THEN inflight \cup {sent + 1} ELSE inflight
  /\ call' = Published
  /\ UNCHANGED <<timeout_sec, connected, session, shadow, received, cuts>>

\* aws_mqtt_publish returns false and _publish_measurements gives up; or the hatch is over.
PublishFails ==
  /\ call = "publish"
  /\ call' = "sleep"
  /\ UNCHANGED <<timeout_sec, connected, session, shadow, data, cuts>>

\* wifi_disconnect and deep sleep, without aws_mqtt_disconnect.
GoToSleep ==
  /\ call = "sleep"
  /\ call' = "asleep"
  /\ connected' = {} /\ session' = "none" /\ inflight' = {}
  /\ UNCHANGED <<timeout_sec, shadow, sent, received, cuts>>

-----------------------------------------------------------------------------------
Talk ==
  \/ ShadowInit \/ ShadowConnect \/ SetAutoreconnect
  \/ ShadowGet \/ PollAnswered \/ PollReconnects \/ PollDone \/ ShadowDisconnect
  \/ MqttInit \/ MqttConnect \/ MqttRetry \/ Publish \/ PublishFails

AwsNext == Talk \/ GoToSleep \/ CutNetwork \/ Deliver \/ Answer

\* Safety alone: Network adds the WiFi below and the fairness of the task.
AwsSpec == AwsInit /\ [][AwsNext]_awsVars

-----------------------------------------------------------------------------------
(***********************************************************************************)
(* What arrived is the beginning of what was sent: once a publication is lost no   *)
(* later one arrives, because nothing reconnects between two publications.  So the *)
(* measurement of this boot, which is sent first, is there whenever any record of  *)
(* the backlog is, and a backlog never has a hole.                                 *)
(***********************************************************************************)
NoGaps == \A i \in received : 1..i \subseteq received

(***********************************************************************************)
(* A publication that aws_mqtt_publish returned true for is lost only by a cut of  *)
(* the network, or by deep sleep: while the task publishes on a network that was   *)
(* never cut, the session is its own, whatever became of the disconnection of the  *)
(* shadow client that has the same client ID, and nothing is missing.              *)
(***********************************************************************************)
PublishesOnItsSession ==
  call = "publish" /\ cuts = 0 =>
    /\ session = "mqtt" /\ "mqtt" \in connected
    /\ received \cup inflight = 1..sent
===================================================================================
