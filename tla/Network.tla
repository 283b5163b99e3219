---------------------------------- MODULE Network ----------------------------------
(***********************************************************************************)
(* The network of a measuring boot: the WiFi below (Wifi) and the AWS IoT clients  *)
(* above it (AwsClient), as task_measure calls them in turn.  wifi_connect either  *)
(* fails, and the boot measures for its flash only, or it returns true and the     *)
(* clients talk; wifi_disconnect ends both.  While the task is in a client the     *)
(* station may lose the access point and the event handler may join again.         *)
(***********************************************************************************)
EXTENDS Wifi, AwsClient

NetworkInit == Init /\ AwsInit

\* r && !is_local_measure.
Online == pc = "online" /\ result = "true"

WifiConnect ==
  /\ ConnectStart \/ Connected \/ PollTimesOut \/ InitTime
  /\ UNCHANGED awsVars

\* A connection to the broker is opened only while the station has an address.
UseClients ==
  /\ Online
  /\ Talk
  /\ session' \notin {session, "none"} => driver = "ip"
  /\ UNCHANGED vars

\* After the clients; esp_wifi_stop takes the connection of the last one with it.
WifiDisconnect ==
  \/ /\ Deactivate
     /\ result = "true" => call = "sleep"
     /\ UNCHANGED awsVars
  \/ Stop /\ (GoToSleep \/ (result = "false" /\ UNCHANGED awsVars))
  \/ (Left \/ GiveUp \/ Delete) /\ UNCHANGED awsVars

Task == WifiConnect \/ UseClients \/ WifiDisconnect

EventTask == Handler /\ UNCHANGED awsVars

\* TCP may outlive a short absence from the access point, or it may not.
Environment ==
  \/ (Joined \/ TimeArrives) /\ UNCHANGED awsVars
  \/ Dropped /\ (CutNetwork \/ UNCHANGED awsVars)
  \/ CutNetwork /\ UNCHANGED vars
  \/ driver = "ip" /\ (Deliver \/ Answer) /\ UNCHANGED vars

NetworkNext == Task \/ EventTask \/ Environment

(***********************************************************************************)
(* The calling task and the system event task are scheduled.  Nothing is owed by   *)
(* the access point, the time server, the network, the broker or the shadow        *)
(* service.                                                                        *)
(***********************************************************************************)
NetworkSpec ==
  /\ NetworkInit /\ [][NetworkNext]_<<vars, awsVars>>
  /\ WF_<<vars, awsVars>>(Task) /\ WF_<<vars, awsVars>>(EventTask)

-----------------------------------------------------------------------------------
(***********************************************************************************)
(* Every boot gets through its network calls to deep sleep, whatever access point, *)
(* time server and broker do; but for the two places where task_measure waits      *)
(* without a timeout: the poll loop, which ends on SYNC_BIT alone, and the trap of *)
(* aws_mqtt_init.                                                                  *)
(***********************************************************************************)
BootEnds == <>(pc = "done") \/ <>[](call = "shadow_poll") \/ <>[](call = "trap")
===================================================================================
