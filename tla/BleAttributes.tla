-------------------------------- MODULE BleAttributes --------------------------------
(***********************************************************************************)
(* What phones read of ble/ble_server.c: the characteristic, which the read        *)
(* callback of the pairing task answers with the UUID, and its client              *)
(* configuration descriptor, which they also write.  Added to BleServer: bringing  *)
(* the stack up, connections and writes of the characteristic are as there.        *)
(***********************************************************************************)
EXTENDS BleServer

CONSTANT Values    \* 16-bit values that phones write to the descriptor

MaxValue == 65535  \* of 16 bits

ASSUME ValuesAssumption == Values \subseteq 0..MaxValue

VARIABLES
  table,        \* the attributes that phones find: "char", "descr"
  descr_value,  \* _profile.descr_value
  wrote,        \* history: what the connected phone has written to the descriptor
  response      \* the response sent in this step

attributesVars == <<table, descr_value, wrote, response>>
allVars == <<vars, attributesVars>>

\* text is what a response holds of the characteristic, value of the descriptor.
Response(status, text, value) == [status |-> status, text |-> text, value |-> value]

NoResponse == Response("none", "", 0)

AttributesTypeOK ==
  /\ TypeOK
  /\ handles \subseteq table /\ table \subseteq {"char", "descr"}
  /\ descr_value \in 0..MaxValue /\ wrote \in Values \cup {0}
  /\ response.status \in {"none", "OK", "INVALID_HANDLE", "INVALID_CFG"}
  /\ response.text \in {"", "uuid"} /\ response.value \in 0..MaxValue

AttributesInit ==
  /\ Init
  /\ table = {}
  /\ descr_value = 0 /\ wrote = 0
  /\ response = NoResponse

-----------------------------------------------------------------------------------
\* The stack adds an attribute when it is asked to, before it posts the event that
\* tells the handle.
Added == table' = table \cup {IF e = "ADD_CHAR" THEN "char" ELSE "descr" :
                                e \in events' \cap {"ADD_CHAR", "ADD_DESCR"}}

\* Mutant of ConnectAnew: the descriptor is left as the phone before left it.
ConnectKeepsDescriptor ==
  /\ Connect
  /\ wrote' = 0 /\ response' = NoResponse
  /\ UNCHANGED <<table, descr_value>>

\* ESP_GATTS_CONNECT_EVT
ConnectAnew ==
  /\ Connect
  /\ descr_value' = 0
  /\ wrote' = 0 /\ response' = NoResponse
  /\ UNCHANGED table

Responds(status, text, value) ==
  /\ response' = Response(status, text, value)
  /\ UNCHANGED <<vars, table>>

\* A write of both bytes; a prepared one takes effect as well, executed or not.
WriteDescriptor(v) ==
  /\ connected /\ "descr" \in table
  /\ IF "descr" \in handles
       THEN descr_value' = v /\ wrote' = v /\ Responds("OK", "", 0)
       ELSE UNCHANGED <<descr_value, wrote>> /\ Responds("INVALID_HANDLE", "", 0)

\* A write of any other number of bytes.
WriteDescriptorCut ==
  /\ connected /\ "descr" \in table
  /\ Responds(IF "descr" \in handles THEN "INVALID_CFG" ELSE "INVALID_HANDLE", "", 0)
  /\ UNCHANGED <<descr_value, wrote>>

(***********************************************************************************)
(* value[0] and value[1] of the response: 8 bits of descr_value << 0 and << 8.     *)
(* The second is always 0: it is shifted up where it would have to go down.        *)
(***********************************************************************************)
ValueRead == (descr_value % 256) + 256 * ((descr_value * 256) % 256)

ReadDescriptor ==
  /\ connected /\ "descr" \in table
  /\ IF "descr" \in handles THEN Responds("OK", "", ValueRead)
                            ELSE Responds("INVALID_HANDLE", "", 0)
  /\ UNCHANGED <<descr_value, wrote>>

\* _ble_read_callback, once it is registered, answers with the UUID.
ReadCharacteristic ==
  /\ connected /\ "char" \in table
  /\ IF "char" \in handles THEN Responds("OK", IF callbacks THEN "uuid" ELSE "", 0)
                           ELSE Responds("INVALID_HANDLE", "", 0)
  /\ UNCHANGED <<descr_value, wrote>>

-----------------------------------------------------------------------------------
\* The steps of BleServer that leave the descriptor alone.
Quietly(step) == step /\ Added /\ response' = NoResponse /\ UNCHANGED <<descr_value, wrote>>

AttributesNext ==
  \/ Quietly(BleInit) \/ Quietly(RegisterCallbacks) \/ Quietly(Stack) \/ Quietly(Visit)
  \/ ConnectAnew
  \/ (\E v \in Values : WriteDescriptor(v)) \/ WriteDescriptorCut
  \/ ReadDescriptor \/ ReadCharacteristic

\* As in BleServer: the pairing task runs and the stack delivers its events.
AttributesSpec ==
  /\ AttributesInit /\ [][AttributesNext]_allVars
  /\ WF_allVars(Quietly(BleInit \/ RegisterCallbacks))
  /\ WF_allVars(Quietly(Stack))

-----------------------------------------------------------------------------------
(***********************************************************************************)
(* A phone reads of the descriptor what it has written itself since it connected,  *)
(* as far as the two bits go that have a meaning, and never what a phone before it *)
(* subscribed to.                                                                  *)
(***********************************************************************************)
ReadsItsOwn ==
  [][ ReadDescriptor /\ "descr" \in handles => response'.value % 4 = wrote % 4 ]_allVars

(***********************************************************************************)
(* The UUID can be read in the end: the refusals and empty answers that a phone    *)
(* gets while the handles are on their way and the callback is not registered yet  *)
(* do not last.                                                                    *)
(***********************************************************************************)
UuidIsRead == <>[][ ReadCharacteristic => response'.text = "uuid" ]_allVars
===================================================================================
