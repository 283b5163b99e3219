---------------------------------- MODULE BleServer ----------------------------------
(***********************************************************************************)
(* ble/ble_server.c and its use by task_ble_config_wifi_credentials: bringing the  *)
(* Bluetooth stack up, advertising, and the one characteristic phones write their  *)
(* messages to, in one write or, when it is longer than the negotiated MTU allows, *)
(* as prepared writes that an execute write commits.                               *)
(*                                                                                 *)
(* The stack calls the event handlers one after the other, in a task of its own;   *)
(* the order in which its answers to different requests arrive is open.  A byte is *)
(* known by its message and its place in it.  Advertising ends when a phone        *)
(* connects, so there is one phone at a time.  The indication of a write is left   *)
(* out: no caller registers the callback that it needs.                            *)
(***********************************************************************************)
EXTENDS Integers, FiniteSets

CONSTANTS
  Msgs,        \* the messages that phones send
  MsgLen,      \* their lengths in bytes
  MtuMax,      \* the most bytes that one write carries
  BufMax,      \* size of _write_buf, 1024 in the code
  MaxFaults    \* bound: requests that the stack refuses

ASSUME SizesAssumption ==
  /\ MsgLen \in [Msgs -> Nat \ {0}]
  /\ MtuMax \in Nat \ {0}
  /\ BufMax \in Nat /\ BufMax > MtuMax
  /\ MaxFaults \in Nat
ASSUME MsgsAssumption == "None" \notin Msgs

VARIABLES
  main,         \* next call of the pairing task: ble_init, registering its callbacks, waiting
  callbacks,    \* are _write_cb and _read_cb registered?
  events,       \* events the stack is about to deliver
  advConfig,    \* adv_config_done: advertising data that is still being set
  advertising,
  handles,      \* the attributes of _profile whose handle is known: "char", "descr"
  connected,
  sending,      \* the long write of the connected phone: its message, the bytes
                \* transferred, in one or (2) in several prepared writes
  abandoned,    \* history: does _write_buf_len count bytes of an abandoned write?
  writeBuf, writeBufLen,   \* _write_buf and _write_buf_len
  accepted,     \* history: messages that the write callback could parse
  refused       \* history: requests that the stack refused

setupVars == <<main, callbacks, events, advConfig, handles>>
linkVars  == <<advertising, connected, sending, abandoned>>
dataVars  == <<writeBuf, writeBufLen, accepted>>
vars == <<setupVars, linkVars, dataVars, refused>>

NoMsg == [msg |-> "None", at |-> 0, parts |-> 0]

Events == {"REG", "ADV_DATA", "SCAN_RSP", "CREATE", "ADD_CHAR", "ADD_DESCR"}

Requests == Events \cup {"MTU", "START"}

Zero == <<"None", 0>>

Byte(m) == {<<m, k>> : k \in 1..MsgLen[m]}

TypeOK ==
  /\ main \in {"init", "register", "wait"}
  /\ callbacks \in BOOLEAN
  /\ events \subseteq Events
  /\ advConfig \subseteq {"ADV_DATA", "SCAN_RSP"}
  /\ advertising \in BOOLEAN /\ connected \in BOOLEAN
  /\ handles \subseteq {"char", "descr"}
  /\ \/ sending = NoMsg
     \/ \E m \in Msgs : sending \in [msg : {m}, at : 1..MsgLen[m], parts : 1..2]
  /\ abandoned \in BOOLEAN
  /\ writeBuf \in [1..BufMax -> {Zero} \cup UNION {Byte(m) : m \in Msgs}]
  /\ writeBufLen \in 0..BufMax
  /\ accepted \subseteq Msgs
  /\ refused \subseteq Requests

Init ==
  /\ main = "init" /\ callbacks = FALSE
  /\ events = {} /\ advConfig = {} /\ handles = {}
  /\ advertising = FALSE /\ connected = FALSE
  /\ sending = NoMsg /\ abandoned = FALSE
  /\ writeBuf = [i \in 1..BufMax |-> Zero] /\ writeBufLen = 0
  /\ accepted = {}
  /\ refused = {}

\* The stack does as it is asked, or refuses the requests of a set.
Works == UNCHANGED refused
Refuses(requests) ==
  /\ refused' = refused \cup requests
  /\ Cardinality(refused') <= MaxFaults

-----------------------------------------------------------------------------------
(***********************************************************************************)
(* The pairing task                                                                *)
(***********************************************************************************)

\* ble_init.  Of its calls only the last two, the registration that brings REG and
\* the setting of the MTU, can fail with something done; its callers go on anyway.
BleInit ==
  /\ main = "init"
  /\ main' = "register"
  /\ \/ Works /\ events' = {"REG"}
     \/ Refuses({"REG"}) /\ UNCHANGED events
     \/ Refuses({"MTU"}) /\ events' = {"REG"}
  /\ UNCHANGED <<callbacks, advConfig, handles, linkVars, dataVars>>

\* ble_register_write_callback and ble_register_read_callback, whatever ble_init returned
RegisterCallbacks ==
  /\ main = "register"
  /\ main' = "wait"
  /\ callbacks' = TRUE
  /\ UNCHANGED <<events, advConfig, handles, linkVars, dataVars, refused>>

-----------------------------------------------------------------------------------
(***********************************************************************************)
(* Events of the stack                                                             *)
(***********************************************************************************)

Handle(e) == e \in events /\ UNCHANGED <<main, callbacks>>

(***********************************************************************************)
(* ESP_GATTS_REG_EVT requests the two sets of advertising data and the service.    *)
(* A refused request is only logged: its flag is set all the same.                 *)
(***********************************************************************************)
OnRegister ==
  /\ Handle("REG")
  /\ \E s \in SUBSET {"ADV_DATA", "SCAN_RSP", "CREATE"} :
       /\ Refuses(s)
       /\ events' = (events \ {"REG"}) \cup ({"ADV_DATA", "SCAN_RSP", "CREATE"} \ s)
  /\ advConfig' = advConfig \cup {"ADV_DATA", "SCAN_RSP"}
  /\ UNCHANGED <<handles, linkVars, dataVars>>

\* The two ..._DATA_SET_COMPLETE_EVT: the later one starts advertising.
OnAdvData(e) ==
  /\ Handle(e)
  /\ events' = events \ {e}
  /\ advConfig' = advConfig \ {e}
  /\ \/ /\ Works
        /\ advertising' = IF advConfig' = {} THEN TRUE ELSE advertising
     \/ /\ advConfig' = {}
        /\ Refuses({"START"})
        /\ UNCHANGED advertising
  /\ UNCHANGED <<handles, connected, sending, abandoned, dataVars>>

\* ESP_GATTS_CREATE_EVT asks for the characteristic, which asks for its descriptor.
OnCreate ==
  /\ Handle("CREATE")
  /\ \/ Works /\ events' = (events \ {"CREATE"}) \cup {"ADD_CHAR"}
     \/ Refuses({"ADD_CHAR"}) /\ events' = events \ {"CREATE"}
  /\ UNCHANGED <<advConfig, handles, linkVars, dataVars>>

\* Mutant of OnAddChar: the handle is not kept.
OnAddCharForgets ==
  /\ Handle("ADD_CHAR")
  /\ \/ Works /\ events' = (events \ {"ADD_CHAR"}) \cup {"ADD_DESCR"}
     \/ Refuses({"ADD_DESCR"}) /\ events' = events \ {"ADD_CHAR"}
  /\ UNCHANGED <<advConfig, handles, linkVars, dataVars>>

OnAddChar ==
  /\ Handle("ADD_CHAR")
  /\ handles' = handles \cup {"char"}
  /\ \/ Works /\ events' = (events \ {"ADD_CHAR"}) \cup {"ADD_DESCR"}
     \/ Refuses({"ADD_DESCR"}) /\ events' = events \ {"ADD_CHAR"}
  /\ UNCHANGED <<advConfig, linkVars, dataVars>>

OnAddDescr ==
  /\ Handle("ADD_DESCR")
  /\ handles' = handles \cup {"descr"}
  /\ events' = events \ {"ADD_DESCR"}
  /\ Works
  /\ UNCHANGED <<advConfig, linkVars, dataVars>>

-----------------------------------------------------------------------------------
(***********************************************************************************)
(* Phones                                                                          *)
(***********************************************************************************)

Connect ==
  /\ advertising
  /\ connected' = TRUE /\ advertising' = FALSE
  /\ UNCHANGED <<setupVars, sending, abandoned, dataVars, refused>>

\* The phone goes, or is lost, also in the middle of a long write.
Leaves ==
  /\ connected
  /\ connected' = FALSE
  /\ sending' = NoMsg
  /\ abandoned' = IF sending # NoMsg THEN TRUE ELSE abandoned

\* Mutant of Disconnect: advertising is not started again.
DisconnectQuietly ==
  /\ Leaves
  /\ Works
  /\ UNCHANGED <<setupVars, advertising, dataVars>>

\* ESP_GATTS_DISCONNECT_EVT
Disconnect ==
  /\ Leaves
  /\ \/ Works /\ advertising' = TRUE
     \/ Refuses({"START"}) /\ UNCHANGED advertising
  /\ UNCHANGED <<setupVars, dataVars>>

(***********************************************************************************)
(* _ble_write_callback on _write_buf: the JSON parser ignores the length it could  *)
(* be given and reads up to the first zero byte.  What a longer piece has left     *)
(* behind the message may or may not make it reject the whole.                     *)
(***********************************************************************************)
HoldsMessage(m) == \A k \in 1..MsgLen[m] : writeBuf[k] = <<m, k>>
NothingBehind(m) == \A i \in MsgLen[m] + 1..BufMax : writeBuf[i] = Zero

WriteCallback ==
  LET held == {m \in Msgs : callbacks /\ HoldsMessage(m)} IN
    \/ accepted' = accepted \cup held
    \/ (\E m \in held : ~ NothingBehind(m)) /\ UNCHANGED accepted

\* ESP_GATTS_WRITE_EVT of a message that fits into one write; the bytes that follow
\* it in memory are the stack's, and the parser reads on in them, too.
Write(m) ==
  /\ connected /\ "char" \in handles
  /\ sending = NoMsg
  /\ MsgLen[m] <= MtuMax
  /\ accepted' \in {accepted, IF callbacks THEN accepted \cup {m} ELSE accepted}
  /\ UNCHANGED <<setupVars, linkVars, writeBuf, writeBufLen, refused>>

\* The next n bytes of m leave the phone.
Transfers(m, n) ==
  /\ connected /\ "char" \in handles
  /\ sending.msg \in {m, "None"}
  /\ sending.at + n <= MsgLen[m]
  /\ sending' = [msg |-> m, at |-> sending.at + n, parts |-> IF sending = NoMsg THEN 1 ELSE 2]
  /\ UNCHANGED <<setupVars, advertising, connected, abandoned, accepted, refused>>

CopyToStart(m, n) ==
  writeBuf' = [i \in 1..BufMax |-> IF i <= n THEN <<m, sending.at + i>> ELSE writeBuf[i]]

\* Mutant of PrepareWrite: the bytes that are in the buffer are not reckoned with.
PrepareWriteUnbounded(m, n) ==
  /\ Transfers(m, n)
  /\ CopyToStart(m, n)
  /\ writeBufLen' = writeBufLen + n

(***********************************************************************************)
(* ESP_GATTS_WRITE_EVT with is_prep: the bytes go to the start of _write_buf, while *)
(* _write_buf_len counts all of them; when it would exceed the buffer they are     *)
(* dropped, and acknowledged all the same.                                         *)
(***********************************************************************************)
PrepareWrite(m, n) ==
  /\ Transfers(m, n)
  /\ IF writeBufLen + n <= BufMax
       THEN CopyToStart(m, n) /\ writeBufLen' = writeBufLen + n
       ELSE UNCHANGED <<writeBuf, writeBufLen>>

\* The long write of the connected phone is over, one way or the other.
EndsWrite ==
  /\ connected /\ sending # NoMsg
  /\ sending' = NoMsg
  /\ abandoned' = FALSE
  /\ UNCHANGED <<setupVars, advertising, connected, writeBuf, refused>>

(***********************************************************************************)
(* ESP_GATTS_EXEC_WRITE_EVT: a phone that has transferred its message executes the *)
(* write, one that has not may cancel it.                                          *)
(***********************************************************************************)
ExecuteWrite ==
  /\ EndsWrite
  /\ sending.at = MsgLen[sending.msg]
  /\ IF writeBufLen # 0 THEN WriteCallback ELSE UNCHANGED accepted
  /\ writeBufLen' = 0

\* Mutant of CancelWrite: the length is not reset.
CancelWriteKeepsLength ==
  /\ EndsWrite
  /\ sending.at < MsgLen[sending.msg]
  /\ UNCHANGED <<writeBufLen, accepted>>

CancelWrite ==
  /\ EndsWrite
  /\ sending.at < MsgLen[sending.msg]
  /\ writeBufLen' = 0
  /\ UNCHANGED accepted

-----------------------------------------------------------------------------------
Stack ==
  \/ OnRegister \/ OnAdvData("ADV_DATA") \/ OnAdvData("SCAN_RSP")
  \/ OnCreate \/ OnAddChar \/ OnAddDescr

\* What a phone does that is connected.
Visit ==
  \/ Disconnect
  \/ \E m \in Msgs : Write(m) \/ \E n \in 1..MtuMax : PrepareWrite(m, n)
  \/ ExecuteWrite \/ CancelWrite

Next == BleInit \/ RegisterCallbacks \/ Stack \/ Connect \/ Visit

\* The pairing task runs and the stack delivers its events; phones owe nothing.
Spec == Init /\ [][Next]_vars /\ WF_vars(BleInit \/ RegisterCallbacks) /\ WF_vars(Stack)

-----------------------------------------------------------------------------------
(***********************************************************************************)
(* A long write whose message came in one piece is passed on when it is executed,  *)
(* however many writes were cancelled or executed before it; only bytes of a       *)
(* longer piece behind it, or bytes that phones abandoned by disconnecting and     *)
(* that still fill the buffer, may prevent it.                                     *)
(***********************************************************************************)
OnePieceArrives ==
  [][ ExecuteWrite /\ callbacks /\ sending.parts = 1 /\ ~ abandoned /\ NothingBehind(sending.msg)
        => sending.msg \in accepted' ]_vars

(***********************************************************************************)
(* Whatever the order in which the stack answers, phones can find the Peep: it     *)
(* advertises or has a phone connected, now or soon, unless the stack refused      *)
(* what advertising needs.                                                         *)
(***********************************************************************************)
CanBeFound ==
  []<>(advertising \/ connected \/ refused \cap {"REG", "ADV_DATA", "SCAN_RSP", "START"} # {})

(***********************************************************************************)
(* ble_server.c:375, "All data has been transfered. Execute on data": executing a  *)
(* long write passes its message on.                                               *)
(***********************************************************************************)
ExecutesTheData ==
  [][ ExecuteWrite /\ callbacks => sending.msg \in accepted' ]_vars
===================================================================================
