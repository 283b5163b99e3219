------------------------------ MODULE BleServer_proofs ------------------------------
(***********************************************************************************)
(* The safety properties of BleServer and BleAttributes, for all messages, sizes   *)
(* of the buffer and numbers of refused requests.  A step of BleAttributes is one  *)
(* of BleServer or leaves its variables alone (StackSteps), so what the steps of   *)
(* BleServer preserve holds in both.                                               *)
(***********************************************************************************)
EXTENDS BleAttributes, TLAPS

LEMMA StackSteps == AttributesNext => [Next]_vars
  BY DEF AttributesNext, Quietly, ConnectAnew, WriteDescriptor, WriteDescriptorCut,
         ReadDescriptor, ReadCharacteristic, Responds, Next

(***********************************************************************************)
(* Types                                                                           *)
(***********************************************************************************)

Bytes == {Zero} \cup UNION {Byte(m) : m \in Msgs}

Sendings == [msg : Msgs, at : Nat \ {0}, parts : 1..2]

LEMMA SendingTypes ==
  ASSUME TypeOK
  PROVE  \/ sending = NoMsg
         \/ /\ sending \in Sendings /\ sending.msg \in Msgs
            /\ sending.at \in 1..MsgLen[sending.msg] /\ sending # NoMsg
<1>1. CASE sending = NoMsg
  BY <1>1
<1>2. CASE sending # NoMsg
  <2>1. PICK m \in Msgs : sending \in [msg : {m}, at : 1..MsgLen[m], parts : 1..2]
    BY <1>2 DEF TypeOK
  <2>2. MsgLen[m] \in Nat
    BY SizesAssumption
  <2> QED
    BY <1>2, <2>1, <2>2 DEF Sendings
<1> QED
  BY <1>1, <1>2

LEMMA TypeOKInit == Init => TypeOK
<1> SUFFICES ASSUME Init PROVE TypeOK
  OBVIOUS
<1>1. writeBuf \in [1..BufMax -> Bytes] /\ writeBufLen \in 0..BufMax
  BY SizesAssumption DEF Init, Bytes
<1>2. sending = NoMsg
  BY DEF Init
<1>3. /\ main \in {"init", "register", "wait"} /\ callbacks \in BOOLEAN
      /\ events \subseteq Events /\ advConfig \subseteq {"ADV_DATA", "SCAN_RSP"}
      /\ advertising \in BOOLEAN /\ connected \in BOOLEAN /\ handles \subseteq {"char", "descr"}
      /\ abandoned \in BOOLEAN /\ accepted \subseteq Msgs /\ refused \subseteq Requests
  BY DEF Init
<1> QED
  BY <1>1, <1>2, <1>3 DEF TypeOK, Bytes

\* What a prepared write adds is a byte of its message.
LEMMA PrepareWriteTypes ==
  ASSUME TypeOK, NEW m \in Msgs, NEW n \in 1..MtuMax, PrepareWrite(m, n)
  PROVE  TypeOK'
<1>1. MsgLen[m] \in Nat \ {0} /\ MtuMax \in Nat /\ BufMax \in Nat /\ n \in Nat /\ n > 0
  BY SizesAssumption
<1>2. /\ sending.msg \in {m, "None"} /\ sending.at + n <= MsgLen[m]
      /\ sending' = [msg |-> m, at |-> sending.at + n, parts |-> IF sending = NoMsg THEN 1 ELSE 2]
      /\ UNCHANGED <<setupVars, advertising, connected, abandoned, accepted, refused>>
  BY DEF PrepareWrite, Transfers
<1>3. sending.at \in Nat
  <2>1. CASE sending = NoMsg
    BY <2>1 DEF NoMsg
  <2>2. CASE sending \in Sendings
    BY <2>2 DEF Sendings
  <2> QED
    BY <2>1, <2>2, SendingTypes
<1>4. sending' \in [msg : {m}, at : 1..MsgLen[m], parts : 1..2]
  <2>1. sending.at + n \in 1..MsgLen[m]
    BY <1>1, <1>2, <1>3
  <2> QED
    BY <1>2, <2>1
<1>5. writeBuf' \in [1..BufMax -> Bytes] /\ writeBufLen' \in 0..BufMax
  <2>1. CASE writeBufLen + n <= BufMax
    <3>1. CopyToStart(m, n) /\ writeBufLen' = writeBufLen + n
      BY <2>1 DEF PrepareWrite
    <3>2. ASSUME NEW i \in 1..BufMax
          PROVE  (IF i <= n THEN <<m, sending.at + i>> ELSE writeBuf[i]) \in Bytes
      <4>1. CASE i <= n
        <5>1. sending.at + i \in 1..MsgLen[m]
          BY <1>1, <1>2, <1>3, <4>1
        <5>2. <<m, sending.at + i>> \in Byte(m)
          BY <5>1 DEF Byte
        <5> QED
          BY <4>1, <5>2 DEF Bytes
      <4>2. CASE ~(i <= n)
        BY <4>2 DEF TypeOK, Bytes
      <4> QED
        BY <4>1, <4>2
    <3>3. writeBuf' \in [1..BufMax -> Bytes]
      BY <3>1, <3>2 DEF CopyToStart
    <3> QED
      BY <1>1, <2>1, <3>1, <3>3 DEF TypeOK
  <2>2. CASE ~(writeBufLen + n <= BufMax)
    BY <2>2 DEF PrepareWrite, TypeOK, Bytes
  <2> QED
    BY <2>1, <2>2
<1>6. \E x \in Msgs : sending' \in [msg : {x}, at : 1..MsgLen[x], parts : 1..2]
  BY <1>4
<1>7. /\ main' \in {"init", "register", "wait"} /\ callbacks' \in BOOLEAN /\ events' \subseteq Events
      /\ advConfig' \subseteq {"ADV_DATA", "SCAN_RSP"} /\ handles' \subseteq {"char", "descr"}
  BY <1>2 DEF TypeOK, setupVars
<1>8. /\ advertising' \in BOOLEAN /\ connected' \in BOOLEAN /\ abandoned' \in BOOLEAN
      /\ accepted' \subseteq Msgs /\ refused' \subseteq Requests
  BY <1>2 DEF TypeOK
<1> QED
  BY <1>5, <1>6, <1>7, <1>8 DEF TypeOK, Bytes

LEMMA ExecuteWriteTypes ==
  ASSUME TypeOK, ExecuteWrite \/ CancelWrite
  PROVE  TypeOK'
<1>1. /\ sending' = NoMsg /\ abandoned' = FALSE /\ writeBufLen' = 0
      /\ UNCHANGED <<setupVars, advertising, connected, writeBuf, refused>>
  BY DEF ExecuteWrite, CancelWrite, EndsWrite
<1>2. accepted' \subseteq Msgs
  <2>1. accepted' = accepted \/ WriteCallback
    BY DEF ExecuteWrite, CancelWrite
  <2> QED
    BY <2>1 DEF WriteCallback, TypeOK
<1> QED
  <2>1. writeBufLen' \in 0..BufMax /\ writeBuf' \in [1..BufMax -> Bytes]
    BY <1>1, SizesAssumption DEF TypeOK, Bytes
  <2>2. /\ main' \in {"init", "register", "wait"} /\ callbacks' \in BOOLEAN
        /\ events' \subseteq Events /\ advConfig' \subseteq {"ADV_DATA", "SCAN_RSP"}
        /\ handles' \subseteq {"char", "descr"}
    BY <1>1 DEF TypeOK, setupVars
  <2>3. /\ advertising' \in BOOLEAN /\ connected' \in BOOLEAN /\ abandoned' \in BOOLEAN
        /\ refused' \subseteq Requests
    BY <1>1 DEF TypeOK
  <2> QED
    BY <1>1, <1>2, <2>1, <2>2, <2>3 DEF TypeOK, Bytes

LEMMA TypeOKStep == TypeOK /\ [Next]_vars => TypeOK'
<1> SUFFICES ASSUME TypeOK, [Next]_vars PROVE TypeOK'
  OBVIOUS
<1> USE DEF TypeOK
<1>1. CASE BleInit
  BY <1>1 DEF BleInit, Works, Refuses, linkVars, dataVars, Events, Requests
<1>2. CASE RegisterCallbacks
  BY <1>2 DEF RegisterCallbacks, linkVars, dataVars
<1>3. CASE OnRegister
  <2>1. PICK s \in SUBSET {"ADV_DATA", "SCAN_RSP", "CREATE"} :
          /\ Refuses(s)
          /\ events' = (events \ {"REG"}) \cup ({"ADV_DATA", "SCAN_RSP", "CREATE"} \ s)
    BY <1>3 DEF OnRegister
  <2>2. refused' \subseteq Requests /\ events' \subseteq Events
    BY <2>1 DEF Refuses, Requests, Events
  <2>3. advConfig' \subseteq {"ADV_DATA", "SCAN_RSP"}
    BY <1>3 DEF OnRegister
  <2> QED
    BY <1>3, <2>2, <2>3 DEF OnRegister, Handle, linkVars, dataVars
<1>4. ASSUME NEW e \in {"ADV_DATA", "SCAN_RSP"}, OnAdvData(e)
      PROVE  TypeOK'
  <2>1. refused' \subseteq Requests /\ advertising' \in BOOLEAN
    BY <1>4 DEF OnAdvData, Works, Refuses, Requests
  <2>2. events' \subseteq Events /\ advConfig' \subseteq {"ADV_DATA", "SCAN_RSP"}
    BY <1>4 DEF OnAdvData
  <2> QED
    BY <1>4, <2>1, <2>2 DEF OnAdvData, Handle, dataVars
<1>5. CASE OnCreate
  BY <1>5 DEF OnCreate, Handle, Works, Refuses, linkVars, dataVars, Events, Requests
<1>6. CASE OnAddChar
  BY <1>6 DEF OnAddChar, Handle, Works, Refuses, linkVars, dataVars, Events, Requests
<1>7. CASE OnAddDescr
  BY <1>7 DEF OnAddDescr, Handle, Works, linkVars, dataVars
<1>8. CASE Connect
  BY <1>8 DEF Connect, setupVars, dataVars
<1>9. CASE Disconnect
  <2>1. sending' = NoMsg /\ abandoned' \in BOOLEAN /\ connected' = FALSE
    BY <1>9 DEF Disconnect, Leaves
  <2>2. refused' \subseteq Requests /\ advertising' \in BOOLEAN
    BY <1>9 DEF Disconnect, Works, Refuses, Requests
  <2> QED
    BY <1>9, <2>1, <2>2 DEF Disconnect, setupVars, dataVars
<1>10. ASSUME NEW m \in Msgs, Write(m)
       PROVE  TypeOK'
  <2>1. accepted' \subseteq Msgs
    BY <1>10 DEF Write
  <2> QED
    BY <1>10, <2>1 DEF Write, setupVars, linkVars
<1>11. CASE UNCHANGED vars
  BY <1>11 DEF vars, setupVars, linkVars, dataVars
<1> QED
  BY <1>1, <1>2, <1>3, <1>4, <1>5, <1>6, <1>7, <1>8, <1>9, <1>10, <1>11,
     PrepareWriteTypes, ExecuteWriteTypes DEF Next, Stack, Visit

\* The handle of an attribute is told only after the stack has added it.
TableInv ==
  /\ "ADD_CHAR" \in events => "char" \in table
  /\ "ADD_DESCR" \in events => "descr" \in table
  /\ handles \subseteq table /\ table \subseteq {"char", "descr"}

Statuses == {"none", "OK", "INVALID_HANDLE", "INVALID_CFG"}

Responses == [status : Statuses, text : {"", "uuid"}, value : 0..MaxValue]

\* The descriptor holds what the connected phone has written.
DescriptorInv ==
  /\ descr_value \in 0..MaxValue /\ wrote = descr_value
  /\ wrote \in Values \cup {0}
  /\ response \in Responses

LEMMA TableInvInit == AttributesInit => TableInv
  BY DEF AttributesInit, Init, TableInv

\* Only the two events of the stack that add an attribute are followed by its handle.
LEMMA TableInvStep == TypeOK /\ TableInv /\ [AttributesNext]_allVars => TableInv'
<1> SUFFICES ASSUME TypeOK, TableInv, [AttributesNext]_allVars PROVE TableInv'
  OBVIOUS
<1>1. ASSUME Added, handles' \subseteq handles \cup {"char"} \cup {"descr"},
             "char" \in handles' => "char" \in handles \/ "ADD_CHAR" \in events,
             "descr" \in handles' => "descr" \in handles \/ "ADD_DESCR" \in events
      PROVE  TableInv'
  <2>1. table \subseteq table' /\ table' \subseteq {"char", "descr"}
    BY <1>1 DEF Added, TableInv
  <2>2. "ADD_CHAR" \in events' => "char" \in table'
    BY <1>1 DEF Added
  <2>3. "ADD_DESCR" \in events' => "descr" \in table'
    BY <1>1 DEF Added
  <2>4. handles' \subseteq table'
    BY <1>1, <2>1 DEF TableInv, TypeOK
  <2> QED
    BY <2>1, <2>2, <2>3, <2>4 DEF TableInv
<1>2. CASE Quietly(BleInit) \/ Quietly(RegisterCallbacks) \/ Quietly(Visit)
  <2>1. Added /\ handles' = handles
    BY <1>2 DEF Quietly, BleInit, RegisterCallbacks, Visit, Disconnect, Write, PrepareWrite,
                Transfers, ExecuteWrite, CancelWrite, EndsWrite, setupVars
  <2> QED
    BY <1>1, <2>1
<1>3. CASE Quietly(Stack)
  <2>1. Added
    BY <1>3 DEF Quietly
  <2>2. \/ handles' = handles
        \/ "ADD_CHAR" \in events /\ handles' = handles \cup {"char"}
        \/ "ADD_DESCR" \in events /\ handles' = handles \cup {"descr"}
    BY <1>3 DEF Quietly, Stack, OnRegister, OnAdvData, OnCreate, OnAddChar, OnAddDescr, Handle
  <2> QED
    BY <1>1, <2>1, <2>2
<1>4. CASE ConnectAnew
  BY <1>4 DEF ConnectAnew, Connect, setupVars, TableInv
<1>5. ASSUME UNCHANGED <<vars, table>>
      PROVE  TableInv'
  BY <1>5 DEF vars, setupVars, TableInv
<1>6. CASE \/ (\E v \in Values : WriteDescriptor(v)) \/ WriteDescriptorCut
           \/ ReadDescriptor \/ ReadCharacteristic
  BY <1>5, <1>6 DEF WriteDescriptor, WriteDescriptorCut, ReadDescriptor, ReadCharacteristic, Responds
<1>7. CASE UNCHANGED allVars
  BY <1>5, <1>7 DEF allVars, attributesVars
<1> QED
  BY <1>2, <1>3, <1>4, <1>6, <1>7 DEF AttributesNext

LEMMA MaxValueIsNat == MaxValue \in Nat
  BY DEF MaxValue

\* What is read of the descriptor keeps its lower eight bits, and so the two that count.
LEMMA ValueReadKeepsBits ==
  ASSUME descr_value \in 0..MaxValue
  PROVE  ValueRead \in 0..MaxValue /\ ValueRead % 4 = descr_value % 4
<1>1. descr_value \in Nat
  BY MaxValueIsNat
<1>2. (descr_value * 256) % 256 = 0
  BY <1>1
<1>3. descr_value % 256 \in Nat /\ descr_value % 256 <= 255
  BY <1>1
<1>4. ValueRead = descr_value % 256
  BY <1>2, <1>3 DEF ValueRead
<1>5. (descr_value % 256) % 4 = descr_value % 4
  BY <1>1
<1>6. 255 <= MaxValue
  BY DEF MaxValue
<1> QED
  BY <1>3, <1>4, <1>5, <1>6, MaxValueIsNat

LEMMA ResponseTypes ==
  ASSUME NEW status \in Statuses, NEW text \in {"", "uuid"}, NEW value \in 0..MaxValue
  PROVE  /\ Response(status, text, value) \in Responses
         /\ Response(status, text, value).value = value
  BY DEF Response, Responses

LEMMA ZeroIsAValue == 0 \in 0..MaxValue /\ NoResponse \in Responses
<1>1. 0 \in 0..MaxValue
  BY MaxValueIsNat
<1>2. "none" \in Statuses
  BY DEF Statuses
<1> QED
  BY <1>1, <1>2, ResponseTypes DEF NoResponse

LEMMA DescriptorInvInit == AttributesInit => DescriptorInv
  BY ZeroIsAValue DEF AttributesInit, DescriptorInv

LEMMA DescriptorInvStep == DescriptorInv /\ [AttributesNext]_allVars => DescriptorInv'
<1> SUFFICES ASSUME DescriptorInv, [AttributesNext]_allVars PROVE DescriptorInv'
  OBVIOUS
<1>1. ASSUME response' \in Responses, UNCHANGED <<descr_value, wrote>>
      PROVE  DescriptorInv'
  BY <1>1 DEF DescriptorInv
<1>2. ASSUME NEW status \in Statuses, NEW text \in {"", "uuid"}, NEW value \in 0..MaxValue,
             Responds(status, text, value)
      PROVE  response' \in Responses
  BY <1>2, ResponseTypes DEF Responds
<1>3. /\ "OK" \in Statuses /\ "INVALID_HANDLE" \in Statuses /\ "INVALID_CFG" \in Statuses
      /\ 0 \in 0..MaxValue /\ NoResponse \in Responses
  BY ZeroIsAValue DEF Statuses
<1>4. CASE Quietly(BleInit) \/ Quietly(RegisterCallbacks) \/ Quietly(Stack) \/ Quietly(Visit)
  <2>1. response' \in Responses /\ UNCHANGED <<descr_value, wrote>>
    BY <1>3, <1>4 DEF Quietly
  <2> QED
    BY <1>1, <2>1
<1>5. CASE ConnectAnew
  BY <1>3, <1>5 DEF ConnectAnew, DescriptorInv
<1>6. ASSUME NEW v \in Values, WriteDescriptor(v)
      PROVE  DescriptorInv'
  <2>1. CASE "descr" \in handles
    <3>1. descr_value' = v /\ wrote' = v /\ Responds("OK", "", 0)
      BY <1>6, <2>1 DEF WriteDescriptor
    <3>2. v \in 0..MaxValue
      BY ValuesAssumption
    <3> QED
      BY <1>2, <1>3, <3>1, <3>2 DEF DescriptorInv
  <2>2. CASE "descr" \notin handles
    <3>1. UNCHANGED <<descr_value, wrote>> /\ Responds("INVALID_HANDLE", "", 0)
      BY <1>6, <2>2 DEF WriteDescriptor
    <3> QED
      BY <1>1, <1>2, <1>3, <3>1
  <2> QED
    BY <2>1, <2>2
<1>7. CASE WriteDescriptorCut
  <2>1. \E status \in Statuses : Responds(status, "", 0)
    BY <1>3, <1>7 DEF WriteDescriptorCut
  <2> QED
    BY <1>1, <1>2, <1>3, <1>7, <2>1 DEF WriteDescriptorCut
<1>8. CASE ReadDescriptor
  <2>1. ValueRead \in 0..MaxValue
    BY ValueReadKeepsBits DEF DescriptorInv
  <2>2. Responds("OK", "", ValueRead) \/ Responds("INVALID_HANDLE", "", 0)
    BY <1>8 DEF ReadDescriptor
  <2>3. response' \in Responses
    BY <1>2, <1>3, <2>1, <2>2
  <2> QED
    BY <1>1, <1>8, <2>3 DEF ReadDescriptor
<1>9. CASE ReadCharacteristic
  <2>1. \E status \in Statuses, text \in {"", "uuid"} : Responds(status, text, 0)
    BY <1>3, <1>9 DEF ReadCharacteristic
  <2> QED
    BY <1>1, <1>2, <1>3, <1>9, <2>1 DEF ReadCharacteristic
<1>10. CASE UNCHANGED allVars
  BY <1>10 DEF allVars, attributesVars, DescriptorInv
<1> QED
  BY <1>4, <1>5, <1>6, <1>7, <1>8, <1>9, <1>10 DEF AttributesNext

TypeInv == TypeOK /\ TableInv /\ DescriptorInv

LEMMA TypeInvHolds == AttributesSpec => []TypeInv
<1>1. AttributesInit => TypeInv
  BY TypeOKInit, TableInvInit, DescriptorInvInit DEF AttributesInit, TypeInv
<1>2. TypeInv /\ [AttributesNext]_allVars => TypeInv'
  <2>1. [AttributesNext]_allVars => [Next]_vars
    BY StackSteps DEF allVars
  <2> QED
    BY <2>1, TypeOKStep, TableInvStep, DescriptorInvStep DEF TypeInv
<1> QED
  BY <1>1, <1>2, PTL DEF AttributesSpec

(***********************************************************************************)
(* The bytes in _write_buf and its length stay in their bounds, whatever phones    *)
(* write, cancel and abandon, and no handle is used before the stack has added its *)
(* attribute.                                                                      *)
(***********************************************************************************)
THEOREM AttributesTypeCorrect == AttributesSpec => []AttributesTypeOK
<1>1. TypeInv => AttributesTypeOK
  <2>1. response \in Responses => /\ response.status \in Statuses
                                  /\ response.text \in {"", "uuid"}
                                  /\ response.value \in 0..MaxValue
    BY DEF Responses
  <2> QED
    BY <2>1 DEF TypeInv, TableInv, DescriptorInv, Statuses, AttributesTypeOK
<1> QED
  BY <1>1, TypeInvHolds, PTL

(***********************************************************************************)
(* A phone reads of the descriptor the two bits it has written itself, whatever    *)
(* the phones before it have written: DescriptorInv, and the lower byte of what is *)
(* sent is right although the upper one is not.                                    *)
(***********************************************************************************)
THEOREM ReadsItsOwnHolds == AttributesSpec => ReadsItsOwn
<1>1. TypeInv /\ [AttributesNext]_allVars =>
        [ReadDescriptor /\ "descr" \in handles => response'.value % 4 = wrote % 4]_allVars
  <2> SUFFICES ASSUME TypeInv, ReadDescriptor, "descr" \in handles
               PROVE  response'.value % 4 = wrote % 4
    OBVIOUS
  <2>1. ValueRead \in 0..MaxValue /\ ValueRead % 4 = wrote % 4
    BY ValueReadKeepsBits DEF TypeInv, DescriptorInv
  <2>2. response' = Response("OK", "", ValueRead)
    BY DEF ReadDescriptor, Responds
  <2>3. "OK" \in Statuses
    BY DEF Statuses
  <2> QED
    BY <2>1, <2>2, <2>3, ResponseTypes
<1> QED
  BY <1>1, TypeInvHolds, PTL DEF AttributesSpec, ReadsItsOwn

(***********************************************************************************)
(* The long write                                                                  *)
(***********************************************************************************)

\* Unless a write was abandoned, the buffer counts nothing between two long writes,
\* and a message that is sent in one piece is in it from its first byte on.
OnePieceInv ==
  ~ abandoned =>
    /\ sending = NoMsg => writeBufLen = 0
    /\ sending # NoMsg /\ sending.parts = 1 =>
         writeBufLen # 0 /\ \A k \in 1..sending.at : writeBuf[k] = <<sending.msg, k>>

LEMMA OnePieceInvInit == Init => OnePieceInv
  BY DEF Init, OnePieceInv

\* The first piece of a long write fits into a buffer that counts nothing.
LEMMA PrepareWriteFirst ==
  ASSUME TypeOK, OnePieceInv, NEW m \in Msgs, NEW n \in 1..MtuMax, PrepareWrite(m, n)
  PROVE  OnePieceInv'
<1> SUFFICES ASSUME ~ abandoned' PROVE OnePieceInv'
  BY DEF OnePieceInv
<1>1. /\ ~ abandoned
      /\ sending' = [msg |-> m, at |-> sending.at + n, parts |-> IF sending = NoMsg THEN 1 ELSE 2]
  BY DEF PrepareWrite, Transfers
<1>2. MtuMax \in Nat /\ BufMax \in Nat /\ n \in Nat /\ n > 0 /\ n < BufMax
  BY SizesAssumption
<1>3. m # "None"
  BY MsgsAssumption
<1>4. sending' # NoMsg
  BY <1>1, <1>3 DEF NoMsg
<1>5. CASE sending = NoMsg
  <2>1. writeBufLen = 0 /\ sending.at = 0
    BY <1>1, <1>5 DEF OnePieceInv, NoMsg
  <2>2. CopyToStart(m, n) /\ writeBufLen' = n
    BY <1>2, <2>1 DEF PrepareWrite
  <2>3. sending'.at = n /\ sending'.msg = m
    BY <1>1, <1>2, <2>1
  <2>4. ASSUME NEW k \in 1..n
        PROVE  writeBuf'[k] = <<m, k>>
    BY <1>2, <2>1, <2>2 DEF CopyToStart
  <2> QED
    BY <1>2, <1>4, <2>2, <2>3, <2>4 DEF OnePieceInv
<1>6. CASE sending # NoMsg
  <2>1. sending'.parts = 2
    BY <1>1, <1>6
  <2> QED
    BY <1>4, <2>1 DEF OnePieceInv
<1> QED
  BY <1>5, <1>6

LEMMA OnePieceInvStep == TypeOK /\ OnePieceInv /\ [Next]_vars => OnePieceInv'
<1> SUFFICES ASSUME TypeOK, OnePieceInv, [Next]_vars PROVE OnePieceInv'
  OBVIOUS
<1>1. ASSUME UNCHANGED <<abandoned, sending, writeBuf, writeBufLen>>
      PROVE  OnePieceInv'
  BY <1>1 DEF OnePieceInv
<1>2. CASE BleInit \/ RegisterCallbacks \/ Stack \/ Connect
  <2>1. UNCHANGED <<abandoned, sending, writeBuf, writeBufLen>>
    BY <1>2 DEF BleInit, RegisterCallbacks, Stack, OnRegister, OnAdvData, OnCreate, OnAddChar,
                OnAddDescr, Connect, linkVars, dataVars
  <2> QED
    BY <1>1, <2>1
<1>3. CASE Disconnect
  <2>1. /\ sending' = NoMsg /\ UNCHANGED <<writeBuf, writeBufLen>>
        /\ ~ abandoned' => ~ abandoned /\ sending = NoMsg
    BY <1>3 DEF Disconnect, Leaves, dataVars
  <2> QED
    BY <2>1 DEF OnePieceInv
<1>4. ASSUME NEW m \in Msgs, Write(m)
      PROVE  OnePieceInv'
  BY <1>1, <1>4 DEF Write, linkVars
<1>5. CASE ExecuteWrite \/ CancelWrite
  BY <1>5 DEF ExecuteWrite, CancelWrite, EndsWrite, OnePieceInv
<1>6. CASE UNCHANGED vars
  BY <1>1, <1>6 DEF vars, linkVars, dataVars
<1> QED
  BY <1>2, <1>3, <1>4, <1>5, <1>6, PrepareWriteFirst DEF Next, Visit

\* The buffer starts with one message only.
LEMMA HoldsOneMessage ==
  ASSUME NEW m1 \in Msgs, NEW m2 \in Msgs, HoldsMessage(m1), HoldsMessage(m2)
  PROVE  m1 = m2
<1>1. 1 \in 1..MsgLen[m1] /\ 1 \in 1..MsgLen[m2]
  BY SizesAssumption
<1> QED
  BY <1>1 DEF HoldsMessage

(***********************************************************************************)
(* A message sent in one prepared write arrives when it is executed, whatever was  *)
(* written, cancelled or executed before it, unless an abandoned write still fills *)
(* the buffer or a longer piece has left bytes behind it.                          *)
(***********************************************************************************)
THEOREM OnePieceArrivesHolds == AttributesSpec => OnePieceArrives
<1>1. TypeInv /\ OnePieceInv /\ [AttributesNext]_allVars =>
        [ExecuteWrite /\ callbacks /\ sending.parts = 1 /\ ~ abandoned
           /\ NothingBehind(sending.msg) => sending.msg \in accepted']_vars
  <2> SUFFICES ASSUME TypeOK, OnePieceInv, ExecuteWrite, callbacks, sending.parts = 1,
                      ~ abandoned, NothingBehind(sending.msg)
               PROVE  sending.msg \in accepted'
    BY DEF TypeInv
  <2>1. sending # NoMsg /\ sending.at = MsgLen[sending.msg]
    BY DEF ExecuteWrite, EndsWrite
  <2>2. sending.msg \in Msgs
    BY <2>1, SendingTypes
  <2>3. writeBufLen # 0 /\ HoldsMessage(sending.msg)
    BY <2>1 DEF OnePieceInv, HoldsMessage
  <2>4. WriteCallback
    BY <2>3 DEF ExecuteWrite
  <2>5. CASE accepted' = accepted \cup {m \in Msgs : callbacks /\ HoldsMessage(m)}
    BY <2>2, <2>3, <2>5
  <2>6. ASSUME NEW m \in Msgs, HoldsMessage(m), ~ NothingBehind(m)
        PROVE  FALSE
    BY <2>2, <2>3, <2>6, HoldsOneMessage
  <2> QED
    BY <2>4, <2>5, <2>6 DEF WriteCallback
<1>2. AttributesInit => OnePieceInv
  BY OnePieceInvInit DEF AttributesInit
<1>3. TypeInv /\ OnePieceInv /\ [AttributesNext]_allVars => OnePieceInv'
  <2>1. [AttributesNext]_allVars => [Next]_vars
    BY StackSteps DEF allVars
  <2> QED
    BY <2>1, OnePieceInvStep DEF TypeInv
<1> QED
  BY <1>1, <1>2, <1>3, TypeInvHolds, PTL DEF AttributesSpec, OnePieceArrives
===================================================================================
