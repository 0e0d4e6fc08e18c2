--------------------------- MODULE MigrateUdpProofs ---------------------------
(***************************************************************************)
(* Proofs about migrate-Udp: the arithmetic of control messages for every  *)
(* length, and the two threads for any addresses and any number of         *)
(* datagrams.                                                              *)
(***************************************************************************)
EXTENDS MigrateUdp, TLAPS

-----------------------------------------------------------------------------
(* The arithmetic.                                                         *)

\* The two masks: to a word, and to two.
LEMMA Masks ==
  ASSUME NEW n \in Nat
  PROVE  /\ Masked(n, 8) \in Nat /\ Masked(n, 16) \in Nat
         /\ Masked(n, 8) % 8 = 0 /\ n - 7 <= Masked(n, 8) /\ Masked(n, 8) <= n
         /\ Masked(n, 16) % 16 = 0
         /\ n - 15 <= Masked(n, 16) /\ Masked(n, 16) <= n
BY DEF Masked

\* What the masks are applied to: the padding of the system, and HdrAlign, which
\* is the same or one word short.
LEMMA HdrAlignShort ==
  ASSUME NEW length \in Nat
  PROVE  /\ Padded(length) \in Nat /\ Padded(length) % 8 = 0
         /\ length <= Padded(length) /\ Padded(length) <= length + 7
         /\ HdrAlign(length) = IF Padded(length) % 16 = 0 THEN Padded(length)
                               ELSE Padded(length) - 8
BY DEF Padded, HdrAlign, Masked, WORD, HDR

\* What the functions return for every length, beside what the system needs:
\* what the layout asks for where the length pads to whole headers, and one word
\* less elsewhere.
LEMMA Lengths ==
  ASSUME NEW length \in Nat
  PROVE  LET p == Padded(length) IN
         /\ p \in Nat /\ length <= p
         /\ HdrAlign(length) = IF p % HDR = 0 THEN p ELSE p - WORD
         /\ RecordSpace(length) = HDR + p
         /\ CmsgSpace(length) = HDR + HdrAlign(length)
         /\ CmsgLen(length) = HDR + p
         /\ NextRecord(0, length) = p
         /\ NextHdr(p + HDR, 0, length) = HdrAlign(length)
<1> DEFINE p == Padded(length)
<1>1. /\ p \in Nat /\ p % 8 = 0 /\ length <= p /\ p <= length + 7
      /\ HdrAlign(length) = IF p % 16 = 0 THEN p ELSE p - 8
  BY HdrAlignShort
<1>2. RecordSpace(length) = HDR + p
  BY DEF RecordSpace
<1>3. CmsgSpace(length) = HDR + HdrAlign(length)
  <2>1. CmsgSpace(length) = Masked(16 + HdrAlign(length) + 7, 8)
    BY DEF CmsgSpace, DataAlign, WORD, HDR
  <2>2. HdrAlign(length) \in Int /\ HdrAlign(length) % 8 = 0
    BY <1>1
  <2> HIDE DEF p
  <2> QED BY <2>1, <2>2 DEF Masked, HDR
<1>4. CmsgLen(length) = HDR + p
  BY DEF CmsgLen, DataAlign, Padded, Masked, WORD, HDR
<1>5. NextRecord(0, length) = p
  BY <1>1 DEF NextRecord
<1>6. NextHdr(p + HDR, 0, length) = HdrAlign(length)
  BY <1>1 DEF NextHdr, NULL, HDR
<1> QED
  BY <1>1, <1>2, <1>3, <1>4, <1>5, <1>6 DEF WORD, HDR

\* The functions are right for every length that pads to whole headers.
THEOREM RightForEveryLength == \A length \in Nat : RightFor(length)
<1> SUFFICES ASSUME NEW length \in Nat PROVE RightFor(length)
  OBVIOUS
<1>1. length % WORD = 0 => Padded(length) = length
  BY DEF Padded, Masked, WORD
<1> QED
  BY <1>1, Lengths DEF RightFor, HDR

\* For every other length, HdrAlign, and with it the space and the walk, is one
\* word short of the layout of the system (line 118).
THEOREM ShortElsewhere ==
  \A length \in Nat : Padded(length) % HDR # 0 => ShortFor(length)
<1> SUFFICES ASSUME NEW length \in Nat, Padded(length) % HDR # 0
             PROVE  ShortFor(length)
  OBVIOUS
<1> QED
  BY Lengths DEF ShortFor, HDR, WORD

\* The property that the run checks is part of it.
THEOREM WholeHeadersTheorem == RightForWholeHeaders
BY RightForEveryLength DEF RightForWholeHeaders, MaxLength

\* The numbers that the two threads use.
LEMMA InfoNumbers ==
  /\ CmsgLen(InfoLen) = 24 /\ RecordSpace(InfoLen) = 24
  /\ HDR + InfoLen = 24 /\ LengthOfTurn = 128 /\ OutLength = 24
  /\ Word(0) = 0 /\ Word(CmsgData(0)) = 2
  /\ FirstHdr(24) = 0 /\ FirstHdr(0) = NULL
BY DEF CmsgLen, RecordSpace, DataAlign, Padded, Masked, CmsgData, FirstHdr,
       Word, InfoLen, LengthOfTurn, OutLength, BufLen, WORD, HDR, NULL

-----------------------------------------------------------------------------
(* The threads.                                                            *)

Words == 0..15
Datagram == [dst : Addrs, recorded : BOOLEAN, whole : BOOLEAN]

MigrateTypes ==
  /\ inbox \in Seq(Datagram)
  /\ control \in [Words -> Int]
  /\ out_control \in [Words -> Int]

\* Between taking a datagram and printing its destination, the control data are
\* those of this datagram: its record, or none.
InHand ==
  receiver = "parse" =>
    /\ current.whole
    /\ IF current.recorded
       THEN /\ control_len = 24 /\ control[0] = 24
            /\ control[1] = IP_PKTINFO /\ control[2] = current.dst
       ELSE control_len = 0

\* Nothing is printed before the loop.
NotYet ==
  receiver \in {"start", "bound", "named"} =>
    shown = None /\ ~current.recorded /\ current.whole

\* A sender that sends has its record in the buffer.
RecordBuilt ==
  sender = "send" =>
    /\ out_control[0] = 24 /\ out_control[1] = IP_PKTINFO
    /\ out_control[2] = Source

MigrateInv ==
  /\ MigrateTypes /\ NotYet /\ InHand /\ RecordBuilt
  /\ DestinationShown /\ SourceNamed

\* A buffer with the three words of a record in it.
LEMMA ThreeWords ==
  ASSUME NEW words \in [Words -> Int], NEW data \in Int
  PROVE  LET new == [words EXCEPT ![0] = 24, ![1] = IP_PKTINFO, ![2] = data] IN
         /\ new \in [Words -> Int]
         /\ new[0] = 24 /\ new[1] = IP_PKTINFO /\ new[2] = data
BY DEF Words, IP_PKTINFO

LEMMA InitMigrate == Init => MigrateInv
<1> SUFFICES ASSUME Init PROVE MigrateInv
  OBVIOUS
<1>1. Empty \in [Words -> Int]
  BY DEF Empty, Words, Word, BufLen, WORD
<1>2. MigrateTypes
  BY <1>1 DEF Init, MigrateTypes
<1>3. NotYet /\ InHand /\ RecordBuilt /\ DestinationShown /\ SourceNamed
  BY DEF Init, NotYet, InHand, RecordBuilt, DestinationShown, SourceNamed
<1> QED BY <1>2, <1>3 DEF MigrateInv

LEMMA StepReceiver ==
  ASSUME MigrateInv, ReceiverStep
  PROVE  MigrateTypes' /\ NotYet' /\ InHand' /\ DestinationShown'
<1>1. MigrateTypes /\ NotYet /\ InHand /\ DestinationShown
  BY DEF MigrateInv
<1>2. CASE ReceiverSetup \/ LocateWsaRecvMsg
  <2>1. /\ UNCHANGED <<inbox, control_len, control, current, shown,
                        out_control>>
        /\ receiver \in {"start", "bound", "named"} /\ receiver' # "parse"
    BY <1>2 DEF ReceiverSetup, LocateWsaRecvMsg, senderVars
  <2> QED BY <1>1, <2>1 DEF MigrateTypes, NotYet, InHand, DestinationShown
<1>3. CASE RecvMsg
  <2>1. /\ current' = Head(inbox) /\ inbox' = Tail(inbox) /\ inbox # <<>>
        /\ UNCHANGED out_control
    BY <1>3 DEF RecvMsg, senderVars
  <2>2. Head(inbox) \in Datagram /\ inbox' \in Seq(Datagram)
    BY <1>1, <2>1 DEF MigrateTypes
  <2> DEFINE d == Head(inbox)
             Written ==
               /\ control_len' = RecordSpace(InfoLen)
               /\ control' = [control EXCEPT ![0] = HDR + InfoLen,
                                             ![1] = IP_PKTINFO, ![2] = d.dst]
  <2>3. /\ receiver' = IF d.whole THEN "parse" ELSE "recv"
        /\ shown' = Nothing
        /\ \/ d.recorded /\ Written
           \/ (~d.whole \/ ~d.recorded) /\ control_len' = 0 /\ UNCHANGED control
           \/ ~d.whole /\ UNCHANGED control
    <3>1. LengthOfTurn >= RecordSpace(InfoLen)
      BY InfoNumbers
    <3>2. d.whole \in BOOLEAN /\ d.recorded \in BOOLEAN
      BY <2>2 DEF Datagram
    <3> HIDE DEF d
    <3> QED
      <4>1. /\ receiver' = IF ~d.whole \/ (d.recorded /\ ~d.recorded)
                           THEN "recv" ELSE "parse"
            /\ shown' = Nothing
            /\ \/ d.recorded /\ Written
               \/ /\ ~d.whole \/ ~d.recorded
                  /\ control_len' = 0
                  /\ UNCHANGED control
               \/ ~d.whole /\ UNCHANGED control
        BY <1>3, <3>1, <3>2, Zenon DEF RecvMsg, d
      <4> QED BY <4>1, <3>2
  <2>4. ASSUME Written
        PROVE  /\ control' \in [Words -> Int] /\ control_len' = 24
               /\ control'[0] = 24 /\ control'[1] = IP_PKTINFO
               /\ control'[2] = d.dst
    <3>1. /\ control_len' = 24
          /\ control' = [control EXCEPT ![0] = 24, ![1] = IP_PKTINFO,
                                        ![2] = d.dst]
      BY <2>4, InfoNumbers, Zenon
    <3>2. d.dst \in Int
      <4>1. \A x \in Datagram : x.dst \in Addrs
        BY DEF Datagram
      <4>2. \A a \in Addrs : a \in Int
        BY MigrateAssumption
      <4> QED BY <2>2, <4>1, <4>2, Zenon
    <3>3. control \in [Words -> Int]
      BY <1>1 DEF MigrateTypes
    <3> DEFINE new(x) == [control EXCEPT ![0] = 24, ![1] = IP_PKTINFO,
                                         ![2] = x]
    <3>4. \A x \in Int : /\ new(x) \in [Words -> Int]
                         /\ new(x)[0] = 24 /\ new(x)[1] = IP_PKTINFO
                         /\ new(x)[2] = x
      BY <3>3, ThreeWords, Zenon
    <3>5. control' = new(d.dst)
      BY <3>1, Zenon
    <3> HIDE DEF new, d
    <3> QED BY <3>1, <3>2, <3>4, <3>5, Zenon
  <2> HIDE DEF Written
  <2>5. MigrateTypes'
    BY <1>1, <2>1, <2>2, <2>3, <2>4 DEF MigrateTypes
  <2>6. CASE ~d.whole
    BY <2>1, <2>3, <2>5, <2>6 DEF NotYet, InHand, DestinationShown
  <2>7. CASE d.whole
    BY <2>1, <2>3, <2>4, <2>5, <2>7 DEF NotYet, InHand, DestinationShown
  <2> QED BY <2>6, <2>7
<1>4. CASE Show
  <2>1. /\ receiver = "parse" /\ receiver' = "recv" /\ shown' = Destination
        /\ UNCHANGED <<inbox, control_len, control, current, out_control>>
    BY <1>4 DEF Show, senderVars
  <2>2. CASE current.recorded
    <3>1. /\ control_len = 24 /\ control[0] = 24 /\ control[1] = IP_PKTINFO
          /\ control[2] = current.dst
      BY <1>1, <2>1, <2>2 DEF InHand
    <3>2. Destination = current.dst
      BY <3>1, InfoNumbers DEF Destination, NULL
    <3> QED
      BY <1>1, <2>1, <2>2, <3>2
      DEF MigrateTypes, NotYet, InHand, DestinationShown
  <2>3. CASE ~current.recorded
    <3>1. Destination = None
      BY <1>1, <2>1, <2>3, InfoNumbers DEF InHand, Destination, NULL
    <3> QED
      BY <1>1, <2>1, <2>3, <3>1
      DEF MigrateTypes, NotYet, InHand, DestinationShown
  <2> QED BY <2>2, <2>3
<1> QED BY <1>2, <1>3, <1>4 DEF ReceiverStep

LEMMA StepArrive ==
  ASSUME MigrateInv, Arrive
  PROVE  MigrateTypes' /\ NotYet' /\ InHand' /\ DestinationShown'
<1>1. MigrateTypes /\ NotYet /\ InHand /\ DestinationShown
  BY DEF MigrateInv
<1>2. UNCHANGED <<receiver, control_len, control, current, shown, out_control>>
  BY DEF Arrive, senderVars
<1>3. PICK d \in Datagram : inbox' = Append(inbox, d)
  BY DEF Arrive, Datagram
<1>4. inbox' \in Seq(Datagram)
  BY <1>1, <1>3 DEF MigrateTypes
<1> QED BY <1>1, <1>2, <1>4 DEF MigrateTypes, NotYet, InHand, DestinationShown

LEMMA StepSender ==
  ASSUME MigrateInv, SenderStep
  PROVE  MigrateTypes' /\ RecordBuilt' /\ SourceNamed'
<1>1. MigrateTypes /\ RecordBuilt /\ SourceNamed
  BY DEF MigrateInv
<1>2. CASE SenderBind \/ LocateWsaSendMsg
  <2>1. UNCHANGED <<out_control, wire, inbox, control>> /\ sender' # "send"
    BY <1>2 DEF SenderBind, LocateWsaSendMsg, receiverVars
  <2> QED BY <1>1, <2>1 DEF MigrateTypes, RecordBuilt, SourceNamed
<1>3. CASE BuildRecord
  <2>1. /\ UNCHANGED <<wire, inbox, control>>
        /\ out_control' = [out_control EXCEPT ![0] = 24, ![1] = IP_PKTINFO,
                                              ![2] = Source]
    <3>1. /\ UNCHANGED <<wire, inbox, control>>
          /\ out_control' = [out_control EXCEPT ![Word(0)] = CmsgLen(InfoLen),
                                                ![Word(0) + 1] = IP_PKTINFO,
                                                ![Word(CmsgData(0))] = Source]
      BY <1>3 DEF BuildRecord, WithRecord, receiverVars
    <3> QED BY <3>1, InfoNumbers, 0 + 1 = 1, Zenon
  <2>2. Source \in Int
    BY MigrateAssumption
  <2>3. /\ out_control' \in [Words -> Int]
        /\ out_control'[0] = 24 /\ out_control'[1] = IP_PKTINFO
        /\ out_control'[2] = Source
    <3>1. out_control \in [Words -> Int]
      BY <1>1 DEF MigrateTypes
    <3> DEFINE new(x) == [out_control EXCEPT ![0] = 24, ![1] = IP_PKTINFO,
                                             ![2] = x]
    <3>2. \A x \in Int : /\ new(x) \in [Words -> Int]
                         /\ new(x)[0] = 24 /\ new(x)[1] = IP_PKTINFO
                         /\ new(x)[2] = x
      BY <3>1, ThreeWords, Zenon
    <3>3. out_control' = new(Source)
      BY <2>1, Zenon
    <3> HIDE DEF new
    <3> QED BY <2>2, <3>2, <3>3, Zenon
  <2> QED BY <1>1, <2>1, <2>3 DEF MigrateTypes, RecordBuilt, SourceNamed
<1>4. CASE SendMsg
  <2>1. /\ UNCHANGED <<sender, out_control, inbox, control>>
        /\ sender = "send" /\ wire' = NamedSource
    BY <1>4 DEF SendMsg, receiverVars
  <2>2. NamedSource = Source
    BY <1>1, <2>1, InfoNumbers DEF NamedSource, RecordBuilt
  <2> QED BY <1>1, <2>1, <2>2 DEF MigrateTypes, RecordBuilt, SourceNamed
<1> QED BY <1>2, <1>3, <1>4 DEF SenderStep

LEMMA StepMigrate == MigrateInv /\ [Next]_migrateVars => MigrateInv'
<1> SUFFICES ASSUME MigrateInv, [Next]_migrateVars PROVE MigrateInv'
  OBVIOUS
<1>1. CASE UNCHANGED migrateVars
  BY <1>1 DEF migrateVars, receiverVars, senderVars, MigrateInv, MigrateTypes,
              NotYet, InHand, RecordBuilt, DestinationShown, SourceNamed
<1>2. CASE ReceiverStep \/ Arrive
  <2>1. UNCHANGED senderVars
    BY <1>2 DEF ReceiverStep, ReceiverSetup, LocateWsaRecvMsg, RecvMsg, Show,
                Arrive
  <2>2. RecordBuilt' /\ SourceNamed'
    BY <2>1 DEF senderVars, MigrateInv, RecordBuilt, SourceNamed
  <2> QED BY <1>2, <2>2, StepReceiver, StepArrive DEF MigrateInv
<1>3. CASE SenderStep
  <2>1. UNCHANGED receiverVars
    BY <1>3 DEF SenderStep, SenderBind, LocateWsaSendMsg, BuildRecord, SendMsg
  <2>2. NotYet' /\ InHand' /\ DestinationShown'
    BY <2>1 DEF receiverVars, MigrateInv, NotYet, InHand, DestinationShown
  <2> QED BY <1>3, <2>2, StepSender DEF MigrateInv
<1> QED BY <1>1, <1>2, <1>3 DEF Next

\* What is printed for a datagram is its own destination, although the buffer
\* and the length are used again and again.
THEOREM DestinationTheorem == Spec => []DestinationShown
<1>1. MigrateInv => DestinationShown
  BY DEF MigrateInv
<1> QED
  BY <1>1, InitMigrate, StepMigrate, PTL DEF Spec

\* Every datagram leaves with the source that the sender names.
THEOREM SourceTheorem == Spec => []SourceNamed
<1>1. MigrateInv => SourceNamed
  BY DEF MigrateInv
<1> QED
  BY <1>1, InitMigrate, StepMigrate, PTL DEF Spec
=============================================================================
