------------------------------ MODULE MigrateUdp ------------------------------
(***************************************************************************)
(* The two threads of migrate-Udp: a receiver that prints the destination  *)
(* of each datagram, which it finds in the control data, and a sender that *)
(* names its source in control data.  Each uses one buffer for the control *)
(* data of all its datagrams.                                              *)
(*                                                                         *)
(* The callbacks for routes and addresses print what they are given and    *)
(* keep no state; they are left out.                                       *)
(***************************************************************************)
EXTENDS WsaCmsg, Sequences

CONSTANTS
  Addrs,     \* addresses of this machine
  Source,    \* the source the sender names
  InboxCap   \* datagrams the receiver's socket holds

ASSUME MigrateAssumption ==
  /\ Addrs \subseteq Nat \ {0}
  /\ Source \in Addrs
  /\ InboxCap \in Nat \ {0}

IP_PKTINFO == 19
InfoLen == 8         \* size_of::<IN_PKTINFO>()
BufLen == 128
None == -1           \* no destination in the control data
Nothing == -2        \* nothing was printed, or no source was named

Word(offset) == offset \div WORD
Empty == [w \in 0..(Word(BufLen) - 1) |-> 0]

VARIABLES
  receiver,     \* where the receiver thread is
  inbox,        \* datagrams in its socket
  control_len,  \* Control.len of its message
  control,      \* its control_buffer
  current,      \* the datagram that was taken last
  shown,        \* the destination that was printed for it
  sender,       \* where the sender thread is
  out_control,  \* its control_buffer
  wire          \* the source of the datagram sent last

receiverVars == <<receiver, inbox, control_len, control, current, shown>>
senderVars == <<sender, out_control, wire>>
migrateVars == <<receiverVars, senderVars>>

Init ==
  /\ receiver = "start"
  /\ inbox = <<>>
  /\ control_len = BufLen
  /\ control = Empty
  /\ current = [dst |-> None, recorded |-> FALSE, whole |-> TRUE]
  /\ shown = None
  /\ sender = "start"
  /\ out_control = Empty
  /\ wire = Source

\* A record: its length, its level and type, its data.
WithRecord(words, at, len, data) ==
  [words EXCEPT ![Word(at)] = len, ![Word(at) + 1] = IP_PKTINFO,
                ![Word(CmsgData(at))] = data]

-----------------------------------------------------------------------------
(* The receiver thread.                                                    *)

\* bind and setsockopt, either of which ends the thread when it fails.
ReceiverSetup ==
  /\ \/ receiver = "start" /\ receiver' \in {"bound", "returned"}
     \/ receiver = "bound" /\ receiver' \in {"named", "returned"}
  /\ UNCHANGED <<inbox, control_len, control, current, shown, senderVars>>

\* The extension is found, or the thread returns.
LocateWsaRecvMsg ==
  /\ receiver = "named"
  /\ receiver' \in {"recv", "returned"}
  /\ UNCHANGED <<inbox, control_len, control, current, shown, senderVars>>

\* A datagram arrives at the socket.  Its destination may not be kept when it
\* comes before IP_PKTINFO is set.  It is whole if it fits into the 1024 bytes
\* of the receiver's buf.
Arrive ==
  /\ receiver \notin {"start", "returned"}
  /\ Len(inbox) < InboxCap
  /\ \E a \in Addrs, kept \in BOOLEAN, whole \in BOOLEAN :
       /\ receiver # "bound" => kept
       /\ inbox' = Append(inbox,
                          [dst |-> a, recorded |-> kept, whole |-> whole])
  /\ UNCHANGED <<receiver, control_len, control, current, shown, senderVars>>

LengthOfLastTurn == control_len   \* mutant: the WSABUF is made before the loop
LengthOfTurn == BufLen

\* WSARecvMsg takes a datagram, writes its record, if it has one, and sets the
\* length of the control data.  It fails when the datagram is longer than buf
\* or its record does not fit: the datagram is gone, nothing is printed, and the
\* control data may have been written or left alone.
RecvMsg ==
  /\ receiver = "recv"
  /\ inbox # <<>>
  /\ current' = Head(inbox)
  /\ inbox' = Tail(inbox)
  /\ shown' = Nothing
  /\ LET written == Head(inbox).recorded /\ LengthOfTurn >= RecordSpace(InfoLen)
         fails == ~Head(inbox).whole \/ (Head(inbox).recorded /\ ~written) IN
     /\ receiver' = IF fails THEN "recv" ELSE "parse"
     /\ \/ /\ written
           /\ control_len' = RecordSpace(InfoLen)
           /\ control' = [control EXCEPT ![0] = HDR + InfoLen,
                                         ![1] = IP_PKTINFO,
                                         ![2] = Head(inbox).dst]
        \/ /\ fails \/ ~written
           /\ control_len' = 0
           /\ UNCHANGED control
        \/ /\ fails
           /\ control_len' = LengthOfTurn
           /\ UNCHANGED control
  /\ UNCHANGED senderVars

\* The address in the first record of the control data, if it is a whole
\* IP_PKTINFO.
Destination ==
  LET cmsg == FirstHdr(control_len) IN
  IF /\ cmsg # NULL
     /\ control[Word(cmsg) + 1] = IP_PKTINFO
     /\ control[Word(cmsg)] >= CmsgLen(InfoLen)
  THEN control[Word(CmsgData(cmsg))]
  ELSE None

Show ==
  /\ receiver = "parse"
  /\ receiver' = "recv"
  /\ shown' = Destination
  /\ UNCHANGED <<inbox, control_len, control, current, senderVars>>

ReceiverStep == ReceiverSetup \/ LocateWsaRecvMsg \/ RecvMsg \/ Show

-----------------------------------------------------------------------------
(* The sender thread.                                                      *)

SenderBind ==
  /\ sender = "start"
  /\ sender' \in {"bound", "returned"}
  /\ UNCHANGED <<out_control, wire, receiverVars>>

LocateWsaSendMsg ==
  /\ sender = "bound"
  /\ sender' \in {"located", "returned"}
  /\ UNCHANGED <<out_control, wire, receiverVars>>

\* The record is written once, before the loop.
BuildRecord ==
  /\ sender = "located"
  /\ sender' = "send"
  /\ out_control' = WithRecord(out_control, 0, CmsgLen(InfoLen), Source)
  /\ UNCHANGED <<wire, receiverVars>>

OutLength == CmsgLen(InfoLen)

\* The system finds the record where its own layout has it.
NamedSource ==
  IF /\ OutLength >= HDR + InfoLen
     /\ out_control[0] = HDR + InfoLen
     /\ out_control[1] = IP_PKTINFO
  THEN out_control[2]
  ELSE Nothing

\* An error is printed, and the loop goes on.
SendMsg ==
  /\ sender = "send"
  /\ wire' = NamedSource
  /\ UNCHANGED <<sender, out_control, receiverVars>>

SenderStep == SenderBind \/ LocateWsaSendMsg \/ BuildRecord \/ SendMsg

-----------------------------------------------------------------------------
Next == ReceiverStep \/ Arrive \/ SenderStep

Spec == Init /\ [][Next]_migrateVars

-----------------------------------------------------------------------------
(* Properties.                                                             *)

\* What is printed for a datagram is its own destination, or None if the system
\* did not keep it, and each datagram taken from the socket is printed, except
\* one that is longer than buf: what the turns before, those that failed too,
\* left in the buffer and in its length has no effect (lines 305-375).
DestinationShown ==
  receiver = "recv" =>
    shown = IF ~current.whole THEN Nothing
            ELSE IF current.recorded THEN current.dst ELSE None

\* Every datagram leaves with the source that the record names (lines 394-423),
\* under the layout of the system.
SourceNamed == wire = Source
=============================================================================
