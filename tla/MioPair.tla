------------------------------- MODULE MioPair -------------------------------
(***************************************************************************)
(* The pair programs mio-UnixStream, mio-UnixPipe, mio-UdpDgram,           *)
(* mio-and-recvmsg and tokio-UdpDgram: a receiver and a sender, threads or *)
(* tasks, at the two ends of one channel.  Those of mio have the same      *)
(* receive loop around an edge-triggered poll; tokio keeps the readiness   *)
(* that was reported until a receive would block.                          *)
(*                                                                         *)
(* A thread returns, and drops its end, when poll fails (a signal          *)
(* interrupts it).  What the kernel then reports to the other end, and     *)
(* whether a full channel blocks or drops, depends on the program:         *)
(*   UnixStream  a hang-up is reported as readable and writable;           *)
(*   UnixPipe    the end of the writer is not reported as readable, and    *)
(*               the end of the reader as writable only with room left;    *)
(*   UdpDgram, RecvMsg, TokioUdp                                           *)
(*               nothing is reported and a full channel drops.             *)
(* Every system call is one action.  One unit stands for one send, and     *)
(* the channel has room when the kernel reports that it has.               *)
(***************************************************************************)
EXTENDS Integers

CONSTANTS
  ChanCap,   \* units the kernel holds in the channel
  MayStop    \* bind, poll and send_to may fail

ASSUME PairAssumption == ChanCap \in Nat \ {0} /\ MayStop \in BOOLEAN

VARIABLES
  program,   \* which of the programs runs
  receiver,  \* where the receiver thread is
  sender,    \* where the sender thread is
  queued,    \* units in the channel
  readable,  \* the receiver's source has an edge to report
  writable   \* the sender's source has an edge to report

pairVars == <<program, receiver, sender, queued, readable, writable>>

Datagrams == {"UdpDgram", "RecvMsg", "TokioUdp"}

\* The senders that wait for an edge before they send.
Polling == {"UnixStream", "UnixPipe", "UdpDgram"}

TypeOK ==
  /\ program \in Datagrams \cup Polling
  /\ receiver \in {"unbound", "bound", "poll", "recv", "returned"}
  /\ sender \in {"start", "poll", "send", "returned"}
  /\ queued \in 0..ChanCap
  /\ readable \in BOOLEAN
  /\ writable \in BOOLEAN

\* pair() and pipe::new() give two connected ends before the threads start.
Init ==
  /\ program \in Datagrams \cup Polling
  /\ receiver = IF program \in Datagrams THEN "unbound" ELSE "bound"
  /\ sender = "start"
  /\ queued = 0
  /\ readable = FALSE
  /\ writable = FALSE

-----------------------------------------------------------------------------
(* The kernel.                                                             *)

RoomUnchecked == TRUE     \* mutant: a send that would block counts as done
HasRoom == queued < ChanCap

\* recv gives 0 once the sender's end is gone and nothing is left.
Ended == program \notin Datagrams /\ sender = "returned"

\* The writer hears of the reader's end.
ReaderGoneReported ==
  program = "UnixStream" \/ (program = "UnixPipe" /\ HasRoom)

\* event.is_readable() of the event reported now.
IsReadable == queued > 0 \/ program = "UnixStream"

\* The receiver's socket takes datagrams, or its end is open.
Attached == receiver \notin {"unbound", "returned"}

-----------------------------------------------------------------------------
(* The receiver thread.                                                    *)

\* bind fails when another process has the port: the thread returns, or the
\* task panics, and nothing but that thread or task ends.
ReceiverBind ==
  /\ receiver = "unbound"
  /\ receiver' \in {"bound"} \cup (IF MayStop THEN {"returned"} ELSE {})
  /\ UNCHANGED <<program, sender, queued, readable, writable>>

\* What came before the source was registered makes an edge now.
ReceiverRegister ==
  /\ receiver = "bound"
  /\ receiver' = "poll"
  /\ readable' = (queued > 0 \/ (Ended /\ program = "UnixStream"))
  /\ UNCHANGED <<program, sender, queued, writable>>

ReceiverPoll ==
  /\ receiver = "poll"
  /\ program # "TokioUdp"
  /\ readable
  /\ readable' = FALSE
  /\ receiver' = IF IsReadable THEN "recv" ELSE "poll"
  /\ UNCHANGED <<program, sender, queued, writable>>

\* readable().await is ready as long as tokio holds the readiness.
TokioReadable ==
  /\ receiver = "poll"
  /\ program = "TokioUdp"
  /\ readable
  /\ receiver' = "recv"
  /\ UNCHANGED <<program, sender, queued, readable, writable>>

\* Room in a channel that was full makes an edge for the sender.
Take(n) ==
  /\ queued' = queued - n
  /\ writable' = (writable \/ (~HasRoom /\ sender \in {"poll", "send"}))
  /\ UNCHANGED <<program, sender, readable>>

\* As many bytes as there are, or as fit into the buffer.
RecvBytes ==
  /\ receiver = "recv"
  /\ program \notin Datagrams
  /\ \E n \in 1..queued : Take(n)
  /\ UNCHANGED receiver

\* One datagram; its contents are not looked at.
RecvDatagram ==
  /\ receiver = "recv"
  /\ program = "UdpDgram"
  /\ queued > 0
  /\ Take(1)
  /\ UNCHANGED receiver

\* One datagram by recvmsg.  IP_PKTINFO is not set on the socket: there is no
\* control message, and the destination is printed as None.
RecvMsgDatagram ==
  /\ receiver = "recv"
  /\ program = "RecvMsg"
  /\ queued > 0
  /\ Take(1)
  /\ UNCHANGED receiver

\* Mutant: the readiness is used up by a datagram.
TokioRecvClears ==
  /\ receiver = "recv"
  /\ program = "TokioUdp"
  /\ queued > 0
  /\ queued' = queued - 1
  /\ readable' = FALSE
  /\ receiver' = "poll"
  /\ UNCHANGED <<program, sender, writable>>

\* One datagram for each readable().await.
TokioRecv ==
  /\ receiver = "recv"
  /\ program = "TokioUdp"
  /\ queued > 0
  /\ Take(1)
  /\ receiver' = "poll"

\* Mutant: recv is called once for an event.
RecvOnce ==
  /\ receiver = "recv"
  /\ ~Ended
  /\ receiver' = "poll"
  /\ UNCHANGED <<program, sender, queued, readable, writable>>

RecvBlocks ==
  /\ receiver = "recv"
  /\ program # "TokioUdp"
  /\ queued = 0
  /\ ~Ended
  /\ receiver' = "poll"
  /\ UNCHANGED <<program, sender, queued, readable, writable>>

\* try_io clears the readiness on WouldBlock, unless a report has come since
\* it was looked at: for an arrival, clearing is one step with the receive.
TokioRecvBlocks ==
  /\ receiver = "recv"
  /\ program = "TokioUdp"
  /\ queued = 0
  /\ receiver' = "poll"
  /\ readable' = FALSE
  /\ UNCHANGED <<program, sender, queued, writable>>

\* Ok(0) is printed like any other length and recv is called again.
RecvSpins ==
  /\ receiver = "recv"
  /\ queued = 0
  /\ Ended
  /\ UNCHANGED pairVars

\* poll fails and the thread returns.  Unread units of a socket are dropped
\* with it, those of a pipe stay in the pipe.
ReceiverStops ==
  /\ MayStop
  /\ receiver = "poll"
  /\ program # "TokioUdp"
  /\ receiver' = "returned"
  /\ queued' = IF program = "UnixPipe" THEN queued ELSE 0
  /\ readable' = FALSE
  /\ writable' = \/ writable
                 \/ ReaderGoneReported /\ sender \in {"poll", "send"}
  /\ UNCHANGED <<program, sender>>

-----------------------------------------------------------------------------
(* The sender thread.                                                      *)

SenderRegister ==
  /\ sender = "start"
  /\ program \in Polling
  /\ sender' = "poll"
  /\ writable' = TRUE
  /\ UNCHANGED <<program, receiver, queued, readable>>

\* tokio-UdpDgram binds, connects and sends whether or not the socket was
\* reported writable: a try before that report is skipped.
TokioSenderStart ==
  /\ sender = "start"
  /\ program = "TokioUdp"
  /\ sender' = "send"
  /\ UNCHANGED <<program, receiver, queued, readable, writable>>

\* mio-and-recvmsg sends with a blocking socket.
RecvMsgSenderStart ==
  /\ sender = "start"
  /\ program = "RecvMsg"
  /\ sender' = "send"
  /\ UNCHANGED <<program, receiver, queued, readable, writable>>

SenderPoll ==
  /\ sender = "poll"
  /\ writable
  /\ writable' = FALSE
  /\ sender' = "send"
  /\ UNCHANGED <<program, receiver, queued, readable>>

\* The loop sleeps and sends again.
SendUnit ==
  /\ sender = "send"
  /\ Attached
  /\ HasRoom
  /\ queued' = queued + 1
  /\ readable' = (receiver \in {"poll", "recv"})
  /\ UNCHANGED <<program, receiver, sender, writable>>

\* Mutant: a send that was accepted ends the loop.
SendOnce ==
  /\ sender = "send"
  /\ Attached
  /\ program \notin Datagrams
  /\ sender' = "poll"
  /\ UNCHANGED <<program, receiver, queued, readable, writable>>

SendBlocks ==
  /\ sender = "send"
  /\ Attached
  /\ ~HasRoom
  /\ program \notin Datagrams
  /\ sender' = "poll"
  /\ UNCHANGED <<program, receiver, queued, readable, writable>>

\* The peer is gone, or no socket is bound: an error is printed, unless the
\* socket is not connected, and send is tried again for ever.  A full socket
\* drops the datagram without an error.
SendInVain ==
  /\ sender = "send"
  /\ ~Attached \/ (program \in Datagrams /\ ~HasRoom)
  /\ UNCHANGED pairVars

SenderStops ==
  /\ MayStop
  /\ sender = "poll"
  /\ sender' = "returned"
  /\ writable' = FALSE
  /\ readable' = \/ readable
                 \/ program = "UnixStream" /\ receiver \in {"poll", "recv"}
  /\ UNCHANGED <<program, receiver, queued>>

\* send_to fails for another reason: the thread of mio-and-recvmsg returns.
RecvMsgSendFails ==
  /\ MayStop
  /\ sender = "send"
  /\ program = "RecvMsg"
  /\ sender' = "returned"
  /\ UNCHANGED <<program, receiver, queued, readable, writable>>

-----------------------------------------------------------------------------
Recv == RecvBytes \/ RecvDatagram \/ RecvMsgDatagram \/ TokioRecv

ReceiverStep ==
  \/ ReceiverBind \/ ReceiverRegister \/ ReceiverPoll \/ TokioReadable
  \/ Recv \/ RecvBlocks \/ TokioRecvBlocks

SenderStart == SenderRegister \/ TokioSenderStart \/ RecvMsgSenderStart

SenderStep == SenderStart \/ SenderPoll \/ SendUnit \/ SendBlocks

Next ==
  \/ ReceiverStep \/ RecvSpins \/ ReceiverStops
  \/ SenderStep \/ SendInVain \/ SenderStops \/ RecvMsgSendFails

\* The threads run on; nothing has to fail.
Fairness == WF_pairVars(ReceiverStep) /\ WF_pairVars(SenderStep)

Spec == Init /\ [][Next]_pairVars

FairSpec == Spec /\ Fairness

-----------------------------------------------------------------------------
(* Properties.                                                             *)

\* A registered receiver that sleeps, or is about to, hears of what is in the
\* channel: the recv loop ends with WouldBlock only (lines 20-42).
NoLostEdge == receiver = "poll" /\ queued > 0 => readable

\* A sender sleeps without an edge to come only before a full channel
\* (lines 59-83).
SenderWoken == sender = "poll" => writable \/ ~HasRoom

\* What is in the channel is attended to, unless the receiver has returned.
\* It may have come before the source was registered (lines 11-14 of UdpDgram).
Attended == queued > 0 ~> queued = 0 \/ receiver \in {"recv", "returned"}

\* A sender that sleeps goes on while there is a receiver to make room.  With
\* the receiver gone and the pipe full, the sender of UnixPipe sleeps for ever.
SenderResumes == sender = "poll" ~> sender # "poll" \/ receiver = "returned"
=============================================================================
