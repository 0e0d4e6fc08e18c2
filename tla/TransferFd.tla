------------------------------ MODULE TransferFd ------------------------------
(***************************************************************************)
(* transfer-fd: each sender process makes a pipe, passes its read end to   *)
(* the receiver process in a message of a datagram socket, closes its own  *)
(* copy and writes into the pipe without end.  The receiver takes one      *)
(* message, drops its socket and reads until the end of the pipe.          *)
(*                                                                         *)
(* A read end lives as long as somebody holds it: the sender, a message in *)
(* the socket's queue, or the receiver.  Every expect(..) that fails ends  *)
(* its process, and a process that ends closes all it has open.  One unit  *)
(* of a pipe is one "hello", which is written as a whole.                  *)
(***************************************************************************)
EXTENDS Integers, Sequences

CONSTANTS
  Senders,   \* the sender processes
  PipeCap,   \* units a pipe holds
  QueueCap,  \* messages the receiver's socket holds
  MayKill    \* processes may be killed: nothing else ends a sender that writes

ASSUME TransferAssumption ==
  /\ PipeCap \in Nat \ {0}
  /\ QueueCap \in Nat \ {0}
  /\ MayKill \in BOOLEAN
  /\ "none" \notin Senders

VARIABLES
  sender,    \* where each sender is
  receiver,  \* where the receiver is
  received,  \* whose read end the receiver got
  queue,     \* senders whose messages wait in the receiver's socket
  holders,   \* who holds the read end of each sender's pipe
  pipe       \* units in each pipe

transferVars == <<sender, receiver, received, queue, holders, pipe>>

TypeOK ==
  /\ sender \in [Senders -> {"start", "connected", "sent", "writing",
                             "refused", "broken", "killed"}]
  /\ receiver \in {"start", "bound", "received", "reading", "done", "killed"}
  /\ received \in Senders \cup {"none"}
  /\ queue \in Seq(Senders) /\ Len(queue) <= QueueCap
  /\ holders \in [Senders -> SUBSET {"sender", "message", "receiver"}]
  /\ pipe \in [Senders -> 0..PipeCap]

Init ==
  /\ sender = [s \in Senders |-> "start"]
  /\ receiver = "start"
  /\ received = "none"
  /\ queue = <<>>
  /\ holders = [s \in Senders |-> {}]
  /\ pipe = [s \in Senders |-> 0]

-----------------------------------------------------------------------------
(* A sender.                                                               *)

Gone(s) == sender[s] \in {"refused", "broken", "killed"}

SocketOpen == receiver \in {"bound", "received"}

\* The process ends with its own copy of the read end.
SenderEnds(s, how) ==
  /\ sender' = [sender EXCEPT ![s] = how]
  /\ holders' = [holders EXCEPT ![s] = @ \ {"sender"}]
  /\ UNCHANGED <<receiver, received, queue, pipe>>

\* pipe, bind and connect to the name that the receiver printed.
Connect(s) ==
  /\ sender[s] = "start"
  /\ SocketOpen
  /\ sender' = [sender EXCEPT ![s] = "connected"]
  /\ holders' = [holders EXCEPT ![s] = {"sender"}]
  /\ UNCHANGED <<receiver, received, queue, pipe>>

\* connect or sendmsg fails: the receiver's socket is gone.
Refused(s) ==
  /\ sender[s] \in {"start", "connected"}
  /\ receiver # "start" /\ ~SocketOpen
  /\ SenderEnds(s, "refused")

\* sendmsg blocks while the queue is full.  The message holds a copy.
SendMsg(s) ==
  /\ sender[s] = "connected"
  /\ SocketOpen
  /\ Len(queue) < QueueCap
  /\ sender' = [sender EXCEPT ![s] = "sent"]
  /\ queue' = Append(queue, s)
  /\ holders' = [holders EXCEPT ![s] = @ \cup {"message"}]
  /\ UNCHANGED <<receiver, received, pipe>>

ReadEndKept(s) == holders[s]      \* mutant: close(r) is left out
ReadEndClosed(s) == holders[s] \ {"sender"}

Close(s) ==
  /\ sender[s] = "sent"
  /\ sender' = [sender EXCEPT ![s] = "writing"]
  /\ holders' = [holders EXCEPT ![s] = ReadEndClosed(s)]
  /\ UNCHANGED <<receiver, received, queue, pipe>>

\* write blocks while the pipe is full and somebody holds the read end.
Write(s) ==
  /\ sender[s] = "writing"
  /\ holders[s] # {}
  /\ pipe[s] < PipeCap
  /\ pipe' = [pipe EXCEPT ![s] = @ + 1]
  /\ UNCHANGED <<sender, receiver, received, queue, holders>>

\* Nobody holds it: write fails with EPIPE, and expect panics.
WriteFails(s) ==
  /\ sender[s] = "writing"
  /\ holders[s] = {}
  /\ SenderEnds(s, "broken")

KillSender(s) ==
  /\ MayKill
  /\ ~Gone(s)
  /\ SenderEnds(s, "killed")

SenderStep(s) ==
  \/ Connect(s) \/ Refused(s) \/ SendMsg(s)
  \/ Close(s) \/ Write(s) \/ WriteFails(s)

-----------------------------------------------------------------------------
(* The receiver.                                                           *)

Bind ==
  /\ receiver = "start"
  /\ receiver' = "bound"
  /\ UNCHANGED <<sender, received, queue, holders, pipe>>

\* Every message of a sender carries a descriptor.
RecvMsg ==
  /\ receiver = "bound"
  /\ queue # <<>>
  /\ receiver' = "received"
  /\ received' = Head(queue)
  /\ queue' = Tail(queue)
  /\ holders' = [holders EXCEPT ![Head(queue)] =
                   (@ \ {"message"}) \cup {"receiver"}]
  /\ UNCHANGED <<sender, pipe>>

\* Mutant: the descriptor is closed with the message at the end of the block.
DropSocketAndFd ==
  /\ receiver = "received"
  /\ receiver' = "reading"
  /\ queue' = <<>>
  /\ holders' = [s \in Senders |-> holders[s] \ {"message", "receiver"}]
  /\ UNCHANGED <<sender, received, pipe>>

\* The socket is dropped at the end of the block, with the messages in it.
DropSocket ==
  /\ receiver = "received"
  /\ receiver' = "reading"
  /\ queue' = <<>>
  /\ holders' = [s \in Senders |-> holders[s] \ {"message"}]
  /\ UNCHANGED <<sender, received, pipe>>

Read ==
  /\ receiver = "reading"
  /\ \E n \in 1..pipe[received] : pipe' = [pipe EXCEPT ![received] = @ - n]
  /\ UNCHANGED <<sender, receiver, received, queue, holders>>

AtNeverEnd == FALSE               \* mutant: 0 does not end the loop

\* read gives 0: the pipe is empty and its writer is gone.
AtEnd == pipe[received] = 0 /\ Gone(received)

ReceiverEnds(how) ==
  /\ receiver' = how
  /\ queue' = <<>>
  /\ holders' = [s \in Senders |-> holders[s] \ {"message", "receiver"}]
  /\ UNCHANGED <<sender, received, pipe>>

ReadEnd ==
  /\ receiver = "reading"
  /\ AtEnd
  /\ ReceiverEnds("done")

KillReceiver ==
  /\ MayKill
  /\ receiver \notin {"start", "done", "killed"}
  /\ ReceiverEnds("killed")

ReceiverStep == Bind \/ RecvMsg \/ DropSocket \/ Read \/ ReadEnd

-----------------------------------------------------------------------------
Next ==
  \/ \E s \in Senders : SenderStep(s) \/ KillSender(s)
  \/ ReceiverStep
  \/ KillReceiver

Spec == Init /\ [][Next]_transferVars

\* The processes run on; nobody has to be killed.
Fairness ==
  /\ \A s \in Senders : WF_transferVars(SenderStep(s))
  /\ WF_transferVars(ReceiverStep)

FairSpec == Spec /\ Fairness

-----------------------------------------------------------------------------
(* Properties.                                                             *)

Blocked(s) ==
  \/ sender[s] = "connected" /\ SocketOpen /\ Len(queue) = QueueCap
  \/ sender[s] = "writing" /\ pipe[s] = PipeCap

\* A sender that waits for room in the queue or in its pipe gets it or is told
\* that nobody will make any.  This needs close(r) (sender.rs line 25): while a
\* sender holds its own read end, the end of all others is hidden from it.
SenderReleased == \A s \in Senders : Blocked(s) ~> ~Blocked(s)

\* The read loop ends (receiver.rs lines 39-45) when its writer has ended,
\* wherever the message and the processes were at that moment.
ReaderSeesEnd ==
  \A s \in Senders :
    received = s /\ Gone(s) ~> receiver \in {"done", "killed"}

\* A sender's write fails only when its message was never going to be taken or
\* the receiver itself has ended: not before the socket is dropped, and never
\* while the receiver reads from that sender (receiver.rs lines 30-40).
BrokenMeansUnread ==
  \A s \in Senders :
    sender[s] = "broken" =>
      /\ ~SocketOpen
      /\ received = s => receiver # "reading"
=============================================================================
