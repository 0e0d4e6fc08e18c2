------------------------------ MODULE QuicDgram ------------------------------
(***************************************************************************)
(* QuicWriteDgram and its clients in poll-read/src/main.rs, composed with  *)
(* the driver task.                                                        *)
(*                                                                         *)
(* The writer runs a script of operations; each is a future that polls     *)
(* poll_ready, send_item and poll_flush in its turn.  A poll is cut at     *)
(* every access to a shared channel, since the driver runs in another      *)
(* task.  Where a poll stands is read off cmd_pending[key], as the code    *)
(* does: no entry, a Command in State0, in State1, or Terminated; besides, *)
(* "Reserved" is State0 between poll_reserve and send_item of one poll.    *)
(***************************************************************************)
EXTENDS QuicDriver

CONSTANTS
  Script,           \* the operations the writer may choose from, in turn
  MayCancel,        \* a parked future may be dropped (select!, timeout)
  EarlyDrop,        \* handles that may be dropped before the script ends
  Reading,          \* readers that take what the driver publishes
  MaxStreamWrites   \* bound on the writes of QuicSendStream

Op == {"chunk",       \* poll_fn(|cx| write_dgram.poll_write_chunk(cx, &buf))
       "send",        \* SinkExt::send: poll_ready, start_send, poll_flush
       "flush",       \* poll_fn(|cx| write_dgram.poll_flush(cx))
       "ready",       \* Sink::poll_ready alone
       "start_send",  \* Sink::start_send after a successful poll_ready
       "close"}       \* Sink::poll_close

ASSUME WriterAssumption ==
  /\ Script \in Seq(SUBSET Op)
  /\ MayCancel \in BOOLEAN
  /\ EarlyDrop \in SUBSET {"send_stream", "recv_stream", "read_dgram"}
  /\ Reading \in SUBSET {"recv_stream", "read_dgram"}
  /\ MaxStreamWrites \in Nat

VARIABLES
  cmd_pending,     \* per key: the state of its Command, or "absent"
  request,         \* per key: the message a Command in State0 will send
  write_sender,    \* the PollSender of the datagram channel
  phase,           \* which poll function the current operation is in
  op,              \* the current operation, or "none"
  key,             \* address of cx in the current poll function
  step,            \* next element of Script
  outcome,         \* how the last operation ended
  accepted,        \* number of datagrams send_item accepted (auxiliary)
  confirmed,       \* value of accepted at the last successful flush (aux.)
  stream_cmd,      \* Command of QuicSendStream's poll_write
  stream_writes    \* number of poll_write calls made

writerVars == <<cmd_pending, request, write_sender, phase, op, key, step,
                outcome, accepted, confirmed>>
streamVars == <<stream_cmd, stream_writes>>
vars == <<driverVars, writerVars, streamVars>>

CommandState == {"absent", "State0", "Reserved", "State1", "Terminated"}

Phase == {"idle", "ready", "item", "flush"}
Outcome == {"none", "Ok", "ConnectionClosed", "cancelled", "panicked"}

WriterTypeOK ==
  /\ cmd_pending \in [Keys -> CommandState]
  /\ request \in [Keys -> Request]
  /\ write_sender \in {"idle", "acquiring", "ready", "closed"}
  /\ phase \in Phase
  /\ op \in Op \cup {"none", "panicked"}
  /\ key \in Keys
  /\ step \in Nat
  /\ outcome \in Outcome
  /\ accepted \in Nat
  /\ confirmed \in Nat

TypeOK ==
  /\ DriverTypeOK
  /\ WriterTypeOK
  /\ stream_cmd \in CommandState \ {"Terminated"}
  /\ stream_writes \in Nat

Init ==
  /\ DriverInit
  /\ cmd_pending = [k \in Keys |-> "absent"]
  /\ request = [k \in Keys |-> "WriteDgramReady"]
  /\ write_sender = "idle"
  /\ phase = "idle"
  /\ op = "none"
  /\ key \in Keys
  /\ step = 1
  /\ outcome = "none"
  /\ accepted = 0
  /\ confirmed = 0
  /\ stream_cmd = "absent"
  /\ stream_writes = 0

-----------------------------------------------------------------------------
(* The senders: tokio_util's PollSender and tokio's mpsc, as used here.    *)

\* write_sender.capacity(): the permits left.  One is held by a sender that is
\* ready, or goes to an acquiring one the moment it is released.  Closing the
\* channel returns the permits of the datagrams it drops.
Held == IF \/ write_sender = "ready"
           \/ write_sender = "acquiring" /\ dgram_open
        THEN 1 ELSE 0
HasCapacity == Len(dgram_queue) + Held < WriteCap

\* The permits of the command channel that a poll holds and has not used.
CmdPermits == (IF cmd_pending[key] = "Reserved" THEN 1 ELSE 0)
                + (IF stream_cmd = "Reserved" THEN 1 ELSE 0)

\* The owner's sender of the command channel can reserve, or never will.
CmdRoom == cmd_open /\ Len(cmd_queue) + CmdPermits < CmdCap
CmdClosed(owner) == ~cmd_open \/ owner \notin cmd_senders

\* oneshot::channel() and send_item on the command channel.  With a permit it
\* always succeeds: in a channel whose receiver is gone the request stays in
\* the queue with its oneshot.
Submit(k, req) ==
  /\ cmd_queue' = Append(cmd_queue, [req |-> req, key |-> k])
  /\ reply' = [reply EXCEPT ![k] = "open"]
  /\ UNCHANGED <<driver, cmd_open, dgram_open, cmd_senders, dgram_queue,
                 sendVars, noteVars, readVars>>

-----------------------------------------------------------------------------
(* The shape of an operation.                                              *)

\* The owner's sender goes.  The last sender frees a channel that has lost its
\* receiver, and what was sent into it meanwhile.
Release(h) ==
  /\ cmd_senders' = cmd_senders \ {h}
  /\ IF ~cmd_open /\ cmd_senders' = {}
     THEN /\ Answer({cmd_queue[i].key : i \in DOMAIN cmd_queue}, "dropped")
          /\ cmd_queue' = <<>>
     ELSE UNCHANGED <<cmd_queue, reply>>

SetEntry(k, state) == cmd_pending' = [cmd_pending EXCEPT ![k] = state]

Finish(result) ==
  /\ op' = "none"
  /\ phase' = "idle"
  /\ outcome' = result

\* A panic unwinds the task that polled: no later operation runs.
Panic ==
  /\ op' = "panicked"
  /\ phase' = "idle"
  /\ outcome' = "panicked"

\* A poll function is entered at some address of cx, a parameter on the stack
\* of the thread that polls.  It is the same for all the polls of that function
\* by one future because main polls from block_on, on one thread and through
\* the same calls; a spawned task may move to another worker between two polls.
Enter(p) ==
  /\ phase' = p
  /\ key' \in Keys

\* What follows when poll_ready returns Ok.
AfterReady ==
  IF op \in {"chunk", "send"}
  THEN phase' = "item" /\ UNCHANGED <<op, outcome>>
  ELSE Finish("Ok")

FirstPhase(o) ==
  CASE o = "flush" -> "flush"
    [] o = "start_send" -> "item"
    [] OTHER -> "ready"

\* start_send is called only after poll_ready returned Ok, as Sink demands.
\* poll_close closes the command sender before it calls poll_ready.
Start(o) ==
  /\ op = "none"
  /\ step <= Len(Script)
  /\ o \in Script[step]
  /\ o = "start_send" => /\ write_sender = "ready"
                         /\ "write_dgram" \in cmd_senders
  /\ op' = o
  /\ step' = step + 1
  /\ Enter(FirstPhase(o))
  /\ IF o = "close" THEN Release("write_dgram")
                    ELSE UNCHANGED <<cmd_senders, cmd_queue, reply>>
  /\ UNCHANGED <<driver, cmd_open, dgram_open, dgram_queue, sendVars, noteVars,
                 readVars, cmd_pending, request, write_sender, outcome,
                 accepted, confirmed, streamVars>>

-----------------------------------------------------------------------------
(* poll_ready and poll_flush: making the Command.                          *)

AnyEntry == TRUE     \* mutant: a new Command for every poll
NoEntry == cmd_pending[key] = "absent"

\* No entry: a free slot makes the command Terminated at once, a full channel
\* makes it a request to be told when a slot is free.
CheckCapacity ==
  /\ phase = "ready"
  /\ NoEntry
  /\ IF HasCapacity
     THEN SetEntry(key, "Terminated") /\ UNCHANGED request
     ELSE /\ SetEntry(key, "State0")
          /\ request' = [request EXCEPT ![key] = "WriteDgramReady"]
  /\ UNCHANGED <<driverVars, write_sender, phase, op, key, step, outcome,
                 accepted, confirmed, streamVars>>

RequestFlush ==
  /\ phase = "flush"
  /\ NoEntry
  /\ SetEntry(key, "State0")
  /\ request' = [request EXCEPT ![key] = "WriteDgramFlush"]
  /\ UNCHANGED <<driverVars, write_sender, phase, op, key, step, outcome,
                 accepted, confirmed, streamVars>>

(* Command::poll_execute.                                                  *)

Executing(state) ==
  /\ phase \in {"ready", "flush"}
  /\ cmd_pending[key] = state

ReserveCommand ==
  /\ Executing("State0")
  /\ ~CmdClosed("write_dgram")
  /\ CmdRoom
  /\ SetEntry(key, "Reserved")
  /\ UNCHANGED <<driverVars, request, write_sender, phase, op, key, step,
                 outcome, accepted, confirmed, streamVars>>

\* The driver may drop its receiver before this step.
SendCommand ==
  /\ Executing("Reserved")
  /\ Submit(key, request[key])
  /\ SetEntry(key, "State1")
  /\ UNCHANGED <<request, write_sender, phase, op, key, step, outcome,
                 accepted, confirmed, streamVars>>

\* Err from poll_execute: poll_ready returns at once and keeps the entry,
\* poll_flush removes it.
Fail ==
  /\ Finish("ConnectionClosed")
  /\ IF phase = "ready" THEN UNCHANGED cmd_pending
                        ELSE SetEntry(key, "absent")

SendCommandFails ==
  /\ Executing("State0")
  /\ CmdClosed("write_dgram")
  /\ Fail
  /\ UNCHANGED <<driverVars, request, write_sender, key, step, accepted,
                 confirmed, streamVars>>

\* Mutant: poll_ready takes RecvError for Pending.
AnswerDroppedIgnored ==
  /\ phase = "flush"
  /\ Executing("State1")
  /\ reply[key] = "dropped"
  /\ Fail
  /\ UNCHANGED <<driverVars, request, write_sender, key, step, accepted,
                 confirmed, streamVars>>

AnswerDropped ==
  /\ Executing("State1")
  /\ reply[key] = "dropped"
  /\ Fail
  /\ UNCHANGED <<driverVars, request, write_sender, key, step, accepted,
                 confirmed, streamVars>>

ReadyAnswered ==
  /\ phase = "ready"
  /\ Executing("State1")
  /\ reply[key] = "WriteDgramReady"
  /\ SetEntry(key, "Terminated")
  /\ UNCHANGED <<driverVars, request, write_sender, phase, op, key, step,
                 outcome, accepted, confirmed, streamVars>>

\* What poll_flush leaves under its key.
KeepEntry == "Terminated"     \* mutant: cmd_pending.remove is missing
RemovedEntry == "absent"

FlushAnswered ==
  /\ phase = "flush"
  /\ Executing("State1")
  /\ reply[key] = "WriteDgramFlush"
  /\ SetEntry(key, RemovedEntry)
  /\ Finish("Ok")
  /\ confirmed' = accepted
  /\ UNCHANGED <<driverVars, request, write_sender, key, step, accepted,
                 streamVars>>

\* panic!("Invalid response!"): the entry of this key belongs to a command of
\* the other kind.
InvalidResponse ==
  /\ Executing("State1")
  /\ reply[key] \in Request
  /\ reply[key] # (IF phase = "ready" THEN "WriteDgramReady"
                                      ELSE "WriteDgramFlush")
  /\ Panic
  /\ SetEntry(key, "Terminated")
  /\ UNCHANGED <<driverVars, request, write_sender, key, step, accepted,
                 confirmed, streamVars>>

\* panic!("future polled after completion"): poll_flush finds the Terminated
\* entry that an abandoned poll_ready left under this key.
PolledAfterCompletion ==
  /\ phase = "flush"
  /\ Executing("Terminated")
  /\ Panic
  /\ UNCHANGED <<driverVars, cmd_pending, request, write_sender, key, step,
                 accepted, confirmed, streamVars>>

(* poll_ready, once the command is Terminated: write_sender.poll_reserve.  *)

ReserveSlot ==
  /\ phase = "ready"
  /\ Executing("Terminated")
  /\ \/ write_sender = "ready"
     \/ dgram_open /\ Len(dgram_queue) < WriteCap
  /\ write_sender' = "ready"
  /\ SetEntry(key, "absent")
  /\ AfterReady
  /\ UNCHANGED <<driverVars, request, key, step, accepted, confirmed,
                 streamVars>>

AwaitSlot ==
  /\ phase = "ready"
  /\ Executing("Terminated")
  /\ write_sender = "idle"
  /\ dgram_open
  /\ Len(dgram_queue) >= WriteCap
  /\ write_sender' = "acquiring"
  /\ UNCHANGED <<driverVars, cmd_pending, request, phase, op, key, step,
                 outcome, accepted, confirmed, streamVars>>

ReserveFails ==
  /\ phase = "ready"
  /\ Executing("Terminated")
  /\ write_sender # "ready"
  /\ ~dgram_open
  /\ write_sender' = "closed"
  /\ SetEntry(key, "absent")
  /\ Finish("ConnectionClosed")
  /\ UNCHANGED <<driverVars, request, key, step, accepted, confirmed,
                 streamVars>>

\* send_item with a permit always succeeds: in a channel whose receiver is
\* gone the datagram stays in the queue, where nobody takes it.
SendItem ==
  /\ phase = "item"
  /\ write_sender' = "idle"
  /\ accepted' = accepted + 1
  /\ dgram_queue' = Append(dgram_queue, accepted + 1)
  /\ IF op = "send" THEN Enter("flush") /\ UNCHANGED <<op, outcome>>
                    ELSE Finish("Ok") /\ UNCHANGED key
  /\ UNCHANGED <<driver, cmd_open, dgram_open, cmd_senders, cmd_queue, reply,
                 sendVars, noteVars, readVars, cmd_pending, request, step,
                 confirmed, streamVars>>

\* The last poll of the current operation returned Pending.
Parked ==
  /\ phase \in {"ready", "flush"}
  /\ \/ cmd_pending[key] = "State0" /\ ~CmdClosed("write_dgram") /\ ~CmdRoom
     \/ cmd_pending[key] = "State1" /\ reply[key] = "open"
     \/ cmd_pending[key] = "Terminated" /\ write_sender = "acquiring"

\* The future is dropped while it is parked; its entry stays in cmd_pending.
Cancel ==
  /\ MayCancel
  /\ Parked
  /\ Finish("cancelled")
  /\ UNCHANGED <<driverVars, cmd_pending, request, write_sender, key, step,
                 accepted, confirmed, streamVars>>

-----------------------------------------------------------------------------
(* QuicSendStream::poll_write, and the owners of the other handles.        *)

StreamWrite ==
  /\ stream_cmd = "absent"
  /\ "send_stream" \in cmd_senders
  /\ stream_writes < MaxStreamWrites
  /\ stream_cmd' = "State0"
  /\ stream_writes' = stream_writes + 1
  /\ UNCHANGED <<driverVars, writerVars>>

StreamReserve ==
  /\ stream_cmd = "State0"
  /\ CmdRoom
  /\ stream_cmd' = "Reserved"
  /\ UNCHANGED <<driverVars, writerVars, stream_writes>>

StreamSend ==
  /\ stream_cmd = "Reserved"
  /\ Submit(StreamKey, "Write")
  /\ stream_cmd' = "State1"
  /\ UNCHANGED <<writerVars, stream_writes>>

\* poll_write returns, with the answer or with an error.
StreamDone ==
  /\ \/ stream_cmd = "State1" /\ reply[StreamKey] \in {"Write", "dropped"}
     \/ stream_cmd = "State0" /\ ~cmd_open
  /\ stream_cmd' = "absent"
  /\ UNCHANGED <<driverVars, writerVars, stream_writes>>

StreamTaken ==
  /\ "recv_stream" \in Reading \cap cmd_senders
  /\ stream_ready = 1
  /\ stream_ready' = 0
  /\ UNCHANGED <<driver, chanVars, reply, sendVars, noteVars, dgram_ready,
                 writerVars, streamVars>>

DgramTaken ==
  /\ "read_dgram" \in Reading \cap cmd_senders
  /\ dgram_ready = 1
  /\ dgram_ready' = 0
  /\ UNCHANGED <<driver, chanVars, reply, sendVars, noteVars, stream_ready,
                 writerVars, streamVars>>

ScriptDone == op = "none" /\ step > Len(Script)

\* drop(send_stream), drop(recv_stream), drop(read_dgram); a handle in use is
\* borrowed and cannot be dropped.
Drop(h) ==
  /\ h \in cmd_senders \ {"write_dgram"}
  /\ h \in EarlyDrop \/ ScriptDone
  /\ h = "send_stream" => stream_cmd = "absent"
  /\ Release(h)
  /\ UNCHANGED <<driver, cmd_open, dgram_open, dgram_queue, sendVars, noteVars,
                 readVars, writerVars, streamVars>>

-----------------------------------------------------------------------------
DriverStep == DriverNext /\ UNCHANGED <<writerVars, streamVars>>

PollCommand ==
  \/ CheckCapacity \/ RequestFlush
  \/ ReserveCommand \/ SendCommand \/ SendCommandFails
  \/ AnswerDropped \/ ReadyAnswered \/ FlushAnswered \/ InvalidResponse
  \/ PolledAfterCompletion

PollSlot == ReserveSlot \/ AwaitSlot \/ ReserveFails \/ SendItem

WriterPoll == PollCommand \/ PollSlot
StreamStep == StreamReserve \/ StreamSend \/ StreamDone
ReaderStep == StreamTaken \/ DgramTaken

Next ==
  \/ DriverStep
  \/ WriterPoll
  \/ \E o \in Op : Start(o)
  \/ Cancel
  \/ StreamWrite
  \/ StreamStep
  \/ ReaderStep
  \/ \E h \in Owner : Drop(h)

\* The runtime polls a task that can make progress.  recv() is polled before
\* the one second sleep can have elapsed, so a request that waits whenever
\* the driver selects is received.  Nobody has to start an operation, to
\* cancel one, to read, or to drop a handle.
Fairness ==
  /\ WF_vars(DriverStep)
  /\ SF_vars(ReceiveRequest /\ UNCHANGED <<writerVars, streamVars>>)
  /\ WF_vars(CloseCommands /\ UNCHANGED <<writerVars, streamVars>>)
  /\ WF_vars(CloseDgrams /\ UNCHANGED <<writerVars, streamVars>>)
  /\ WF_vars(WriterPoll)
  /\ WF_vars(StreamStep)

Spec == Init /\ [][Next]_vars

FairSpec == Spec /\ Fairness
=============================================================================
