------------------------- MODULE QuicDgramProperties -------------------------
(***************************************************************************)
(* What the datagram path of poll-read/src/main.rs is expected to do.      *)
(***************************************************************************)
EXTENDS QuicDgram

-----------------------------------------------------------------------------
(* Safety that holds even when operations are abandoned.                   *)

\* The datagrams in flight, queued for transmission, parked and in the channel
\* are, in this order, exactly those accepted and not acknowledged: the four
\* containers the driver moves a datagram through (lines 470-548) neither
\* lose, nor duplicate, nor reorder one while the driver can still be sent to.
Fifo ==
  /\ \A i \in DOMAIN sent_dgrams : sent_dgrams[i] = acked + i
  /\ \A i \in DOMAIN write_dgrams : write_dgrams[i] = Transmitted + i
  /\ write_dgram_waiting # NoDgram => write_dgram_waiting = Forwarded + 1
  /\ dgram_open =>
       /\ \A i \in DOMAIN dgram_queue : dgram_queue[i] = Taken + i
       /\ Taken + Len(dgram_queue) = accepted

\* Bytes in flight and the window left always add up to the initial window,
\* which is never overdrawn, whatever the lengths of the datagrams (the unsigned
\* cwnd of lines 471 and 546).
WindowRespected ==
  /\ cwnd >= 0
  /\ cwnd + UpTo(Transmitted) - UpTo(acked) = InitCwnd

\* No buffer exceeds its limit, the permits of polls between poll_reserve and
\* send_item included; a parked datagram means that write_dgrams was full, and
\* stays so until the driver has transmitted (lines 378-385 and 476-498).
BuffersBounded ==
  /\ Len(write_dgrams) <= MaxSendDgrams
  /\ dgram_open => Len(dgram_queue) <= WriteCap
  /\ dgram_open /\ write_sender = "ready" => Len(dgram_queue) < WriteCap
  /\ cmd_open => Len(cmd_queue) + CmdPermits <= CmdCap
  /\ /\ write_dgram_waiting # NoDgram
     /\ driver \in {"publish_stream", "publish_dgram"}
     => Len(write_dgrams) = MaxSendDgrams

\* The places that hold the sender of k's oneshot.
Queued(k) == {i \in DOMAIN cmd_queue : cmd_queue[i].key = k}
Holders(k) == {<<"cmd_queue", i>> : i \in Queued(k)}
                \cup (IF k \in ready_notifiers THEN {<<"ready", 0>>} ELSE {})
                \cup (IF k \in flush_notifiers THEN {<<"flush", 0>>} ELSE {})

\* An answer is owed for as long as some future may wait for one: each oneshot
\* still open is held exactly once, in the command channel (which its receiver
\* may have left, see Stranded) or in one of the notifier vectors, and an
\* answered one nowhere (lines 384-388, 454-461, 486-507 and the end of the
\* task).
AnswerOwed ==
  \A k \in Clients :
    Cardinality(Holders(k)) = IF reply[k] = "open" THEN 1 ELSE 0

\* An operation reports ConnectionClosed only when the driver is gone or
\* poll_close was called (lines 138-144, 177, 183, 207).
ErrorMeansClosed ==
  outcome = "ConnectionClosed" =>
    driver = "closing" \/ "write_dgram" \notin cmd_senders

-----------------------------------------------------------------------------
(* Safety of a writer that waits for each of its operations.               *)

\* The assertions of lines 175, 205 and 408: the Command found under the
\* address of cx is one this operation made.
NoPanic == op # "panicked"

\* A successful flush means that every datagram accepted before it has left
\* the channel and the parking place (lines 482-507).
FlushBarrier == confirmed <= Forwarded

\* Once poll_ready is done with its Command, poll_reserve does not wait: the
\* capacity seen, or the slot announced by the driver, is still there
\* (lines 157, 181, 484-490).
ReadyMeansSlot ==
  /\ phase = "ready"
  /\ cmd_pending[key] = "Terminated"
  /\ dgram_open
  => Len(dgram_queue) < WriteCap

-----------------------------------------------------------------------------
(* Liveness.                                                               *)

\* The one state in which the driver leaves the writer waiting: it holds the
\* WriteDgramReady of a writer that has nothing in the channel.
Stalled == phase = "ready" /\ key \in ready_notifiers /\ dgram_queue = <<>>

\* A datagram longer than the whole window is at the head, and the one that does
\* not fit behind it keeps the channel from being drained.
Blocked ==
  /\ write_dgram_waiting # NoDgram
  /\ write_dgrams # <<>>
  /\ LenOf(Head(write_dgrams)) > InitCwnd

\* The driver dropped its receiver between poll_reserve and send_item of the
\* writer: the request lies in a channel that nobody reads, and its oneshot is
\* dropped with the last sender only, one of which the writer holds.
Stranded ==
  /\ phase # "idle"
  /\ cmd_pending[key] = "State1"
  /\ ~cmd_open
  /\ Queued(key) # {}

\* An operation returns, unless the program stalls, is blocked or is stranded
\* like this: no other length, no window and no buffer makes a flush hang, and
\* no other answer and no slot is lost (lines 157, 202, 369-412, 454-461,
\* 482-507 and 542).
ReturnsOrStalls ==
  phase # "idle" ~> phase = "idle" \/ Stalled \/ Blocked \/ Stranded

\* A WriteDgramReady that the driver holds is answered when a datagram is in
\* the channel, or its oneshot is dropped, unless a datagram longer than the
\* window keeps the driver from the channel (lines 482-490).
ReadyNotified ==
  \A k \in Keys :
    k \in ready_notifiers /\ dgram_queue # <<>>
      ~> reply[k] # "open" \/ Blocked

\* When the driver ends, whatever the writer waits for, it returns, unless its
\* request was sent after the receiver had gone (lines 177, 183, 207, 385 and
\* the end of the task).
ShutdownReleases ==
  driver = "closing" /\ phase # "idle" ~> phase = "idle" \/ Stranded

\* Every operation the writer awaits returns: main prints its outcome and
\* goes on (lines 613-638).
OperationReturns == phase # "idle" ~> phase = "idle"

-----------------------------------------------------------------------------
\* The datagram path implements DgramPipe.
Pipe == INSTANCE DgramPipe WITH
  EntryCap <- WriteCap + 1,
  QueueCap <- MaxSendDgrams,
  Window <- InitCwnd,
  Bytes <- UpTo,
  forwarded <- Forwarded,
  transmitted <- Transmitted,
  closed <- driver \in {"exiting", "closing"}

\* Each step of the program is one step of the pipe, or none.
PipeSafety == Pipe!PipeSpec

\* While the driver lives every datagram accepted that has none before it, nor
\* is one itself, that is longer than the window is transmitted and, the peer
\* acknowledging one each time the sleep elapses, acknowledged.
PipeLiveness == Pipe!PipeFairness
=============================================================================
