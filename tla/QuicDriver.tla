----------------------------- MODULE QuicDriver -----------------------------
(***************************************************************************)
(* The connection driver of poll-read/src/main.rs: the task spawned at     *)
(* line 430 together with the channels it owns.                            *)
(*                                                                         *)
(* The driver waits in `select!` for a request on the command channel or   *)
(* for a one second sleep, which stands for an acknowledgement of the peer.*)
(* After either it makes one pass over its queues: promote the parked      *)
(* datagram, drain the datagram channel, publish one buffer to each of the *)
(* two readers, transmit what the congestion window admits.  One action is *)
(* one step of that pass; other tasks may run between two steps.           *)
(*                                                                         *)
(* A datagram is the number of its acceptance, 1 for the first one         *)
(* accepted; each has a length of its own.                                 *)
(***************************************************************************)
EXTENDS Integers, Sequences, FiniteSets

CONSTANTS
  Keys,           \* addresses used as keys of QuicWriteDgram::cmd_pending
  StreamKey,      \* stands for the one request of QuicSendStream in flight
  MaxSendDgrams,  \* MAX_SEND_DGRAMS, 2 in the code
  WriteCap,       \* capacity of the datagram write channel, 1 in the code
  CmdCap,         \* capacity of the command channel, 128 in the code
  InitCwnd,       \* initial congestion window, 10000 bytes in the code
  MaxDgrams,      \* datagrams that are given a length; later ones are empty
  Ends            \* bytes of the first n datagrams, for n up to MaxDgrams

ASSUME DriverAssumption ==
  /\ StreamKey \notin Keys
  /\ MaxSendDgrams \in Nat \ {0}
  /\ WriteCap \in Nat \ {0}
  /\ CmdCap \in Nat \ {0}
  /\ InitCwnd \in Nat
  /\ MaxDgrams \in Nat
  /\ Ends \in [0..MaxDgrams -> Nat]
  /\ \A n \in 1..MaxDgrams : Ends[n - 1] <= Ends[n]

VARIABLES
  driver,               \* where the driver's task is
  cmd_open,             \* the receiver of the command channel exists
  dgram_open,           \* the receiver of the datagram channel exists
  cmd_senders,          \* owners of a sender of the command channel
  cmd_queue,            \* requests in the command channel
  reply,                \* per key: the oneshot of its last request
  dgram_queue,          \* datagrams in the datagram write channel
  write_dgrams,         \* datagrams waiting for the congestion window
  write_dgram_waiting,  \* the datagram that found write_dgrams full, or 0
  sent_dgrams,          \* datagrams transmitted and not acknowledged
  ready_notifiers,      \* keys whose WriteDgramReady is held by the driver
  flush_notifiers,      \* keys whose WriteDgramFlush is held by the driver
  cwnd,                 \* bytes the congestion window still admits
  acked,                \* number of datagrams acknowledged (auxiliary)
  stream_ready,         \* buffers in the stream read channel, capacity 1
  dgram_ready           \* buffers in the datagram read channel, capacity 1

chanVars == <<cmd_open, dgram_open, cmd_senders, cmd_queue, dgram_queue>>
sendVars == <<write_dgrams, write_dgram_waiting, sent_dgrams, cwnd, acked>>
noteVars == <<ready_notifiers, flush_notifiers>>
readVars == <<stream_ready, dgram_ready>>
driverVars == <<driver, chanVars, reply, sendVars, noteVars, readVars>>

Clients == Keys \cup {StreamKey}
Request == {"Write", "WriteDgramReady", "WriteDgramFlush"}
Owner == {"send_stream", "recv_stream", "read_dgram", "write_dgram"}
NoDgram == 0

\* "none": no request was made; "open": the answer is still owed;
\* "dropped": the sender of the oneshot was dropped without an answer.
Reply == {"none", "open", "dropped"} \cup Request

DriverState == {"select", "promote", "drain", "publish_stream",
                "publish_dgram", "transmit", "exiting", "closing"}

Message == [req : Request, key : Clients]

ChanTypeOK ==
  /\ cmd_open \in BOOLEAN
  /\ dgram_open \in BOOLEAN
  /\ cmd_senders \in SUBSET Owner
  /\ cmd_queue \in Seq(Message)
  /\ dgram_queue \in Seq(Nat)

SendTypeOK ==
  /\ write_dgrams \in Seq(Nat)
  /\ write_dgram_waiting \in Nat
  /\ sent_dgrams \in Seq(Nat)
  /\ cwnd \in Int
  /\ acked \in Nat

DriverTypeOK ==
  /\ driver \in DriverState
  /\ reply \in [Clients -> Reply]
  /\ ready_notifiers \in SUBSET Clients
  /\ flush_notifiers \in SUBSET Clients
  /\ stream_ready \in 0..1
  /\ dgram_ready \in 0..1
  /\ ChanTypeOK
  /\ SendTypeOK

DriverInit ==
  /\ driver = "select"
  /\ cmd_open = TRUE
  /\ dgram_open = TRUE
  /\ cmd_senders = Owner
  /\ cmd_queue = <<>>
  /\ reply = [k \in Clients |-> "none"]
  /\ dgram_queue = <<>>
  /\ write_dgrams = <<>>
  /\ write_dgram_waiting = NoDgram
  /\ sent_dgrams = <<>>
  /\ ready_notifiers = {}
  /\ flush_notifiers = {}
  /\ cwnd = InitCwnd
  /\ acked = 0
  /\ stream_ready = 0
  /\ dgram_ready = 0

\* The bytes of the first n datagrams, and the length of datagram d.
UpTo(n) == Ends[IF n \in 0..MaxDgrams THEN n ELSE MaxDgrams]
LenOf(d) == UpTo(d) - UpTo(d - 1)

\* respond_to.send(response) for every key of ks.
Answer(ks, response) ==
  reply' = [k \in Clients |-> IF k \in ks THEN response ELSE reply[k]]

-----------------------------------------------------------------------------
\* select!, first branch: the driver takes the oldest request.
Receive(req) ==
  /\ driver = "select"
  /\ cmd_queue # <<>>
  /\ Head(cmd_queue).req = req
  /\ cmd_queue' = Tail(cmd_queue)
  /\ driver' = "promote"

ReceiveWrite ==
  /\ Receive("Write")
  /\ Answer({Head(cmd_queue).key}, "Write")
  /\ UNCHANGED <<cmd_open, dgram_open, cmd_senders, dgram_queue, sendVars,
                 noteVars, readVars>>

\* Mutant: a Ready is answered on arrival.
ReceiveReadyAtOnce ==
  /\ Receive("WriteDgramReady")
  /\ Answer({Head(cmd_queue).key}, "WriteDgramReady")
  /\ UNCHANGED <<cmd_open, dgram_open, cmd_senders, dgram_queue, sendVars,
                 noteVars, readVars>>

ReceiveReady ==
  /\ Receive("WriteDgramReady")
  /\ ready_notifiers' = ready_notifiers \cup {Head(cmd_queue).key}
  /\ UNCHANGED <<cmd_open, dgram_open, cmd_senders, dgram_queue, reply,
                 sendVars, flush_notifiers, readVars>>

ReceiveFlush ==
  /\ Receive("WriteDgramFlush")
  /\ flush_notifiers' = flush_notifiers \cup {Head(cmd_queue).key}
  /\ UNCHANGED <<cmd_open, dgram_open, cmd_senders, dgram_queue, reply,
                 sendVars, ready_notifiers, readVars>>

\* recv() returns None: every sender is gone and the channel is empty.
ReceiveNone ==
  /\ driver = "select"
  /\ cmd_queue = <<>>
  /\ cmd_senders = {}
  /\ driver' = "exiting"
  /\ UNCHANGED <<chanVars, reply, sendVars, noteVars, readVars>>

\* What an acknowledgement gives back to the window.
CreditNothing(d) == 0       \* mutant: the window is not reopened
Credit(d) == LenOf(d)

\* select!, second branch: the sleep elapses, the oldest datagram in flight
\* is acknowledged.
WakeUp ==
  /\ driver = "select"
  /\ driver' = "promote"
  /\ IF sent_dgrams # <<>>
     THEN /\ sent_dgrams' = Tail(sent_dgrams)
          /\ cwnd' = cwnd + Credit(Head(sent_dgrams))
          /\ acked' = acked + 1
     ELSE UNCHANGED <<sent_dgrams, cwnd, acked>>
  /\ UNCHANGED <<chanVars, reply, write_dgrams, write_dgram_waiting, noteVars,
                 readVars>>

-----------------------------------------------------------------------------
RoomForOneMore == Len(write_dgrams) <= MaxSendDgrams   \* mutant: off by one
HasRoom == Len(write_dgrams) < MaxSendDgrams

DrainAnyway(waiting) == "drain"     \* mutant: the is_none() test is missing
AfterPromote(waiting) == IF waiting = NoDgram THEN "drain" ELSE "publish_stream"

\* The parked datagram moves on when write_dgrams has room; the channel is
\* drained only when nothing is parked.
Promote ==
  /\ driver = "promote"
  /\ IF HasRoom /\ write_dgram_waiting # NoDgram
     THEN /\ write_dgrams' = Append(write_dgrams, write_dgram_waiting)
          /\ write_dgram_waiting' = NoDgram
     ELSE UNCHANGED <<write_dgrams, write_dgram_waiting>>
  /\ driver' = AfterPromote(write_dgram_waiting')
  /\ UNCHANGED <<chanVars, reply, sent_dgrams, cwnd, acked, noteVars, readVars>>

\* The datagram joins write_dgrams, or is parked and ends the drain.
PushOrPark(d) ==
  IF HasRoom
  THEN /\ write_dgrams' = Append(write_dgrams, d)
       /\ UNCHANGED <<write_dgram_waiting, driver>>
  ELSE /\ write_dgram_waiting' = d
       /\ driver' = "publish_stream"
       /\ UNCHANGED write_dgrams

\* Mutant: the flushes are answered with the first datagram taken.
DrainTakeFlushes ==
  /\ driver = "drain"
  /\ dgram_queue # <<>>
  /\ dgram_queue' = Tail(dgram_queue)
  /\ reply' = [k \in Clients |->
                IF k \in ready_notifiers THEN "WriteDgramReady"
                ELSE IF k \in flush_notifiers THEN "WriteDgramFlush"
                ELSE reply[k]]
  /\ ready_notifiers' = {}
  /\ flush_notifiers' = {}
  /\ PushOrPark(Head(dgram_queue))
  /\ UNCHANGED <<cmd_open, dgram_open, cmd_senders, cmd_queue, sent_dgrams,
                 cwnd, acked, readVars>>

\* Mutant: a datagram that has to be parked ends the drain before the held
\* Ready are answered.
DrainTakeParksFirst ==
  /\ driver = "drain"
  /\ dgram_queue # <<>>
  /\ dgram_queue' = Tail(dgram_queue)
  /\ IF HasRoom
     THEN /\ Answer(ready_notifiers, "WriteDgramReady")
          /\ ready_notifiers' = {}
     ELSE UNCHANGED <<reply, ready_notifiers>>
  /\ PushOrPark(Head(dgram_queue))
  /\ UNCHANGED <<cmd_open, dgram_open, cmd_senders, cmd_queue, sent_dgrams,
                 cwnd, acked, flush_notifiers, readVars>>

\* try_recv() gives a datagram: every held Ready is answered, whatever
\* becomes of the datagram.  Only the driver touches the notifiers, so taking
\* the datagram and answering are one step for every other task.
DrainTake ==
  /\ driver = "drain"
  /\ dgram_queue # <<>>
  /\ dgram_queue' = Tail(dgram_queue)
  /\ Answer(ready_notifiers, "WriteDgramReady")
  /\ ready_notifiers' = {}
  /\ UNCHANGED flush_notifiers
  /\ PushOrPark(Head(dgram_queue))
  /\ UNCHANGED <<cmd_open, dgram_open, cmd_senders, cmd_queue, sent_dgrams,
                 cwnd, acked, readVars>>

\* Mutant: the held Ready are thrown away with the flushes.
DrainEmptyClearsReady ==
  /\ driver = "drain"
  /\ dgram_queue = <<>>
  /\ reply' = [k \in Clients |->
                IF k \in flush_notifiers THEN "WriteDgramFlush"
                ELSE IF k \in ready_notifiers THEN "dropped"
                ELSE reply[k]]
  /\ ready_notifiers' = {}
  /\ flush_notifiers' = {}
  /\ driver' = "publish_stream"
  /\ UNCHANGED <<chanVars, sendVars, readVars>>

\* try_recv() finds the channel empty: every held Flush is answered.
DrainEmpty ==
  /\ driver = "drain"
  /\ dgram_queue = <<>>
  /\ Answer(flush_notifiers, "WriteDgramFlush")
  /\ flush_notifiers' = {}
  /\ driver' = "publish_stream"
  /\ UNCHANGED <<chanVars, sendVars, ready_notifiers, readVars>>

-----------------------------------------------------------------------------
\* try_reserve() on the channel of a reader: a buffer is published when there
\* is room, nothing happens when it is full, and a dropped reader ends the
\* driver.
PublishAnyway(n) == n + 1     \* mutant: the channel has no bound
Publish(n) == 1

PublishStream ==
  /\ driver = "publish_stream"
  /\ IF "recv_stream" \in cmd_senders
     THEN driver' = "publish_dgram" /\ stream_ready' = Publish(stream_ready)
     ELSE driver' = "exiting" /\ UNCHANGED stream_ready
  /\ UNCHANGED <<chanVars, reply, sendVars, noteVars, dgram_ready>>

PublishDgram ==
  /\ driver = "publish_dgram"
  /\ IF "read_dgram" \in cmd_senders
     THEN driver' = "transmit" /\ dgram_ready' = Publish(dgram_ready)
     ELSE driver' = "exiting" /\ UNCHANGED dgram_ready
  /\ UNCHANGED <<chanVars, reply, sendVars, noteVars, stream_ready>>

AdmitsAny == write_dgrams # <<>>     \* mutant: the window is not consulted
Admits == write_dgrams # <<>> /\ LenOf(Head(write_dgrams)) <= cwnd

\* One turn of the loop that transmits while the window admits the head.
Transmit ==
  /\ driver = "transmit"
  /\ IF Admits
     THEN /\ write_dgrams' = Tail(write_dgrams)
          /\ sent_dgrams' = Append(sent_dgrams, Head(write_dgrams))
          /\ cwnd' = cwnd - LenOf(Head(write_dgrams))
          /\ UNCHANGED driver
     ELSE /\ driver' = "select"
          /\ UNCHANGED <<write_dgrams, sent_dgrams, cwnd>>
  /\ UNCHANGED <<chanVars, reply, write_dgram_waiting, acked, noteVars,
                 readVars>>

-----------------------------------------------------------------------------
\* The task ends: its locals go first, with the oneshots held in the two
\* vectors, then the captured receivers, in an order nothing fixes.  A
\* dropped receiver closes its channel and drops what is queued.  The queues
\* of datagrams keep their last value here: nothing reads them any more.
DropNotifiers ==
  /\ driver = "exiting"
  /\ driver' = "closing"
  /\ Answer(ready_notifiers \cup flush_notifiers, "dropped")
  /\ ready_notifiers' = {}
  /\ flush_notifiers' = {}
  /\ UNCHANGED <<chanVars, sendVars, readVars>>

CloseCommands ==
  /\ driver = "closing"
  /\ cmd_open
  /\ cmd_open' = FALSE
  /\ Answer({cmd_queue[i].key : i \in DOMAIN cmd_queue}, "dropped")
  /\ cmd_queue' = <<>>
  /\ UNCHANGED <<driver, dgram_open, cmd_senders, dgram_queue, sendVars,
                 noteVars, readVars>>

CloseDgrams ==
  /\ driver = "closing"
  /\ dgram_open
  /\ dgram_open' = FALSE
  /\ dgram_queue' = <<>>
  /\ UNCHANGED <<driver, cmd_open, cmd_senders, cmd_queue, reply, sendVars,
                 noteVars, readVars>>

ReceiveRequest == ReceiveWrite \/ ReceiveReady \/ ReceiveFlush

DriverPass ==
  \/ Promote \/ DrainTake \/ DrainEmpty
  \/ PublishStream \/ PublishDgram \/ Transmit
  \/ DropNotifiers \/ CloseCommands \/ CloseDgrams

DriverNext == ReceiveRequest \/ ReceiveNone \/ WakeUp \/ DriverPass

-----------------------------------------------------------------------------
\* The datagrams handed to the connection, and those taken out of the channel.
Transmitted == acked + Len(sent_dgrams)
Forwarded == Transmitted + Len(write_dgrams)
Taken == Forwarded + (IF write_dgram_waiting = NoDgram THEN 0 ELSE 1)
=============================================================================
