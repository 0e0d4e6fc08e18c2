--------------------------- MODULE QuicAnswerProofs ---------------------------
(***************************************************************************)
(* Proofs about the answers that the driver of poll-read/src/main.rs owes, *)
(* drops and gives, for any capacities, window, script and set of keys,    *)
(* with operations abandoned or awaited.                                   *)
(***************************************************************************)
EXTENDS QuicDgramProofs, FiniteSetTheorems

-----------------------------------------------------------------------------
(* Every oneshot still open is held in exactly one place.                  *)

Noted == ready_notifiers \cup flush_notifiers

\* A key has one request under way at most, which is in one place, and its
\* oneshot is open as long as it is there.
HeldOnce ==
  /\ \A i, j \in DOMAIN cmd_queue : cmd_queue[i].key = cmd_queue[j].key => i = j
  /\ \A i \in DOMAIN cmd_queue : cmd_queue[i].key \notin Noted
  /\ ready_notifiers \cap flush_notifiers = {}
  /\ \A k \in Clients : reply[k] = "open" <=> Queued(k) # {} \/ k \in Noted

\* Whoever sends a request has no other one open: the Command of an open oneshot
\* is in State1, also when the operation that made it was abandoned.
Waited ==
  /\ \A k \in Keys : reply[k] = "open" => cmd_pending[k] = "State1"
  /\ reply[StreamKey] = "open" => stream_cmd = "State1"

\* One holder, or none.
LEMMA HeldOnceSuffices ==
  ASSUME TypeOK, HeldOnce
  PROVE  AnswerOwed
<1> SUFFICES ASSUME NEW k \in Clients
             PROVE  Cardinality(Holders(k)) = IF reply[k] = "open" THEN 1 ELSE 0
  BY DEF AnswerOwed
<1>1. reply[k] = "open" <=> Queued(k) # {} \/ k \in Noted
  BY DEF HeldOnce
<1>2. CASE Queued(k) # {}
  <2>1. PICK i \in Queued(k) : TRUE
    BY <1>2
  <2>2. Queued(k) = {i}
    BY <2>1 DEF Queued, HeldOnce
  <2>3. k \notin Noted
    BY <2>1 DEF Queued, HeldOnce
  <2>4. Holders(k) = {<<"cmd_queue", i>>}
    BY <2>2, <2>3, Zenon DEF Holders, Noted
  <2> QED BY <1>1, <1>2, <2>4, FS_Singleton
<1>3. CASE Queued(k) = {} /\ k \in ready_notifiers
  <2>1. Holders(k) = {<<"ready", 0>>}
    BY <1>3, Zenon DEF Holders, HeldOnce
  <2> QED BY <1>1, <1>3, <2>1, FS_Singleton DEF Noted
<1>4. CASE Queued(k) = {} /\ k \in flush_notifiers
  <2>1. Holders(k) = {<<"flush", 0>>}
    BY <1>4, Zenon DEF Holders, HeldOnce
  <2> QED BY <1>1, <1>4, <2>1, FS_Singleton DEF Noted
<1>5. CASE Queued(k) = {} /\ k \notin Noted
  <2>1. Holders(k) = {}
    BY <1>5, Zenon DEF Holders, Noted
  <2> QED BY <1>1, <1>5, <2>1, FS_EmptySet
<1> QED
  BY <1>2, <1>3, <1>4, <1>5 DEF Noted

\* A step that leaves all requests where they are.
LEMMA SamePlaces ==
  ASSUME HeldOnce,
         UNCHANGED <<cmd_queue, ready_notifiers, flush_notifiers, reply>>
  PROVE  HeldOnce'
BY DEF HeldOnce, Queued, Noted

\* A request that is sent by somebody who has none.
LEMMA SubmitHeld ==
  ASSUME TypeOK, HeldOnce, NEW k \in Clients, NEW r \in Request,
         reply[k] # "open", Submit(k, r)
  PROVE  /\ HeldOnce'
         /\ reply' = [reply EXCEPT ![k] = "open"]
<1> DEFINE n == Len(cmd_queue)
<1>1. /\ cmd_queue \in Seq(Message) /\ reply \in [Clients -> Reply]
  BY DEF TypeOK, DriverTypeOK, ChanTypeOK
<1>2. /\ cmd_queue' = Append(cmd_queue, [req |-> r, key |-> k])
      /\ reply' = [reply EXCEPT ![k] = "open"]
      /\ UNCHANGED <<ready_notifiers, flush_notifiers>>
  BY DEF Submit, noteVars
<1>3. /\ n \in Nat /\ DOMAIN cmd_queue = 1..n /\ DOMAIN cmd_queue' = 1..(n + 1)
      /\ \A i \in 1..n : cmd_queue'[i] = cmd_queue[i]
      /\ cmd_queue'[n + 1].key = k
  BY <1>1, <1>2
<1>4. k \notin Noted /\ \A i \in DOMAIN cmd_queue : cmd_queue[i].key # k
  BY DEF HeldOnce, Queued
<1>5. /\ \A i, j \in DOMAIN cmd_queue' :
           cmd_queue'[i].key = cmd_queue'[j].key => i = j
      /\ \A i \in DOMAIN cmd_queue' : cmd_queue'[i].key \notin Noted'
  BY <1>2, <1>3, <1>4 DEF HeldOnce, Noted
<1>6. ASSUME NEW c \in Clients
      PROVE  reply'[c] = "open" <=> Queued(c)' # {} \/ c \in Noted'
  <2>1. CASE c = k
    BY <1>1, <1>2, <1>3, <2>1 DEF Queued
  <2>2. CASE c # k
    <3>1. Queued(c)' # {} <=> Queued(c) # {}
      BY <1>3, <2>2 DEF Queued
    <3> QED BY <1>1, <1>2, <2>2, <3>1 DEF HeldOnce, Noted
  <2> QED BY <2>1, <2>2
<1> QED
  BY <1>2, <1>5, <1>6 DEF HeldOnce

\* Answers are given to keys that leave the vectors, or the channel, with them.
LEMMA AnswerHeld ==
  ASSUME TypeOK, HeldOnce,
         NEW ks \in SUBSET Clients, NEW r \in Reply \ {"open"},
         Answer(ks, r),
         ready_notifiers' \subseteq ready_notifiers,
         flush_notifiers' \subseteq flush_notifiers,
         \/ UNCHANGED cmd_queue /\ Noted' = Noted \ ks /\ ks \subseteq Noted
         \/ cmd_queue' = <<>> /\ Noted' = Noted
              /\ ks = {cmd_queue[i].key : i \in DOMAIN cmd_queue}
  PROVE  HeldOnce'
<1>1. \A k \in Clients : reply'[k] = IF k \in ks THEN r ELSE reply[k]
  BY DEF Answer
<1>2. CASE UNCHANGED cmd_queue /\ Noted' = Noted \ ks /\ ks \subseteq Noted
  <2>1. \A k \in Clients : Queued(k)' = Queued(k)
    BY <1>2 DEF Queued
  <2>2. \A k \in ks : Queued(k) = {}
    BY <1>2 DEF HeldOnce, Queued
  <2> QED BY <1>1, <1>2, <2>1, <2>2 DEF HeldOnce
<1>3. CASE /\ cmd_queue' = <<>> /\ Noted' = Noted
           /\ ks = {cmd_queue[i].key : i \in DOMAIN cmd_queue}
  <2>1. DOMAIN cmd_queue' = {} /\ \A k \in Clients : Queued(k)' = {}
    BY <1>3 DEF Queued
  <2>2. \A k \in Clients : Queued(k) # {} <=> k \in ks
    BY <1>3 DEF Queued
  <2>3. \A k \in ks : k \notin Noted
    BY <1>3 DEF HeldOnce
  <2> QED BY <1>1, <1>3, <2>1, <2>2, <2>3 DEF HeldOnce
<1> QED
  BY <1>2, <1>3

\* A request that is received is answered, or moves from the channel to one of
\* the vectors.
LEMMA ReceiveHeld ==
  ASSUME TypeOK, HeldOnce, ReceiveRequest
  PROVE  /\ HeldOnce'
         /\ \A k \in Clients : reply'[k] \in {reply[k], "Write"}
<1> DEFINE h == Head(cmd_queue).key
<1>1. /\ cmd_queue \in Seq(Message) /\ cmd_queue # <<>>
      /\ cmd_queue' = Tail(cmd_queue)
  BY DEF TypeOK, DriverTypeOK, ChanTypeOK, ReceiveRequest, ReceiveWrite,
         ReceiveReady, ReceiveFlush, Receive
<1>2. /\ 1 \in DOMAIN cmd_queue /\ h = cmd_queue[1].key /\ h \in Clients
      /\ \A i \in DOMAIN cmd_queue' : /\ cmd_queue'[i] = cmd_queue[i + 1]
                                      /\ i + 1 \in DOMAIN cmd_queue
                                      /\ i \in Nat /\ i + 1 # 1
      /\ \A i \in DOMAIN cmd_queue :
           i # 1 => i - 1 \in DOMAIN cmd_queue' /\ i = (i - 1) + 1
  BY <1>1, Members
<1>3. /\ \A i \in DOMAIN cmd_queue' : cmd_queue'[i].key # h
      /\ h \notin Noted /\ reply[h] = "open"
      /\ \A i, j \in DOMAIN cmd_queue' :
           cmd_queue'[i].key = cmd_queue'[j].key => i = j
      /\ \A i \in DOMAIN cmd_queue' : cmd_queue'[i].key \notin Noted
  <2>1. \A i \in DOMAIN cmd_queue' : cmd_queue'[i].key # h
    BY <1>2 DEF HeldOnce
  <2>2. h \notin Noted /\ reply[h] = "open"
    BY <1>2 DEF HeldOnce, Queued
  <2>3. \A i, j \in DOMAIN cmd_queue' :
          cmd_queue'[i].key = cmd_queue'[j].key => i = j
    BY <1>2 DEF HeldOnce
  <2>4. \A i \in DOMAIN cmd_queue' : cmd_queue'[i].key \notin Noted
    BY <1>2 DEF HeldOnce
  <2> QED BY <2>1, <2>2, <2>3, <2>4
<1>4. \A k \in Clients : Queued(k)' # {} <=> Queued(k) # {} /\ k # h
  <2>1. ASSUME NEW k \in Clients, Queued(k)' # {}
        PROVE  Queued(k) # {} /\ k # h
    BY <1>2, <1>3, <2>1 DEF Queued
  <2>2. ASSUME NEW k \in Clients, Queued(k) # {}, k # h
        PROVE  Queued(k)' # {}
    <3>1. PICK i \in DOMAIN cmd_queue : cmd_queue[i].key = k
      BY <2>2 DEF Queued
    <3>2. i - 1 \in DOMAIN cmd_queue' /\ cmd_queue'[i - 1].key = k
      BY <1>2, <2>2, <3>1
    <3> QED BY <3>2 DEF Queued
  <2> QED BY <2>1, <2>2
<1>5. CASE ReceiveWrite
  <2>1. /\ \A k \in Clients : reply'[k] = IF k = h THEN "Write" ELSE reply[k]
        /\ UNCHANGED <<ready_notifiers, flush_notifiers>>
    BY <1>5 DEF ReceiveWrite, Answer, noteVars
  <2> QED BY <1>2, <1>3, <1>4, <2>1 DEF HeldOnce, Noted
<1>6. CASE ReceiveReady
  <2>1. /\ ready_notifiers' = ready_notifiers \cup {h}
        /\ UNCHANGED <<reply, flush_notifiers>>
    BY <1>6 DEF ReceiveReady
  <2> QED BY <1>2, <1>3, <1>4, <2>1 DEF HeldOnce, Noted
<1>7. CASE ReceiveFlush
  <2>1. /\ flush_notifiers' = flush_notifiers \cup {h}
        /\ UNCHANGED <<reply, ready_notifiers>>
    BY <1>7 DEF ReceiveFlush
  <2> QED BY <1>2, <1>3, <1>4, <2>1 DEF HeldOnce, Noted
<1> QED
  BY <1>5, <1>6, <1>7 DEF ReceiveRequest

\* The driver opens no oneshot, and keeps each that is open in its place.
LEMMA DriverHeld ==
  ASSUME TypeOK, HeldOnce, DriverStep
  PROVE  /\ HeldOnce'
         /\ \A k \in Clients : reply'[k] = "open" => reply[k] = "open"
<1>0. ready_notifiers \subseteq Clients /\ flush_notifiers \subseteq Clients
  BY DEF TypeOK, DriverTypeOK
<1>1. CASE ReceiveRequest
  BY <1>1, ReceiveHeld
<1>2. CASE \/ ReceiveNone \/ WakeUp \/ Promote \/ PublishStream
           \/ PublishDgram \/ Transmit \/ CloseDgrams
  <2>1. UNCHANGED <<cmd_queue, ready_notifiers, flush_notifiers, reply>>
    <3>1. CASE ReceiveNone \/ WakeUp \/ Promote
      BY <3>1 DEF ReceiveNone, WakeUp, Promote, chanVars, noteVars
    <3>2. CASE PublishStream \/ PublishDgram \/ Transmit \/ CloseDgrams
      BY <3>2
      DEF PublishStream, PublishDgram, Transmit, CloseDgrams, chanVars, noteVars
    <3> QED BY <1>2, <3>1, <3>2
  <2> QED BY <2>1, SamePlaces
<1>3. ASSUME NEW ks, NEW r, Answer(ks, r), r # "open"
      PROVE  \A k \in Clients : reply'[k] = "open" => reply[k] = "open"
  BY <1>3 DEF Answer
<1>4. CASE DrainTake
  <2>1. /\ Answer(ready_notifiers, "WriteDgramReady") /\ ready_notifiers' = {}
        /\ UNCHANGED <<flush_notifiers, cmd_queue>>
    BY <1>4 DEF DrainTake
  <2>2. Noted' = Noted \ ready_notifiers /\ ready_notifiers \subseteq Noted
    BY <2>1 DEF Noted, HeldOnce
  <2> QED BY <1>0, <1>3, <2>1, <2>2, AnswerHeld, Members
<1>5. CASE DrainEmpty
  <2>1. /\ Answer(flush_notifiers, "WriteDgramFlush") /\ flush_notifiers' = {}
        /\ UNCHANGED <<ready_notifiers, cmd_queue>>
    BY <1>5 DEF DrainEmpty, chanVars
  <2>2. Noted' = Noted \ flush_notifiers /\ flush_notifiers \subseteq Noted
    BY <2>1 DEF Noted, HeldOnce
  <2> QED BY <1>0, <1>3, <2>1, <2>2, AnswerHeld, Members
<1>6. CASE DropNotifiers
  <2>1. /\ Answer(Noted, "dropped") /\ ready_notifiers' = {}
        /\ flush_notifiers' = {} /\ UNCHANGED cmd_queue
    BY <1>6 DEF DropNotifiers, chanVars, Noted
  <2>2. Noted' = Noted \ Noted /\ Noted \in SUBSET Clients
    BY <1>0, <2>1 DEF Noted
  <2> QED BY <1>3, <2>1, <2>2, AnswerHeld, Members
<1>7. CASE CloseCommands
  <2> DEFINE ks == {cmd_queue[i].key : i \in DOMAIN cmd_queue}
  <2>1. /\ Answer(ks, "dropped") /\ cmd_queue' = <<>>
        /\ UNCHANGED <<ready_notifiers, flush_notifiers>>
    BY <1>7 DEF CloseCommands, noteVars
  <2>2. Noted' = Noted
    BY <2>1 DEF Noted
  <2>3. ks \in SUBSET Clients
    BY Members DEF TypeOK, DriverTypeOK, ChanTypeOK
  <2> QED BY <1>3, <2>1, <2>2, <2>3, AnswerHeld, Members
<1> QED
  BY <1>1, <1>2, <1>4, <1>5, <1>6, <1>7 DEF DriverStep, DriverNext, DriverPass

\* Of the steps of the program's other tasks, only two send a request, and only
\* the last sender to go drops those that lie in a channel without a receiver.
LEMMA OthersSend ==
  ASSUME [Next]_vars, ~DriverStep, ~SendCommand, ~StreamSend
  PROVE  /\ UNCHANGED <<ready_notifiers, flush_notifiers>>
         /\ \/ UNCHANGED <<cmd_queue, reply>>
            \/ /\ ~cmd_open /\ cmd_queue' = <<>>
               /\ Answer({cmd_queue[i].key : i \in DOMAIN cmd_queue}, "dropped")
<1>1. CASE UNCHANGED vars
  BY <1>1 DEF vars, driverVars, chanVars, noteVars
<1>2. CASE \E o \in Op : Start(o)
  BY <1>2 DEF Start, Release, noteVars
<1>3. CASE PollCommand
  BY <1>3
  DEF PollCommand, CheckCapacity, RequestFlush, ReserveCommand,
      SendCommandFails, AnswerDropped, ReadyAnswered, FlushAnswered,
      InvalidResponse, PolledAfterCompletion, driverVars, chanVars, noteVars
<1>4. CASE PollSlot
  BY <1>4 DEF PollSlot, ReserveSlot, AwaitSlot, ReserveFails, SendItem,
              driverVars, chanVars, noteVars
<1>5. CASE Cancel \/ StreamWrite \/ StreamReserve \/ StreamDone
  BY <1>5 DEF Cancel, StreamWrite, StreamReserve, StreamDone, driverVars,
              chanVars, noteVars
<1>6. CASE ReaderStep
  BY <1>6 DEF ReaderStep, StreamTaken, DgramTaken, chanVars, noteVars
<1>7. CASE \E h \in Owner : Drop(h)
  BY <1>7 DEF Drop, Release, noteVars
<1> QED
  BY <1>1, <1>2, <1>3, <1>4, <1>5, <1>6, <1>7 DEF Next, WriterPoll, StreamStep

\* A Command in State1 whose oneshot is open stays what it is.
LEMMA OpenStays ==
  ASSUME TypeOK, [Next]_vars, ~SendCommand
  PROVE  \A k \in Keys : cmd_pending[k] = "State1" /\ reply[k] = "open" =>
           cmd_pending'[k] = "State1"
<1> SUFFICES ASSUME NEW k \in Keys, cmd_pending[k] = "State1", reply[k] = "open"
             PROVE  cmd_pending'[k] = "State1"
  OBVIOUS
<1>1. /\ cmd_pending \in [Keys -> CommandState]
      /\ "open" \notin Request
  BY DEF TypeOK, WriterTypeOK, Request
<1>2. CASE UNCHANGED cmd_pending
  BY <1>2
<1>3. CASE PollCommand
  BY <1>1, <1>2, <1>3
    DEF PollCommand, CheckCapacity, RequestFlush, ReserveCommand,
        SendCommandFails, AnswerDropped, ReadyAnswered, FlushAnswered,
        InvalidResponse, PolledAfterCompletion, NoEntry, Executing, SetEntry,
        Fail
<1>4. CASE PollSlot
  BY <1>1, <1>2, <1>4 DEF PollSlot, ReserveSlot, AwaitSlot, ReserveFails,
                          SendItem, Executing, SetEntry
<1>5. CASE UNCHANGED vars \/ DriverStep \/ StreamWrite \/ StreamStep
  BY <1>2, <1>5 DEF vars, DriverStep, StreamWrite, StreamStep, StreamReserve,
                    StreamSend, StreamDone, writerVars
<1>6. CASE Cancel \/ ReaderStep
  BY <1>2, <1>6 DEF Cancel, ReaderStep, StreamTaken, DgramTaken, writerVars
<1>7. CASE (\E o \in Op : Start(o)) \/ (\E h \in Owner : Drop(h))
  BY <1>2, <1>7 DEF Start, Drop, writerVars
<1> QED
  BY <1>3, <1>4, <1>5, <1>6, <1>7 DEF Next, WriterPoll

\* So does that of the stream.
LEMMA StreamStays ==
  ASSUME [Next]_vars, stream_cmd = "State1", reply[StreamKey] = "open"
  PROVE  stream_cmd' = "State1"
<1>1. CASE UNCHANGED stream_cmd
  BY <1>1
<1>2. CASE StreamWrite \/ StreamStep
  BY <1>2 DEF StreamWrite, StreamStep, StreamReserve, StreamSend, StreamDone
<1>3. CASE WriterPoll
  BY <1>1, <1>3
    DEF WriterPoll, PollCommand, PollSlot, CheckCapacity, RequestFlush,
        ReserveCommand, SendCommand, SendCommandFails, AnswerDropped,
        ReadyAnswered, FlushAnswered, InvalidResponse, PolledAfterCompletion,
        ReserveSlot, AwaitSlot, ReserveFails, SendItem, streamVars
<1>4. CASE UNCHANGED vars \/ DriverStep \/ Cancel \/ ReaderStep
  BY <1>1, <1>4 DEF vars, DriverStep, Cancel, ReaderStep, StreamTaken,
                    DgramTaken, streamVars
<1>5. CASE (\E o \in Op : Start(o)) \/ (\E h \in Owner : Drop(h))
  BY <1>1, <1>5 DEF Start, Drop, streamVars
<1> QED
  BY <1>2, <1>3, <1>4, <1>5 DEF Next

LEMMA StepHeld ==
  ASSUME TypeOK, HeldOnce, Waited, [Next]_vars
  PROVE  HeldOnce' /\ Waited'
<1> USE KeyFacts
<1>0. /\ cmd_pending \in [Keys -> CommandState]
      /\ request \in [Keys -> Request] /\ reply \in [Clients -> Reply]
  BY DEF TypeOK, WriterTypeOK, DriverTypeOK
<1>1. CASE SendCommand
  <2>1. /\ Submit(key, request[key]) /\ cmd_pending[key] = "Reserved"
        /\ cmd_pending' = [cmd_pending EXCEPT ![key] = "State1"]
        /\ UNCHANGED stream_cmd
    BY <1>1 DEF SendCommand, Executing, SetEntry, streamVars
  <2>2. reply[key] # "open"
    BY <2>1 DEF Waited
  <2>3. HeldOnce' /\ reply' = [reply EXCEPT ![key] = "open"]
    BY <1>0, <2>1, <2>2, SubmitHeld
  <2> QED BY <1>0, <2>1, <2>3 DEF Waited
<1>2. CASE StreamSend
  <2>1. /\ Submit(StreamKey, "Write") /\ stream_cmd = "Reserved"
        /\ stream_cmd' = "State1" /\ UNCHANGED cmd_pending
    BY <1>2 DEF StreamSend, writerVars
  <2>2. reply[StreamKey] # "open"
    BY <2>1 DEF Waited
  <2>3. HeldOnce' /\ reply' = [reply EXCEPT ![StreamKey] = "open"]
    BY <2>1, <2>2, SubmitHeld, Members
  <2>4. \A k \in Keys : reply'[k] = reply[k]
    BY <1>0, <2>3, DriverAssumption
  <2> QED BY <2>1, <2>3, <2>4 DEF Waited
<1>3. CASE ~SendCommand /\ ~StreamSend
  <2>1. /\ HeldOnce'
        /\ \A k \in Clients : reply'[k] = "open" => reply[k] = "open"
    <3>1. CASE DriverStep
      BY <3>1, DriverHeld
    <3>2. CASE ~DriverStep
      <4>1. CASE UNCHANGED <<cmd_queue, reply>>
        BY <1>3, <3>2, <4>1, OthersSend, SamePlaces
      <4>2. CASE /\ cmd_queue' = <<>>
                 /\ Answer({cmd_queue[i].key : i \in DOMAIN cmd_queue}, "dropped")
        <5> DEFINE ks == {cmd_queue[i].key : i \in DOMAIN cmd_queue}
        <5>1. UNCHANGED <<ready_notifiers, flush_notifiers>> /\ Noted' = Noted
          BY <1>3, <3>2, OthersSend DEF Noted
        <5>2. ks \in SUBSET Clients
          BY Members DEF TypeOK, DriverTypeOK, ChanTypeOK
        <5>3. HeldOnce'
          BY <4>2, <5>1, <5>2, AnswerHeld, Members
        <5> QED BY <4>2, <5>3 DEF Answer
      <4> QED BY <1>3, <3>2, <4>1, <4>2, OthersSend
    <3> QED BY <3>1, <3>2
  <2>2. Waited'
    BY <1>3, <2>1, OpenStays, StreamStays DEF Waited
  <2> QED BY <2>1, <2>2
<1> QED
  BY <1>1, <1>2, <1>3

LEMMA InitHeld == Init => HeldOnce /\ Waited
<1> SUFFICES ASSUME Init PROVE HeldOnce /\ Waited
  OBVIOUS
<1>1. /\ DOMAIN cmd_queue = {} /\ ready_notifiers = {} /\ flush_notifiers = {}
      /\ \A k \in Clients : reply[k] = "none"
  BY DEF Init, DriverInit
<1>2. Noted = {} /\ \A k \in Clients : Queued(k) = {}
  BY <1>1 DEF Noted, Queued
<1> QED
  BY <1>1, <1>2, Members DEF HeldOnce, Waited

\* Nobody waits for an answer that nobody will give: each oneshot still open is
\* held in one place by the driver or on its way to it, and an answered one in
\* none, whatever is abandoned, dropped or closed.
THEOREM AnswerOwedTheorem == Spec => []AnswerOwed
<1>1. Init => HeldOnce /\ Waited
  BY InitHeld
<1>2. TypeOK /\ HeldOnce /\ Waited /\ [Next]_vars => HeldOnce' /\ Waited'
  BY StepHeld
<1>3. TypeOK /\ HeldOnce => AnswerOwed
  BY HeldOnceSuffices
<1> QED
  BY <1>1, <1>2, <1>3, TypeCorrect, PTL DEF Spec

-----------------------------------------------------------------------------
(* Errors.                                                                 *)

\* Only a driver that ends drops an answer.
Dropped == \A k \in Clients : reply[k] = "dropped" => driver = "closing"

ClosedError == Dropped /\ ErrorMeansClosed

\* A driver that ends has ended, and a sender that is gone is gone.
LEMMA ClosedStays ==
  ASSUME [Next]_vars
  PROVE  /\ driver = "closing" => driver' = "closing"
         /\ \A o \in Owner : o \notin cmd_senders => o \notin cmd_senders'
<1>1. CASE ~DriverStep
  <2>1. UNCHANGED driver
    BY <1>1, DriverOwns DEF ownVars
  <2>2. cmd_senders' \subseteq cmd_senders
    <3>1. CASE (\E o \in Op : Start(o)) \/ (\E h \in Owner : Drop(h))
      BY <3>1 DEF Start, Drop, Release
    <3>2. CASE PollCommand
      BY <3>2
        DEF PollCommand, ReserveCommand, SendCommand, Submit, CheckCapacity,
            RequestFlush, SendCommandFails, AnswerDropped, ReadyAnswered,
            FlushAnswered, InvalidResponse, PolledAfterCompletion, driverVars,
            chanVars
    <3>3. CASE PollSlot
      BY <3>3 DEF PollSlot, ReserveSlot, AwaitSlot, ReserveFails, SendItem,
                  driverVars, chanVars
    <3>4. CASE UNCHANGED vars \/ Cancel \/ StreamWrite
      BY <3>4 DEF vars, Cancel, StreamWrite, driverVars, chanVars
    <3>5. CASE StreamStep \/ ReaderStep
      BY <3>5 DEF StreamStep, StreamReserve, StreamSend, StreamDone, Submit,
                  ReaderStep, StreamTaken, DgramTaken, driverVars, chanVars
    <3> QED
      BY <1>1, <3>1, <3>2, <3>3, <3>4, <3>5 DEF Next, WriterPoll
  <2> QED BY <2>1, <2>2
<1>2. CASE DriverStep
  <2>1. UNCHANGED cmd_senders
    <3>1. CASE ReceiveRequest \/ ReceiveNone \/ WakeUp
      BY <3>1 DEF ReceiveRequest, ReceiveWrite, ReceiveReady, ReceiveFlush,
                  ReceiveNone, WakeUp, chanVars
    <3>2. CASE Promote \/ DrainTake \/ DrainEmpty \/ PublishStream
      BY <3>2 DEF Promote, DrainTake, DrainEmpty, PublishStream, chanVars
    <3>3. CASE PublishDgram \/ Transmit \/ DropNotifiers
      BY <3>3 DEF PublishDgram, Transmit, DropNotifiers, chanVars
    <3>4. CASE CloseCommands \/ CloseDgrams
      BY <3>4 DEF CloseCommands, CloseDgrams
    <3> QED
      BY <1>2, <3>1, <3>2, <3>3, <3>4 DEF DriverStep, DriverNext, DriverPass
  <2>2. driver = "closing" => driver' = "closing"
    <3>1. driver = "closing" => CloseCommands \/ CloseDgrams
      BY <1>2
      DEF DriverStep, DriverNext, DriverPass, ReceiveRequest, ReceiveWrite,
          ReceiveReady, ReceiveFlush, Receive, ReceiveNone, WakeUp, Promote,
          DrainTake, DrainEmpty, PublishStream, PublishDgram, Transmit,
          DropNotifiers
    <3> QED BY <3>1 DEF CloseCommands, CloseDgrams
  <2> QED BY <2>1, <2>2
<1> QED
  BY <1>1, <1>2

\* A driver that has not ended drops no answer.
LEMMA StepDropped ==
  ASSUME TypeOK, Shape, Dropped, [Next]_vars
  PROVE  Dropped'
<1> SUFFICES ASSUME NEW k \in Clients, reply'[k] = "dropped"
             PROVE  driver' = "closing"
  BY DEF Dropped
<1>1. CASE reply[k] = "dropped"
  BY <1>1, ClosedStays DEF Dropped
<1>2. CASE reply[k] # "dropped" /\ DriverStep
  <2>1. CASE ReceiveRequest \/ DrainTake \/ DrainEmpty
    BY <1>2, <2>1 DEF ReceiveRequest, ReceiveWrite, ReceiveReady, ReceiveFlush,
                      DrainTake, DrainEmpty, Answer
  <2>2. CASE ReceiveNone \/ WakeUp \/ Promote \/ PublishStream
    BY <1>2, <2>2 DEF ReceiveNone, WakeUp, Promote, PublishStream
  <2>3. CASE PublishDgram \/ Transmit \/ CloseDgrams
    BY <1>2, <2>3 DEF PublishDgram, Transmit, CloseDgrams
  <2>4. CASE DropNotifiers \/ CloseCommands
    BY <2>4 DEF DropNotifiers, CloseCommands
  <2> QED
    BY <1>2, <2>1, <2>2, <2>3, <2>4 DEF DriverStep, DriverNext, DriverPass
<1>3. CASE reply[k] # "dropped" /\ SendCommand
  BY <1>2, <1>3 DEF SendCommand, Submit, TypeOK, DriverTypeOK
<1>4. CASE reply[k] # "dropped" /\ StreamSend
  BY <1>2, <1>4 DEF StreamSend, Submit, TypeOK, DriverTypeOK
<1>5. CASE /\ reply[k] # "dropped"
           /\ ~DriverStep /\ ~SendCommand /\ ~StreamSend
  <2>1. ~cmd_open
    BY <1>5, OthersSend
  <2> QED BY <2>1, ClosedStays DEF Shape
<1> QED
  BY <1>1, <1>2, <1>3, <1>4, <1>5

\* An operation ends with an error after a dropped answer, after its channel was
\* closed, or after its sender was.
LEMMA ErrorSteps ==
  ASSUME TypeOK, Shape, Dropped, [Next]_vars,
         outcome' = "ConnectionClosed", outcome # "ConnectionClosed"
  PROVE  driver = "closing" \/ "write_dgram" \notin cmd_senders
<1>1. CASE SendCommandFails \/ AnswerDropped
  <2>1. /\ SendCommandFails => CmdClosed("write_dgram")
        /\ AnswerDropped => reply[key] = "dropped"
    BY DEF SendCommandFails, AnswerDropped
  <2>2. key \in Clients
    BY KeyFacts
  <2> QED BY <1>1, <2>1, <2>2 DEF CmdClosed, Shape, Dropped
<1>2. CASE ReserveFails
  BY <1>2 DEF ReserveFails, Shape
<1>3. CASE PollCommand /\ ~SendCommandFails /\ ~AnswerDropped
  BY <1>3
    DEF PollCommand, CheckCapacity, RequestFlush, ReserveCommand, SendCommand,
        ReadyAnswered, FlushAnswered, InvalidResponse, PolledAfterCompletion,
        Finish, Panic
<1>4. CASE PollSlot /\ ~ReserveFails
  BY <1>4 DEF PollSlot, ReserveSlot, AwaitSlot, SendItem, AfterReady, Finish
<1>5. CASE Cancel \/ StreamWrite \/ StreamStep
  BY <1>5 DEF Cancel, Finish, StreamWrite, StreamStep, StreamReserve,
              StreamSend, StreamDone, writerVars
<1>6. CASE UNCHANGED vars \/ DriverStep \/ ReaderStep
  BY <1>6 DEF vars, DriverStep, ReaderStep, StreamTaken, DgramTaken, writerVars
<1>7. CASE (\E o \in Op : Start(o)) \/ (\E h \in Owner : Drop(h))
  BY <1>7 DEF Start, Drop, writerVars
<1> QED
  BY <1>1, <1>2, <1>3, <1>4, <1>5, <1>6, <1>7 DEF Next, WriterPoll

LEMMA StepError ==
  ASSUME TypeOK, Shape, ClosedError, [Next]_vars
  PROVE  ClosedError'
<1>1. Dropped'
  BY StepDropped DEF ClosedError
<1>2. ASSUME driver = "closing" \/ "write_dgram" \notin cmd_senders
      PROVE  ErrorMeansClosed'
  BY <1>2, ClosedStays DEF ErrorMeansClosed, Owner
<1>3. ErrorMeansClosed'
  <2>1. CASE outcome' # "ConnectionClosed"
    BY <2>1 DEF ErrorMeansClosed
  <2>2. CASE outcome = "ConnectionClosed"
    BY <1>2, <2>2 DEF ClosedError, ErrorMeansClosed
  <2>3. CASE outcome' = "ConnectionClosed" /\ outcome # "ConnectionClosed"
    BY <1>2, <2>3, ErrorSteps DEF ClosedError
  <2> QED BY <2>1, <2>2, <2>3
<1> QED
  BY <1>1, <1>3 DEF ClosedError

LEMMA InitError == Init => ClosedError
BY DEF Init, DriverInit, ClosedError, Dropped, ErrorMeansClosed

\* An operation reports ConnectionClosed only when the driver has ended or the
\* sink was closed: no lost answer, no full channel and no Command left behind
\* by an abandoned operation is taken for the end of the connection.
THEOREM ErrorTheorem == Spec => []ErrorMeansClosed
<1>1. Init => Shape /\ ClosedError
  BY InitShape, InitError
<1>2. TypeOK /\ Shape /\ ClosedError /\ [Next]_vars => Shape' /\ ClosedError'
  BY StepShape, StepError
<1>3. ClosedError => ErrorMeansClosed
  BY DEF ClosedError
<1> QED
  BY <1>1, <1>2, <1>3, TypeCorrect, PTL DEF Spec

-----------------------------------------------------------------------------
(* The slot that was seen or announced.                                    *)

\* poll_ready has seen capacity, or has in hand the announcement of a slot.
SlotKnown ==
  /\ phase = "ready"
  /\ dgram_open
  /\ \/ cmd_pending[key] = "Terminated"
     \/ cmd_pending[key] = "State1" /\ reply[key] = "WriteDgramReady"

SlotKept == SlotKnown => Len(dgram_queue) < WriteCap

\* When a slot becomes known to poll_ready: it was free, or the driver made it.
LEMMA SlotSteps ==
  ASSUME TypeOK, EntriesOwned, Shape, [Next]_vars, ~CheckCapacity, ~DrainTake,
         SlotKnown'
  PROVE  SlotKnown
<1>0. /\ key \in Keys /\ key \in Clients /\ key # StreamKey
      /\ cmd_pending \in [Keys -> CommandState] /\ reply \in [Clients -> Reply]
  BY KeyFacts DEF TypeOK, WriterTypeOK, DriverTypeOK
<1>1. CASE DriverStep
  <2>1. UNCHANGED <<phase, key, cmd_pending>>
    BY <1>1 DEF DriverStep, writerVars
  <2>2. dgram_open
    <3>1. CASE CloseDgrams
      BY <3>1 DEF CloseDgrams
    <3>2. CASE ReceiveRequest \/ ReceiveNone \/ WakeUp \/ Promote
      BY <3>2 DEF ReceiveRequest, ReceiveWrite, ReceiveReady, ReceiveFlush,
                  ReceiveNone, WakeUp, Promote, chanVars, SlotKnown
    <3>3. CASE DrainTake \/ DrainEmpty \/ PublishStream \/ PublishDgram
      BY <3>3 DEF DrainTake, DrainEmpty, PublishStream, PublishDgram, chanVars,
                  SlotKnown
    <3>4. CASE Transmit \/ DropNotifiers \/ CloseCommands
      BY <3>4 DEF Transmit, DropNotifiers, CloseCommands, chanVars, SlotKnown
    <3> QED
      BY <1>1, <3>1, <3>2, <3>3, <3>4 DEF DriverStep, DriverNext, DriverPass
  <2>3. reply'[key] = "WriteDgramReady" => reply[key] = "WriteDgramReady"
    <3>1. CASE UNCHANGED reply
      BY <3>1
    <3>2. ASSUME NEW ks, NEW r, Answer(ks, r), r # "WriteDgramReady"
          PROVE  reply'[key] = "WriteDgramReady" =>
                   reply[key] = "WriteDgramReady"
      BY <1>0, <3>2 DEF Answer
    <3>3. CASE ReceiveRequest \/ DrainEmpty
      BY <3>1, <3>2, <3>3 DEF ReceiveRequest, ReceiveWrite, ReceiveReady,
                              ReceiveFlush, DrainEmpty
    <3>4. CASE DropNotifiers \/ CloseCommands \/ CloseDgrams
      BY <3>1, <3>2, <3>4 DEF DropNotifiers, CloseCommands, CloseDgrams
    <3>5. CASE ReceiveNone \/ WakeUp \/ Promote
      BY <3>1, <3>5 DEF ReceiveNone, WakeUp, Promote
    <3>6. CASE PublishStream \/ PublishDgram \/ Transmit
      BY <3>1, <3>6 DEF PublishStream, PublishDgram, Transmit
    <3> QED
      BY <1>1, <3>3, <3>4, <3>5, <3>6 DEF DriverStep, DriverNext, DriverPass
  <2> QED BY <2>1, <2>2, <2>3 DEF SlotKnown
<1>2. CASE ~DriverStep
  <2>0. dgram_open
    BY <1>2, DriverOwns DEF ownVars, SlotKnown
  <2>1. CASE \E o \in Op : Start(o)
    <3>1. /\ phase = "idle" /\ key' \in Keys
          /\ UNCHANGED cmd_pending
      BY <2>1 DEF Start, Enter, Shape
    <3>3. key' \in Clients /\ reply'[key'] \in {reply[key'], "dropped"}
      BY <2>1, <3>1, StartRelease DEF Clients
    <3>2. /\ cmd_pending[key'] # "Terminated"
          /\ cmd_pending[key'] = "State1" => reply[key'] = "dropped"
      BY <3>1, Zenon DEF EntriesOwned, Polling
    <3> QED BY <3>1, <3>2, <3>3 DEF SlotKnown
  <2>11. CASE ReserveCommand
    BY <1>0, <2>11 DEF ReserveCommand, SetEntry, SlotKnown
  <2>2. CASE SendCommand
    BY <1>0, <2>2 DEF SendCommand, SetEntry, Submit, SlotKnown
  <2>3. CASE ReadyAnswered
    BY <2>0, <2>3 DEF ReadyAnswered, Executing, SlotKnown
  <2>4. CASE RequestFlush \/ SendCommandFails \/ AnswerDropped \/ FlushAnswered
    BY <2>4 DEF RequestFlush, SendCommandFails, AnswerDropped, FlushAnswered,
                Fail, Finish, SlotKnown
  <2>5. CASE InvalidResponse \/ PolledAfterCompletion
    BY <2>5 DEF InvalidResponse, PolledAfterCompletion, Panic, SlotKnown
  <2>6. CASE ReserveSlot \/ ReserveFails \/ SendItem
    BY <2>6 DEF ReserveSlot, ReserveFails, SendItem, AfterReady, Enter, Finish,
                SlotKnown
  <2>7. CASE Cancel
    BY <2>7 DEF Cancel, Finish, SlotKnown
  <2>8. CASE StreamSend
    <3>1. UNCHANGED <<phase, key, cmd_pending>> /\ reply'[key] = reply[key]
      BY <1>0, <2>8 DEF StreamSend, Submit, writerVars
    <3> QED BY <2>0, <3>1 DEF SlotKnown
  <2>9. CASE AwaitSlot \/ StreamWrite \/ StreamReserve \/ StreamDone
             \/ UNCHANGED vars
    BY <2>0, <2>9 DEF AwaitSlot, StreamWrite, StreamReserve, StreamDone, vars,
                      driverVars, writerVars, SlotKnown
  <2>10. CASE ReaderStep
    BY <2>0, <2>10 DEF ReaderStep, StreamTaken, DgramTaken, writerVars,
                       SlotKnown
  <2>12. CASE \E h \in Owner : Drop(h)
    <3>1. UNCHANGED <<phase, key, cmd_pending>>
      BY <2>12 DEF Drop, writerVars
    <3>2. reply'[key] \in {reply[key], "dropped"}
      BY <1>0, <2>12 DEF Drop, Release, Answer
    <3> QED BY <2>0, <3>1, <3>2 DEF SlotKnown
  <2> QED
    BY <1>2, <2>1, <2>2, <2>3, <2>4, <2>5, <2>6, <2>7, <2>8, <2>9, <2>10,
       <2>11, <2>12
    DEF Next, WriterPoll, PollCommand, PollSlot, StreamStep
<1> QED
  BY <1>1, <1>2

LEMMA StepSlot ==
  ASSUME TypeOK, EntriesOwned, Shape, BuffersBounded, SlotKept, [Next]_vars
  PROVE  SlotKept'
<1> SUFFICES ASSUME SlotKnown' PROVE Len(dgram_queue') < WriteCap
  BY DEF SlotKept
<1>0. dgram_queue \in Seq(Nat) /\ WriteCap \in Nat
  BY DriverAssumption DEF TypeOK, DriverTypeOK, ChanTypeOK
<1>1. CASE CheckCapacity
  <2>1. HasCapacity \/ cmd_pending'[key] = "State0"
    BY <1>1 DEF CheckCapacity, SetEntry, TypeOK, WriterTypeOK
  <2>2. HasCapacity /\ UNCHANGED dgram_queue
    BY <1>1, <2>1 DEF CheckCapacity, SlotKnown, driverVars, chanVars
  <2> QED BY <1>0, <2>2 DEF HasCapacity, Held
<1>2. CASE DrainTake
  <2>1. dgram_queue # <<>> /\ dgram_queue' = Tail(dgram_queue) /\ dgram_open
    BY <1>2 DEF DrainTake, SlotKnown
  <2> QED BY <1>0, <2>1 DEF BuffersBounded
<1>3. CASE ~CheckCapacity /\ ~DrainTake
  <2>1. SlotKnown /\ Len(dgram_queue) < WriteCap
    BY <1>3, SlotSteps DEF SlotKept
  <2>2. CASE SendItem
    BY <2>2 DEF SendItem, Enter, Finish, SlotKnown
  <2>3. CASE CloseDgrams
    BY <2>3 DEF CloseDgrams, SlotKnown
  <2>4. CASE ~SendItem /\ ~CloseDgrams
    BY <1>3, <2>1, <2>4, DgramChannelSteps
  <2> QED BY <2>2, <2>3, <2>4
<1> QED
  BY <1>1, <1>2, <1>3

LEMMA InitSlot == Init => SlotKept
BY DEF Init, SlotKept, SlotKnown

\* When operations are awaited, poll_reserve never waits: the slot that
\* poll_ready saw, or that the driver announced, is still there when it asks.
THEOREM ReadyMeansSlotTheorem ==
  ASSUME MayCancel = FALSE
  PROVE  Spec => []ReadyMeansSlot
<1>1. Init => Shape /\ Owned /\ SlotKept
  BY InitShape, InitOwned, InitSlot
<1>2. /\ TypeOK /\ BuffersBounded /\ Shape /\ Owned /\ SlotKept /\ [Next]_vars
      => Shape' /\ Owned' /\ SlotKept'
  <2> SUFFICES ASSUME TypeOK, BuffersBounded, Shape, Owned, SlotKept,
                      [Next]_vars
               PROVE  Shape' /\ Owned' /\ SlotKept'
    OBVIOUS
  <2>1. Shape'
    BY StepShape
  <2>2. Owned'
    BY StepOwned, Zenon
  <2>3. SlotKept'
    BY StepSlot DEF Owned
  <2> QED BY <2>1, <2>2, <2>3
<1>3. SlotKept => ReadyMeansSlot
  BY DEF SlotKept, SlotKnown, ReadyMeansSlot
<1> QED
  BY <1>1, <1>2, <1>3, TypeCorrect, BuffersTheorem, PTL DEF Spec
=============================================================================
