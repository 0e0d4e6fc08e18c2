--------------------------- MODULE QuicDgramProofs ---------------------------
(***************************************************************************)
(* Proofs about the datagram path of poll-read/src/main.rs, for any        *)
(* capacities, window, script, set of keys and interleaving.               *)
(***************************************************************************)
EXTENDS QuicDgramProperties, TLAPS

-----------------------------------------------------------------------------
(* Facts used throughout.                                                  *)

LEMMA States ==
  DriverState = {"select", "promote", "drain", "publish_stream",
                 "publish_dgram", "transmit", "exiting", "closing"}
BY DEF DriverState

LEMMA EmptySeq == \A S : <<>> \in Seq(S)
OBVIOUS

LEMMA Members ==
  /\ \A r \in Request : r \in Reply
  /\ {"open", "dropped", "none"} \subseteq Reply
  /\ {"Write", "WriteDgramReady", "WriteDgramFlush"} \subseteq Request
  /\ \A e \in Message : e.req \in Request /\ e.key \in Clients
  /\ \A r \in Request, k \in Clients : [req |-> r, key |-> k] \in Message
  /\ Keys \subseteq Clients /\ StreamKey \in Clients
BY DEF Request, Reply, Message, Clients

LEMMA FrameDriver ==
  /\ DriverTypeOK /\ UNCHANGED driverVars => DriverTypeOK'
  /\ ChanTypeOK /\ UNCHANGED chanVars => ChanTypeOK'
  /\ SendTypeOK /\ UNCHANGED sendVars => SendTypeOK'
BY DEF driverVars, chanVars, sendVars, noteVars, readVars, DriverTypeOK,
       ChanTypeOK, SendTypeOK

LEMMA FrameWriter == WriterTypeOK /\ UNCHANGED writerVars => WriterTypeOK'
BY DEF WriterTypeOK, writerVars

\* Datagrams have lengths that are not negative.
LEMMA Lengths ==
  /\ \A n \in Nat : UpTo(n) \in Nat /\ UpTo(n) <= UpTo(n + 1)
  /\ \A d \in Nat : LenOf(d) \in Int
  /\ \A n \in Nat : LenOf(n + 1) = UpTo(n + 1) - UpTo(n)
<1>1. /\ MaxDgrams \in Nat /\ Ends \in [0..MaxDgrams -> Nat]
      /\ \A n \in 1..MaxDgrams : Ends[n - 1] <= Ends[n]
  BY DriverAssumption
<1>2. \A n \in Int : UpTo(n) \in Nat
  BY <1>1 DEF UpTo
<1>3. ASSUME NEW n \in Nat PROVE UpTo(n) <= UpTo(n + 1)
  <2>1. CASE n < MaxDgrams
    <3>1. UpTo(n) = Ends[n] /\ UpTo(n + 1) = Ends[n + 1]
      BY <1>1, <2>1 DEF UpTo
    <3>2. n + 1 \in 1..MaxDgrams /\ (n + 1) - 1 = n
      BY <1>1, <2>1
    <3> QED BY <1>1, <3>1, <3>2
  <2>2. CASE ~(n < MaxDgrams)
    <3>1. UpTo(n) = Ends[MaxDgrams] /\ UpTo(n + 1) = Ends[MaxDgrams]
      BY <1>1, <2>2 DEF UpTo
    <3> QED BY <1>2, <3>1
  <2> QED BY <2>1, <2>2
<1>4. \A d \in Nat : LenOf(d) \in Int
  BY <1>2 DEF LenOf
<1>5. ASSUME NEW n \in Nat PROVE LenOf(n + 1) = UpTo(n + 1) - UpTo(n)
  <2>1. (n + 1) - 1 = n
    OBVIOUS
  <2> QED BY <2>1 DEF LenOf
<1> QED BY <1>2, <1>3, <1>4, <1>5

LEMMA AnswerType ==
  ASSUME reply \in [Clients -> Reply], NEW ks, NEW r \in Reply, Answer(ks, r)
  PROVE  reply' \in [Clients -> Reply]
BY DEF Answer

LEMMA SetEntryType ==
  ASSUME WriterTypeOK, NEW state \in CommandState, SetEntry(key, state)
  PROVE  cmd_pending' \in [Keys -> CommandState]
BY DEF SetEntry, WriterTypeOK

-----------------------------------------------------------------------------
(* Type correctness.                                                       *)

\* The driver keeps its variables in their types.
LEMMA DriverType ==
  ASSUME DriverTypeOK, DriverNext
  PROVE  DriverTypeOK'
<1> USE DEF DriverTypeOK, noteVars, readVars
<1>1. cmd_queue # <<>> =>
        Head(cmd_queue) \in Message /\ Tail(cmd_queue) \in Seq(Message)
  BY DEF ChanTypeOK
<1>2. dgram_queue # <<>> =>
        Head(dgram_queue) \in Nat /\ Tail(dgram_queue) \in Seq(Nat)
  BY DEF ChanTypeOK
<1>3. sent_dgrams # <<>> => Tail(sent_dgrams) \in Seq(Nat)
  BY DEF SendTypeOK
<1>4. /\ \A x \in Nat : Append(write_dgrams, x) \in Seq(Nat)
      /\ \A x \in Nat : Append(sent_dgrams, x) \in Seq(Nat)
      /\ write_dgrams # <<>> =>
           Head(write_dgrams) \in Nat /\ Tail(write_dgrams) \in Seq(Nat)
  BY DEF SendTypeOK
<1>5. ASSUME NEW req, Receive(req),
             UNCHANGED <<cmd_open, dgram_open, cmd_senders, dgram_queue>>
      PROVE  ChanTypeOK' /\ driver' \in DriverState
  BY <1>1, <1>5, States DEF Receive, ChanTypeOK
<1>6. CASE ReceiveWrite
  <2>1. reply' \in [Clients -> Reply]
    BY <1>6, AnswerType, Members DEF ReceiveWrite
  <2> QED BY <1>5, <1>6, <2>1, FrameDriver DEF ReceiveWrite
<1>7. CASE ReceiveReady
  <2>1. ready_notifiers' \in SUBSET Clients
    BY <1>1, <1>7, Members DEF ReceiveReady, Receive
  <2> QED BY <1>5, <1>7, <2>1, FrameDriver DEF ReceiveReady
<1>8. CASE ReceiveFlush
  <2>1. flush_notifiers' \in SUBSET Clients
    BY <1>1, <1>8, Members DEF ReceiveFlush, Receive
  <2> QED BY <1>5, <1>8, <2>1, FrameDriver DEF ReceiveFlush
<1>9. CASE ReceiveNone
  BY <1>9, FrameDriver, States DEF ReceiveNone
<1>10. CASE WakeUp
  <2>1. sent_dgrams' \in Seq(Nat)
    BY <1>3, <1>10 DEF WakeUp, SendTypeOK
  <2>2. cwnd' \in Int
    <3>1. sent_dgrams # <<>> => Head(sent_dgrams) \in Nat
      BY DEF SendTypeOK
    <3>2. sent_dgrams # <<>> => LenOf(Head(sent_dgrams)) \in Int
      BY <3>1, Lengths
    <3>3. CASE sent_dgrams = <<>>
      BY <1>10, <3>3 DEF WakeUp, SendTypeOK
    <3>4. CASE sent_dgrams # <<>>
      <4>1. cwnd' = cwnd + LenOf(Head(sent_dgrams)) /\ cwnd \in Int
        BY <1>10, <3>4 DEF WakeUp, SendTypeOK, Credit
      <4> QED BY <3>2, <3>4, <4>1
    <3> QED BY <3>3, <3>4
  <2>3. acked' \in Nat
    BY <1>10 DEF WakeUp, SendTypeOK
  <2>4. UNCHANGED <<write_dgrams, write_dgram_waiting>>
    BY <1>10 DEF WakeUp
  <2>5. SendTypeOK'
    BY <2>1, <2>2, <2>3, <2>4 DEF SendTypeOK
  <2> QED BY <1>10, <2>5, FrameDriver, States DEF WakeUp
<1>11. CASE Promote
  <2>1. write_dgrams' \in Seq(Nat)
    BY <1>4, <1>11 DEF Promote, SendTypeOK
  <2>2. write_dgram_waiting' \in Nat
    BY <1>11 DEF Promote, SendTypeOK, NoDgram
  <2>3. UNCHANGED <<sent_dgrams, cwnd, acked>>
    BY <1>11 DEF Promote
  <2>4. SendTypeOK'
    BY <2>1, <2>2, <2>3 DEF SendTypeOK
  <2>5. driver' \in DriverState
    BY <1>11, States DEF Promote, AfterPromote
  <2> QED BY <1>11, <2>4, <2>5, FrameDriver DEF Promote
<1>12. CASE DrainTake
  <2>1. write_dgrams' \in Seq(Nat)
    BY <1>2, <1>4, <1>12 DEF DrainTake, PushOrPark, SendTypeOK
  <2>2. write_dgram_waiting' \in Nat
    BY <1>2, <1>12 DEF DrainTake, PushOrPark, SendTypeOK
  <2>3. SendTypeOK'
    <3>1. UNCHANGED <<sent_dgrams, cwnd, acked>>
      BY <1>12 DEF DrainTake
    <3> QED BY <2>1, <2>2, <3>1 DEF SendTypeOK
  <2>4. driver' \in DriverState
    <3>1. driver' = driver \/ driver' = "publish_stream"
      BY <1>12 DEF DrainTake, PushOrPark
    <3> QED BY <3>1, States
  <2>5. reply' \in [Clients -> Reply]
    BY <1>12, AnswerType, Members DEF DrainTake
  <2>6. ChanTypeOK'
    BY <1>2, <1>12 DEF DrainTake, ChanTypeOK
  <2> QED BY <1>12, <2>3, <2>4, <2>5, <2>6 DEF DrainTake
<1>13. CASE DrainEmpty
  <2>1. reply' \in [Clients -> Reply]
    BY <1>13, AnswerType, Members DEF DrainEmpty
  <2> QED BY <1>13, <2>1, FrameDriver, States DEF DrainEmpty
<1>14. CASE PublishStream
  BY <1>14, FrameDriver, States DEF PublishStream, Publish
<1>15. CASE PublishDgram
  <2>1. driver' \in DriverState
    BY <1>15, States DEF PublishDgram
  <2>2. dgram_ready' \in 0..1
    BY <1>15 DEF PublishDgram, Publish
  <2> QED BY <1>15, <2>1, <2>2, FrameDriver DEF PublishDgram
<1>16. CASE Transmit
  <2>1. write_dgrams' \in Seq(Nat)
    BY <1>4, <1>16 DEF Transmit, Admits, SendTypeOK
  <2>2. sent_dgrams' \in Seq(Nat)
    BY <1>4, <1>16 DEF Transmit, Admits, SendTypeOK
  <2>3. cwnd' \in Int
    <3>1. Admits => LenOf(Head(write_dgrams)) \in Int
      BY <1>4, Lengths DEF Admits
    <3> QED BY <1>16, <3>1 DEF Transmit, SendTypeOK
  <2>4. SendTypeOK'
    <3>1. UNCHANGED <<write_dgram_waiting, acked>>
      BY <1>16 DEF Transmit
    <3> QED BY <2>1, <2>2, <2>3, <3>1 DEF SendTypeOK
  <2>5. driver' \in DriverState
    BY <1>16, States DEF Transmit
  <2> QED BY <1>16, <2>4, <2>5, FrameDriver DEF Transmit
<1>17. CASE DropNotifiers
  <2>1. reply' \in [Clients -> Reply]
    BY <1>17, AnswerType, Members DEF DropNotifiers
  <2> QED BY <1>17, <2>1, FrameDriver, States DEF DropNotifiers
<1>18. CASE CloseCommands
  <2>1. reply' \in [Clients -> Reply]
    BY <1>18, AnswerType, Members DEF CloseCommands
  <2>2. ChanTypeOK'
    <3>1. cmd_queue' \in Seq(Message)
      BY <1>18, EmptySeq DEF CloseCommands
    <3>2. UNCHANGED <<dgram_open, cmd_senders, dgram_queue>>
      BY <1>18 DEF CloseCommands
    <3>3. cmd_open' = FALSE
      BY <1>18 DEF CloseCommands
    <3> QED BY <3>1, <3>2, <3>3 DEF ChanTypeOK
  <2> QED BY <1>18, <2>1, <2>2, FrameDriver DEF CloseCommands
<1>19. CASE CloseDgrams
  <2>1. ChanTypeOK'
    <3>1. dgram_queue' \in Seq(Nat)
      BY <1>19, EmptySeq DEF CloseDgrams
    <3>2. UNCHANGED <<cmd_open, cmd_senders, cmd_queue>>
      BY <1>19 DEF CloseDgrams
    <3>3. dgram_open' = FALSE
      BY <1>19 DEF CloseDgrams
    <3> QED BY <3>1, <3>2, <3>3 DEF ChanTypeOK
  <2> QED BY <1>19, <2>1, FrameDriver DEF CloseDgrams
<1> QED
  BY <1>6, <1>7, <1>8, <1>9, <1>10, <1>11, <1>12, <1>13, <1>14, <1>15, <1>16,
     <1>17, <1>18, <1>19
  DEF DriverNext, DriverPass, ReceiveRequest

\* The end of an operation is of the right types.
LEMMA FinishType ==
  ASSUME NEW r \in {"Ok", "ConnectionClosed", "cancelled"},
         Finish(r) \/ Panic
  PROVE  /\ op' \in Op \cup {"none", "panicked"}
         /\ phase' \in Phase
         /\ outcome' \in Outcome
BY DEF Finish, Panic, Phase, Outcome

\* A request placed on the command channel.
LEMMA SubmitType ==
  ASSUME DriverTypeOK, NEW k \in Clients, NEW r \in Request, Submit(k, r)
  PROVE  DriverTypeOK'
<1>1. cmd_queue' \in Seq(Message)
  <2>1. [req |-> r, key |-> k] \in Message
    BY Members
  <2>2. cmd_queue \in Seq(Message)
    BY DEF DriverTypeOK, ChanTypeOK
  <2> QED BY <2>1, <2>2 DEF Submit
<1>2. ChanTypeOK'
  BY <1>1 DEF Submit, DriverTypeOK, ChanTypeOK
<1>3. reply' \in [Clients -> Reply]
  BY Members DEF Submit, DriverTypeOK
<1> QED
  BY <1>2, <1>3, FrameDriver DEF Submit, DriverTypeOK, noteVars, readVars

\* What a sender that goes leaves behind.
LEMMA ReleaseType ==
  ASSUME ChanTypeOK, reply \in [Clients -> Reply], NEW h, Release(h),
         UNCHANGED <<cmd_open, dgram_open, dgram_queue>>
  PROVE  /\ ChanTypeOK'
         /\ reply' \in [Clients -> Reply]
         /\ \A k \in Clients : reply'[k] \in {reply[k], "dropped"}
         /\ cmd_senders' \subseteq cmd_senders
         /\ cmd_open => UNCHANGED <<cmd_queue, reply>>
<1>1. cmd_senders' = cmd_senders \ {h}
  BY DEF Release
<1>2. CASE ~cmd_open /\ cmd_senders' = {}
  <2>1. /\ Answer({cmd_queue[i].key : i \in DOMAIN cmd_queue}, "dropped")
        /\ cmd_queue' = <<>>
    BY <1>2 DEF Release
  <2>2. reply' \in [Clients -> Reply]
    BY <2>1, AnswerType, Members
  <2>3. \A k \in Clients : reply'[k] \in {reply[k], "dropped"}
    BY <2>1 DEF Answer
  <2>4. cmd_queue' \in Seq(Message)
    BY <2>1, EmptySeq
  <2>5. ChanTypeOK'
    BY <1>1, <2>4 DEF ChanTypeOK
  <2> QED BY <1>1, <1>2, <2>2, <2>3, <2>5
<1>3. CASE ~(~cmd_open /\ cmd_senders' = {})
  <2>1. UNCHANGED <<cmd_queue, reply>>
    BY <1>3 DEF Release
  <2>2. ChanTypeOK'
    BY <1>1, <2>1 DEF ChanTypeOK
  <2> QED BY <1>1, <2>1, <2>2
<1> QED BY <1>2, <1>3

\* The start of an operation closes the writer's sender, or none.
LEMMA StartRelease ==
  ASSUME TypeOK, NEW o, Start(o)
  PROVE  /\ ChanTypeOK'
         /\ reply' \in [Clients -> Reply]
         /\ \A k \in Clients : reply'[k] \in {reply[k], "dropped"}
         /\ cmd_senders' \subseteq cmd_senders
         /\ cmd_open => UNCHANGED <<cmd_queue, reply>>
         /\ \/ UNCHANGED <<cmd_queue, reply>>
            \/ /\ Answer({cmd_queue[i].key : i \in DOMAIN cmd_queue}, "dropped")
               /\ cmd_queue' = <<>>
<1>1. /\ ChanTypeOK /\ reply \in [Clients -> Reply]
      /\ UNCHANGED <<cmd_open, dgram_open, dgram_queue>>
  BY DEF Start, TypeOK, DriverTypeOK
<1>2. CASE Release("write_dgram")
  BY <1>1, <1>2, ReleaseType DEF Release
<1>3. CASE UNCHANGED <<cmd_senders, cmd_queue, reply>>
  BY <1>1, <1>3 DEF ChanTypeOK
<1> QED BY <1>2, <1>3 DEF Start

\* The writer keeps all variables in their types.
LEMMA WriterType ==
  ASSUME TypeOK, WriterPoll \/ Cancel \/ \E o \in Op : Start(o)
  PROVE  TypeOK'
<1> USE DEF TypeOK, streamVars
<1>0. /\ {"absent", "State0", "Reserved", "State1", "Terminated"}
           \subseteq CommandState
      /\ RemovedEntry \in CommandState
  BY DEF CommandState, RemovedEntry
<1>1. ASSUME NEW o \in Op, Start(o) PROVE TypeOK'
  <2>1. ChanTypeOK' /\ reply' \in [Clients -> Reply]
    BY <1>1, StartRelease
  <2>2. DriverTypeOK'
    BY <1>1, <2>1, FrameDriver DEF Start, DriverTypeOK, noteVars, readVars
  <2>3. phase' \in Phase /\ key' \in Keys
    BY <1>1 DEF Start, Enter, FirstPhase, Phase
  <2>4. WriterTypeOK'
    BY <1>1, <2>3 DEF Start, WriterTypeOK
  <2> QED BY <1>1, <2>2, <2>4 DEF Start
<1>2. CASE CheckCapacity
  <2>1. cmd_pending' \in [Keys -> CommandState]
    BY <1>0, <1>2, SetEntryType DEF CheckCapacity
  <2>2. request' \in [Keys -> Request]
    BY <1>2, Members DEF CheckCapacity, WriterTypeOK
  <2>3. WriterTypeOK'
    BY <1>2, <2>1, <2>2 DEF CheckCapacity, WriterTypeOK
  <2> QED BY <1>2, <2>3, FrameDriver DEF CheckCapacity
<1>3. CASE RequestFlush
  <2>1. cmd_pending' \in [Keys -> CommandState]
    BY <1>0, <1>3, SetEntryType DEF RequestFlush
  <2>2. request' \in [Keys -> Request]
    BY <1>3, Members DEF RequestFlush, WriterTypeOK
  <2>3. WriterTypeOK'
    BY <1>3, <2>1, <2>2 DEF RequestFlush, WriterTypeOK
  <2> QED BY <1>3, <2>3, FrameDriver DEF RequestFlush
<1>17. CASE ReserveCommand
  <2>1. cmd_pending' \in [Keys -> CommandState]
    BY <1>0, <1>17, SetEntryType DEF ReserveCommand
  <2>2. WriterTypeOK'
    BY <1>17, <2>1 DEF ReserveCommand, WriterTypeOK
  <2> QED BY <1>17, <2>2, FrameDriver DEF ReserveCommand
<1>4. CASE SendCommand
  <2>1. cmd_pending' \in [Keys -> CommandState]
    BY <1>0, <1>4, SetEntryType DEF SendCommand
  <2>2. WriterTypeOK'
    BY <1>4, <2>1 DEF SendCommand, WriterTypeOK
  <2>3. request[key] \in Request /\ key \in Clients
    BY Members DEF WriterTypeOK
  <2>4. DriverTypeOK'
    BY <1>4, <2>3, SubmitType DEF SendCommand
  <2> QED BY <1>4, <2>2, <2>4 DEF SendCommand
<1>5. ASSUME Fail,
             UNCHANGED <<driverVars, request, write_sender, key, step,
                         accepted, confirmed, streamVars>>
      PROVE  TypeOK'
  <2>1. cmd_pending' \in [Keys -> CommandState]
    BY <1>0, <1>5, SetEntryType DEF Fail, WriterTypeOK
  <2>2. WriterTypeOK'
    BY <1>5, <2>1, FinishType DEF Fail, WriterTypeOK
  <2> QED BY <1>5, <2>2, FrameDriver
<1>6. CASE SendCommandFails
  BY <1>5, <1>6 DEF SendCommandFails
<1>7. CASE AnswerDropped
  BY <1>5, <1>7 DEF AnswerDropped
<1>8. CASE ReadyAnswered
  <2>1. cmd_pending' \in [Keys -> CommandState]
    BY <1>0, <1>8, SetEntryType DEF ReadyAnswered
  <2>2. WriterTypeOK'
    BY <1>8, <2>1 DEF ReadyAnswered, WriterTypeOK
  <2> QED BY <1>8, <2>2, FrameDriver DEF ReadyAnswered
<1>9. CASE FlushAnswered
  <2>1. cmd_pending' \in [Keys -> CommandState]
    BY <1>0, <1>9, SetEntryType DEF FlushAnswered
  <2>2. WriterTypeOK'
    BY <1>9, <2>1, FinishType DEF FlushAnswered, WriterTypeOK
  <2> QED BY <1>9, <2>2, FrameDriver DEF FlushAnswered
<1>10. CASE InvalidResponse
  <2>1. cmd_pending' \in [Keys -> CommandState]
    BY <1>0, <1>10, SetEntryType DEF InvalidResponse
  <2>2. WriterTypeOK'
    BY <1>10, <2>1, FinishType DEF InvalidResponse, WriterTypeOK
  <2> QED BY <1>10, <2>2, FrameDriver DEF InvalidResponse
<1>11. CASE PolledAfterCompletion
  <2>1. WriterTypeOK'
    BY <1>11, FinishType DEF PolledAfterCompletion, WriterTypeOK
  <2> QED BY <1>11, <2>1, FrameDriver DEF PolledAfterCompletion
<1>12. CASE ReserveSlot
  <2>1. cmd_pending' \in [Keys -> CommandState]
    BY <1>0, <1>12, SetEntryType DEF ReserveSlot
  <2>2. /\ op' \in Op \cup {"none", "panicked"}
        /\ phase' \in Phase
        /\ outcome' \in Outcome
    BY <1>12, FinishType DEF ReserveSlot, AfterReady, WriterTypeOK, Phase
  <2>3. WriterTypeOK'
    BY <1>12, <2>1, <2>2 DEF ReserveSlot, WriterTypeOK
  <2> QED BY <1>12, <2>3, FrameDriver DEF ReserveSlot
<1>13. CASE AwaitSlot
  <2>1. WriterTypeOK'
    BY <1>13 DEF AwaitSlot, WriterTypeOK
  <2> QED BY <1>13, <2>1, FrameDriver DEF AwaitSlot
<1>14. CASE ReserveFails
  <2>1. cmd_pending' \in [Keys -> CommandState]
    BY <1>0, <1>14, SetEntryType DEF ReserveFails
  <2>2. WriterTypeOK'
    BY <1>14, <2>1, FinishType DEF ReserveFails, WriterTypeOK
  <2> QED BY <1>14, <2>2, FrameDriver DEF ReserveFails
<1>15. CASE SendItem
  <2>1. dgram_queue' \in Seq(Nat)
    <3>1. dgram_queue \in Seq(Nat) /\ accepted + 1 \in Nat
      BY DEF DriverTypeOK, ChanTypeOK, WriterTypeOK
    <3> QED BY <1>15, <3>1 DEF SendItem
  <2>2. ChanTypeOK'
    BY <1>15, <2>1 DEF SendItem, DriverTypeOK, ChanTypeOK
  <2>3. DriverTypeOK'
    BY <1>15, <2>2, FrameDriver DEF SendItem, DriverTypeOK, noteVars, readVars
  <2>4. /\ op' \in Op \cup {"none", "panicked"}
        /\ phase' \in Phase
        /\ outcome' \in Outcome
        /\ key' \in Keys
    BY <1>15, FinishType DEF SendItem, Enter, WriterTypeOK, Phase
  <2>5. WriterTypeOK'
    BY <1>15, <2>4 DEF SendItem, WriterTypeOK
  <2> QED BY <1>15, <2>3, <2>5 DEF SendItem
<1>16. CASE Cancel
  <2>1. WriterTypeOK'
    BY <1>16, FinishType DEF Cancel, WriterTypeOK
  <2> QED BY <1>16, <2>1, FrameDriver DEF Cancel
<1> QED
  BY <1>1, <1>2, <1>3, <1>4, <1>6, <1>7, <1>8, <1>9, <1>10, <1>11, <1>12,
     <1>13, <1>14, <1>15, <1>16, <1>17
  DEF WriterPoll, PollCommand, PollSlot

\* The other clients keep all variables in their types.
LEMMA ClientType ==
  ASSUME TypeOK,
         StreamWrite \/ StreamStep \/ ReaderStep \/ \E h \in Owner : Drop(h)
  PROVE  TypeOK'
<1> USE DEF TypeOK, CommandState
<1>1. CASE StreamWrite
  BY <1>1, FrameDriver, FrameWriter DEF StreamWrite
<1>7. CASE StreamReserve
  BY <1>7, FrameDriver, FrameWriter DEF StreamReserve
<1>2. CASE StreamSend
  <2>1. DriverTypeOK'
    BY <1>2, SubmitType, Members DEF StreamSend
  <2> QED BY <1>2, <2>1, FrameWriter DEF StreamSend
<1>3. CASE StreamDone
  BY <1>3, FrameDriver, FrameWriter DEF StreamDone
<1>4. CASE StreamTaken
  <2>1. DriverTypeOK'
    BY <1>4, FrameDriver DEF StreamTaken, DriverTypeOK, noteVars
  <2> QED BY <1>4, <2>1, FrameWriter DEF StreamTaken, streamVars
<1>5. CASE DgramTaken
  <2>1. DriverTypeOK'
    BY <1>5, FrameDriver DEF DgramTaken, DriverTypeOK, noteVars
  <2> QED BY <1>5, <2>1, FrameWriter DEF DgramTaken, streamVars
<1>6. ASSUME NEW h \in Owner, Drop(h) PROVE TypeOK'
  <2>1. ChanTypeOK' /\ reply' \in [Clients -> Reply]
    <3>1. Release(h) /\ UNCHANGED <<cmd_open, dgram_open, dgram_queue>>
      BY <1>6 DEF Drop
    <3> QED BY <3>1, ReleaseType DEF DriverTypeOK
  <2>2. DriverTypeOK'
    BY <1>6, <2>1, FrameDriver DEF Drop, DriverTypeOK, noteVars, readVars
  <2> QED BY <1>6, <2>2, FrameWriter DEF Drop, streamVars
<1> QED
  BY <1>1, <1>2, <1>3, <1>4, <1>5, <1>6, <1>7 DEF StreamStep, ReaderStep

LEMMA InitType == Init => TypeOK
<1> SUFFICES ASSUME Init PROVE TypeOK
  OBVIOUS
<1>1. ChanTypeOK /\ SendTypeOK
  BY EmptySeq, DriverAssumption
  DEF Init, DriverInit, ChanTypeOK, SendTypeOK, NoDgram
<1>2. DriverTypeOK
  BY <1>1, States, Members DEF Init, DriverInit, DriverTypeOK
<1>3. WriterTypeOK
  BY Members DEF Init, WriterTypeOK, CommandState, Phase, Outcome
<1> QED
  BY <1>2, <1>3 DEF Init, TypeOK, CommandState

LEMMA StepType == TypeOK /\ [Next]_vars => TypeOK'
<1> SUFFICES ASSUME TypeOK, [Next]_vars PROVE TypeOK'
  OBVIOUS
<1>1. CASE DriverStep
  BY <1>1, DriverType, FrameWriter DEF DriverStep, TypeOK, streamVars
<1>2. CASE UNCHANGED vars
  BY <1>2, FrameDriver, FrameWriter DEF vars, TypeOK, streamVars
<1> QED
  BY <1>1, <1>2, WriterType, ClientType DEF Next

\* Every variable of the driver, the writer and their channels keeps its type
\* in every behaviour of the program.
THEOREM TypeCorrect == Spec => []TypeOK
<1>1. Init => TypeOK
  BY InitType
<1>2. TypeOK /\ [Next]_vars => TypeOK'
  BY StepType
<1> QED
  BY <1>1, <1>2, PTL DEF Spec

-----------------------------------------------------------------------------
(* Who may change what.                                                    *)

ownVars == <<driver, cmd_open, dgram_open, sendVars, noteVars>>

\* Only the driver changes its queues, its notifiers and its window, and opens
\* or closes the receiving ends.
LEMMA DriverOwns ==
  ASSUME [Next]_vars, ~DriverStep
  PROVE  UNCHANGED ownVars
<1> USE DEF ownVars
<1>1. CASE UNCHANGED vars
  BY <1>1 DEF vars, driverVars, chanVars
<1>2. CASE \E o \in Op : Start(o)
  BY <1>2 DEF Start
<1>3. CASE PollCommand
  <2>1. CASE SendCommand
    BY <2>1 DEF SendCommand, Submit
  <2>2. CASE ~SendCommand
    <3>1. UNCHANGED driverVars
      BY <1>3, <2>2
        DEF PollCommand, CheckCapacity, RequestFlush, ReserveCommand,
            SendCommandFails, AnswerDropped, ReadyAnswered, FlushAnswered,
            InvalidResponse, PolledAfterCompletion
    <3> QED BY <3>1 DEF driverVars, chanVars
  <2> QED BY <2>1, <2>2
<1>4. CASE PollSlot
  BY <1>4
  DEF PollSlot, ReserveSlot, AwaitSlot, ReserveFails, SendItem, driverVars,
      chanVars
<1>5. CASE Cancel
  BY <1>5 DEF Cancel, driverVars, chanVars
<1>6. CASE StreamWrite \/ StreamStep
  BY <1>6 DEF StreamWrite, StreamStep, StreamReserve, StreamSend, StreamDone,
              Submit, driverVars, chanVars
<1>7. CASE ReaderStep
  BY <1>7 DEF ReaderStep, StreamTaken, DgramTaken, chanVars
<1>8. CASE \E h \in Owner : Drop(h)
  BY <1>8 DEF Drop
<1> QED
  BY <1>1, <1>2, <1>3, <1>4, <1>5, <1>6, <1>7, <1>8 DEF Next, WriterPoll

\* Of the driver's steps, four move datagrams between its queues.
LEMMA QueueSteps ==
  ASSUME [Next]_vars, ~WakeUp, ~Promote, ~DrainTake, ~Transmit
  PROVE  UNCHANGED sendVars
<1>1. CASE DriverStep
  <2>1. CASE ReceiveRequest \/ ReceiveNone
    BY <2>1 DEF ReceiveRequest, ReceiveWrite, ReceiveReady, ReceiveFlush,
                ReceiveNone
  <2>2. CASE DrainEmpty \/ PublishStream \/ PublishDgram
    BY <2>2 DEF DrainEmpty, PublishStream, PublishDgram
  <2>3. CASE DropNotifiers \/ CloseCommands \/ CloseDgrams
    BY <2>3 DEF DropNotifiers, CloseCommands, CloseDgrams
  <2> QED BY <1>1, <2>1, <2>2, <2>3 DEF DriverStep, DriverNext, DriverPass
<1>2. CASE ~DriverStep
  BY <1>2, DriverOwns DEF ownVars
<1> QED
  BY <1>1, <1>2

\* Nobody but the driver takes from the datagram channel.
LEMMA DriverQueueSteps ==
  ASSUME [Next]_vars, ~SendItem, dgram_queue' # dgram_queue
  PROVE  DriverStep
<1>1. CASE UNCHANGED vars
  BY <1>1 DEF vars, driverVars, chanVars
<1>2. CASE \E o \in Op : Start(o)
  BY <1>2 DEF Start
<1>3. CASE PollCommand
  BY <1>3
    DEF PollCommand, ReserveCommand, SendCommand, Submit, CheckCapacity,
        RequestFlush, SendCommandFails, AnswerDropped, ReadyAnswered,
        FlushAnswered, InvalidResponse, PolledAfterCompletion, driverVars,
        chanVars
<1>4. CASE PollSlot
  BY <1>4 DEF PollSlot, ReserveSlot, AwaitSlot, ReserveFails, driverVars,
              chanVars
<1>5. CASE Cancel
  BY <1>5 DEF Cancel, driverVars, chanVars
<1>6. CASE StreamWrite \/ StreamStep
  BY <1>6 DEF StreamWrite, StreamStep, StreamReserve, StreamSend, StreamDone,
              Submit, driverVars, chanVars
<1>7. CASE ReaderStep
  BY <1>7 DEF ReaderStep, StreamTaken, DgramTaken, chanVars
<1>8. CASE \E h \in Owner : Drop(h)
  BY <1>8 DEF Drop
<1> QED
  BY <1>1, <1>2, <1>3, <1>4, <1>5, <1>6, <1>7, <1>8 DEF Next, WriterPoll

-----------------------------------------------------------------------------
(* The shape of the driver's pass and of a send.                           *)

\* The channel is drained only when nothing is parked; the receivers live as
\* long as the driver runs; send_item is called with a permit; no poll function
\* runs between two operations; a permit of the command channel is used in the
\* poll that reserved it.
Shape ==
  /\ driver = "drain" => write_dgram_waiting = NoDgram
  /\ driver # "closing" => cmd_open /\ dgram_open
  /\ phase = "item" => write_sender = "ready"
  /\ op = "none" => phase = "idle"
  /\ \A k \in Keys : cmd_pending[k] = "Reserved" =>
                       k = key /\ phase \in {"ready", "flush"}

\* Only three steps touch the datagram channel.
LEMMA DgramChannelSteps ==
  ASSUME [Next]_vars, ~DrainTake, ~CloseDgrams, ~SendItem
  PROVE  UNCHANGED <<dgram_queue, accepted>>
<1>1. CASE UNCHANGED vars
  BY <1>1 DEF vars, driverVars, chanVars, writerVars
<1>2. CASE DriverStep
  <2>1. CASE ReceiveRequest \/ ReceiveNone \/ WakeUp
    BY <1>2, <2>1 DEF DriverStep, ReceiveRequest, ReceiveWrite, ReceiveReady,
      ReceiveFlush, ReceiveNone, WakeUp, chanVars, writerVars
  <2>2. CASE Promote \/ DrainEmpty \/ PublishStream \/ PublishDgram
    BY <1>2, <2>2 DEF DriverStep, Promote, DrainEmpty, PublishStream,
      PublishDgram, chanVars, writerVars
  <2>3. CASE Transmit \/ DropNotifiers \/ CloseCommands
    BY <1>2, <2>3 DEF DriverStep, Transmit, DropNotifiers, CloseCommands,
      chanVars, writerVars
  <2> QED BY <1>2, <2>1, <2>2, <2>3 DEF DriverStep, DriverNext, DriverPass
<1>3. CASE \E o \in Op : Start(o)
  BY <1>3 DEF Start
<1>4. CASE PollCommand
  BY <1>4
    DEF PollCommand, ReserveCommand, SendCommand, Submit, CheckCapacity,
        RequestFlush, SendCommandFails, AnswerDropped, ReadyAnswered,
        FlushAnswered, InvalidResponse, PolledAfterCompletion, driverVars,
        chanVars
<1>5. CASE PollSlot
  BY <1>5 DEF PollSlot, ReserveSlot, AwaitSlot, ReserveFails, driverVars,
              chanVars
<1>6. CASE Cancel
  BY <1>6 DEF Cancel, driverVars, chanVars
<1>7. CASE StreamWrite \/ StreamStep
  BY <1>7 DEF StreamWrite, StreamStep, StreamReserve, StreamSend, StreamDone,
              Submit, driverVars, chanVars, writerVars
<1>8. CASE ReaderStep
  BY <1>8 DEF ReaderStep, StreamTaken, DgramTaken, chanVars, writerVars
<1>9. CASE \E h \in Owner : Drop(h)
  BY <1>9 DEF Drop, writerVars
<1> QED
  BY <1>1, <1>2, <1>3, <1>4, <1>5, <1>6, <1>7, <1>8, <1>9
  DEF Next, WriterPoll

\* Where the permit is, and when an item is sent with it.
LEMMA PermitSteps ==
  ASSUME [Next]_vars
  PROVE  \/ ReserveSlot \/ AwaitSlot \/ ReserveFails \/ SendItem
         \/ /\ UNCHANGED write_sender
            /\ phase' = "item" => phase = "item" \/ write_sender = "ready"
<1>1. CASE UNCHANGED vars
  BY <1>1 DEF vars, writerVars
<1>2. CASE DriverStep
  BY <1>2 DEF DriverStep, writerVars
<1>3. CASE \E o \in Op : Start(o)
  BY <1>3 DEF Start, Enter, FirstPhase
<1>4. CASE PollCommand
  BY <1>4
    DEF PollCommand, ReserveCommand, SendCommand, Submit, CheckCapacity,
        RequestFlush, SendCommandFails, AnswerDropped, ReadyAnswered,
        FlushAnswered, InvalidResponse, PolledAfterCompletion, Fail, Finish,
        Panic
<1>5. CASE Cancel
  BY <1>5 DEF Cancel, Finish
<1>6. CASE StreamWrite \/ StreamStep
  BY <1>6 DEF StreamWrite, StreamStep, StreamReserve, StreamSend, StreamDone,
              writerVars
<1>7. CASE ReaderStep
  BY <1>7 DEF ReaderStep, StreamTaken, DgramTaken, writerVars
<1>8. CASE \E h \in Owner : Drop(h)
  BY <1>8 DEF Drop, writerVars
<1> QED
  BY <1>1, <1>2, <1>3, <1>4, <1>5, <1>6, <1>7, <1>8
  DEF Next, WriterPoll, PollSlot

LEMMA StepShape ==
  ASSUME TypeOK, Shape, [Next]_vars
  PROVE  Shape'
<1>1. (driver = "drain" => write_dgram_waiting = NoDgram)'
  <2>1. CASE ~DriverStep
    BY <2>1, DriverOwns DEF ownVars, sendVars, Shape
  <2>2. CASE ReceiveRequest \/ ReceiveNone \/ WakeUp
    BY <2>2 DEF ReceiveRequest, ReceiveWrite, ReceiveReady, ReceiveFlush,
                Receive, ReceiveNone, WakeUp
  <2>3. CASE Promote
    BY <2>3 DEF Promote, AfterPromote
  <2>4. CASE DrainTake
    BY <2>4 DEF DrainTake, PushOrPark, Shape
  <2>5. CASE DrainEmpty \/ PublishStream \/ PublishDgram \/ Transmit
    BY <2>5 DEF DrainEmpty, PublishStream, PublishDgram, Transmit
  <2>6. CASE DropNotifiers \/ CloseCommands \/ CloseDgrams
    BY <2>6 DEF DropNotifiers, CloseCommands, CloseDgrams
  <2> QED
    BY <2>1, <2>2, <2>3, <2>4, <2>5, <2>6
    DEF DriverStep, DriverNext, DriverPass
<1>2. (driver # "closing" => cmd_open /\ dgram_open)'
  <2>1. CASE ~DriverStep
    BY <2>1, DriverOwns DEF ownVars, Shape
  <2>2. CASE ReceiveRequest \/ ReceiveNone \/ WakeUp
    BY <2>2 DEF ReceiveRequest, ReceiveWrite, ReceiveReady, ReceiveFlush,
                Receive, ReceiveNone, WakeUp, chanVars, Shape
  <2>3. CASE Promote
    BY <2>3 DEF Promote, chanVars, Shape
  <2>4. CASE DrainTake
    BY <2>4 DEF DrainTake, PushOrPark, Shape
  <2>5. CASE DrainEmpty \/ PublishStream \/ PublishDgram \/ Transmit
    BY <2>5 DEF DrainEmpty, PublishStream, PublishDgram, Transmit, chanVars,
                Shape
  <2>6. CASE DropNotifiers \/ CloseCommands \/ CloseDgrams
    BY <2>6 DEF DropNotifiers, CloseCommands, CloseDgrams
  <2> QED
    BY <2>1, <2>2, <2>3, <2>4, <2>5, <2>6
    DEF DriverStep, DriverNext, DriverPass
<1>3. (phase = "item" => write_sender = "ready")'
  <2>1. CASE ReserveSlot
    BY <2>1 DEF ReserveSlot
  <2>2. CASE AwaitSlot \/ ReserveFails
    BY <2>2 DEF AwaitSlot, ReserveFails, Finish
  <2>3. CASE SendItem
    BY <2>3 DEF SendItem, Enter, Finish
  <2>4. CASE ~(ReserveSlot \/ AwaitSlot \/ ReserveFails \/ SendItem)
    BY <2>4, PermitSteps DEF Shape
  <2> QED BY <2>1, <2>2, <2>3, <2>4
<1>4. (op = "none" => phase = "idle")'
  <2>1. CASE UNCHANGED <<op, phase>>
    BY <2>1 DEF Shape
  <2>2. CASE DriverStep \/ UNCHANGED vars
    BY <2>1, <2>2 DEF DriverStep, vars, writerVars
  <2>3. CASE \E o \in Op : Start(o)
    BY <2>3 DEF Start, Op
  <2>4. CASE PollCommand
    BY <2>1, <2>4
    DEF PollCommand, ReserveCommand, SendCommand, CheckCapacity, RequestFlush,
        SendCommandFails, AnswerDropped, ReadyAnswered, FlushAnswered,
        InvalidResponse, PolledAfterCompletion, Fail, Finish, Panic
  <2>5. CASE PollSlot
    BY <2>1, <2>5 DEF PollSlot, ReserveSlot, AwaitSlot, ReserveFails, SendItem,
                      AfterReady, Enter, Finish
  <2>6. CASE Cancel
    BY <2>6 DEF Cancel, Finish
  <2>7. CASE StreamWrite \/ StreamStep \/ ReaderStep
    BY <2>1, <2>7
      DEF StreamWrite, StreamStep, StreamReserve, StreamSend, StreamDone,
          ReaderStep, StreamTaken, DgramTaken, writerVars
  <2>8. CASE \E h \in Owner : Drop(h)
    BY <2>1, <2>8 DEF Drop, writerVars
  <2> QED
    BY <2>2, <2>3, <2>4, <2>5, <2>6, <2>7, <2>8 DEF Next, WriterPoll
<1>5. (\A k \in Keys : cmd_pending[k] = "Reserved" =>
                          k = key /\ phase \in {"ready", "flush"})'
  <2>0. cmd_pending \in [Keys -> CommandState] /\ key \in Keys
    BY DEF TypeOK, WriterTypeOK
  <2>1. CASE UNCHANGED <<cmd_pending, key, phase>>
    BY <2>1 DEF Shape
  <2>2. CASE /\ cmd_pending[key] # "Reserved" \/ phase \notin {"ready", "flush"}
             /\ \A k \in Keys : cmd_pending'[k] \in {cmd_pending[k], "absent",
                                                      "State0", "Terminated"}
    BY <2>2 DEF Shape
  <2>3. CASE DriverStep \/ UNCHANGED vars
    BY <2>1, <2>3 DEF DriverStep, vars, writerVars
  <2>4. CASE (\E o \in Op : Start(o)) \/ Cancel
    BY <2>2, <2>4 DEF Start, Cancel, Parked, Shape
  <2>5. CASE ReserveCommand \/ SendCommand
    BY <2>0, <2>5 DEF ReserveCommand, SendCommand, SetEntry, Executing, Shape
  <2>6. CASE PollCommand /\ ~ReserveCommand /\ ~SendCommand
    BY <2>0, <2>2, <2>6
    DEF PollCommand, CheckCapacity, RequestFlush, SendCommandFails,
        AnswerDropped, ReadyAnswered, FlushAnswered, InvalidResponse,
        PolledAfterCompletion, Fail, SetEntry, Executing, NoEntry, RemovedEntry
  <2>7. CASE PollSlot
    BY <2>0, <2>2, <2>7 DEF PollSlot, ReserveSlot, AwaitSlot, ReserveFails,
                            SendItem, SetEntry, Executing
  <2>8. CASE StreamWrite \/ StreamStep \/ ReaderStep
    BY <2>1, <2>8 DEF StreamWrite, StreamStep, StreamReserve, StreamSend,
                      StreamDone, ReaderStep, StreamTaken, DgramTaken,
                      writerVars
  <2>9. CASE \E h \in Owner : Drop(h)
    BY <2>1, <2>9 DEF Drop, writerVars
  <2> QED
    BY <2>3, <2>4, <2>5, <2>6, <2>7, <2>8, <2>9 DEF Next, WriterPoll
<1> QED
  BY <1>1, <1>2, <1>3, <1>4, <1>5 DEF Shape

LEMMA InitShape == Init => Shape
BY DEF Init, DriverInit, Shape

-----------------------------------------------------------------------------
(* The limits of the buffers.                                              *)

\* A receiver of the command channel is never created again.
LEMMA CmdStaysClosed ==
  ASSUME [Next]_vars, cmd_open'
  PROVE  cmd_open
<1>1. CASE DriverStep
  <2>1. CASE ReceiveRequest \/ ReceiveNone \/ WakeUp \/ Promote
    BY <2>1 DEF ReceiveRequest, ReceiveWrite, ReceiveReady, ReceiveFlush,
                ReceiveNone, WakeUp, Promote, chanVars
  <2>2. CASE DrainTake \/ DrainEmpty \/ PublishStream \/ PublishDgram
    BY <2>2 DEF DrainTake, DrainEmpty, PublishStream, PublishDgram, chanVars
  <2>3. CASE Transmit \/ DropNotifiers \/ CloseCommands \/ CloseDgrams
    BY <2>3 DEF Transmit, DropNotifiers, CloseCommands, CloseDgrams, chanVars
  <2> QED
    BY <1>1, <2>1, <2>2, <2>3 DEF DriverStep, DriverNext, DriverPass
<1> QED BY <1>1, DriverOwns DEF ownVars

\* While it exists, four kinds of step touch the command channel.
LEMMA CommandChannelSteps ==
  ASSUME TypeOK, [Next]_vars, cmd_open, ~CloseCommands
  PROVE  \/ UNCHANGED cmd_queue
         \/ cmd_queue # <<>> /\ cmd_queue' = Tail(cmd_queue)
         \/ SendCommand
         \/ StreamSend
<1>1. CASE UNCHANGED vars
  BY <1>1 DEF vars, driverVars, chanVars
<1>2. CASE DriverStep
  <2>1. CASE ReceiveRequest
    BY <2>1 DEF ReceiveRequest, ReceiveWrite, ReceiveReady, ReceiveFlush,
                Receive
  <2>2. CASE ReceiveNone \/ WakeUp \/ Promote \/ DrainTake
    BY <2>2 DEF ReceiveNone, WakeUp, Promote, DrainTake, chanVars
  <2>3. CASE DrainEmpty \/ PublishStream \/ PublishDgram \/ Transmit
    BY <2>3 DEF DrainEmpty, PublishStream, PublishDgram, Transmit, chanVars
  <2>4. CASE DropNotifiers \/ CloseDgrams
    BY <2>4 DEF DropNotifiers, CloseDgrams, chanVars
  <2> QED
    BY <1>2, <2>1, <2>2, <2>3, <2>4 DEF DriverStep, DriverNext, DriverPass
<1>3. CASE \E o \in Op : Start(o)
  BY <1>3, StartRelease
<1>4. CASE PollCommand
  BY <1>4
    DEF PollCommand, CheckCapacity, RequestFlush, ReserveCommand,
        SendCommandFails, AnswerDropped, ReadyAnswered, FlushAnswered,
        InvalidResponse, PolledAfterCompletion, driverVars, chanVars
<1>5. CASE PollSlot
  BY <1>5 DEF PollSlot, ReserveSlot, AwaitSlot, ReserveFails, SendItem,
              driverVars, chanVars
<1>6. CASE Cancel
  BY <1>6 DEF Cancel, driverVars, chanVars
<1>7. CASE StreamWrite \/ StreamStep
  BY <1>7 DEF StreamWrite, StreamStep, StreamReserve, StreamDone, driverVars,
              chanVars
<1>8. CASE ReaderStep
  BY <1>8 DEF ReaderStep, StreamTaken, DgramTaken, chanVars
<1>9. CASE \E h \in Owner : Drop(h)
  BY <1>9 DEF Drop, Release
<1> QED
  BY <1>1, <1>2, <1>3, <1>4, <1>5, <1>6, <1>7, <1>8, <1>9
  DEF Next, WriterPoll

\* Only QuicSendStream touches its Command.
LEMMA StreamSteps ==
  ASSUME [Next]_vars, ~(StreamWrite \/ StreamStep)
  PROVE  UNCHANGED stream_cmd
<1>1. CASE UNCHANGED vars \/ DriverStep
  BY <1>1 DEF vars, DriverStep, streamVars
<1>2. CASE (\E o \in Op : Start(o)) \/ Cancel
  BY <1>2 DEF Start, Cancel, streamVars
<1>3. CASE PollCommand
  BY <1>3
  DEF PollCommand, ReserveCommand, SendCommand, CheckCapacity, RequestFlush,
      SendCommandFails, AnswerDropped, ReadyAnswered, FlushAnswered,
      InvalidResponse, PolledAfterCompletion, streamVars
<1>4. CASE PollSlot
  BY <1>4 DEF PollSlot, ReserveSlot, AwaitSlot, ReserveFails, SendItem,
              streamVars
<1>5. CASE ReaderStep \/ \E h \in Owner : Drop(h)
  BY <1>5 DEF ReaderStep, StreamTaken, DgramTaken, Drop, streamVars
<1> QED
  BY <1>1, <1>2, <1>3, <1>4, <1>5 DEF Next, WriterPoll

\* Only poll_reserve gives the writer a permit of the command channel.
LEMMA ReservedSteps ==
  ASSUME TypeOK, Shape, [Next]_vars, ~ReserveCommand
  PROVE  cmd_pending'[key'] = "Reserved" => cmd_pending[key] = "Reserved"
<1>0. cmd_pending \in [Keys -> CommandState] /\ key \in Keys /\ key' \in Keys
  BY StepType DEF TypeOK, WriterTypeOK
<1>1. CASE UNCHANGED cmd_pending
  BY <1>0, <1>1 DEF Shape
<1>2. CASE UNCHANGED vars \/ DriverStep
  BY <1>1, <1>2 DEF vars, DriverStep, writerVars
<1>3. CASE (\E o \in Op : Start(o)) \/ Cancel
  BY <1>1, <1>3 DEF Start, Cancel
<1>4. CASE PollCommand
  BY <1>0, <1>1, <1>4
  DEF PollCommand, SendCommand, CheckCapacity, RequestFlush, SendCommandFails,
      AnswerDropped, ReadyAnswered, FlushAnswered, InvalidResponse,
      PolledAfterCompletion, Fail, SetEntry, RemovedEntry
<1>5. CASE PollSlot
  BY <1>0, <1>1, <1>5 DEF PollSlot, ReserveSlot, AwaitSlot, ReserveFails,
                          SendItem, SetEntry
<1>6. CASE StreamWrite \/ StreamStep
  BY <1>1, <1>6 DEF StreamWrite, StreamStep, StreamReserve, StreamSend,
                    StreamDone, writerVars
<1>7. CASE ReaderStep \/ \E h \in Owner : Drop(h)
  BY <1>1, <1>7 DEF ReaderStep, StreamTaken, DgramTaken, Drop, writerVars
<1> QED
  BY <1>2, <1>3, <1>4, <1>5, <1>6, <1>7 DEF Next, WriterPoll

\* The permits of the command channel are reserved, used, or kept.
LEMMA CommandPermitSteps ==
  ASSUME TypeOK, Shape, [Next]_vars
  PROVE  /\ CmdPermits \in Nat /\ CmdPermits' \in Nat
         /\ ReserveCommand \/ StreamReserve => CmdPermits' = CmdPermits + 1
         /\ SendCommand \/ StreamSend => CmdPermits' = CmdPermits - 1
         /\ ~(ReserveCommand \/ StreamReserve) => CmdPermits' <= CmdPermits
<1> DEFINE own == cmd_pending[key] = "Reserved"
           str == stream_cmd = "Reserved"
<1>0. cmd_pending \in [Keys -> CommandState] /\ key \in Keys
      /\ cmd_pending' \in [Keys -> CommandState] /\ key' \in Keys
  BY StepType DEF TypeOK, WriterTypeOK
<1>1. CmdPermits = (IF own THEN 1 ELSE 0) + (IF str THEN 1 ELSE 0)
      /\ CmdPermits' = (IF own' THEN 1 ELSE 0) + (IF str' THEN 1 ELSE 0)
  BY DEF CmdPermits
<1>2. CASE ReserveCommand
  <2>1. ~own /\ own' /\ (str' <=> str)
    BY <1>0, <1>2 DEF ReserveCommand, Executing, SetEntry, streamVars
  <2>2. ~(SendCommand \/ StreamSend)
    BY <1>2, <2>1 DEF ReserveCommand, SendCommand, StreamSend, Executing,
                      SetEntry, streamVars
  <2> QED BY <1>1, <1>2, <2>1, <2>2
<1>3. CASE SendCommand
  <2>1. own /\ ~own' /\ (str' <=> str)
    BY <1>0, <1>3 DEF SendCommand, Executing, SetEntry, streamVars
  <2>2. ~(ReserveCommand \/ StreamReserve)
    BY <1>0, <1>3, <2>1 DEF ReserveCommand, StreamReserve, Executing, writerVars
  <2> QED BY <1>1, <1>3, <2>1, <2>2
<1>4. CASE StreamReserve
  <2>1. ~str /\ str' /\ (own' <=> own)
    BY <1>4 DEF StreamReserve, writerVars
  <2>2. ~(SendCommand \/ StreamSend)
    BY <1>4, <2>1 DEF StreamSend, SendCommand, streamVars
  <2> QED BY <1>1, <1>4, <2>1, <2>2
<1>5. CASE StreamSend
  <2>1. str /\ ~str' /\ (own' <=> own)
    BY <1>5 DEF StreamSend, writerVars
  <2>2. ~(ReserveCommand \/ StreamReserve)
    BY <1>5, <2>1 DEF ReserveCommand, StreamReserve, streamVars
  <2> QED BY <1>1, <1>5, <2>1, <2>2
<1>6. CASE ~(ReserveCommand \/ SendCommand \/ StreamReserve \/ StreamSend)
  <2>1. str' => str
    <3>1. CASE StreamWrite \/ StreamDone
      BY <3>1 DEF StreamWrite, StreamDone
    <3>2. CASE ~(StreamWrite \/ StreamDone)
      BY <1>6, <3>2, StreamSteps DEF StreamStep
    <3> QED BY <3>1, <3>2
  <2>2. own' => own
    BY <1>0, <1>6, ReservedSteps
  <2> QED BY <1>1, <1>6, <2>1, <2>2
<1> QED
  BY <1>2, <1>3, <1>4, <1>5, <1>6

LEMMA StepBuffers ==
  ASSUME TypeOK, Shape, BuffersBounded, [Next]_vars
  PROVE  BuffersBounded'
<1> DEFINE Parked0 == write_dgram_waiting # NoDgram
                      /\ driver \in {"publish_stream", "publish_dgram"}
<1>0. /\ write_dgrams \in Seq(Nat) /\ dgram_queue \in Seq(Nat)
      /\ cmd_queue \in Seq(Message) /\ accepted \in Nat
      /\ write_dgram_waiting \in Nat
      /\ MaxSendDgrams \in Nat \ {0} /\ WriteCap \in Nat \ {0}
      /\ CmdCap \in Nat \ {0}
  BY DriverAssumption
  DEF TypeOK, DriverTypeOK, WriterTypeOK, SendTypeOK, ChanTypeOK
<1>1. /\ Len(write_dgrams) \in Nat
      /\ \A x \in Nat : Len(Append(write_dgrams, x)) = Len(write_dgrams) + 1
      /\ write_dgrams # <<>> => Len(Tail(write_dgrams)) = Len(write_dgrams) - 1
  BY <1>0
<1>2. /\ Len(dgram_queue) \in Nat
      /\ Len(Append(dgram_queue, accepted + 1)) = Len(dgram_queue) + 1
      /\ dgram_queue # <<>> => /\ Len(Tail(dgram_queue)) = Len(dgram_queue) - 1
                               /\ Head(dgram_queue) \in Nat
  BY <1>0
<1>3. /\ Len(cmd_queue) \in Nat
      /\ cmd_queue # <<>> => Len(Tail(cmd_queue)) = Len(cmd_queue) - 1
      /\ \A m : Len(Append(cmd_queue, m)) = Len(cmd_queue) + 1
  BY <1>0
<1>4. (Len(write_dgrams) <= MaxSendDgrams)'
  <2>1. CASE Promote
    BY <1>0, <1>1, <2>1 DEF Promote, HasRoom, BuffersBounded
  <2>2. CASE DrainTake
    BY <1>0, <1>1, <1>2, <2>2 DEF DrainTake, PushOrPark, HasRoom,
                                  BuffersBounded
  <2>3. CASE Transmit
    BY <1>0, <1>1, <2>3 DEF Transmit, Admits, BuffersBounded
  <2>4. CASE WakeUp
    BY <2>4 DEF WakeUp, BuffersBounded
  <2>5. CASE ~(WakeUp \/ Promote \/ DrainTake \/ Transmit)
    BY <2>5, QueueSteps DEF sendVars, BuffersBounded
  <2> QED BY <2>1, <2>2, <2>3, <2>4, <2>5
<1>5. /\ (dgram_open => Len(dgram_queue) <= WriteCap)'
      /\ (dgram_open /\ write_sender = "ready" => Len(dgram_queue) < WriteCap)'
  <2>1. dgram_open' => dgram_open
    <3>1. CASE DriverStep
      <4>1. CASE ReceiveRequest \/ ReceiveNone \/ WakeUp \/ Promote
        BY <4>1 DEF ReceiveRequest, ReceiveWrite, ReceiveReady, ReceiveFlush,
                    ReceiveNone, WakeUp, Promote, chanVars
      <4>2. CASE DrainTake \/ DrainEmpty \/ PublishStream \/ PublishDgram
        BY <4>2 DEF DrainTake, DrainEmpty, PublishStream, PublishDgram, chanVars
      <4>3. CASE Transmit \/ DropNotifiers \/ CloseCommands \/ CloseDgrams
        BY <4>3
          DEF Transmit, DropNotifiers, CloseCommands, CloseDgrams, chanVars
      <4> QED
        BY <3>1, <4>1, <4>2, <4>3 DEF DriverStep, DriverNext, DriverPass
    <3> QED BY <3>1, DriverOwns DEF ownVars
  <2>2. CASE DrainTake
    <3>2. Len(dgram_queue') = Len(dgram_queue) - 1
      BY <1>2, <2>2 DEF DrainTake
    <3>3. ~SendItem
      BY <1>2, <3>2 DEF SendItem
    <3>4. ~(ReserveSlot \/ AwaitSlot \/ ReserveFails)
      BY <1>2, <3>2 DEF ReserveSlot, AwaitSlot, ReserveFails, driverVars,
                        chanVars
    <3>1. UNCHANGED write_sender
      BY <3>3, <3>4, PermitSteps
    <3> QED
      BY <1>0, <1>2, <2>1, <2>2, <3>1 DEF DrainTake, BuffersBounded
  <2>3. CASE CloseDgrams
    BY <2>3 DEF CloseDgrams
  <2>4. CASE SendItem
    <3>1. write_sender = "ready" /\ write_sender' = "idle"
      BY <2>4 DEF SendItem, Shape
    <3>2. Len(dgram_queue') = Len(dgram_queue) + 1
      BY <1>2, <2>4 DEF SendItem
    <3> QED BY <1>0, <1>2, <2>1, <3>1, <3>2 DEF BuffersBounded
  <2>5. CASE ReserveSlot
    <3>1. UNCHANGED dgram_queue
      BY <2>5 DEF ReserveSlot, driverVars, chanVars
    <3>2. write_sender = "ready" \/ Len(dgram_queue) < WriteCap
      BY <2>5 DEF ReserveSlot
    <3> QED BY <2>1, <3>1, <3>2 DEF BuffersBounded
  <2>6. CASE AwaitSlot \/ ReserveFails
    <3>1. UNCHANGED dgram_queue /\ write_sender' # "ready"
      BY <2>6 DEF AwaitSlot, ReserveFails, driverVars, chanVars
    <3> QED BY <2>1, <3>1 DEF BuffersBounded
  <2>7. CASE ~(\/ DrainTake \/ CloseDgrams \/ SendItem
               \/ ReserveSlot \/ AwaitSlot \/ ReserveFails)
    <3>1. UNCHANGED <<dgram_queue, write_sender>>
      BY <2>7, DgramChannelSteps, PermitSteps
    <3> QED BY <2>1, <3>1 DEF BuffersBounded
  <2> QED BY <2>2, <2>3, <2>4, <2>5, <2>6, <2>7
<1>6. (cmd_open => Len(cmd_queue) + CmdPermits <= CmdCap)'
  <2>0. SUFFICES ASSUME cmd_open'
                 PROVE  Len(cmd_queue') + CmdPermits' <= CmdCap
    OBVIOUS
  <2>1. cmd_open /\ ~CloseCommands
    BY <2>0, CmdStaysClosed DEF CloseCommands
  <2>2. Len(cmd_queue) + CmdPermits <= CmdCap
    BY <2>1 DEF BuffersBounded
  <2>3. CASE SendCommand \/ StreamSend
    <3>1. Len(cmd_queue') = Len(cmd_queue) + 1
      BY <1>3, <2>3 DEF SendCommand, StreamSend, Submit
    <3> QED BY <1>3, <2>2, <2>3, <3>1, CommandPermitSteps
  <2>4. CASE ReserveCommand \/ StreamReserve
    <3>1. UNCHANGED cmd_queue /\ Len(cmd_queue) + CmdPermits < CmdCap
      BY <2>4 DEF ReserveCommand, StreamReserve, CmdRoom, driverVars, chanVars
    <3> QED BY <1>0, <1>3, <2>4, <3>1, CommandPermitSteps
  <2>5. CASE ~(\/ SendCommand \/ StreamSend \/ ReserveCommand \/ StreamReserve)
    <3>1. Len(cmd_queue') <= Len(cmd_queue) /\ Len(cmd_queue') \in Nat
      BY <1>3, <2>1, <2>5, CommandChannelSteps
    <3> QED BY <1>0, <1>3, <2>2, <2>5, <3>1, CommandPermitSteps
  <2> QED BY <2>3, <2>4, <2>5
<1>7. (Parked0 => Len(write_dgrams) = MaxSendDgrams)'
  <2>1. CASE Promote
    BY <1>0, <1>1, <2>1 DEF Promote, HasRoom, AfterPromote, BuffersBounded
  <2>2. CASE DrainTake
    BY <1>0, <1>1, <2>2 DEF DrainTake, PushOrPark, HasRoom, BuffersBounded
  <2>3. CASE DrainEmpty
    BY <2>3 DEF DrainEmpty, sendVars, Shape
  <2>4. CASE PublishStream
    BY <2>4 DEF PublishStream, sendVars, BuffersBounded
  <2>5. CASE PublishDgram \/ Transmit
    BY <2>5 DEF PublishDgram, Transmit
  <2>6. CASE ReceiveRequest \/ ReceiveNone \/ WakeUp
    BY <2>6 DEF ReceiveRequest, ReceiveWrite, ReceiveReady, ReceiveFlush,
                Receive, ReceiveNone, WakeUp
  <2>7. CASE DropNotifiers \/ CloseCommands \/ CloseDgrams
    BY <2>7 DEF DropNotifiers, CloseCommands, CloseDgrams
  <2>8. CASE ~DriverStep
    BY <2>8, DriverOwns DEF ownVars, sendVars, BuffersBounded
  <2> QED
    BY <2>1, <2>2, <2>3, <2>4, <2>5, <2>6, <2>7, <2>8
    DEF DriverStep, DriverNext, DriverPass
<1> QED
  BY <1>4, <1>5, <1>6, <1>7 DEF BuffersBounded

LEMMA InitBuffers == Init => BuffersBounded
BY DriverAssumption DEF Init, DriverInit, BuffersBounded, NoDgram, CmdPermits

\* In every behaviour, abandoned operations included, no queue of the driver
\* and no channel exceeds its limit, and a parked datagram means that
\* write_dgrams was full.
THEOREM BuffersTheorem == Spec => []BuffersBounded
<1>1. Init => Shape /\ BuffersBounded
  BY InitShape, InitBuffers
<1>2. TypeOK /\ Shape /\ BuffersBounded /\ [Next]_vars
        => Shape' /\ BuffersBounded'
  BY StepShape, StepBuffers
<1> QED
  BY <1>1, <1>2, TypeCorrect, PTL DEF Spec

-----------------------------------------------------------------------------
(* Order.                                                                  *)

\* A receiver of the datagram channel is never created again.
LEMMA DgramStaysClosed ==
  ASSUME [Next]_vars, dgram_open'
  PROVE  dgram_open
<1>1. CASE DriverStep
  <2>1. CASE ReceiveRequest \/ ReceiveNone \/ WakeUp \/ Promote
    BY <2>1 DEF ReceiveRequest, ReceiveWrite, ReceiveReady, ReceiveFlush,
                ReceiveNone, WakeUp, Promote, chanVars
  <2>2. CASE DrainTake \/ DrainEmpty \/ PublishStream \/ PublishDgram
    BY <2>2 DEF DrainTake, DrainEmpty, PublishStream, PublishDgram, chanVars
  <2>3. CASE Transmit \/ DropNotifiers \/ CloseCommands \/ CloseDgrams
    BY <2>3 DEF Transmit, DropNotifiers, CloseCommands, CloseDgrams, chanVars
  <2> QED
    BY <1>1, <2>1, <2>2, <2>3 DEF DriverStep, DriverNext, DriverPass
<1> QED BY <1>1, DriverOwns DEF ownVars

\* The numbers in a sequence are consecutive, from b + 1 on.
Consecutive(s, b) == \A i \in 1..Len(s) : s[i] = b + i

LEMMA ConsecutiveFacts ==
  ASSUME NEW s \in Seq(Nat), NEW b \in Nat, Consecutive(s, b)
  PROVE  /\ s # <<>> => /\ Head(s) = b + 1
                        /\ Consecutive(Tail(s), b + 1)
                        /\ Len(Tail(s)) = Len(s) - 1
                        /\ Len(s) \in Nat \ {0}
                        /\ Tail(s) \in Seq(Nat)
         /\ Consecutive(Append(s, b + Len(s) + 1), b)
         /\ Len(Append(s, b + Len(s) + 1)) = Len(s) + 1
         /\ Len(s) \in Nat
<1>1. Len(s) \in Nat
  OBVIOUS
<1>2. ASSUME s # <<>>
      PROVE  /\ Head(s) = b + 1
             /\ Consecutive(Tail(s), b + 1)
             /\ Len(Tail(s)) = Len(s) - 1
             /\ Len(s) \in Nat \ {0}
             /\ Tail(s) \in Seq(Nat)
  <2>1. Len(s) \in Nat \ {0} /\ Len(Tail(s)) = Len(s) - 1 /\ Head(s) = s[1]
        /\ Tail(s) \in Seq(Nat)
    BY <1>2
  <2>2. \A i \in 1..Len(s) - 1 : Tail(s)[i] = s[i + 1]
    BY <1>2
  <2>3. \A i \in 1..Len(s) - 1 : s[i + 1] = b + 1 + i
    BY <2>1 DEF Consecutive
  <2> QED BY <2>1, <2>2, <2>3 DEF Consecutive
<1>3. /\ Consecutive(Append(s, b + Len(s) + 1), b)
      /\ Len(Append(s, b + Len(s) + 1)) = Len(s) + 1
  <2>1. \A i \in 1..Len(s) : Append(s, b + Len(s) + 1)[i] = s[i]
    OBVIOUS
  <2>2. Append(s, b + Len(s) + 1)[Len(s) + 1] = b + Len(s) + 1
    OBVIOUS
  <2>3. Len(Append(s, b + Len(s) + 1)) = Len(s) + 1
    OBVIOUS
  <2> QED BY <1>1, <2>1, <2>2, <2>3 DEF Consecutive
<1> QED
  BY <1>1, <1>2, <1>3

\* Fifo in terms of the four containers.
LEMMA FifoParts ==
  ASSUME TypeOK
  PROVE  Fifo <=>
         /\ Consecutive(sent_dgrams, acked)
         /\ Consecutive(write_dgrams, Transmitted)
         /\ write_dgram_waiting # 0 => write_dgram_waiting = Forwarded + 1
         /\ dgram_open => /\ Consecutive(dgram_queue, Taken)
                          /\ Taken + Len(dgram_queue) = accepted
<1>1. /\ write_dgrams \in Seq(Nat) /\ sent_dgrams \in Seq(Nat)
      /\ dgram_queue \in Seq(Nat)
  BY DEF TypeOK, DriverTypeOK, SendTypeOK, ChanTypeOK
<1>2. /\ DOMAIN sent_dgrams = 1..Len(sent_dgrams)
      /\ DOMAIN write_dgrams = 1..Len(write_dgrams)
      /\ DOMAIN dgram_queue = 1..Len(dgram_queue)
  BY <1>1
<1> QED BY <1>2 DEF Fifo, Consecutive, NoDgram

LEMMA StepFifo ==
  ASSUME TypeOK, Shape, Fifo, [Next]_vars
  PROVE  Fifo'
<1>0. /\ write_dgrams \in Seq(Nat) /\ sent_dgrams \in Seq(Nat)
      /\ dgram_queue \in Seq(Nat) /\ accepted \in Nat /\ acked \in Nat
      /\ write_dgram_waiting \in Nat
  BY DEF TypeOK, DriverTypeOK, WriterTypeOK, SendTypeOK, ChanTypeOK
<1>t. TypeOK'
  BY StepType
<1>1. /\ Consecutive(sent_dgrams, acked)
      /\ Consecutive(write_dgrams, Transmitted)
      /\ write_dgram_waiting # 0 => write_dgram_waiting = Forwarded + 1
      /\ dgram_open => /\ Consecutive(dgram_queue, Taken)
                       /\ Taken + Len(dgram_queue) = accepted
  BY FifoParts
<1>2. /\ Len(sent_dgrams) \in Nat
      /\ Len(write_dgrams) \in Nat
      /\ Len(dgram_queue) \in Nat
  BY <1>0
<1>3. Transmitted \in Nat /\ Forwarded \in Nat /\ Taken \in Nat
  BY <1>0, <1>2 DEF Transmitted, Forwarded, Taken
<1>4. SUFFICES /\ Consecutive(sent_dgrams', acked')
               /\ Consecutive(write_dgrams', Transmitted')
               /\ write_dgram_waiting' # 0 =>
                    write_dgram_waiting' = Forwarded' + 1
               /\ dgram_open' => /\ Consecutive(dgram_queue', Taken')
                                 /\ Taken' + Len(dgram_queue') = accepted'
  <2>1. TypeOK' => (Fifo <=>
         /\ Consecutive(sent_dgrams, acked)
         /\ Consecutive(write_dgrams, Transmitted)
         /\ write_dgram_waiting # 0 => write_dgram_waiting = Forwarded + 1
         /\ dgram_open => /\ Consecutive(dgram_queue, Taken)
                          /\ Taken + Len(dgram_queue) = accepted)'
    BY FifoParts, PTL
  <2> QED BY <1>t, <2>1 DEF Consecutive, Transmitted, Forwarded, Taken
<1>5. CASE UNCHANGED <<sendVars, dgram_queue, accepted>>
  <2>1. Transmitted' = Transmitted /\ Forwarded' = Forwarded /\ Taken' = Taken
    BY <1>5 DEF Transmitted, Forwarded, Taken, sendVars
  <2> QED BY <1>1, <1>5, <2>1, DgramStaysClosed DEF sendVars
<1>6. CASE WakeUp
  <2>1. UNCHANGED <<dgram_queue, dgram_open, accepted, write_dgrams,
                    write_dgram_waiting>>
    BY <1>6, DgramChannelSteps
    DEF WakeUp, DrainTake, CloseDgrams, SendItem, chanVars
  <2>2. CASE sent_dgrams = <<>>
    BY <1>5, <1>6, <2>1, <2>2 DEF WakeUp, sendVars
  <2>3. CASE sent_dgrams # <<>>
    <3>1. sent_dgrams' = Tail(sent_dgrams) /\ acked' = acked + 1
      BY <1>6, <2>3 DEF WakeUp
    <3>2. /\ Consecutive(sent_dgrams', acked')
          /\ Len(sent_dgrams') = Len(sent_dgrams) - 1
      BY <1>0, <1>1, <2>3, <3>1, ConsecutiveFacts
    <3>5. acked' = acked + 1 /\ Len(sent_dgrams') = Len(sent_dgrams) - 1
      BY <3>1, <3>2
    <3>3. Transmitted' = Transmitted
      BY <1>0, <1>2, <3>5 DEF Transmitted
    <3>4. Forwarded' = Forwarded /\ Taken' = Taken
      BY <2>1, <3>3 DEF Forwarded, Taken
    <3> QED BY <1>1, <2>1, <3>2, <3>3, <3>4
  <2> QED BY <2>2, <2>3
<1>7. CASE Promote
  <2>1. UNCHANGED <<dgram_queue, dgram_open, accepted, sent_dgrams, acked>>
    BY <1>7, DgramChannelSteps
    DEF Promote, DrainTake, CloseDgrams, SendItem, chanVars
  <2>2. CASE ~(HasRoom /\ write_dgram_waiting # NoDgram)
    BY <1>5, <1>7, <2>1, <2>2 DEF Promote, sendVars
  <2>3. CASE HasRoom /\ write_dgram_waiting # NoDgram
    <3>1. /\ write_dgrams' = Append(write_dgrams, Forwarded + 1)
          /\ write_dgram_waiting # 0
          /\ write_dgram_waiting' = 0
      BY <1>1, <1>7, <2>3 DEF Promote, NoDgram
    <3>2. Transmitted' = Transmitted
      BY <2>1 DEF Transmitted
    <3>3. /\ Consecutive(write_dgrams', Transmitted')
          /\ Len(write_dgrams') = Len(write_dgrams) + 1
      BY <1>0, <1>1, <1>3, <3>1, <3>2, ConsecutiveFacts DEF Forwarded
    <3>4. Taken' = Taken
      BY <1>2, <1>3, <3>1, <3>2, <3>3 DEF Forwarded, Taken, NoDgram
    <3> QED BY <1>1, <2>1, <3>1, <3>3, <3>4
  <2> QED BY <2>2, <2>3
<1>8. CASE DrainTake
  <2>1. UNCHANGED <<dgram_open, sent_dgrams, acked>>
    BY <1>8 DEF DrainTake
  <2>2. dgram_open /\ write_dgram_waiting = 0
    BY <1>8 DEF DrainTake, Shape, NoDgram
  <2>3. /\ dgram_queue' = Tail(dgram_queue)
        /\ Head(dgram_queue) = Taken + 1
        /\ Consecutive(dgram_queue', Taken + 1)
        /\ Len(dgram_queue') = Len(dgram_queue) - 1
    BY <1>0, <1>1, <1>3, <1>8, <2>2, ConsecutiveFacts DEF DrainTake
  <2>4. UNCHANGED accepted
    <3>1. ~SendItem
      BY <1>2, <2>3 DEF SendItem
    <3>2. DriverStep
      BY <1>2, <1>8, <2>3, <3>1, DriverQueueSteps
    <3> QED BY <3>2 DEF DriverStep, writerVars
  <2>5. Taken = Forwarded /\ Transmitted' = Transmitted
    BY <1>3, <2>1, <2>2 DEF Taken, Transmitted, NoDgram
  <2>6. CASE HasRoom
    <3>1. /\ write_dgrams' = Append(write_dgrams, Forwarded + 1)
          /\ write_dgram_waiting' = 0
      BY <1>8, <2>2, <2>3, <2>5, <2>6 DEF DrainTake, PushOrPark
    <3>2. /\ Consecutive(write_dgrams', Transmitted')
          /\ Len(write_dgrams') = Len(write_dgrams) + 1
      BY <1>0, <1>1, <1>3, <2>5, <3>1, ConsecutiveFacts DEF Forwarded
    <3>3. Taken' = Taken + 1
      BY <1>2, <1>3, <2>5, <3>1, <3>2 DEF Forwarded, Taken, NoDgram
    <3>8. Consecutive(dgram_queue', Taken')
      BY <2>3, <3>3
    <3>9. Taken + Len(dgram_queue) = accepted
      BY <1>1, <2>2
    <3>10. Len(dgram_queue') = Len(dgram_queue) - 1
      BY <2>3
    <3>11. Taken' + Len(dgram_queue') = accepted'
      BY <1>2, <1>3, <2>4, <3>3, <3>9, <3>10
    <3>4. /\ Consecutive(dgram_queue', Taken')
          /\ Taken' + Len(dgram_queue') = accepted'
      BY <3>8, <3>11
    <3>5. Consecutive(sent_dgrams', acked')
      BY <1>1, <2>1
    <3> QED BY <3>1, <3>2, <3>4, <3>5
  <2>7. CASE ~HasRoom
    <3>1. /\ write_dgrams' = write_dgrams
          /\ write_dgram_waiting' = Forwarded + 1
      BY <1>8, <2>3, <2>5, <2>7 DEF DrainTake, PushOrPark
    <3>2. Forwarded' = Forwarded
      BY <2>5, <3>1 DEF Forwarded
    <3>3. Taken' = Taken + 1
      BY <1>3, <2>5, <3>1, <3>2 DEF Taken, NoDgram
    <3>8. Consecutive(dgram_queue', Taken')
      BY <2>3, <3>3
    <3>9. Taken + Len(dgram_queue) = accepted
      BY <1>1, <2>2
    <3>10. Len(dgram_queue') = Len(dgram_queue) - 1
      BY <2>3
    <3>11. Taken' + Len(dgram_queue') = accepted'
      BY <1>2, <1>3, <2>4, <3>3, <3>9, <3>10
    <3>4. /\ Consecutive(dgram_queue', Taken')
          /\ Taken' + Len(dgram_queue') = accepted'
      BY <3>8, <3>11
    <3>5. Consecutive(sent_dgrams', acked')
      BY <1>1, <2>1
    <3>6. Consecutive(write_dgrams', Transmitted')
      BY <1>1, <2>5, <3>1
    <3> QED BY <3>1, <3>2, <3>4, <3>5, <3>6
  <2> QED BY <2>6, <2>7
<1>9. CASE Transmit
  <2>1. UNCHANGED <<dgram_queue, dgram_open, accepted, write_dgram_waiting,
                    acked>>
    BY <1>9, DgramChannelSteps
    DEF Transmit, DrainTake, CloseDgrams, SendItem, chanVars
  <2>2. CASE ~Admits
    BY <1>5, <1>9, <2>1, <2>2 DEF Transmit, sendVars
  <2>3. CASE Admits
    <3>1. /\ write_dgrams # <<>>
          /\ write_dgrams' = Tail(write_dgrams)
          /\ sent_dgrams' = Append(sent_dgrams, Head(write_dgrams))
      BY <1>9, <2>3 DEF Transmit, Admits
    <3>2. /\ Head(write_dgrams) = Transmitted + 1
          /\ Consecutive(write_dgrams', Transmitted + 1)
          /\ Len(write_dgrams') = Len(write_dgrams) - 1
      BY <1>0, <1>1, <1>3, <3>1, ConsecutiveFacts
    <3>3. /\ Consecutive(sent_dgrams', acked')
          /\ Len(sent_dgrams') = Len(sent_dgrams) + 1
      BY <1>0, <1>1, <2>1, <3>1, <3>2, ConsecutiveFacts DEF Transmitted
    <3>4. Transmitted' = Transmitted + 1
      BY <1>0, <1>2, <2>1, <3>3 DEF Transmitted
    <3>5. Forwarded' = Forwarded
      BY <1>2, <1>3, <3>2, <3>4 DEF Forwarded
    <3>6. Taken' = Taken
      BY <2>1, <3>5 DEF Taken
    <3> QED BY <1>1, <2>1, <3>2, <3>3, <3>4, <3>5, <3>6
  <2> QED BY <2>2, <2>3
<1>10. CASE CloseDgrams
  <2>1. UNCHANGED sendVars /\ ~dgram_open'
    BY <1>10 DEF CloseDgrams
  <2>2. Transmitted' = Transmitted /\ Forwarded' = Forwarded
    BY <2>1 DEF Transmitted, Forwarded, sendVars
  <2> QED BY <1>1, <2>1, <2>2 DEF sendVars
<1>11. CASE SendItem
  <2>1. /\ UNCHANGED <<sendVars, dgram_open>>
        /\ dgram_queue' = Append(dgram_queue, accepted + 1)
        /\ accepted' = accepted + 1
    BY <1>11 DEF SendItem
  <2>2. Transmitted' = Transmitted /\ Forwarded' = Forwarded /\ Taken' = Taken
    BY <2>1 DEF Transmitted, Forwarded, Taken, sendVars
  <2>3. ASSUME dgram_open
        PROVE  /\ Consecutive(dgram_queue', Taken)
               /\ Len(dgram_queue') = Len(dgram_queue) + 1
    BY <1>0, <1>1, <1>3, <2>1, <2>3, ConsecutiveFacts
  <2>4. dgram_open' => /\ Consecutive(dgram_queue', Taken')
                       /\ Taken' + Len(dgram_queue') = accepted'
    <3>1. SUFFICES ASSUME dgram_open'
                   PROVE  /\ Consecutive(dgram_queue', Taken')
                          /\ Taken' + Len(dgram_queue') = accepted'
      OBVIOUS
    <3>2. dgram_open /\ accepted' = accepted + 1
      BY <2>1, <3>1
    <3>3. Taken + Len(dgram_queue) = accepted
      BY <1>1, <3>2
    <3>4. Taken' + Len(dgram_queue') = accepted'
      BY <1>0, <1>2, <1>3, <2>2, <2>3, <3>2, <3>3
    <3> QED BY <2>2, <2>3, <3>2, <3>4
  <2>5. /\ Consecutive(sent_dgrams', acked')
        /\ Consecutive(write_dgrams', Transmitted')
        /\ write_dgram_waiting' # 0 => write_dgram_waiting' = Forwarded' + 1
    BY <1>1, <2>1, <2>2 DEF sendVars
  <2> QED BY <2>4, <2>5
<1> QED
  BY <1>5, <1>6, <1>7, <1>8, <1>9, <1>10, <1>11, QueueSteps,
     DgramChannelSteps

LEMMA InitFifo == Init => Fifo
BY DEF Init, DriverInit, Fifo, Transmitted, Forwarded, Taken, NoDgram

\* In every behaviour, abandoned operations included, the driver keeps every
\* accepted datagram, once, in the order of acceptance.
THEOREM FifoTheorem == Spec => []Fifo
<1>1. Init => Shape /\ Fifo
  BY InitShape, InitFifo
<1>2. TypeOK /\ Shape /\ Fifo /\ [Next]_vars => Shape' /\ Fifo'
  BY StepShape, StepFifo
<1> QED
  BY <1>1, <1>2, TypeCorrect, PTL DEF Spec

-----------------------------------------------------------------------------
(* The congestion window.                                                  *)

\* Nothing acknowledged and nothing transmitted.
LEMMA SameWindow ==
  ASSUME WindowRespected, UNCHANGED <<cwnd, acked, sent_dgrams>>
  PROVE  WindowRespected'
BY DEF WindowRespected, Transmitted, UpTo

\* The datagram acknowledged, and the one transmitted, are the next in turn
\* (Fifo), so that their lengths are what the bytes in flight change by.
LEMMA StepWindow ==
  ASSUME TypeOK, Fifo, WindowRespected, [Next]_vars
  PROVE  WindowRespected'
<1>1. /\ sent_dgrams \in Seq(Nat) /\ write_dgrams \in Seq(Nat)
      /\ cwnd \in Int /\ acked \in Nat /\ InitCwnd \in Nat
      /\ Len(sent_dgrams) \in Nat /\ Transmitted \in Nat
  BY DriverAssumption DEF TypeOK, DriverTypeOK, SendTypeOK, Transmitted
<1>2. cwnd >= 0 /\ cwnd + UpTo(Transmitted) - UpTo(acked) = InitCwnd
  BY DEF WindowRespected
<1>3. CASE WakeUp
  <2>1. CASE sent_dgrams = <<>>
    <3>1. UNCHANGED <<cwnd, acked, sent_dgrams>>
      BY <1>3, <2>1 DEF WakeUp
    <3> QED BY <3>1, SameWindow
  <2>2. CASE sent_dgrams # <<>>
    <3>1. /\ sent_dgrams' = Tail(sent_dgrams)
          /\ cwnd' = cwnd + LenOf(Head(sent_dgrams))
          /\ acked' = acked + 1
      BY <1>3, <2>2 DEF WakeUp, Credit
    <3>2. Head(sent_dgrams) = acked + 1
      <4>1. 1 \in DOMAIN sent_dgrams /\ Head(sent_dgrams) = sent_dgrams[1]
        BY <1>1, <2>2
      <4> QED BY <4>1 DEF Fifo
    <3>3. Len(Tail(sent_dgrams)) = Len(sent_dgrams) - 1
      BY <1>1, <2>2
    <3>4. Transmitted' = Transmitted
      <4>1. Len(sent_dgrams') = Len(sent_dgrams) - 1 /\ acked' = acked + 1
        BY <3>1, <3>3
      <4> QED BY <1>1, <4>1 DEF Transmitted
    <3>5. cwnd' = cwnd + (UpTo(acked + 1) - UpTo(acked))
      BY <1>1, <3>1, <3>2, Lengths
    <3>6. /\ UpTo(Transmitted) \in Nat /\ UpTo(acked) \in Nat
          /\ UpTo(acked + 1) \in Nat /\ UpTo(acked) <= UpTo(acked + 1)
      <4>1. acked + 1 \in Nat
        BY <1>1
      <4> QED BY <1>1, <4>1, Lengths
    <3>7. cwnd' >= 0 /\ cwnd' + UpTo(Transmitted) - UpTo(acked + 1) = InitCwnd
      BY <1>1, <1>2, <3>5, <3>6
    <3>8. UpTo(Transmitted)' = UpTo(Transmitted) /\ UpTo(acked)' = UpTo(acked + 1)
      BY <3>1, <3>4 DEF UpTo
    <3> QED BY <3>7, <3>8 DEF WindowRespected
  <2> QED BY <2>1, <2>2
<1>4. CASE Transmit
  <2>1. CASE ~Admits
    <3>1. UNCHANGED <<cwnd, acked, sent_dgrams>>
      BY <1>4, <2>1 DEF Transmit
    <3> QED BY <3>1, SameWindow
  <2>2. CASE Admits
    <3>1. /\ sent_dgrams' = Append(sent_dgrams, Head(write_dgrams))
          /\ cwnd' = cwnd - LenOf(Head(write_dgrams))
          /\ LenOf(Head(write_dgrams)) <= cwnd
          /\ write_dgrams # <<>> /\ acked' = acked
      BY <1>4, <2>2 DEF Transmit, Admits
    <3>2. Head(write_dgrams) = Transmitted + 1
      <4>1. 1 \in DOMAIN write_dgrams /\ Head(write_dgrams) = write_dgrams[1]
        BY <1>1, <3>1
      <4> QED BY <4>1 DEF Fifo
    <3>3. Len(Append(sent_dgrams, Head(write_dgrams))) = Len(sent_dgrams) + 1
      BY <1>1
    <3>4. Transmitted' = Transmitted + 1
      BY <1>1, <3>1, <3>3 DEF Transmitted
    <3>5. /\ cwnd' = cwnd - (UpTo(Transmitted + 1) - UpTo(Transmitted))
          /\ UpTo(Transmitted + 1) - UpTo(Transmitted) <= cwnd
      BY <1>1, <3>1, <3>2, Lengths
    <3>6. /\ UpTo(Transmitted) \in Nat /\ UpTo(Transmitted + 1) \in Nat
          /\ UpTo(acked) \in Nat
      <4>1. Transmitted + 1 \in Nat
        BY <1>1
      <4> QED BY <1>1, <4>1, Lengths
    <3>7. cwnd' >= 0 /\ cwnd' + UpTo(Transmitted + 1) - UpTo(acked) = InitCwnd
      BY <1>1, <1>2, <3>5, <3>6
    <3>8. UpTo(Transmitted)' = UpTo(Transmitted + 1) /\ UpTo(acked)' = UpTo(acked)
      BY <3>1, <3>4 DEF UpTo
    <3> QED BY <3>7, <3>8 DEF WindowRespected
  <2> QED BY <2>1, <2>2
<1>5. CASE Promote \/ DrainTake
  <2>1. UNCHANGED <<cwnd, acked, sent_dgrams>>
    BY <1>5 DEF Promote, DrainTake
  <2> QED BY <2>1, SameWindow
<1>6. CASE ~(WakeUp \/ Promote \/ DrainTake \/ Transmit)
  <2>1. UNCHANGED <<cwnd, acked, sent_dgrams>>
    BY <1>6, QueueSteps DEF sendVars
  <2> QED BY <2>1, SameWindow
<1> QED
  BY <1>3, <1>4, <1>5, <1>6

LEMMA InitWindow == Init => WindowRespected
<1> SUFFICES ASSUME Init PROVE WindowRespected
  OBVIOUS
<1>1. cwnd = InitCwnd /\ acked = 0 /\ Transmitted = 0
  BY DEF Init, DriverInit, Transmitted
<1> QED BY <1>1, Lengths, DriverAssumption DEF WindowRespected

\* In every behaviour the window is never overdrawn, and what is in flight and
\* what is left of the window add up to the initial window, whatever the
\* initial window and the lengths of the datagrams.
THEOREM WindowTheorem == Spec => []WindowRespected
<1> DEFINE IInv == /\ Shape /\ BuffersBounded /\ Fifo /\ WindowRespected
<1>1. Init => IInv
  BY InitShape, InitBuffers, InitFifo, InitWindow
<1>2. TypeOK /\ IInv /\ [Next]_vars => IInv'
  BY StepShape, StepBuffers, StepFifo, StepWindow
<1> QED
  BY <1>1, <1>2, TypeCorrect, PTL DEF Spec

-----------------------------------------------------------------------------
(* What holds when no operation is abandoned.                              *)

\* The request the current poll function makes, and the wait for its answer.
Polling == phase \in {"ready", "flush"}
Wanted == IF phase = "flush" THEN "WriteDgramFlush" ELSE "WriteDgramReady"
Awaits(k) ==
  k = key /\ Polling /\ cmd_pending[k] = "State1" /\ reply[k] = "open"

\* The entries of cmd_pending: the one of the operation being polled, and
\* entries that a failed poll_ready left behind, which can only fail again.
EntriesOwned ==
  \A k \in Keys :
    /\ cmd_pending[k] = "Terminated" => k = key /\ phase = "ready"
    /\ cmd_pending[k] = "State0" =>
         (k = key /\ Polling /\ request[k] = Wanted) \/ CmdClosed("write_dgram")
    /\ cmd_pending[k] = "Reserved" =>
         k = key /\ Polling /\ request[k] = Wanted
    /\ cmd_pending[k] = "State1" =>
         \/ k = key /\ Polling /\ reply[k] \in {"open", Wanted}
         \/ reply[k] = "dropped"

\* The requests under way: at most one is the writer's, it is of the kind the
\* writer waits for, and it is in one place.
RequestsOwned ==
  /\ \A i \in DOMAIN cmd_queue :
       IF cmd_queue[i].key = StreamKey
       THEN cmd_queue[i].req = "Write"
       ELSE Awaits(cmd_queue[i].key) /\ cmd_queue[i].req = Wanted
  /\ \A i, j \in DOMAIN cmd_queue : cmd_queue[i].key = cmd_queue[j].key => i = j
  /\ \A k \in ready_notifiers : Awaits(k) /\ phase = "ready"
  /\ \A k \in flush_notifiers : Awaits(k) /\ phase = "flush"
  /\ \A i \in DOMAIN cmd_queue :
       cmd_queue[i].key \notin ready_notifiers \cup flush_notifiers
  /\ \A i \in DOMAIN cmd_queue :
       cmd_queue[i].key = StreamKey => stream_cmd = "State1" /\ reply[StreamKey] = "open"

requestVars ==
  <<cmd_queue, ready_notifiers, flush_notifiers, reply, stream_cmd>>
entryVars == <<phase, key, cmd_pending, request>>

\* An operation that awaits no answer has no request under way, so the writer
\* may move on.
LEMMA WriterMovesOn ==
  ASSUME TypeOK, RequestsOwned, ~Awaits(key), UNCHANGED requestVars
  PROVE  RequestsOwned'
<1>1. /\ \A i \in DOMAIN cmd_queue : cmd_queue[i].key = StreamKey
      /\ ready_notifiers = {} /\ flush_notifiers = {}
  BY DEF RequestsOwned, Awaits
<1> QED
  BY <1>1 DEF RequestsOwned, requestVars

\* A step that changes only the answers and the places of the requests keeps
\* the entries in order, if it drops an answer or gives the one wanted.
LEMMA AnswerOwned ==
  ASSUME TypeOK, EntriesOwned, UNCHANGED entryVars,
         cmd_open' => cmd_open, cmd_senders' \subseteq cmd_senders,
         \A k \in Keys : \/ UNCHANGED reply[k]
                         \/ reply[k] = "open" /\ reply'[k] \in {"dropped", Wanted}
  PROVE  EntriesOwned'
BY DEF EntriesOwned, entryVars, Polling, Wanted, CmdClosed

\* A channel that is freed drops what it holds.
LEMMA ChannelDropped ==
  ASSUME TypeOK, EntriesOwned, RequestsOwned, UNCHANGED noteVars,
         cmd_open' => cmd_open, cmd_senders' \subseteq cmd_senders,
         Answer({cmd_queue[i].key : i \in DOMAIN cmd_queue}, "dropped"),
         cmd_queue' = <<>>
  PROVE  /\ UNCHANGED entryVars => EntriesOwned' /\ RequestsOwned'
         /\ ~Awaits(key) => RequestsOwned' /\ \A k \in Keys : UNCHANGED reply[k]
<1> DEFINE S == {cmd_queue[i].key : i \in DOMAIN cmd_queue}
<1>1. \A k \in S \ {StreamKey} : k = key /\ Awaits(k)
  BY DEF RequestsOwned, Awaits
<1>2. \A k \in Clients : reply'[k] = IF k \in S THEN "dropped" ELSE reply[k]
  BY DEF Answer
<1>3. Keys \subseteq Clients /\ StreamKey \notin Keys /\ key \in Keys
  BY DriverAssumption DEF Clients, TypeOK, WriterTypeOK
<1>4. ASSUME UNCHANGED entryVars PROVE EntriesOwned' /\ RequestsOwned'
  <2>1. \A k \in Keys : \/ UNCHANGED reply[k]
                        \/ reply[k] = "open" /\ reply'[k] = "dropped"
    BY <1>1, <1>2, <1>3 DEF Awaits
  <2>2. EntriesOwned'
    BY <1>4, <2>1, AnswerOwned
  <2>3. /\ Wanted' = Wanted /\ (Polling' <=> Polling)
        /\ \A k \in Keys : k \notin S => (Awaits(k)' <=> Awaits(k))
    BY <1>2, <1>3, <1>4 DEF Awaits, Wanted, Polling, entryVars
  <2>4. \A k \in ready_notifiers \cup flush_notifiers : k \in Keys /\ k \notin S
    BY <1>3 DEF RequestsOwned, Awaits
  <2>5. RequestsOwned'
    BY <1>4, <2>3, <2>4 DEF RequestsOwned, entryVars, noteVars
  <2> QED BY <2>2, <2>5
<1>5. ASSUME ~Awaits(key)
      PROVE  RequestsOwned' /\ \A k \in Keys : UNCHANGED reply[k]
  <2>1. ready_notifiers = {} /\ flush_notifiers = {}
    BY <1>5 DEF RequestsOwned, Awaits
  <2>2. \A k \in Keys : k \notin S
    BY <1>1, <1>3, <1>5
  <2> QED BY <1>2, <1>3, <2>1, <2>2 DEF RequestsOwned, noteVars
<1> QED BY <1>4, <1>5

\* A key of the writer is not the key of the stream.
LEMMA KeyFacts ==
  ASSUME TypeOK
  PROVE  /\ key \in Keys /\ key # StreamKey
         /\ Keys \subseteq Clients /\ StreamKey \in Clients
         /\ \A k \in Clients : k # StreamKey => k \in Keys
BY DriverAssumption DEF TypeOK, WriterTypeOK, Clients

\* The steps of the writer that neither send nor abandon a request.
LEMMA WriterOwned ==
  ASSUME MayCancel = FALSE, TypeOK, Shape, EntriesOwned, RequestsOwned, NoPanic,
         WriterPoll \/ Cancel \/ \E o \in Op : Start(o), ~SendCommand
  PROVE  EntriesOwned' /\ RequestsOwned' /\ NoPanic'
<1>0. key \in Keys /\ cmd_pending \in [Keys -> CommandState]
      /\ request \in [Keys -> Request]
  BY DEF TypeOK, WriterTypeOK
<1> USE DEF driverVars, chanVars, noteVars, streamVars, requestVars
<1>1. ASSUME NEW o \in Op, Start(o)
      PROVE  EntriesOwned' /\ RequestsOwned' /\ NoPanic'
  <2>1. UNCHANGED <<cmd_pending, request, cmd_open, noteVars, stream_cmd>>
    BY <1>1 DEF Start
  <2>2. op' = o /\ o # "panicked"
    BY <1>1 DEF Start, Op
  <2>3. phase = "idle"
    BY <1>1 DEF Start, Shape
  <2>5. cmd_senders' \subseteq cmd_senders
    BY <1>1, StartRelease
  <2>4. RequestsOwned' /\ \A k \in Keys : UNCHANGED reply[k]
    <3>1. ~Awaits(key)
      BY <2>3 DEF Awaits, Polling
    <3>2. CASE UNCHANGED <<cmd_queue, reply>>
      BY <2>1, <3>1, <3>2, WriterMovesOn
    <3>3. CASE /\ Answer({cmd_queue[i].key : i \in DOMAIN cmd_queue}, "dropped")
               /\ cmd_queue' = <<>>
      BY <2>1, <2>5, <3>1, <3>3, ChannelDropped
    <3> QED BY <1>1, <3>2, <3>3, StartRelease
  <2>6. EntriesOwned'
    BY <2>1, <2>3, <2>4, <2>5 DEF EntriesOwned, Polling, CmdClosed
  <2> QED BY <2>2, <2>4, <2>6 DEF NoPanic
<1>2. CASE CheckCapacity
  <2>1. UNCHANGED requestVars
    BY <1>2 DEF CheckCapacity
  <2>2. RequestsOwned'
    BY <1>2, <2>1, WriterMovesOn DEF CheckCapacity, NoEntry, Awaits
  <2>3. EntriesOwned'
    BY <1>0, <1>2 DEF CheckCapacity, SetEntry, EntriesOwned, Polling, Wanted,
                      CmdClosed
  <2>4. NoPanic'
    BY <1>2 DEF CheckCapacity, NoPanic
  <2> QED BY <2>2, <2>3, <2>4
<1>3. CASE RequestFlush
  <2>1. UNCHANGED requestVars
    BY <1>3 DEF RequestFlush
  <2>2. RequestsOwned'
    BY <1>3, <2>1, WriterMovesOn DEF RequestFlush, NoEntry, Awaits
  <2>3. EntriesOwned'
    BY <1>0, <1>3 DEF RequestFlush, SetEntry, EntriesOwned, Polling, Wanted,
                      CmdClosed
  <2>4. NoPanic'
    BY <1>3 DEF RequestFlush, NoPanic
  <2> QED BY <2>2, <2>3, <2>4
<1>15. CASE ReserveCommand
  <2>1. UNCHANGED requestVars
    BY <1>15 DEF ReserveCommand
  <2>2. RequestsOwned'
    BY <1>15, <2>1, WriterMovesOn DEF ReserveCommand, Executing, Awaits
  <2>3. EntriesOwned'
    BY <1>0, <1>15 DEF ReserveCommand, Executing, SetEntry, EntriesOwned,
                       Polling, Wanted, CmdClosed
  <2>4. NoPanic'
    BY <1>15 DEF ReserveCommand, NoPanic
  <2> QED BY <2>2, <2>3, <2>4
<1>4. ASSUME Fail, ~Awaits(key), Polling, UNCHANGED driverVars,
             UNCHANGED <<request, key, stream_cmd>>,
             \/ cmd_pending[key] = "State0" /\ CmdClosed("write_dgram")
             \/ cmd_pending[key] = "State1" /\ reply[key] = "dropped"
      PROVE  EntriesOwned' /\ RequestsOwned' /\ NoPanic'
  <2>1. RequestsOwned'
    BY <1>4, WriterMovesOn
  <2>2. NoPanic'
    BY <1>4 DEF Fail, Finish, NoPanic
  <2>3. phase' = "idle" /\ UNCHANGED <<cmd_open, cmd_senders, reply>>
    BY <1>4 DEF Fail, Finish
  <2>4. \A k \in Keys : /\ cmd_pending'[k] = "absent" \/ UNCHANGED cmd_pending[k]
                        /\ k # key => UNCHANGED cmd_pending[k]
    BY <1>0, <1>4 DEF Fail, SetEntry
  <2>5. EntriesOwned'
    BY <1>0, <1>4, <2>3, <2>4 DEF EntriesOwned, Polling, CmdClosed
  <2> QED BY <2>1, <2>2, <2>5
<1>5. CASE SendCommandFails \/ AnswerDropped
  BY <1>4, <1>5
  DEF SendCommandFails, AnswerDropped, Executing, Awaits, Polling
<1>6. CASE ReadyAnswered
  <2>1. UNCHANGED requestVars
    BY <1>6 DEF ReadyAnswered
  <2>2. RequestsOwned'
    BY <1>6, <2>1, WriterMovesOn DEF ReadyAnswered, Awaits
  <2>3. EntriesOwned'
    BY <1>0, <1>6 DEF ReadyAnswered, SetEntry, EntriesOwned, Polling, Wanted,
                      CmdClosed
  <2>4. NoPanic'
    BY <1>6 DEF ReadyAnswered, NoPanic
  <2> QED BY <2>2, <2>3, <2>4
<1>7. CASE FlushAnswered
  <2>1. UNCHANGED requestVars
    BY <1>7 DEF FlushAnswered
  <2>2. RequestsOwned'
    BY <1>7, <2>1, WriterMovesOn DEF FlushAnswered, Awaits
  <2>3. EntriesOwned'
    BY <1>0, <1>7 DEF FlushAnswered, SetEntry, EntriesOwned, Polling, CmdClosed,
                      RemovedEntry
  <2>4. NoPanic'
    BY <1>7 DEF FlushAnswered, Finish, NoPanic
  <2> QED BY <2>2, <2>3, <2>4
<1>8. CASE InvalidResponse
  BY <1>0, <1>8 DEF InvalidResponse, Executing, EntriesOwned, Wanted, Request
<1>9. CASE PolledAfterCompletion
  BY <1>0, <1>9 DEF PolledAfterCompletion, Executing, EntriesOwned
<1>10. CASE ReserveSlot
  <2>1. UNCHANGED requestVars
    BY <1>10 DEF ReserveSlot
  <2>2. RequestsOwned'
    BY <1>10, <2>1, WriterMovesOn DEF ReserveSlot, Executing, Awaits
  <2>3. EntriesOwned'
    BY <1>0, <1>10 DEF ReserveSlot, Executing, SetEntry, EntriesOwned, Polling,
                       CmdClosed
  <2>4. NoPanic'
    BY <1>10 DEF ReserveSlot, AfterReady, Finish, NoPanic
  <2> QED BY <2>2, <2>3, <2>4
<1>11. CASE AwaitSlot
  <2>1. UNCHANGED requestVars /\ NoPanic'
    BY <1>11 DEF AwaitSlot, NoPanic
  <2>2. RequestsOwned'
    BY <1>11, <2>1, WriterMovesOn DEF AwaitSlot, Executing, Awaits
  <2>3. EntriesOwned'
    BY <1>11 DEF AwaitSlot, EntriesOwned, Polling, Wanted, CmdClosed
  <2> QED BY <2>1, <2>2, <2>3
<1>12. CASE ReserveFails
  <2>1. UNCHANGED requestVars
    BY <1>12 DEF ReserveFails
  <2>2. RequestsOwned'
    BY <1>12, <2>1, WriterMovesOn DEF ReserveFails, Executing, Awaits
  <2>3. EntriesOwned'
    BY <1>0, <1>12 DEF ReserveFails, Executing, SetEntry, EntriesOwned, Polling,
                       CmdClosed, Finish
  <2>4. NoPanic'
    BY <1>12 DEF ReserveFails, Finish, NoPanic
  <2> QED BY <2>2, <2>3, <2>4
<1>13. CASE SendItem
  <2>1. UNCHANGED requestVars /\ phase = "item"
    BY <1>13 DEF SendItem
  <2>2. RequestsOwned'
    BY <2>1, WriterMovesOn DEF Awaits, Polling
  <2>3. EntriesOwned'
    BY <1>13 DEF SendItem, EntriesOwned, Polling, CmdClosed
  <2>4. NoPanic'
    BY <1>13 DEF SendItem, Finish, NoPanic
  <2> QED BY <2>2, <2>3, <2>4
<1>14. CASE Cancel
  BY <1>14 DEF Cancel
<1> QED
  BY <1>1, <1>2, <1>3, <1>5, <1>6, <1>7, <1>8, <1>9, <1>10, <1>11, <1>12,
     <1>13, <1>14, <1>15
  DEF WriterPoll, PollCommand, PollSlot

\* A request placed on the command channel is the only one of its key.
LEMMA SubmitOwned ==
  ASSUME TypeOK, EntriesOwned, RequestsOwned, NoPanic, SendCommand \/ StreamSend
  PROVE  EntriesOwned' /\ RequestsOwned' /\ NoPanic'
<1>0. /\ cmd_pending \in [Keys -> CommandState]
      /\ request \in [Keys -> Request]
      /\ reply \in [Clients -> Reply]
      /\ cmd_queue \in Seq(Message)
  BY DEF TypeOK, WriterTypeOK, DriverTypeOK, ChanTypeOK
<1> USE KeyFacts
<1>1. ASSUME NEW k, NEW r, Submit(k, r)
      PROVE  /\ DOMAIN cmd_queue' = 1..Len(cmd_queue) + 1
             /\ Len(cmd_queue) \in Nat
             /\ \A i \in 1..Len(cmd_queue) : /\ cmd_queue'[i] = cmd_queue[i]
                                             /\ i \in DOMAIN cmd_queue
             /\ cmd_queue'[Len(cmd_queue) + 1].key = k
             /\ cmd_queue'[Len(cmd_queue) + 1].req = r
             /\ UNCHANGED noteVars
             /\ reply' = [reply EXCEPT ![k] = "open"]
             /\ UNCHANGED <<cmd_open, cmd_senders>>
  <2>1. cmd_queue' = Append(cmd_queue, [req |-> r, key |-> k])
    BY <1>1 DEF Submit
  <2>2. /\ DOMAIN cmd_queue' = 1..Len(cmd_queue) + 1
        /\ Len(cmd_queue) \in Nat
        /\ \A i \in 1..Len(cmd_queue) : /\ cmd_queue'[i] = cmd_queue[i]
                                        /\ i \in DOMAIN cmd_queue
        /\ cmd_queue'[Len(cmd_queue) + 1] = [req |-> r, key |-> k]
    BY <1>0, <2>1
  <2> QED BY <1>1, <2>2 DEF Submit, noteVars
<1>2. CASE SendCommand
  <2>1. /\ Submit(key, request[key])
        /\ cmd_pending[key] = "Reserved" /\ Polling
        /\ cmd_pending' = [cmd_pending EXCEPT ![key] = "State1"]
        /\ UNCHANGED <<request, phase, key, op, stream_cmd>>
    BY <1>2 DEF SendCommand, Executing, Polling, SetEntry, streamVars
  <2>2. request[key] = Wanted
    BY <2>1, KeyFacts DEF EntriesOwned
  <2>3. /\ \A i \in DOMAIN cmd_queue : cmd_queue[i].key = StreamKey
        /\ ready_notifiers = {} /\ flush_notifiers = {}
    BY <2>1 DEF RequestsOwned, Awaits
  <2>4. /\ Wanted' = Wanted /\ Awaits(key)'
        /\ reply'[StreamKey] = reply[StreamKey]
    BY <1>0, <1>1, <2>1 DEF Wanted, Awaits, Polling
  <2>5. RequestsOwned'
    <3>1. \A i \in DOMAIN cmd_queue' :
            /\ i # Len(cmd_queue) + 1 =>
                 /\ cmd_queue'[i].key = StreamKey
                 /\ cmd_queue'[i].req = "Write"
                 /\ cmd_queue'[i] = cmd_queue[i] /\ i \in DOMAIN cmd_queue
            /\ i = Len(cmd_queue) + 1 =>
                 cmd_queue'[i].key = key /\ cmd_queue'[i].req = Wanted
      BY <1>1, <2>1, <2>2, <2>3 DEF RequestsOwned
    <3>2. ready_notifiers' = {} /\ flush_notifiers' = {}
      BY <1>1, <2>1, <2>3 DEF noteVars
    <3> QED BY <2>1, <2>4, <3>1, <3>2 DEF RequestsOwned, Awaits
  <2>6. EntriesOwned'
    BY <1>0, <1>1, <2>1 DEF EntriesOwned, Polling, Wanted, CmdClosed
  <2>7. NoPanic'
    BY <2>1 DEF NoPanic
  <2> QED BY <2>5, <2>6, <2>7
<1>3. CASE StreamSend
  <2>1. /\ Submit(StreamKey, "Write")
        /\ stream_cmd = "Reserved" /\ stream_cmd' = "State1"
        /\ UNCHANGED <<request, phase, key, op, cmd_pending>>
    BY <1>3 DEF StreamSend, writerVars
  <2>2. \A i \in DOMAIN cmd_queue : cmd_queue[i].key # StreamKey
    BY <2>1 DEF RequestsOwned
  <2>3. /\ \A k \in Keys : reply'[k] = reply[k]
        /\ reply'[StreamKey] = "open"
    BY <1>0, <2>1, DriverAssumption DEF Submit
  <2>4. /\ Wanted' = Wanted
        /\ \A k : Awaits(k) => /\ k = key /\ Polling
                               /\ cmd_pending'[k] = "State1"
                               /\ reply'[k] = "open"
    BY <2>1, <2>3 DEF Wanted, Awaits
  <2>5. RequestsOwned'
    <3>1. \A i \in DOMAIN cmd_queue' :
            /\ i # Len(cmd_queue) + 1 =>
                 /\ cmd_queue'[i].key # StreamKey
                 /\ cmd_queue'[i] = cmd_queue[i] /\ i \in DOMAIN cmd_queue
                 /\ Awaits(cmd_queue[i].key) /\ cmd_queue[i].req = Wanted
            /\ i = Len(cmd_queue) + 1 =>
                 cmd_queue'[i].key = StreamKey /\ cmd_queue'[i].req = "Write"
      BY <1>1, <2>1, <2>2 DEF RequestsOwned
    <3>2. /\ UNCHANGED noteVars
          /\ \A k \in ready_notifiers \cup flush_notifiers : k # StreamKey
      BY <1>1, <2>1 DEF RequestsOwned, Awaits
    <3> QED
      BY <2>1, <2>2, <2>3, <2>4, <3>1, <3>2
      DEF RequestsOwned, Awaits, Polling, noteVars
  <2>6. EntriesOwned'
    BY <1>0, <1>1, <2>1, <2>3 DEF EntriesOwned, Polling, Wanted, CmdClosed
  <2>7. NoPanic'
    BY <2>1 DEF NoPanic
  <2> QED BY <2>5, <2>6, <2>7
<1> QED
  BY <1>2, <1>3

\* The driver's steps.
LEMMA DriverOwned ==
  ASSUME TypeOK, EntriesOwned, RequestsOwned, NoPanic, DriverStep
  PROVE  EntriesOwned' /\ RequestsOwned' /\ NoPanic'
<1>0. /\ reply \in [Clients -> Reply] /\ cmd_queue \in Seq(Message)
      /\ \A e \in Message : e.req \in Request /\ e.key \in Clients
      /\ DOMAIN cmd_queue = 1..Len(cmd_queue) /\ Len(cmd_queue) \in Nat
  BY Members DEF TypeOK, DriverTypeOK, ChanTypeOK
<1>1. /\ UNCHANGED entryVars /\ UNCHANGED <<stream_cmd, op>>
      /\ Wanted' = Wanted /\ (Polling' <=> Polling)
  BY DEF DriverStep, writerVars, streamVars, entryVars, Wanted, Polling
<1>2. NoPanic'
  BY <1>1 DEF NoPanic
<1> SUFFICES EntriesOwned' /\ RequestsOwned'
  BY <1>2
<1>13. /\ key \in Keys /\ key # StreamKey
       /\ Keys \subseteq Clients /\ StreamKey \in Clients
       /\ \A k \in Clients : k # StreamKey => k \in Keys
  BY KeyFacts
<1> USE <1>13
<1>3. ASSUME UNCHANGED <<cmd_queue, reply, noteVars, cmd_open, cmd_senders>>
      PROVE  EntriesOwned' /\ RequestsOwned'
  <2>1. EntriesOwned'
    BY <1>1, <1>3, AnswerOwned
  <2>2. RequestsOwned'
    BY <1>1, <1>3 DEF RequestsOwned, Awaits, entryVars, noteVars
  <2> QED BY <2>1, <2>2
<1>4. CASE \/ ReceiveNone \/ WakeUp \/ Promote \/ PublishStream
           \/ PublishDgram \/ Transmit \/ CloseDgrams
  <2>1. UNCHANGED <<cmd_queue, reply, noteVars, cmd_open, cmd_senders>>
    <3>1. CASE ReceiveNone
      BY <3>1 DEF ReceiveNone, chanVars
    <3>2. CASE WakeUp
      BY <3>2 DEF WakeUp, chanVars
    <3>3. CASE Promote
      BY <3>3 DEF Promote, chanVars
    <3>4. CASE PublishStream
      BY <3>4 DEF PublishStream, chanVars
    <3>5. CASE PublishDgram
      BY <3>5 DEF PublishDgram, chanVars
    <3>6. CASE Transmit
      BY <3>6 DEF Transmit, chanVars
    <3>7. CASE CloseDgrams
      BY <3>7 DEF CloseDgrams
    <3> QED BY <1>4, <3>1, <3>2, <3>3, <3>4, <3>5, <3>6, <3>7
  <2> QED BY <1>3, <2>1
<1>5. ASSUME NEW req, Receive(req)
      PROVE  /\ cmd_queue # <<>>
             /\ Head(cmd_queue) = cmd_queue[1] /\ 1 \in DOMAIN cmd_queue
             /\ Head(cmd_queue).key \in Clients
             /\ Head(cmd_queue).req = req
             /\ \A i \in DOMAIN cmd_queue' :
                  /\ cmd_queue'[i] = cmd_queue[i + 1]
                  /\ i + 1 \in DOMAIN cmd_queue
                  /\ i \in Nat
                  /\ cmd_queue'[i].key # Head(cmd_queue).key
  <2>1. cmd_queue # <<>> /\ cmd_queue' = Tail(cmd_queue)
        /\ Head(cmd_queue).req = req
    BY <1>5 DEF Receive
  <2>2. /\ Head(cmd_queue) = cmd_queue[1] /\ 1 \in DOMAIN cmd_queue
        /\ Head(cmd_queue) \in Message
        /\ \A i \in DOMAIN cmd_queue' : /\ cmd_queue'[i] = cmd_queue[i + 1]
                                        /\ i + 1 \in DOMAIN cmd_queue
                                        /\ i \in Nat /\ i > 0
    BY <1>0, <2>1
  <2>3. \A i \in DOMAIN cmd_queue' : cmd_queue[i + 1].key # cmd_queue[1].key
    BY <2>2 DEF RequestsOwned
  <2> QED BY <1>0, <2>1, <2>2, <2>3
<1>6. CASE ReceiveWrite
  <2> DEFINE h == Head(cmd_queue)
  <2>1. /\ Receive("Write") /\ UNCHANGED <<noteVars, cmd_open, cmd_senders>>
        /\ reply' = [k \in Clients |-> IF k \in {h.key} THEN "Write"
                                                        ELSE reply[k]]
    BY <1>6 DEF ReceiveWrite, Answer
  <2>2. h.key = StreamKey
    BY <1>5, <2>1 DEF RequestsOwned, Wanted
  <2>3. \A k \in Keys : UNCHANGED reply[k]
    <3>1. ASSUME NEW k \in Keys PROVE reply'[k] = reply[k]
      <4>1. k \in Clients /\ k \notin {StreamKey}
        BY DriverAssumption
      <4> QED BY <2>1, <2>2, <4>1
    <3> QED BY <3>1
  <2>4. EntriesOwned'
    BY <1>1, <2>1, <2>3, AnswerOwned
  <2>5. \A k \in Clients \ {StreamKey} : Awaits(k)' <=> Awaits(k)
    BY <1>1, <2>3 DEF Awaits, entryVars
  <2>6. \A i \in DOMAIN cmd_queue' : /\ cmd_queue'[i] = cmd_queue[i + 1]
                                     /\ i + 1 \in DOMAIN cmd_queue /\ i \in Nat
                                     /\ cmd_queue'[i].key # StreamKey
                                     /\ cmd_queue'[i].key \in Clients
    BY <1>0, <1>5, <2>1, <2>2
  <2>7. RequestsOwned'
    BY <1>1, <2>1, <2>5, <2>6
    DEF RequestsOwned, noteVars, entryVars, Awaits
  <2> QED BY <2>4, <2>7
<1>7. CASE ReceiveReady
  <2> DEFINE h == Head(cmd_queue)
  <2>1. /\ Receive("WriteDgramReady")
        /\ UNCHANGED <<reply, flush_notifiers, cmd_open, cmd_senders>>
        /\ ready_notifiers' = ready_notifiers \cup {h.key}
    BY <1>7 DEF ReceiveReady
  <2>2. Awaits(h.key) /\ phase = "ready" /\ h.key # StreamKey
    BY <1>5, <2>1 DEF RequestsOwned, Wanted, Awaits, Polling
  <2>3. EntriesOwned'
    BY <1>1, <2>1, AnswerOwned
  <2>4. \A k \in Clients : Awaits(k)' <=> Awaits(k)
    BY <1>1, <2>1 DEF Awaits, entryVars
  <2>5. \A i \in DOMAIN cmd_queue' : /\ cmd_queue'[i] = cmd_queue[i + 1]
                                     /\ i + 1 \in DOMAIN cmd_queue /\ i \in Nat
                                     /\ cmd_queue'[i].key = StreamKey
    BY <1>5, <2>1, <2>2 DEF RequestsOwned, Awaits
  <2>6. RequestsOwned'
    BY <1>1, <2>1, <2>2, <2>4, <2>5
    DEF RequestsOwned, entryVars, Awaits
  <2> QED BY <2>3, <2>6
<1>8. CASE ReceiveFlush
  <2> DEFINE h == Head(cmd_queue)
  <2>1. /\ Receive("WriteDgramFlush")
        /\ UNCHANGED <<reply, ready_notifiers, cmd_open, cmd_senders>>
        /\ flush_notifiers' = flush_notifiers \cup {h.key}
    BY <1>8 DEF ReceiveFlush
  <2>2. Awaits(h.key) /\ phase = "flush" /\ h.key # StreamKey
    BY <1>5, <2>1 DEF RequestsOwned, Wanted, Awaits, Polling
  <2>3. EntriesOwned'
    BY <1>1, <2>1, AnswerOwned
  <2>4. \A k \in Clients : Awaits(k)' <=> Awaits(k)
    BY <1>1, <2>1 DEF Awaits, entryVars
  <2>5. \A i \in DOMAIN cmd_queue' : /\ cmd_queue'[i] = cmd_queue[i + 1]
                                     /\ i + 1 \in DOMAIN cmd_queue /\ i \in Nat
                                     /\ cmd_queue'[i].key = StreamKey
    BY <1>5, <2>1, <2>2 DEF RequestsOwned, Awaits
  <2>6. RequestsOwned'
    BY <1>1, <2>1, <2>2, <2>4, <2>5
    DEF RequestsOwned, entryVars, Awaits
  <2> QED BY <2>3, <2>6
<1>15. \A i \in DOMAIN cmd_queue : cmd_queue[i].key \in Clients
  BY <1>0
<1>14. ASSUME NEW S \in SUBSET Keys, NEW r \in {"dropped", Wanted},
              \A k \in S : Awaits(k),
              Answer(S, r), UNCHANGED <<cmd_open, cmd_senders>>
       PROVE  /\ EntriesOwned'
              /\ \A k \in Clients : k \notin S => reply'[k] = reply[k]
  <2>1. \A k \in Clients : reply'[k] = IF k \in S THEN r ELSE reply[k]
    BY <1>14 DEF Answer
  <2>2. \A k \in S : reply[k] = "open"
    BY <1>14 DEF Awaits
  <2>3. EntriesOwned'
    BY <1>1, <1>14, <2>1, <2>2, AnswerOwned
  <2> QED BY <2>1, <2>3
<1>9. CASE DrainTake
  <2>1. /\ Answer(ready_notifiers, "WriteDgramReady") /\ ready_notifiers' = {}
        /\ UNCHANGED <<flush_notifiers, cmd_queue, cmd_open, cmd_senders>>
    BY <1>9 DEF DrainTake
  <2>2. /\ \A k \in ready_notifiers : k = key /\ Awaits(k) /\ phase = "ready"
        /\ \A k \in flush_notifiers : k = key /\ phase = "flush"
    BY DEF RequestsOwned, Awaits
  <2>3. ready_notifiers # {} => Wanted = "WriteDgramReady"
    BY <2>2 DEF Wanted
  <2>4. /\ EntriesOwned'
        /\ \A k \in Clients : k \notin ready_notifiers => reply'[k] = reply[k]
    <3>1. CASE ready_notifiers = {}
      BY <1>14, <2>1, <3>1 DEF Answer
    <3>2. CASE ready_notifiers # {}
      BY <1>14, <2>1, <2>2, <2>3, <3>2
    <3> QED BY <3>1, <3>2
  <2>5. \A k \in Clients : k \notin ready_notifiers => (Awaits(k)' <=> Awaits(k))
    BY <1>1, <2>4 DEF Awaits, entryVars
  <2>6. StreamKey \notin ready_notifiers
    BY <2>2
  <2>7. RequestsOwned'
    BY <1>1, <1>15, <2>1, <2>2, <2>4, <2>5, <2>6
    DEF RequestsOwned, entryVars
  <2> QED BY <2>4, <2>7
<1>10. CASE DrainEmpty
  <2>1. /\ Answer(flush_notifiers, "WriteDgramFlush") /\ flush_notifiers' = {}
        /\ UNCHANGED <<ready_notifiers, cmd_queue, cmd_open, cmd_senders>>
    BY <1>10 DEF DrainEmpty, chanVars
  <2>2. /\ \A k \in flush_notifiers : k = key /\ Awaits(k) /\ phase = "flush"
        /\ \A k \in ready_notifiers : k = key /\ phase = "ready"
    BY DEF RequestsOwned, Awaits
  <2>3. flush_notifiers # {} => Wanted = "WriteDgramFlush"
    BY <2>2 DEF Wanted
  <2>4. /\ EntriesOwned'
        /\ \A k \in Clients : k \notin flush_notifiers => reply'[k] = reply[k]
    <3>1. CASE flush_notifiers = {}
      BY <1>14, <2>1, <3>1 DEF Answer
    <3>2. CASE flush_notifiers # {}
      BY <1>14, <2>1, <2>2, <2>3, <3>2
    <3> QED BY <3>1, <3>2
  <2>5. \A k \in Clients : k \notin flush_notifiers => (Awaits(k)' <=> Awaits(k))
    BY <1>1, <2>4 DEF Awaits, entryVars
  <2>6. StreamKey \notin flush_notifiers
    BY <2>2
  <2>7. RequestsOwned'
    BY <1>1, <1>15, <2>1, <2>2, <2>4, <2>5, <2>6
    DEF RequestsOwned, entryVars
  <2> QED BY <2>4, <2>7
<1>11. CASE DropNotifiers
  <2> DEFINE S == ready_notifiers \cup flush_notifiers
  <2>1. /\ Answer(S, "dropped") /\ ready_notifiers' = {} /\ flush_notifiers' = {}
        /\ UNCHANGED <<cmd_queue, cmd_open, cmd_senders>>
    BY <1>11 DEF DropNotifiers, chanVars
  <2>2. \A k \in S : k = key /\ Awaits(k)
    BY DEF RequestsOwned, Awaits
  <2>4. /\ EntriesOwned'
        /\ \A k \in Clients : k \notin S => reply'[k] = reply[k]
    BY <1>14, <2>1, <2>2
  <2>5. \A k \in Clients : k \notin S => (Awaits(k)' <=> Awaits(k))
    BY <1>1, <2>4 DEF Awaits, entryVars
  <2>6. StreamKey \notin S
    BY <2>2
  <2>7. RequestsOwned'
    BY <1>1, <1>15, <2>1, <2>2, <2>4, <2>5, <2>6
    DEF RequestsOwned, entryVars
  <2> QED BY <2>4, <2>7
<1>12. CASE CloseCommands
  BY <1>1, <1>12, ChannelDropped DEF CloseCommands
<1> QED
  BY <1>2, <1>4, <1>6, <1>7, <1>8, <1>9, <1>10, <1>11, <1>12
  DEF DriverStep, DriverNext, DriverPass, ReceiveRequest

\* The owners of the other handles.
LEMMA ClientOwned ==
  ASSUME TypeOK, EntriesOwned, RequestsOwned, NoPanic,
         \/ StreamWrite \/ StreamReserve \/ StreamDone \/ ReaderStep
         \/ \E h \in Owner : Drop(h)
  PROVE  EntriesOwned' /\ RequestsOwned' /\ NoPanic'
<1>1. /\ UNCHANGED entryVars /\ UNCHANGED noteVars /\ UNCHANGED <<op, cmd_open>>
      /\ cmd_senders' \subseteq cmd_senders
      /\ \/ UNCHANGED <<cmd_queue, reply>>
         \/ /\ Answer({cmd_queue[i].key : i \in DOMAIN cmd_queue}, "dropped")
            /\ cmd_queue' = <<>>
  <2>1. CASE StreamWrite \/ StreamReserve \/ StreamDone
    BY <2>1 DEF StreamWrite, StreamReserve, StreamDone, driverVars, chanVars,
                writerVars, entryVars
  <2>2. CASE ReaderStep
    BY <2>2 DEF ReaderStep, StreamTaken, DgramTaken, chanVars, writerVars,
                entryVars
  <2>3. CASE \E h \in Owner : Drop(h)
    BY <2>3 DEF Drop, Release, writerVars, entryVars
  <2> QED BY <2>1, <2>2, <2>3
<1>2. CASE UNCHANGED <<cmd_queue, reply>>
  <2>1. /\ Wanted' = Wanted /\ (Polling' <=> Polling)
        /\ \A k : Awaits(k)' <=> Awaits(k)
        /\ (CmdClosed("write_dgram") => CmdClosed("write_dgram")')
    BY <1>1, <1>2 DEF entryVars, Wanted, Polling, Awaits, CmdClosed
  <2>2. EntriesOwned'
    BY <1>1, <1>2, <2>1 DEF EntriesOwned, entryVars
  <2>3. \A i \in DOMAIN cmd_queue :
          cmd_queue[i].key = StreamKey => stream_cmd' = "State1"
    <3>1. CASE StreamWrite \/ StreamReserve
      BY <3>1 DEF StreamWrite, StreamReserve, RequestsOwned
    <3>2. CASE StreamDone
      BY <3>2 DEF StreamDone, RequestsOwned
    <3>3. CASE ReaderStep \/ \E h \in Owner : Drop(h)
      BY <3>3 DEF ReaderStep, StreamTaken, DgramTaken, Drop, streamVars,
                  RequestsOwned
    <3> QED BY <3>1, <3>2, <3>3
  <2>4. RequestsOwned'
    BY <1>1, <1>2, <2>1, <2>3 DEF RequestsOwned, noteVars, entryVars
  <2> QED BY <1>1, <2>2, <2>4 DEF NoPanic
<1>3. CASE /\ Answer({cmd_queue[i].key : i \in DOMAIN cmd_queue}, "dropped")
           /\ cmd_queue' = <<>>
  BY <1>1, <1>3, ChannelDropped DEF NoPanic
<1> QED
  BY <1>1, <1>2, <1>3

\* Nobody's request is answered to somebody else.
Owned == EntriesOwned /\ RequestsOwned /\ NoPanic

LEMMA StepOwned ==
  ASSUME MayCancel = FALSE, TypeOK, Shape, Owned, [Next]_vars
  PROVE  Owned'
<1>1. CASE UNCHANGED vars
  BY <1>1
  DEF vars, driverVars, chanVars, noteVars, writerVars, streamVars, Owned,
      EntriesOwned, RequestsOwned, NoPanic, Polling, Wanted, Awaits, CmdClosed
<1>2. CASE DriverStep
  BY <1>2, DriverOwned DEF Owned
<1>3. CASE SendCommand \/ StreamSend
  BY <1>3, SubmitOwned DEF Owned
<1>4. CASE /\ WriterPoll \/ Cancel \/ \E o \in Op : Start(o)
           /\ ~SendCommand
  BY <1>4, WriterOwned DEF Owned
<1>5. CASE \/ StreamWrite \/ StreamReserve \/ StreamDone \/ ReaderStep
           \/ \E h \in Owner : Drop(h)
  BY <1>5, ClientOwned DEF Owned
<1> QED
  BY <1>1, <1>2, <1>3, <1>4, <1>5 DEF Next, StreamStep

LEMMA InitOwned == Init => Owned
BY DEF Init, DriverInit, Owned, EntriesOwned, RequestsOwned, NoPanic, Awaits

\* An operation that waits for its answer never meets a foreign Command under
\* its address, whatever the addresses, the sizes and the script.
THEOREM NoPanicTheorem ==
  ASSUME MayCancel = FALSE
  PROVE  Spec => []NoPanic
<1>1. Init => Shape /\ Owned
  BY InitShape, InitOwned
<1>2. TypeOK /\ Shape /\ Owned /\ [Next]_vars => Shape' /\ Owned'
  <2> SUFFICES ASSUME TypeOK, Shape, Owned, [Next]_vars PROVE Shape' /\ Owned'
    OBVIOUS
  <2>1. Shape'
    BY StepShape
  <2>2. Owned'
    BY StepOwned, Zenon
  <2> QED BY <2>1, <2>2
<1>3. Owned => NoPanic
  BY DEF Owned
<1> QED
  BY <1>1, <1>2, <1>3, TypeCorrect, PTL DEF Spec

-----------------------------------------------------------------------------
(* The flush barrier.                                                      *)

\* The writer has in hand, not read yet, the answer to its flush.
InHand ==
  phase = "flush" /\ cmd_pending[key] = "State1" /\ reply[key] = "WriteDgramFlush"

\* Nothing accepted can be short of write_dgrams when a flush was answered.
Flushed == InHand => Forwarded = accepted

LEMMA Counters ==
  ASSUME TypeOK
  PROVE  /\ Transmitted \in Nat /\ Forwarded \in Nat /\ Taken \in Nat
         /\ accepted \in Nat /\ confirmed \in Nat /\ Len(dgram_queue) \in Nat
         /\ write_dgram_waiting = NoDgram => Taken = Forwarded
         /\ write_dgram_waiting # NoDgram => Taken = Forwarded + 1
         /\ Len(dgram_queue) = 0 <=> dgram_queue = <<>>
<1>1. /\ acked \in Nat /\ Len(sent_dgrams) \in Nat /\ Len(write_dgrams) \in Nat
      /\ Len(dgram_queue) \in Nat /\ accepted \in Nat /\ confirmed \in Nat
      /\ Len(dgram_queue) = 0 <=> dgram_queue = <<>>
  BY DEF TypeOK, DriverTypeOK, SendTypeOK, WriterTypeOK, ChanTypeOK
<1>2. Transmitted \in Nat /\ Forwarded \in Nat
  BY <1>1 DEF Transmitted, Forwarded
<1> QED
  BY <1>1, <1>2 DEF Taken

\* A datagram that has joined write_dgrams never leaves the connection, and one
\* joins only while some accepted datagram is short of it.
LEMMA ForwardedGrows ==
  ASSUME TypeOK, Shape, Fifo, [Next]_vars
  PROVE  /\ Forwarded' \in {Forwarded, Forwarded + 1}
         /\ Forwarded' # Forwarded => Promote \/ DrainTake
         /\ Forwarded' # Forwarded => Forwarded < accepted
<1>0. /\ write_dgrams \in Seq(Nat) /\ sent_dgrams \in Seq(Nat)
      /\ dgram_queue \in Seq(Nat) /\ accepted \in Nat /\ acked \in Nat
      /\ write_dgram_waiting \in Nat
  BY DEF TypeOK, DriverTypeOK, WriterTypeOK, SendTypeOK, ChanTypeOK
<1>1. Forwarded = acked + Len(sent_dgrams) + Len(write_dgrams)
      /\ Forwarded' = acked' + Len(sent_dgrams') + Len(write_dgrams')
      /\ Len(sent_dgrams) \in Nat /\ Len(write_dgrams) \in Nat /\ acked \in Nat
  BY <1>0 DEF Forwarded, Transmitted
<1>2. CASE WakeUp
  <2>1. CASE sent_dgrams = <<>>
    BY <1>1, <1>2, <2>1 DEF WakeUp
  <2>2. CASE sent_dgrams # <<>>
    <3>1. /\ UNCHANGED write_dgrams /\ acked' = acked + 1
          /\ sent_dgrams' = Tail(sent_dgrams)
      BY <1>2, <2>2 DEF WakeUp
    <3>2. Len(Tail(sent_dgrams)) = Len(sent_dgrams) - 1
      BY <1>0, <2>2
    <3>3. Len(sent_dgrams') = Len(sent_dgrams) - 1
          /\ Len(write_dgrams') = Len(write_dgrams) /\ acked' = acked + 1
      BY <3>1, <3>2
    <3>4. Forwarded' = Forwarded
      BY <1>1, <3>3
    <3> QED BY <1>2, <3>4
  <2> QED BY <2>1, <2>2
<1>3. CASE Transmit
  <2>1. CASE ~Admits
    BY <1>1, <1>3, <2>1 DEF Transmit
  <2>2. CASE Admits
    <3>1. /\ UNCHANGED acked /\ write_dgrams' = Tail(write_dgrams)
          /\ sent_dgrams' = Append(sent_dgrams, Head(write_dgrams))
      BY <1>3, <2>2 DEF Transmit
    <3>2. /\ Len(Tail(write_dgrams)) = Len(write_dgrams) - 1
          /\ Len(Append(sent_dgrams, Head(write_dgrams))) = Len(sent_dgrams) + 1
      BY <1>0, <2>2 DEF Admits
    <3>3. Len(sent_dgrams') = Len(sent_dgrams) + 1
          /\ Len(write_dgrams') = Len(write_dgrams) - 1 /\ acked' = acked
      BY <3>1, <3>2
    <3>4. Forwarded' = Forwarded
      BY <1>1, <3>3
    <3> QED BY <1>3, <3>4
  <2> QED BY <2>1, <2>2
<1>4. \A x : Len(Append(write_dgrams, x)) = Len(write_dgrams) + 1
  BY <1>0
<1>5. ASSUME UNCHANGED <<sent_dgrams, acked>>,
             \/ UNCHANGED write_dgrams
             \/ \E x : write_dgrams' = Append(write_dgrams, x)
      PROVE  Forwarded' \in {Forwarded, Forwarded + 1}
  <2>1. Len(write_dgrams') \in {Len(write_dgrams), Len(write_dgrams) + 1}
    BY <1>4, <1>5
  <2> QED BY <1>0, <1>1, <1>5, <2>1
<1>6. ASSUME Promote \/ DrainTake
      PROVE  dgram_open /\ Taken + Len(dgram_queue) = accepted
  BY <1>6 DEF Promote, DrainTake, Shape, Fifo
<1>7. CASE Promote
  <2>1. /\ UNCHANGED <<sent_dgrams, acked>>
        /\ \/ UNCHANGED write_dgrams
           \/ /\ write_dgram_waiting # NoDgram
              /\ \E x : write_dgrams' = Append(write_dgrams, x)
    BY <1>7 DEF Promote
  <2>2. write_dgram_waiting # NoDgram => Forwarded < accepted
    BY <1>6, <1>7, Counters
  <2>3. Forwarded' # Forwarded => write_dgram_waiting # NoDgram
    BY <2>1 DEF Forwarded, Transmitted
  <2> QED BY <1>5, <1>7, <2>1, <2>2, <2>3
<1>8. CASE DrainTake
  <2>1. /\ UNCHANGED <<sent_dgrams, acked>>
        /\ \/ UNCHANGED write_dgrams
           \/ \E x : write_dgrams' = Append(write_dgrams, x)
        /\ dgram_queue # <<>> /\ driver = "drain"
    BY <1>8 DEF DrainTake, PushOrPark
  <2>2. Forwarded < accepted
    BY <1>6, <1>8, <2>1, Counters
  <2> QED BY <1>5, <1>8, <2>1, <2>2
<1>9. CASE ~WakeUp /\ ~Promote /\ ~DrainTake /\ ~Transmit
  BY <1>1, <1>9, QueueSteps DEF sendVars, Forwarded, Transmitted
<1> QED
  BY <1>2, <1>3, <1>7, <1>8, <1>9

\* Only the driver finding the channel empty puts such an answer in the
\* writer's hand.
LEMMA HandSteps ==
  ASSUME TypeOK, Shape, EntriesOwned, [Next]_vars, ~InHand, InHand'
  PROVE  DrainEmpty /\ DriverStep
<1>0. /\ key \in Keys /\ key' \in Keys /\ key' # StreamKey /\ key' \in Clients
      /\ cmd_pending \in [Keys -> CommandState]
      /\ reply \in [Clients -> Reply]
  <2>1. TypeOK'
    BY StepType
  <2> QED BY <2>1, DriverAssumption
    DEF TypeOK, WriterTypeOK, DriverTypeOK, Clients
<1>1. /\ phase' = "flush" /\ cmd_pending'[key'] = "State1"
      /\ reply'[key'] = "WriteDgramFlush"
  BY DEF InHand
<1>2. ~UNCHANGED <<phase, key, cmd_pending, reply>>
  BY DEF InHand
<1>3. ASSUME phase \in {"idle", "item"}, UNCHANGED cmd_pending,
             reply'[key'] \in {reply[key'], "dropped"}
      PROVE  FALSE
  BY <1>0, <1>1, <1>3 DEF EntriesOwned, Polling
<1>4. CASE UNCHANGED vars
  BY <1>2, <1>4 DEF vars, driverVars, writerVars
<1>5. CASE \E o \in Op : Start(o)
  BY <1>0, <1>3, <1>5, StartRelease DEF Start, Shape
<1>6. CASE PollCommand
  <2>1. CASE CheckCapacity \/ RequestFlush
    BY <1>0, <1>1, <2>1 DEF CheckCapacity, RequestFlush, SetEntry
  <2>6. CASE ReserveCommand
    BY <1>0, <1>1, <2>6 DEF ReserveCommand, SetEntry
  <2>2. CASE SendCommand
    <3>1. reply' = [reply EXCEPT ![key] = "open"] /\ key' = key
      BY <2>2 DEF SendCommand, Submit
    <3> QED BY <1>0, <1>1, <3>1
  <2>3. CASE SendCommandFails \/ AnswerDropped
    BY <1>1, <2>3 DEF SendCommandFails, AnswerDropped, Fail, Finish
  <2>4. CASE ReadyAnswered
    BY <1>0, <1>1, <2>4 DEF ReadyAnswered, SetEntry
  <2>5. CASE FlushAnswered \/ InvalidResponse \/ PolledAfterCompletion
    BY <1>1, <2>5 DEF FlushAnswered, InvalidResponse, PolledAfterCompletion,
                      Finish, Panic
  <2> QED BY <1>6, <2>1, <2>2, <2>3, <2>4, <2>5, <2>6 DEF PollCommand
<1>7. CASE PollSlot
  <2>1. CASE ReserveSlot \/ ReserveFails
    BY <1>1, <2>1 DEF ReserveSlot, ReserveFails, AfterReady, Finish
  <2>2. CASE AwaitSlot
    BY <1>1, <2>2 DEF AwaitSlot
  <2>3. CASE SendItem
    BY <1>3, <2>3 DEF SendItem
  <2> QED BY <1>7, <2>1, <2>2, <2>3 DEF PollSlot
<1>8. CASE Cancel
  BY <1>1, <1>8 DEF Cancel, Finish
<1>9. CASE StreamWrite \/ StreamStep
  <2>1. CASE StreamSend
    <3>1. reply' = [reply EXCEPT ![StreamKey] = "open"]
          /\ UNCHANGED <<phase, key, cmd_pending>>
      BY <2>1 DEF StreamSend, Submit, writerVars
    <3>2. reply'[key] = reply[key]
      BY <1>0, <3>1
    <3> QED BY <1>1, <3>1, <3>2 DEF InHand
  <2>2. CASE StreamWrite \/ StreamReserve \/ StreamDone
    BY <1>2, <2>2 DEF StreamWrite, StreamReserve, StreamDone, driverVars,
                      writerVars
  <2> QED BY <1>9, <2>1, <2>2 DEF StreamStep
<1>10. CASE ReaderStep
  BY <1>2, <1>10 DEF ReaderStep, StreamTaken, DgramTaken, writerVars
<1>11. CASE \E h \in Owner : Drop(h)
  <2>1. PICK h \in Owner : Drop(h)
    BY <1>11
  <2>2. Release(h) /\ UNCHANGED <<phase, key, cmd_pending, cmd_open, dgram_open,
                                 dgram_queue>>
    BY <2>1 DEF Drop, writerVars
  <2>3. reply'[key'] \in {reply[key'], "dropped"}
    BY <1>0, <2>2, ReleaseType DEF TypeOK, DriverTypeOK
  <2> QED BY <1>1, <2>2, <2>3 DEF InHand
<1>12. CASE DriverStep /\ ~DrainEmpty
  <2>1. UNCHANGED <<phase, key, cmd_pending>>
    BY <1>12 DEF DriverStep, writerVars
  <2>2. reply[key] # "WriteDgramFlush"
    BY <1>1, <2>1 DEF InHand
  <2>3. ASSUME NEW S, NEW r, r # "WriteDgramFlush", Answer(S, r)
        PROVE  FALSE
    BY <1>0, <1>1, <2>1, <2>2, <2>3 DEF Answer
  <2>4. CASE ReceiveWrite \/ DrainTake
    BY <2>3, <2>4 DEF ReceiveWrite, DrainTake
  <2>5. CASE DropNotifiers \/ CloseCommands
    BY <2>3, <2>5 DEF DropNotifiers, CloseCommands
  <2>6. CASE ReceiveReady \/ ReceiveFlush \/ ReceiveNone
    BY <1>2, <2>1, <2>6 DEF ReceiveReady, ReceiveFlush, ReceiveNone
  <2>7. CASE WakeUp \/ Promote \/ CloseDgrams
    BY <1>2, <2>1, <2>7 DEF WakeUp, Promote, CloseDgrams
  <2>8. CASE PublishStream \/ PublishDgram \/ Transmit
    BY <1>2, <2>1, <2>8 DEF PublishStream, PublishDgram, Transmit
  <2> QED
    BY <1>12, <2>4, <2>5, <2>6, <2>7, <2>8
    DEF DriverStep, DriverNext, DriverPass, ReceiveRequest
<1> QED
  BY <1>4, <1>5, <1>6, <1>7, <1>8, <1>9, <1>10, <1>11, <1>12
  DEF Next, WriterPoll

\* Only send_item accepts a datagram.
LEMMA AcceptedSteps ==
  ASSUME [Next]_vars, ~SendItem
  PROVE  accepted' = accepted
<1>1. CASE DriverStep
  BY <1>1 DEF DriverStep, writerVars
<1>2. CASE (\E o \in Op : Start(o)) \/ Cancel
  BY <1>2 DEF Start, Cancel
<1>3. CASE PollCommand
  BY <1>3
    DEF PollCommand, ReserveCommand, SendCommand, CheckCapacity, RequestFlush,
        SendCommandFails, AnswerDropped, ReadyAnswered, FlushAnswered,
        InvalidResponse, PolledAfterCompletion
<1>4. CASE PollSlot
  BY <1>4 DEF PollSlot, ReserveSlot, AwaitSlot, ReserveFails
<1>5. CASE StreamWrite \/ StreamStep
  BY <1>5 DEF StreamWrite, StreamStep, StreamReserve, StreamSend, StreamDone,
              writerVars
<1>6. CASE ReaderStep \/ \E h \in Owner : Drop(h)
  BY <1>6 DEF ReaderStep, StreamTaken, DgramTaken, Drop, writerVars
<1>7. CASE UNCHANGED vars
  BY <1>7 DEF vars, writerVars
<1> QED
  BY <1>1, <1>2, <1>3, <1>4, <1>5, <1>6, <1>7 DEF Next, WriterPoll

LEMMA StepFlushed ==
  ASSUME TypeOK, Shape, Fifo, EntriesOwned, Flushed, [Next]_vars
  PROVE  Flushed'
<1> SUFFICES ASSUME InHand' PROVE Forwarded' = accepted'
  BY DEF Flushed
<1>1. CASE InHand
  <2>1. Forwarded = accepted
    BY <1>1 DEF Flushed
  <2>2. Forwarded' = Forwarded
    BY <2>1, ForwardedGrows, Counters
  <2>3. accepted' = accepted
    BY <1>1, AcceptedSteps DEF InHand, SendItem
  <2> QED BY <2>1, <2>2, <2>3
<1>2. CASE ~InHand
  <2>1. DrainEmpty /\ DriverStep
    BY <1>2, HandSteps
  <2>2. Forwarded = accepted
    BY <2>1, Counters DEF DrainEmpty, Shape, Fifo
  <2>3. Forwarded' = Forwarded /\ accepted' = accepted
    BY <2>1
      DEF DrainEmpty, DriverStep, sendVars, writerVars, Forwarded, Transmitted
  <2> QED BY <2>2, <2>3
<1> QED BY <1>1, <1>2

\* Only a flush that returns Ok confirms.
LEMMA ConfirmSteps ==
  ASSUME [Next]_vars, confirmed' # confirmed
  PROVE  FlushAnswered
<1>1. CASE UNCHANGED vars
  BY <1>1 DEF vars, writerVars
<1>2. CASE DriverStep
  BY <1>2 DEF DriverStep, writerVars
<1>3. CASE (\E o \in Op : Start(o)) \/ Cancel
  BY <1>3 DEF Start, Cancel
<1>4. CASE PollCommand /\ ~FlushAnswered
  BY <1>4
    DEF PollCommand, ReserveCommand, SendCommand, CheckCapacity, RequestFlush,
        SendCommandFails, AnswerDropped, ReadyAnswered, InvalidResponse,
        PolledAfterCompletion
<1>5. CASE PollSlot
  BY <1>5 DEF PollSlot, ReserveSlot, AwaitSlot, ReserveFails, SendItem
<1>6. CASE StreamWrite \/ StreamStep
  BY <1>6 DEF StreamWrite, StreamStep, StreamReserve, StreamSend, StreamDone,
              writerVars
<1>7. CASE ReaderStep \/ \E h \in Owner : Drop(h)
  BY <1>7 DEF ReaderStep, StreamTaken, DgramTaken, Drop, writerVars
<1> QED
  BY <1>1, <1>2, <1>3, <1>4, <1>5, <1>6, <1>7 DEF Next, WriterPoll

LEMMA StepBarrier ==
  ASSUME TypeOK, Shape, Fifo, Flushed, FlushBarrier, [Next]_vars
  PROVE  FlushBarrier'
<1>1. Forwarded' >= Forwarded
  BY ForwardedGrows, Counters
<1>2. CASE confirmed' = confirmed
  BY <1>1, <1>2, ForwardedGrows, Counters DEF FlushBarrier
<1>3. CASE confirmed' # confirmed
  <2>1. confirmed' = accepted /\ InHand
    BY <1>3, ConfirmSteps DEF FlushAnswered, Executing, InHand
  <2> QED BY <1>1, <2>1, ForwardedGrows, Counters DEF Flushed, FlushBarrier
<1> QED BY <1>2, <1>3

LEMMA InitBarrier == Init => Flushed /\ FlushBarrier
BY DEF Init, DriverInit, Flushed, InHand, FlushBarrier, Forwarded, Transmitted

\* A flush that returned Ok left nothing accepted before it short of the
\* connection, whatever the sizes and the script.
THEOREM FlushBarrierTheorem ==
  ASSUME MayCancel = FALSE
  PROVE  Spec => []FlushBarrier
<1>1. Init => Shape /\ Fifo /\ Owned /\ Flushed /\ FlushBarrier
  BY InitShape, InitFifo, InitOwned, InitBarrier
<1>2. ASSUME TypeOK, Shape, Fifo, Owned, Flushed, FlushBarrier, [Next]_vars
      PROVE  Shape' /\ Fifo' /\ Owned' /\ Flushed' /\ FlushBarrier'
  <2>1. EntriesOwned
    BY <1>2 DEF Owned
  <2>2. Shape' /\ Fifo'
    BY <1>2, StepShape, StepFifo
  <2>3. Owned'
    BY <1>2, StepOwned, Zenon
  <2>4. Flushed' /\ FlushBarrier'
    BY <1>2, <2>1, StepFlushed, StepBarrier
  <2> QED BY <2>2, <2>3, <2>4
<1>3. TypeOK /\ Shape /\ Fifo /\ Owned /\ Flushed /\ FlushBarrier /\ [Next]_vars
      => Shape' /\ Fifo' /\ Owned' /\ Flushed' /\ FlushBarrier'
  BY <1>2
<1> QED
  BY <1>1, <1>3, TypeCorrect, PTL DEF Spec

-----------------------------------------------------------------------------
(* The datagram path implements DgramPipe.                                 *)

Closed == driver \in {"exiting", "closing"}

\* The steps of the writer and of the other clients.
LEMMA ClientPipe ==
  ASSUME TypeOK, Shape, Fifo, BuffersBounded, Flushed, [Next]_vars, ~DriverStep
  PROVE  [Pipe!PipeNext]_(Pipe!pipeVars)
<1>1. /\ UNCHANGED <<Forwarded, Transmitted, acked>> /\ Closed' = Closed
  BY DriverOwns DEF ownVars, sendVars, Forwarded, Transmitted, Closed
<1>2. CASE SendItem
  <2>1. accepted' = accepted + 1 /\ UNCHANGED confirmed /\ phase = "item"
    BY <1>2 DEF SendItem
  <2>2. ASSUME ~Closed PROVE accepted - Forwarded < WriteCap + 1
    <3>1. dgram_open /\ write_sender = "ready"
      BY <2>1, <2>2 DEF Shape, Closed
    <3>2. Len(dgram_queue) < WriteCap /\ Taken + Len(dgram_queue) = accepted
      BY <3>1 DEF BuffersBounded, Fifo
    <3>3. /\ Taken \in {Forwarded, Forwarded + 1} /\ Forwarded \in Nat
          /\ Len(dgram_queue) \in Nat /\ WriteCap \in Nat
      BY Counters, DriverAssumption
    <3> QED BY <3>2, <3>3
  <2> QED BY <1>1, <2>1, <2>2 DEF Pipe!PipeNext, Pipe!Accept, Closed
<1>3. CASE FlushAnswered
  <2>1. confirmed' = accepted /\ InHand /\ UNCHANGED accepted
    BY <1>3 DEF FlushAnswered, Executing, InHand
  <2> QED BY <1>1, <2>1 DEF Pipe!PipeNext, Pipe!Confirm, Flushed, Closed
<1>4. CASE ~SendItem /\ ~FlushAnswered
  BY <1>1, <1>4, AcceptedSteps, ConfirmSteps DEF Pipe!pipeVars, Closed
<1> QED BY <1>2, <1>3, <1>4

\* The steps of the driver.
LEMMA DriverPipe ==
  ASSUME TypeOK, Shape, Fifo, BuffersBounded, WindowRespected, [Next]_vars,
         DriverStep
  PROVE  [Pipe!PipeNext]_(Pipe!pipeVars)
<1>0. UNCHANGED <<accepted, confirmed>>
  BY DEF DriverStep, writerVars
<1>1. /\ Forwarded = Transmitted + Len(write_dgrams)
      /\ Transmitted = acked + Len(sent_dgrams)
      /\ Len(write_dgrams) \in Nat /\ Len(sent_dgrams) \in Nat /\ acked \in Nat
  BY DEF Forwarded, Transmitted, TypeOK, DriverTypeOK, SendTypeOK
<1>2. CASE WakeUp
  <2>1. ~Closed /\ ~Closed' /\ Forwarded' = Forwarded
    BY <1>2, ForwardedGrows DEF WakeUp, Closed, Promote, DrainTake
  <2>2. CASE sent_dgrams = <<>>
    <3>1. UNCHANGED <<acked, Transmitted>>
      BY <1>2, <2>2 DEF WakeUp, Transmitted
    <3> QED BY <1>0, <2>1, <3>1 DEF Pipe!pipeVars, Closed
  <2>3. CASE sent_dgrams # <<>>
    <3>1. acked' = acked + 1 /\ Len(sent_dgrams') = Len(sent_dgrams) - 1
          /\ Len(sent_dgrams) # 0
      BY <1>2, <2>3 DEF WakeUp, TypeOK, DriverTypeOK, SendTypeOK
    <3>2. Transmitted' = Transmitted /\ acked < Transmitted
      BY <1>1, <3>1 DEF Transmitted
    <3> QED BY <1>0, <2>1, <3>1, <3>2
      DEF Pipe!PipeNext, Pipe!Acknowledge, Closed
  <2> QED BY <2>2, <2>3
<1>3. CASE Transmit
  <2>1. ~Closed /\ ~Closed' /\ Forwarded' = Forwarded /\ UNCHANGED acked
    BY <1>3, ForwardedGrows DEF Transmit, Closed, Promote, DrainTake
  <2>2. CASE ~Admits
    <3>1. UNCHANGED Transmitted
      BY <1>3, <2>2 DEF Transmit, Transmitted
    <3> QED BY <1>0, <2>1, <3>1 DEF Pipe!pipeVars, Closed
  <2>3. CASE Admits
    <3>1. Len(sent_dgrams') = Len(sent_dgrams) + 1 /\ Len(write_dgrams) # 0
      BY <1>3, <2>3 DEF Transmit, Admits, TypeOK, DriverTypeOK, SendTypeOK
    <3>2. Transmitted' = Transmitted + 1 /\ Transmitted < Forwarded
      BY <1>1, <2>1, <3>1 DEF Transmitted
    <3>3. Head(write_dgrams) = Transmitted + 1
      <4>1. 1 \in DOMAIN write_dgrams /\ Head(write_dgrams) = write_dgrams[1]
        BY <2>3 DEF Admits, TypeOK, DriverTypeOK, SendTypeOK
      <4> QED BY <4>1 DEF Fifo
    <3>4. UpTo(Transmitted + 1) - UpTo(acked) <= InitCwnd
      <4>1. UpTo(Transmitted + 1) - UpTo(Transmitted) <= cwnd
        BY <1>1, <2>3, <3>3, Lengths DEF Admits
      <4>2. cwnd + UpTo(Transmitted) - UpTo(acked) = InitCwnd
        BY DEF WindowRespected
      <4>3. cwnd \in Int /\ InitCwnd \in Nat
        BY DriverAssumption DEF TypeOK, DriverTypeOK, SendTypeOK
      <4>4. UpTo(Transmitted) \in Nat /\ UpTo(Transmitted + 1) \in Nat
            /\ UpTo(acked) \in Nat
        <5>1. Transmitted \in Nat /\ Transmitted + 1 \in Nat /\ acked \in Nat
          BY <1>1
        <5> QED BY <5>1, Lengths
      <4> QED BY <4>1, <4>2, <4>3, <4>4
    <3> QED BY <1>0, <2>1, <3>2, <3>4 DEF Pipe!PipeNext, Pipe!Transmit, Closed
  <2> QED BY <2>2, <2>3
<1>4. CASE Promote \/ DrainTake
  <2>1. ~Closed /\ ~Closed' /\ UNCHANGED <<acked, sent_dgrams>>
    BY <1>4 DEF Promote, DrainTake, PushOrPark, AfterPromote, Closed
  <2>2. UNCHANGED Transmitted
    BY <2>1 DEF Transmitted
  <2>3. CASE Forwarded' = Forwarded
    BY <1>0, <2>1, <2>2, <2>3 DEF Pipe!pipeVars, Closed
  <2>4. CASE Forwarded' # Forwarded
    <3>1. Forwarded' = Forwarded + 1 /\ Forwarded < accepted
      BY <2>4, ForwardedGrows
    <3>2. HasRoom
      <4>1. write_dgrams' # write_dgrams
        BY <2>2, <2>4 DEF Forwarded
      <4> QED BY <1>4, <4>1 DEF Promote, DrainTake, PushOrPark
    <3>3. Forwarded - Transmitted < MaxSendDgrams
      BY <1>1, <3>2, DriverAssumption DEF HasRoom
    <3> QED
      BY <1>0, <2>1, <2>2, <3>1, <3>3 DEF Pipe!PipeNext, Pipe!Forward, Closed
  <2> QED BY <2>3, <2>4
<1>5. CASE ~WakeUp /\ ~Promote /\ ~DrainTake /\ ~Transmit
  <2>1. UNCHANGED <<Forwarded, Transmitted, acked>>
    BY <1>5, QueueSteps DEF sendVars, Forwarded, Transmitted
  <2>2. Closed => Closed'
    BY <1>5
    DEF DriverStep, DriverNext, DriverPass, ReceiveRequest, ReceiveWrite,
        ReceiveReady, ReceiveFlush, Receive, ReceiveNone, DrainEmpty,
        PublishStream, PublishDgram, DropNotifiers, CloseCommands, CloseDgrams,
        Closed
  <2>3. CASE Closed' = Closed
    BY <1>0, <2>1, <2>3 DEF Pipe!pipeVars, Closed
  <2>4. CASE Closed' # Closed
    BY <1>0, <2>1, <2>2, <2>4 DEF Pipe!PipeNext, Pipe!Close, Closed
  <2> QED BY <2>3, <2>4
<1> QED BY <1>2, <1>3, <1>4, <1>5

LEMMA InitPipe == Init => Pipe!PipeInit
BY DEF Init, DriverInit, Pipe!PipeInit, Forwarded, Transmitted

\* The driver, its channels and the writer together implement the pipe, for
\* every instance: what the refinement run shows on one.
THEOREM PipeTheorem ==
  ASSUME MayCancel = FALSE
  PROVE  Spec => PipeSafety
<1> DEFINE IInv == /\ Shape /\ Fifo /\ BuffersBounded /\ WindowRespected
                   /\ Owned /\ Flushed
<1>1. Init => IInv /\ Pipe!PipeInit
  <2> SUFFICES ASSUME Init PROVE IInv /\ Pipe!PipeInit
    OBVIOUS
  <2>1. Shape /\ Fifo /\ BuffersBounded
    BY InitShape, InitFifo, InitBuffers
  <2>2. WindowRespected
    BY InitWindow
  <2>3. Owned /\ Flushed
    BY InitOwned, InitBarrier
  <2> QED BY <2>1, <2>2, <2>3, InitPipe
<1>2. ASSUME TypeOK, IInv, [Next]_vars
      PROVE  IInv' /\ [Pipe!PipeNext]_(Pipe!pipeVars)
  <2>1. Shape' /\ Fifo' /\ BuffersBounded'
    BY <1>2, StepShape, StepFifo, StepBuffers
  <2>2. WindowRespected'
    BY <1>2, StepWindow
  <2>3. Owned'
    BY <1>2, StepOwned, Zenon
  <2>4. Flushed'
    BY <1>2, StepFlushed DEF Owned
  <2>5. [Pipe!PipeNext]_(Pipe!pipeVars)
    BY <1>2, ClientPipe, DriverPipe
  <2> QED BY <2>1, <2>2, <2>3, <2>4, <2>5
<1>3. TypeOK /\ IInv /\ [Next]_vars
      => IInv' /\ [Pipe!PipeNext]_(Pipe!pipeVars)
  BY <1>2
<1> QED
  BY <1>1, <1>3, TypeCorrect, PTL DEF Spec, PipeSafety, Pipe!PipeSpec
=============================================================================
