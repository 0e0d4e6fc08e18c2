--------------------------- MODULE TransferFdProofs ---------------------------
(***************************************************************************)
(* Proofs about transfer-fd, for any senders, pipes and queues, with       *)
(* processes that may be killed.                                           *)
(***************************************************************************)
EXTENDS TransferFd, TLAPS

\* A receiver that has taken a message has its sender's read end, until it ends.
HasReceived ==
  /\ receiver \in {"received", "reading", "done"} => received \in Senders
  /\ receiver \in {"received", "reading"} => "receiver" \in holders[received]

\* While the receiver's socket is there, the read end of a sender that has sent
\* its message is in the message or with the receiver; nobody has sent anything
\* before there was a socket.
Carried ==
  /\ SocketOpen =>
       \A s \in Senders : sender[s] \in {"sent", "writing"} =>
         "message" \in holders[s] \/ "receiver" \in holders[s]
  /\ receiver = "start" =>
       \A s \in Senders : sender[s] \in {"start", "killed"}

\* Whose message is in the queue, or was taken, has started.
Started ==
  /\ \A i \in DOMAIN queue : sender[queue[i]] # "start"
  /\ received \in Senders => sender[received] # "start"

-----------------------------------------------------------------------------
(* Types.                                                                  *)

LEMMA InitType == Init => TypeOK
BY TransferAssumption DEF Init, TypeOK

\* The queue after a message has come, and after one has been taken.
LEMMA QueueFacts ==
  ASSUME TypeOK
  PROVE  /\ \A s \in Senders : Len(queue) < QueueCap =>
              /\ Append(queue, s) \in Seq(Senders)
              /\ Len(Append(queue, s)) <= QueueCap
         /\ queue # <<>> =>
              /\ Head(queue) \in Senders
              /\ Tail(queue) \in Seq(Senders)
              /\ Len(Tail(queue)) <= QueueCap
         /\ <<>> \in Seq(Senders) /\ Len(<<>>) <= QueueCap
BY TransferAssumption DEF TypeOK

LEMMA SenderType ==
  ASSUME TypeOK, NEW s \in Senders, SenderStep(s) \/ KillSender(s)
  PROVE  TypeOK'
<1>1. ASSUME NEW how \in {"refused", "broken", "killed"}, SenderEnds(s, how)
      PROVE  TypeOK'
  BY <1>1 DEF SenderEnds, TypeOK
<1>2. CASE Connect(s)
  BY <1>2 DEF Connect, TypeOK
<1>3. CASE Refused(s) \/ WriteFails(s) \/ KillSender(s)
  BY <1>1, <1>3 DEF Refused, WriteFails, KillSender
<1>4. CASE SendMsg(s)
  BY <1>4, QueueFacts DEF SendMsg, TypeOK
<1>5. CASE Close(s)
  BY <1>5 DEF Close, ReadEndClosed, TypeOK
<1>6. CASE Write(s)
  <2>1. pipe[s] + 1 \in 0..PipeCap
    BY <1>6, TransferAssumption DEF Write, TypeOK
  <2> QED BY <1>6, <2>1 DEF Write, TypeOK
<1> QED
  BY <1>2, <1>3, <1>4, <1>5, <1>6 DEF SenderStep

LEMMA ReceiverType ==
  ASSUME TypeOK, HasReceived, ReceiverStep \/ KillReceiver
  PROVE  TypeOK'
<1>1. ASSUME NEW how \in {"done", "killed"}, ReceiverEnds(how)
      PROVE  TypeOK'
  BY <1>1, QueueFacts DEF ReceiverEnds, TypeOK
<1>2. CASE Bind
  BY <1>2 DEF Bind, TypeOK
<1>3. CASE RecvMsg
  BY <1>3, QueueFacts DEF RecvMsg, TypeOK
<1>4. CASE DropSocket
  BY <1>4, QueueFacts DEF DropSocket, TypeOK
<1>5. CASE Read
  <2>1. received \in Senders
    BY <1>5 DEF Read, HasReceived
  <2>2. PICK n \in 1..pipe[received] :
          pipe' = [pipe EXCEPT ![received] = @ - n]
    BY <1>5 DEF Read
  <2>3. pipe[received] - n \in 0..PipeCap
    BY <2>1, <2>2, TransferAssumption DEF TypeOK
  <2> QED BY <1>5, <2>1, <2>2, <2>3 DEF Read, TypeOK
<1>6. CASE ReadEnd \/ KillReceiver
  BY <1>1, <1>6 DEF ReadEnd, KillReceiver
<1> QED
  BY <1>2, <1>3, <1>4, <1>5, <1>6 DEF ReceiverStep

LEMMA StepType ==
  ASSUME TypeOK, HasReceived, [Next]_transferVars
  PROVE  TypeOK'
<1>1. CASE UNCHANGED transferVars
  BY <1>1 DEF transferVars, TypeOK
<1> QED
  BY <1>1, SenderType, ReceiverType DEF Next

-----------------------------------------------------------------------------
(* Who holds the read ends.                                                *)

LEMMA StepStarted ==
  ASSUME TypeOK, Started, [Next]_transferVars
  PROVE  Started'
<1>1. CASE UNCHANGED transferVars
  BY <1>1 DEF transferVars, Started
<1>2. ASSUME NEW s \in Senders, SenderStep(s) \/ KillSender(s)
      PROVE  Started'
  <2>1. UNCHANGED received
    BY <1>2 DEF SenderStep, Connect, Refused, SendMsg, Close, Write,
                WriteFails, KillSender, SenderEnds
  <2>2. \A t \in Senders : sender[t] # "start" => sender'[t] # "start"
    BY <1>2 DEF SenderStep, Connect, Refused, SendMsg, Close, Write,
                WriteFails, KillSender, SenderEnds, TypeOK
  <2>3. CASE UNCHANGED queue
    BY <2>1, <2>2, <2>3 DEF Started, TypeOK
  <2>4. CASE SendMsg(s)
    <3>1. queue' = Append(queue, s) /\ sender'[s] = "sent"
      BY <2>4 DEF SendMsg, TypeOK
    <3>2. \A i \in DOMAIN queue' :
            queue'[i] = s \/ (i \in DOMAIN queue /\ queue'[i] = queue[i])
      BY <3>1 DEF TypeOK
    <3> QED BY <2>1, <2>2, <3>1, <3>2 DEF Started, TypeOK
  <2> QED
    BY <1>2, <2>3, <2>4 DEF SenderStep, Connect, Refused, Close, Write,
                            WriteFails, KillSender, SenderEnds
<1>3. ASSUME UNCHANGED <<sender, received>>, queue' \in {queue, <<>>}
      PROVE  Started'
  BY <1>3 DEF Started
<1>4. CASE RecvMsg
  <2>1. /\ queue' = Tail(queue) /\ received' = Head(queue)
        /\ queue # <<>> /\ UNCHANGED sender
    BY <1>4 DEF RecvMsg
  <2>2. /\ \A i \in DOMAIN queue' :
             i + 1 \in DOMAIN queue /\ queue'[i] = queue[i + 1]
        /\ 1 \in DOMAIN queue /\ received' = queue[1]
    BY <2>1 DEF TypeOK
  <2> QED BY <2>1, <2>2 DEF Started
<1>5. CASE Bind \/ DropSocket \/ Read \/ ReadEnd \/ KillReceiver
  BY <1>3, <1>5
  DEF Bind, DropSocket, Read, ReadEnd, KillReceiver, ReceiverEnds
<1> QED
  BY <1>1, <1>2, <1>4, <1>5 DEF Next, ReceiverStep

LEMMA StepHasReceived ==
  ASSUME TypeOK, HasReceived, Started, [Next]_transferVars
  PROVE  HasReceived'
<1>1. CASE UNCHANGED transferVars
  BY <1>1 DEF transferVars, HasReceived
<1>2. ASSUME NEW s \in Senders, SenderStep(s) \/ KillSender(s)
      PROVE  HasReceived'
  <2>1. UNCHANGED <<receiver, received>>
    BY <1>2 DEF SenderStep, Connect, Refused, SendMsg, Close, Write,
                WriteFails, KillSender, SenderEnds
  <2>2. \A t \in Senders : "receiver" \in holders[t] =>
          "receiver" \in holders'[t] \/ (t = s /\ Connect(s))
    BY <1>2 DEF SenderStep, Connect, Refused, SendMsg, Close, ReadEndClosed,
                Write, WriteFails, KillSender, SenderEnds, TypeOK
  <2>3. received = s /\ received \in Senders => ~Connect(s)
    BY DEF Started, Connect
  <2> QED BY <2>1, <2>2, <2>3 DEF HasReceived
<1>3. CASE Bind
  BY <1>3 DEF Bind, HasReceived
<1>4. CASE RecvMsg
  BY <1>4, QueueFacts DEF RecvMsg, HasReceived, TypeOK
<1>5. CASE DropSocket
  BY <1>5 DEF DropSocket, HasReceived
<1>6. CASE Read
  BY <1>6 DEF Read, HasReceived
<1>7. CASE ReadEnd
  BY <1>7 DEF ReadEnd, ReceiverEnds, HasReceived
<1>8. CASE KillReceiver
  BY <1>8 DEF KillReceiver, ReceiverEnds, HasReceived
<1> QED
  BY <1>1, <1>2, <1>3, <1>4, <1>5, <1>6, <1>7, <1>8 DEF Next, ReceiverStep

LEMMA StepCarried ==
  ASSUME TypeOK, Carried, [Next]_transferVars
  PROVE  Carried'
<1>1. CASE UNCHANGED transferVars
  BY <1>1 DEF transferVars, Carried, SocketOpen
<1>2. ASSUME NEW s \in Senders, SenderStep(s) \/ KillSender(s)
      PROVE  Carried'
  <2>1. UNCHANGED receiver
    BY <1>2 DEF SenderStep, Connect, Refused, SendMsg, Close, Write,
                WriteFails, KillSender, SenderEnds
  <2>2. ASSUME SocketOpen, NEW t \in Senders,
               sender'[t] \in {"sent", "writing"}
        PROVE  "message" \in holders'[t] \/ "receiver" \in holders'[t]
    BY <1>2, <2>2
    DEF SenderStep, Connect, Refused, SendMsg, Close, ReadEndClosed, Write,
        WriteFails, KillSender, SenderEnds, Carried, TypeOK
  <2>3. ASSUME receiver = "start", NEW t \in Senders
        PROVE  sender'[t] \in {"start", "killed"}
    BY <1>2, <2>3
    DEF SenderStep, Connect, Refused, SendMsg, Close, Write, WriteFails,
        KillSender, SenderEnds, Carried, SocketOpen, TypeOK
  <2> QED BY <2>1, <2>2, <2>3 DEF Carried, SocketOpen
<1>3. CASE Bind
  BY <1>3 DEF Bind, Carried, SocketOpen
<1>4. CASE RecvMsg
  <2>1. Head(queue) \in Senders
    BY <1>4, QueueFacts DEF RecvMsg
  <2> QED BY <1>4, <2>1 DEF RecvMsg, Carried, SocketOpen, TypeOK
<1>5. CASE DropSocket \/ Read \/ ReadEnd \/ KillReceiver
  BY <1>5
  DEF DropSocket, Read, ReadEnd, KillReceiver, ReceiverEnds, Carried,
      SocketOpen
<1> QED
  BY <1>1, <1>2, <1>3, <1>4, <1>5 DEF Next, ReceiverStep

-----------------------------------------------------------------------------
(* What a writer is told.                                                  *)

\* A write that fails finds no holder: the socket is gone (Carried) and the
\* receiver does not read from this sender (HasReceived).
LEMMA StepBroken ==
  ASSUME TypeOK, HasReceived, Carried, BrokenMeansUnread,
         [Next]_transferVars
  PROVE  BrokenMeansUnread'
<1>1. CASE UNCHANGED transferVars
  BY <1>1 DEF transferVars, BrokenMeansUnread, SocketOpen
<1>2. ASSUME NEW s \in Senders, SenderStep(s) \/ KillSender(s)
      PROVE  BrokenMeansUnread'
  <2>1. UNCHANGED <<receiver, received>>
    BY <1>2 DEF SenderStep, Connect, Refused, SendMsg, Close, Write,
                WriteFails, KillSender, SenderEnds
  <2>2. ASSUME NEW t \in Senders, sender'[t] = "broken"
        PROVE  sender[t] = "broken" \/ (t = s /\ WriteFails(s))
    <3>1. CASE Connect(s) \/ SendMsg(s) \/ Close(s) \/ Write(s)
      BY <2>2, <3>1 DEF Connect, SendMsg, Close, Write, TypeOK
    <3>2. CASE Refused(s) \/ KillSender(s)
      BY <2>2, <3>2 DEF Refused, KillSender, SenderEnds, TypeOK
    <3>3. CASE WriteFails(s)
      BY <2>2, <3>3 DEF WriteFails, SenderEnds, TypeOK
    <3> QED BY <1>2, <3>1, <3>2, <3>3 DEF SenderStep
  <2>3. WriteFails(s) =>
          ~SocketOpen /\ (received = s => receiver # "reading")
    BY DEF WriteFails, Carried, HasReceived
  <2> QED BY <2>1, <2>2, <2>3 DEF BrokenMeansUnread, SocketOpen
<1>3. CASE Bind
  BY <1>3 DEF Bind, BrokenMeansUnread, Carried, SocketOpen
<1>4. CASE RecvMsg
  BY <1>4 DEF RecvMsg, BrokenMeansUnread, SocketOpen
<1>5. CASE DropSocket
  BY <1>5 DEF DropSocket, BrokenMeansUnread, SocketOpen
<1>6. CASE Read
  BY <1>6 DEF Read, BrokenMeansUnread, SocketOpen
<1>7. CASE ReadEnd \/ KillReceiver
  BY <1>7 DEF ReadEnd, KillReceiver, ReceiverEnds, BrokenMeansUnread,
              SocketOpen
<1> QED
  BY <1>1, <1>2, <1>3, <1>4, <1>5, <1>6, <1>7 DEF Next, ReceiverStep

-----------------------------------------------------------------------------
(* The theorems.                                                           *)

\* All of it, as one inductive invariant.
TransferInv ==
  /\ TypeOK /\ HasReceived /\ Started /\ Carried /\ BrokenMeansUnread

LEMMA InitTransfer == Init => TransferInv
<1> SUFFICES ASSUME Init PROVE TransferInv
  OBVIOUS
<1>1. HasReceived /\ Started /\ Carried
  BY TransferAssumption DEF Init, HasReceived, Started, Carried, SocketOpen
<1>2. BrokenMeansUnread
  BY DEF Init, BrokenMeansUnread
<1> QED BY <1>1, <1>2, InitType DEF TransferInv

LEMMA StepTransfer == TransferInv /\ [Next]_transferVars => TransferInv'
<1> SUFFICES ASSUME TransferInv, [Next]_transferVars PROVE TransferInv'
  OBVIOUS
<1>1. TypeOK' /\ HasReceived' /\ Started' /\ Carried'
  BY StepType, StepHasReceived, StepStarted, StepCarried DEF TransferInv
<1>2. BrokenMeansUnread'
  BY StepBroken DEF TransferInv
<1> QED BY <1>1, <1>2 DEF TransferInv

\* A sender is told that its pipe is broken only when its read end is gone for
\* good: no descriptor is lost on its way.
THEOREM BrokenTheorem == Spec => []BrokenMeansUnread
<1>1. TransferInv => BrokenMeansUnread
  BY DEF TransferInv
<1> QED
  BY <1>1, InitTransfer, StepTransfer, PTL DEF Spec
=============================================================================
