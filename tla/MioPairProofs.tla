---------------------------- MODULE MioPairProofs ----------------------------
(***************************************************************************)
(* Proofs about the pair programs, for a channel of any size and threads   *)
(* that may return.                                                        *)
(***************************************************************************)
EXTENDS MioPair, TLAPS

\* A sender of datagrams never sees WouldBlock, so it leaves poll once, if it
\* ever enters it, and has its first edge until then.
DatagramsNeverSleep == program \in Datagrams /\ sender = "poll" => writable

\* tokio keeps the readiness while a receive is tried.
TokioReady == program = "TokioUdp" /\ receiver = "recv" => readable

PairInv ==
  TypeOK /\ NoLostEdge /\ SenderWoken /\ DatagramsNeverSleep /\ TokioReady

LEMMA Capacity == ChanCap \in Nat /\ ChanCap > 0
BY PairAssumption DEF PairAssumption

LEMMA PairInit == Init => PairInv
<1> SUFFICES ASSUME Init PROVE PairInv
  OBVIOUS
<1>1. queued \in 0..ChanCap
  BY Capacity DEF Init
<1>2. receiver \in {"unbound", "bound", "poll", "recv", "returned"}
  BY DEF Init
<1>3. TypeOK
  BY <1>1, <1>2 DEF Init, TypeOK
<1>4. QED
  BY <1>3 DEF Init, PairInv, NoLostEdge, SenderWoken, DatagramsNeverSleep,
     TokioReady

\* The receiver's system calls.
LEMMA ReceiverKeeps ==
  ASSUME PairInv, ReceiverStep \/ RecvSpins \/ ReceiverStops
  PROVE  PairInv'
<1> USE Capacity DEF PairInv, TypeOK, NoLostEdge, SenderWoken,
      DatagramsNeverSleep, TokioReady, Datagrams, Polling
<1>1. CASE ReceiverBind
  BY <1>1 DEF ReceiverBind, HasRoom
<1>2. CASE ReceiverRegister
  BY <1>2 DEF ReceiverRegister, HasRoom
<1>3. CASE ReceiverPoll
  BY <1>3 DEF ReceiverPoll, IsReadable, HasRoom
<1>4. CASE Recv
  <2>1. receiver = "recv" /\ receiver' \in {"recv", "poll"}
    BY <1>4 DEF Recv, RecvBytes, RecvDatagram, RecvMsgDatagram, TokioRecv
  <2>2. \E n \in 1..queued : Take(n)
    BY <1>4 DEF Recv, RecvBytes, RecvDatagram, RecvMsgDatagram, TokioRecv
  <2>3. PICK n \in 1..queued : Take(n)
    BY <2>2
  <2>4. queued' \in 0..ChanCap
    BY <2>3 DEF Take
  \* A full channel gets room: the sender, if it sleeps, is told.
  <2>5. sender = "poll" => writable'
    BY <2>3 DEF Take, HasRoom
  <2>6. writable' \in BOOLEAN
    BY <2>3, Zenon DEF Take
  <2>7. program' = program /\ sender' = sender /\ readable' = readable
    BY <2>3 DEF Take
  \* Only tokio goes back to sleep here, with the readiness it has.
  <2>8. receiver' = "poll" => program = "TokioUdp"
    BY <1>4, <2>1 DEF Recv, RecvBytes, RecvDatagram, RecvMsgDatagram,
                      TokioRecv
  <2>9. TypeOK'
    <3>1. readable' \in BOOLEAN /\ writable' \in BOOLEAN
      BY <2>6, <2>7, Zenon
    <3>2. QED
      BY <2>1, <2>4, <2>7, <3>1
  <2>10. NoLostEdge' /\ TokioReady'
    BY <2>1, <2>7, <2>8
  <2>11. SenderWoken' /\ DatagramsNeverSleep'
    BY <2>5, <2>7, Zenon
  <2>12. QED
    BY <2>9, <2>10, <2>11
<1>5. CASE RecvBlocks
  BY <1>5 DEF RecvBlocks, HasRoom
<1>6. CASE TokioRecvBlocks
  <2>1. /\ program' = program /\ sender' = sender /\ queued' = queued
        /\ writable' = writable /\ queued = 0
        /\ readable' = FALSE /\ receiver' = "poll"
    BY <1>6 DEF TokioRecvBlocks
  <2>2. queued' \in 0..ChanCap /\ ~(queued' > 0)
    BY <2>1
  <2>3. writable' \in BOOLEAN /\ readable' \in BOOLEAN
    BY <2>1, Zenon
  <2>4. TypeOK'
    BY <2>1, <2>2, <2>3
  <2>5. NoLostEdge' /\ TokioReady'
    BY <2>1, <2>2
  <2>6. DatagramsNeverSleep' /\ SenderWoken'
    BY <2>1, Zenon DEF HasRoom
  <2>7. QED
    BY <2>4, <2>5, <2>6
<1>7. CASE TokioReadable
  BY <1>7 DEF TokioReadable, HasRoom
<1>8. CASE RecvSpins
  BY <1>8 DEF RecvSpins, pairVars, HasRoom
<1>9. CASE ReceiverStops
  <2>1. CASE program = "UnixPipe"
    BY <1>9, <2>1 DEF ReceiverStops, HasRoom
  \* The units dropped with a socket make room: the sender of UnixStream is
  \* told, those of datagrams do not sleep.
  <2>2. CASE program # "UnixPipe"
    <3>1. queued' = 0 /\ HasRoom'
      BY <1>9, <2>2 DEF ReceiverStops, HasRoom
    <3>2. sender' = "poll" => writable'
      <4>1. CASE program \in Datagrams
        BY <1>9, <4>1 DEF ReceiverStops
      <4>2. CASE program = "UnixStream"
        BY <1>9, <4>2 DEF ReceiverStops, ReaderGoneReported
      <4>3. QED
        BY <2>2, <4>1, <4>2
    <3>3. TypeOK'
      <4>1. queued' \in 0..ChanCap
        BY <3>1
      <4>2. writable' \in BOOLEAN
        BY <1>9, Zenon DEF ReceiverStops
      <4>3. readable' \in BOOLEAN
        BY <1>9 DEF ReceiverStops
      <4>4. QED
        BY <1>9, <4>1, <4>2, <4>3 DEF ReceiverStops
    <3>4. QED
      BY <1>9, <3>1, <3>2, <3>3 DEF ReceiverStops
  <2>3. QED
    BY <2>1, <2>2
<1>10. QED
  BY <1>1, <1>2, <1>3, <1>4, <1>5, <1>6, <1>7, <1>8, <1>9 DEF ReceiverStep

\* The sender's system calls.
LEMMA SenderKeeps ==
  ASSUME PairInv, SenderStep \/ SendInVain \/ SenderStops \/ RecvMsgSendFails
  PROVE  PairInv'
<1> USE Capacity DEF PairInv, TypeOK, NoLostEdge, SenderWoken,
      DatagramsNeverSleep, TokioReady, Datagrams, Polling, HasRoom
<1>1. CASE SenderRegister
  BY <1>1 DEF SenderRegister
<1>2. CASE SenderPoll
  BY <1>2 DEF SenderPoll
<1>3. CASE SendUnit
  <2>1. queued' \in 0..ChanCap
    BY <1>3 DEF SendUnit
  <2>2. receiver' = "poll" => readable'
    BY <1>3 DEF SendUnit
  <2>3. readable' \in BOOLEAN
    BY <1>3 DEF SendUnit
  <2>4. sender' # "poll"
    BY <1>3 DEF SendUnit
  <2>5. QED
    BY <1>3, <2>1, <2>2, <2>3, <2>4 DEF SendUnit
<1>4. CASE SendBlocks
  BY <1>4 DEF SendBlocks
<1>5. CASE SendInVain
  BY <1>5 DEF SendInVain, pairVars
<1>6. CASE SenderStops
  BY <1>6 DEF SenderStops
<1>7. CASE RecvMsgSendFails
  BY <1>7 DEF RecvMsgSendFails
<1>8. CASE TokioSenderStart \/ RecvMsgSenderStart
  BY <1>8 DEF TokioSenderStart, RecvMsgSenderStart
<1>9. QED
  BY <1>1, <1>2, <1>3, <1>4, <1>5, <1>6, <1>7, <1>8 DEF SenderStep, SenderStart

\* The invariant that the three properties need, in every behaviour.
THEOREM PairInvariant == Spec => []PairInv
<1>1. PairInv /\ UNCHANGED pairVars => PairInv'
  BY DEF PairInv, TypeOK, NoLostEdge, SenderWoken, DatagramsNeverSleep,
         TokioReady, HasRoom, pairVars
<1>2. PairInv /\ [Next]_pairVars => PairInv'
  BY <1>1, ReceiverKeeps, SenderKeeps DEF Next
<1>3. QED
  BY PairInit, <1>2, PTL DEF Spec

\* Every reachable state is well typed.
THEOREM PairTypeTheorem == Spec => []TypeOK
BY PairInvariant, PTL DEF PairInv

\* A receiver that goes to sleep with something in the channel has an edge to
\* come: the recv loop never ends too early (mio-UnixStream lines 20-42).
THEOREM NoLostEdgeTheorem == Spec => []NoLostEdge
BY PairInvariant, PTL DEF PairInv

\* A sender that sleeps has an edge to come, or the channel is full: the send
\* loop never ends too early (mio-UnixPipe lines 59-83).
THEOREM SenderWokenTheorem == Spec => []SenderWoken
BY PairInvariant, PTL DEF PairInv
=============================================================================
