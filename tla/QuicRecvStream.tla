--------------------------- MODULE QuicRecvStream ---------------------------
(***************************************************************************)
(* QuicRecvStream::poll_read of poll-read/src/main.rs with the channel     *)
(* from which it receives.                                                 *)
(*                                                                         *)
(* The driver publishes a buffer whenever the channel has room.  poll_read *)
(* fills the caller's ReadBuf from the rest of an earlier buffer and then  *)
(* from the channel; what does not fit is kept in local_storage.  Bytes    *)
(* are numbered from 1 in the order of the stream, and a Bytes value is    *)
(* the span of the numbers it holds.  A poll runs without interruption     *)
(* between two calls of poll_recv, the only access to shared state.        *)
(***************************************************************************)
EXTENDS Integers, Sequences

CONSTANTS
  BufLen,      \* length of a published buffer, 1300 in the code
  ReadCap,     \* capacity of the stream read channel, 1 in the code
  Sizes,       \* what a caller's ReadBuf may have remaining
  MayAbandon,  \* a parked read may be dropped, or go on with another ReadBuf
  MaxReads     \* bound on the number of reads

ASSUME RecvAssumption ==
  /\ BufLen \in Nat \ {0}
  /\ ReadCap \in Nat \ {0}
  /\ Sizes \in SUBSET Nat
  /\ MayAbandon \in BOOLEAN
  /\ MaxReads \in Nat

VARIABLES
  open,           \* the driver lives and holds stream_read_sender
  published,      \* number of bytes published (auxiliary)
  receiver,       \* buffers in the channel
  local_storage,  \* the rest of a buffer, NoBytes for None
  begun,          \* bytes handed out before the current read (auxiliary)
  size,           \* what the ReadBuf had remaining when the read began
  filled,         \* spans put into the ReadBuf, in order
  result,         \* how the last read ended, "pending" while one runs
  reads           \* number of reads begun

driverSide == <<open, published>>
callerSide == <<begun, size, filled, result, reads>>
recvVars == <<driverSide, receiver, local_storage, callerSide>>

\* A Bytes value that is not empty.
Bytes == {b \in [first : Nat, last : Nat] : b.first <= b.last}
NoBytes == [first |-> 1, last |-> 0]
Length(bytes) == bytes.last - bytes.first + 1

\* bytes.split_to(len), and what is kept of the rest: nothing if it is empty.
SplitTo(bytes, len) == [bytes EXCEPT !.last = bytes.first + len - 1]
RestEvenEmpty(bytes, len) ==    \* mutant
  [bytes EXCEPT !.first = bytes.first + len]
Rest(bytes, len) ==
  IF len < Length(bytes) THEN [bytes EXCEPT !.first = bytes.first + len]
                         ELSE NoBytes

\* The last byte put into any ReadBuf.
LastPut(from, spans) == IF spans = <<>> THEN from ELSE spans[Len(spans)].last
HandedOut == LastPut(begun, filled)
Remaining == size - (HandedOut - begun)

TypeOK ==
  /\ open \in BOOLEAN
  /\ published \in Nat
  /\ receiver \in Seq(Bytes)
  /\ local_storage \in Bytes \cup {NoBytes}
  /\ begun \in Nat
  /\ size \in Nat
  /\ filled \in Seq(Bytes)
  /\ result \in {"none", "pending", "Ok", "Err", "abandoned"}
  /\ reads \in Nat

Init ==
  /\ open = TRUE
  /\ published = 0
  /\ receiver = <<>>
  /\ local_storage = NoBytes
  /\ begun = 0
  /\ size = 0
  /\ filled = <<>>
  /\ result = "none"
  /\ reads = 0

-----------------------------------------------------------------------------
(* The driver.                                                             *)

RoomForOneMore == Len(receiver) <= ReadCap    \* mutant: off by one
HasRoom == Len(receiver) < ReadCap

\* try_reserve() and send.
Publish ==
  /\ open
  /\ HasRoom
  /\ receiver' = Append(receiver, [first |-> published + 1,
                                   last |-> published + BufLen])
  /\ published' = published + BufLen
  /\ UNCHANGED <<open, local_storage, callerSide>>

Exit ==
  /\ open
  /\ open' = FALSE
  /\ UNCHANGED <<published, receiver, local_storage, callerSide>>

-----------------------------------------------------------------------------
(* poll_read.                                                              *)

Fits(room, bytes) == IF room < Length(bytes) THEN room ELSE Length(bytes)

ForgetRest(bytes, len) == NoBytes    \* mutant: the rest is not kept
Keep(bytes, len) == Rest(bytes, len)

FullEnough(left) == TRUE    \* mutant: a short read is returned
IsFull(left) == left = 0

\* The inner loop over local_storage holding these bytes: the ReadBuf, with
\* these spans in it and this room left, takes what fits.
Fill(spans, room, bytes) ==
  LET len == Fits(room, bytes) IN
  /\ filled' = IF len = 0 THEN spans ELSE Append(spans, SplitTo(bytes, len))
  /\ local_storage' = Keep(bytes, len)
  /\ result' = IF IsFull(room - len) THEN "Ok" ELSE "pending"

\* The first poll of a read with n bytes remaining in its ReadBuf.
StartRead(n) ==
  /\ result # "pending"
  /\ reads < MaxReads
  /\ reads' = reads + 1
  /\ begun' = HandedOut
  /\ size' = n
  /\ Fill(<<>>, n, local_storage)
  /\ UNCHANGED <<driverSide, receiver>>

PollRecv ==
  /\ result = "pending"
  /\ receiver # <<>>
  /\ receiver' = Tail(receiver)
  /\ Fill(filled, Remaining, Head(receiver))
  /\ UNCHANGED <<driverSide, begun, size, reads>>

\* Mutant: poll_recv's None is taken for Pending.
EndIgnored == result = "pending" /\ ~open /\ UNCHANGED recvVars

\* poll_recv gives None: no sender, and the channel is empty.
EndOfStream ==
  /\ result = "pending"
  /\ receiver = <<>>
  /\ ~open
  /\ result' = "Err"
  /\ UNCHANGED <<driverSide, receiver, local_storage, begun, size, filled,
                 reads>>

\* The last poll returned Pending, and the caller does not come back to it.
Abandon ==
  /\ MayAbandon
  /\ result = "pending"
  /\ receiver = <<>>
  /\ open
  /\ result' = "abandoned"
  /\ UNCHANGED <<driverSide, receiver, local_storage, begun, size, filled,
                 reads>>

PollRead == PollRecv \/ EndOfStream

Next ==
  \/ Publish \/ Exit
  \/ \E n \in Sizes : StartRead(n)
  \/ PollRead
  \/ Abandon

\* The driver makes a pass at least every second; a reader that can go on is
\* polled.  Nobody has to read, to abandon a read, or to end the driver.
Fairness == WF_recvVars(Publish) /\ WF_recvVars(PollRead)

Spec == Init /\ [][Next]_recvVars

FairSpec == Spec /\ Fairness

-----------------------------------------------------------------------------
(* Properties.                                                             *)

\* What a ReadBuf was given, what is kept and what is in the channel.
Stored == IF local_storage = NoBytes THEN <<>> ELSE <<local_storage>>
Chain == filled \o Stored \o receiver

\* The spans follow each other without a gap or an overlap, from the byte after
\* the last read to the last byte published: whatever the sizes of the buffers
\* on the two sides, no byte is lost, repeated or out of order (lines 37-60).
Contiguous ==
  /\ \A i \in DOMAIN Chain :
       Chain[i].first = LastPut(begun, SubSeq(Chain, 1, i - 1)) + 1
  /\ LastPut(begun, Chain) = published

\* A read waits for the channel only when nothing is left over from an earlier
\* one, so at most the channel and the rest of one buffer wait for the reader
\* (lines 38-50).
Backpressure ==
  /\ result = "pending" => local_storage = NoBytes
  /\ published - HandedOut < ReadCap * BufLen + BufLen

\* A read that was begun returns: with its ReadBuf full while the driver lives,
\* with an error once it has ended (lines 37-62).
ReadReturns == result = "pending" ~> result # "pending"

\* Successful reads give exactly the bytes asked for; what happens to the bytes
\* of other reads is stated there.
Reader == INSTANCE ByteReader WITH
  written <- published,
  ended <- ~open,
  asked <- size,
  used <- IF result = "pending" THEN begun ELSE HandedOut,
  answer <- result

ReadsExactly == Reader!ReaderSpec
=============================================================================
