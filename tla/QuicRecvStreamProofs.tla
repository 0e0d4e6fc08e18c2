------------------------ MODULE QuicRecvStreamProofs ------------------------
(***************************************************************************)
(* Proofs about QuicRecvStream, for buffers, channels and ReadBufs of any  *)
(* size: types, the order of the bytes, backpressure, and that it is a     *)
(* ByteReader.                                                             *)
(***************************************************************************)
EXTENDS QuicRecvStream, SequenceTheorems, TLAPS

\* The last byte that was taken out of the channel.
Taken == published - Len(receiver) * BufLen

\* The channel holds the buffers after that byte, one after the other.
InChannel ==
  /\ Len(receiver) <= ReadCap
  /\ Taken \in Nat
  /\ \A i \in 1..Len(receiver) :
       receiver[i] = [first |-> Taken + (i - 1) * BufLen + 1,
                      last |-> Taken + i * BufLen]

\* What is kept of a buffer lies between the bytes handed out and the channel.
InStorage ==
  IF local_storage = NoBytes
  THEN HandedOut = Taken
  ELSE /\ local_storage.first = HandedOut + 1
       /\ local_storage.last = Taken
       /\ Length(local_storage) < BufLen

\* These spans follow the byte from, one after the other.
Follow(from, spans) ==
  \A i \in 1..Len(spans) :
    spans[i].first = (IF i = 1 THEN from ELSE spans[i - 1].last) + 1

InReadBuf ==
  /\ Follow(begun, filled)
  /\ begun <= HandedOut
  /\ HandedOut <= begun + size

\* A read goes on only with nothing kept and with room left.
Waits == result = "pending" => local_storage = NoBytes /\ Remaining > 0

RecvInv == TypeOK /\ InChannel /\ InStorage /\ InReadBuf /\ Waits

-----------------------------------------------------------------------------
(* The operators of poll_read.                                             *)

LEMMA LastPutNat ==
  ASSUME NEW from \in Nat, NEW spans \in Seq(Bytes)
  PROVE  LastPut(from, spans) \in Nat
<1>1. CASE spans = <<>>
  BY <1>1 DEF LastPut
<1>2. CASE spans # <<>>
  <2>1. spans[Len(spans)] \in Bytes
    BY <1>2, EmptySeq, ElementOfSeq
  <2> QED BY <1>2, <2>1 DEF LastPut, Bytes
<1> QED BY <1>1, <1>2

\* Appending the next bytes.
LEMMA AppendFollows ==
  ASSUME NEW from \in Nat, NEW spans \in Seq(Bytes), Follow(from, spans),
         NEW b \in Bytes, b.first = LastPut(from, spans) + 1
  PROVE  /\ Append(spans, b) \in Seq(Bytes)
         /\ Follow(from, Append(spans, b))
         /\ LastPut(from, Append(spans, b)) = b.last
<1> DEFINE longer == Append(spans, b)
<1>1. /\ longer \in Seq(Bytes)
      /\ Len(longer) = Len(spans) + 1
      /\ longer[Len(spans) + 1] = b
      /\ \A i \in 1..Len(spans) : longer[i] = spans[i]
      /\ Len(spans) \in Nat
      /\ Len(spans) = 0 <=> spans = <<>>
  OBVIOUS
<1>2. longer # <<>>
  BY <1>1
<1>3. ASSUME NEW i \in 1..Len(longer)
      PROVE  longer[i].first = (IF i = 1 THEN from ELSE longer[i - 1].last) + 1
  <2>1. CASE i \in 1..Len(spans)
    <3>1. i # 1 => i - 1 \in 1..Len(spans)
      BY <2>1
    <3> QED BY <1>1, <2>1, <3>1 DEF Follow
  <2>2. CASE i = Len(spans) + 1
    <3>1. i # 1 => i - 1 = Len(spans) /\ i - 1 \in 1..Len(spans)
      BY <2>2, <1>1
    <3> QED BY <1>1, <2>2, <3>1 DEF LastPut
  <2> QED BY <1>1, <2>1, <2>2
<1> HIDE DEF longer
<1>4. Follow(from, longer) /\ LastPut(from, longer) = b.last
  BY <1>1, <1>2, <1>3 DEF Follow, LastPut
<1> QED BY <1>1, <1>4 DEF longer

\* A ReadBuf, whose spans follow the byte from, goes on after the byte at and
\* takes what there is room for; the rest is kept.
TakesNext(from, at, room, bytes) ==
  /\ filled' \in Seq(Bytes)
  /\ Follow(from, filled')
  /\ LastPut(from, filled') = at + Fits(room, bytes)
  /\ local_storage' \in Bytes \cup {NoBytes}
  /\ room < Length(bytes) =>
       /\ local_storage' # NoBytes
       /\ local_storage'.first = at + room + 1
       /\ local_storage'.last = bytes.last
  /\ room >= Length(bytes) => local_storage' = NoBytes
  /\ result' = IF room = Fits(room, bytes) THEN "Ok" ELSE "pending"

\* What a ReadBuf takes of the bytes that come next, and what is kept of them.
LEMMA FillFacts ==
  ASSUME NEW from \in Nat, NEW spans \in Seq(Bytes), Follow(from, spans),
         NEW room \in Nat, NEW bytes \in Bytes \cup {NoBytes},
         bytes # NoBytes => bytes.first = LastPut(from, spans) + 1,
         Fill(spans, room, bytes)
  PROVE  TakesNext(from, LastPut(from, spans), room, bytes)
<1> DEFINE len == Fits(room, bytes)
           at == LastPut(from, spans)
<1>1. at \in Nat
  BY LastPutNat
<1>2. /\ bytes.first \in Nat /\ bytes.last \in Nat
      /\ Length(bytes) \in Nat
      /\ bytes # NoBytes => Length(bytes) > 0
      /\ bytes = NoBytes => Length(bytes) = 0
  BY DEF Bytes, NoBytes, Length
<1>3. /\ len \in Nat /\ len <= room /\ len <= Length(bytes)
      /\ room < Length(bytes) => len = room
      /\ room >= Length(bytes) => len = Length(bytes)
  BY <1>2 DEF Fits
<1>4. /\ filled' \in Seq(Bytes)
      /\ Follow(from, filled')
      /\ LastPut(from, filled') = at + len
  <2>1. CASE len = 0
    BY <2>1, <1>1 DEF Fill
  <2>2. CASE len # 0
    <3>1. bytes # NoBytes
      BY <2>2, <1>2, <1>3
    <3>2. /\ SplitTo(bytes, len) \in Bytes
          /\ SplitTo(bytes, len).first = at + 1
          /\ SplitTo(bytes, len).last = at + len
      BY <3>1, <2>2, <1>1, <1>3 DEF SplitTo, Bytes
    <3>3. filled' = Append(spans, SplitTo(bytes, len))
      BY <2>2 DEF Fill
    <3> QED BY <3>2, <3>3, AppendFollows
  <2> QED BY <2>1, <2>2
<1>5. local_storage' = Rest(bytes, len)
  BY DEF Fill, Keep
<1>6. CASE room < Length(bytes)
  <2>1. bytes \in Bytes /\ bytes.first = at + 1
    BY <1>2, <1>6
  <2>2. local_storage' = [first |-> at + 1 + room, last |-> bytes.last]
    BY <1>3, <1>5, <1>6, <2>1 DEF Rest, Bytes
  <2>3. at + 1 + room <= bytes.last /\ at + 1 + room \in Nat
    BY <1>1, <1>2, <1>6, <2>1 DEF Length
  <2>4. local_storage' \in Bytes /\ local_storage' # NoBytes
    BY <1>2, <2>2, <2>3 DEF Bytes, NoBytes
  <2>5. /\ local_storage'.first = at + room + 1
        /\ local_storage'.last = bytes.last
    BY <2>2, <1>1
  <2>6. result' = IF room = len THEN "Ok" ELSE "pending"
    BY <1>3 DEF Fill, IsFull
  <2> QED BY <1>4, <1>6, <1>2, <2>4, <2>5, <2>6 DEF TakesNext
<1>7. CASE room >= Length(bytes)
  <2>1. local_storage' = NoBytes
    BY <1>2, <1>3, <1>5, <1>7 DEF Rest
  <2>2. result' = IF room = len THEN "Ok" ELSE "pending"
    BY <1>3 DEF Fill, IsFull
  <2> QED BY <1>4, <1>7, <1>2, <2>1, <2>2 DEF TakesNext
<1> QED BY <1>2, <1>6, <1>7

-----------------------------------------------------------------------------
(* Types and the places of the bytes.                                      *)

\* Where n buffers more end.
LEMMA Times ==
  /\ \A n \in Nat : n * BufLen \in Nat
  /\ \A n \in Int : (n + 1) * BufLen = n * BufLen + BufLen
  /\ \A m, n \in Nat : m <= n => m * BufLen <= n * BufLen
  /\ 0 * BufLen = 0 /\ 1 * BufLen = BufLen
  /\ BufLen \in Nat /\ BufLen > 0
<1>1. BufLen \in Nat /\ BufLen > 0
  BY RecvAssumption
<1>2. ASSUME NEW m \in Nat, NEW n \in Nat, m <= n
      PROVE  m * BufLen <= n * BufLen
  <2>1. PICK k \in Nat : n = m + k
    BY <1>2
  <2>2. n * BufLen = m * BufLen + k * BufLen /\ k * BufLen \in Nat
    BY <2>1, <1>1
  <2> QED BY <1>1, <2>2
<1> QED BY <1>1, <1>2

LEMMA InitInv == Init => RecvInv
<1> SUFFICES ASSUME Init PROVE RecvInv
  OBVIOUS
<1>1. TypeOK
  BY DEF Init, TypeOK
<1>2. Taken = 0
  BY Times DEF Init, Taken
<1>3. InChannel
  BY <1>2, RecvAssumption DEF Init, InChannel
<1>4. HandedOut = 0
  BY DEF Init, HandedOut, LastPut
<1>5. InStorage
  BY <1>2, <1>4 DEF Init, InStorage
<1>6. InReadBuf /\ Waits
  BY <1>4 DEF Init, InReadBuf, Waits, Follow
<1> QED BY <1>1, <1>3, <1>5, <1>6 DEF RecvInv

LEMMA HandedOutNat == TypeOK => HandedOut \in Nat
BY LastPutNat DEF TypeOK, HandedOut

LEMMA PlacesNat ==
  ASSUME RecvInv
  PROVE  /\ TypeOK /\ HandedOut \in Nat /\ Taken \in Nat
         /\ begun \in Nat /\ size \in Nat /\ published \in Nat
         /\ filled \in Seq(Bytes) /\ receiver \in Seq(Bytes)
         /\ local_storage \in Bytes \cup {NoBytes}
         /\ Len(receiver) \in Nat /\ Len(receiver) <= ReadCap
<1>1. TypeOK
  BY DEF RecvInv
<1>2. Taken \in Nat /\ Len(receiver) <= ReadCap
  BY DEF RecvInv, InChannel
<1>3. HandedOut \in Nat
  BY <1>1, HandedOutNat
<1> QED BY <1>1, <1>2, <1>3 DEF TypeOK

LEMMA PublishInv ==
  ASSUME RecvInv, Publish
  PROVE  RecvInv'
<1> DEFINE b == [first |-> published + 1, last |-> published + BufLen]
<1>1. published \in Nat /\ receiver \in Seq(Bytes) /\ Len(receiver) \in Nat
  BY DEF RecvInv, TypeOK
<1>2. b \in Bytes
  BY <1>1, Times DEF Bytes
<1>3. /\ receiver' = Append(receiver, b)
      /\ receiver' \in Seq(Bytes)
      /\ Len(receiver') = Len(receiver) + 1
      /\ receiver'[Len(receiver) + 1] = b
      /\ \A i \in 1..Len(receiver) : receiver'[i] = receiver[i]
  BY <1>1, <1>2 DEF Publish
<1>4. TypeOK'
  BY <1>3, <1>1, Times DEF Publish, callerSide, RecvInv, TypeOK
<1>5. Taken' = Taken
  BY <1>1, <1>3, Times DEF Publish, Taken
<1>6. InChannel'
  <2>1. Len(receiver') <= ReadCap
    BY <1>1, <1>3, RecvAssumption DEF Publish, HasRoom
  <2>2. ASSUME NEW i \in 1..Len(receiver')
        PROVE  receiver'[i] = [first |-> Taken + (i - 1) * BufLen + 1,
                               last |-> Taken + i * BufLen]
    <3>1. CASE i \in 1..Len(receiver)
      BY <3>1, <1>3 DEF RecvInv, InChannel
    <3>2. CASE i = Len(receiver) + 1
      <4>1. /\ Taken + Len(receiver) * BufLen = published
            /\ Len(receiver) * BufLen \in Nat
        BY <1>1, Times DEF Taken
      <4>2. (i - 1) * BufLen = Len(receiver) * BufLen
        BY <3>2, <1>1
      <4>3. i * BufLen = Len(receiver) * BufLen + BufLen
        BY <3>2, <1>1, Times
      <4>4. Taken \in Nat
        BY DEF RecvInv, InChannel
      <4>5. /\ Taken + (i - 1) * BufLen + 1 = published + 1
            /\ Taken + i * BufLen = published + BufLen
        BY <4>1, <4>2, <4>3, <4>4, <1>1, Times
      <4> QED BY <4>5, <3>2, <1>3
    <3> QED BY <1>1, <1>3, <3>1, <3>2
  <2> QED BY <1>5, <2>1, <2>2 DEF RecvInv, InChannel
<1>7. UNCHANGED <<HandedOut, local_storage, result, size, begun, filled>>
  BY DEF Publish, callerSide, HandedOut
<1>8. InStorage' /\ InReadBuf' /\ Waits'
  BY <1>5, <1>7 DEF RecvInv, InStorage, InReadBuf, Waits, Remaining, Follow,
    NoBytes, Length
<1> QED BY <1>4, <1>6, <1>8 DEF RecvInv

\* The steps that only say how a read or the driver ended.
LEMMA EndsInv ==
  ASSUME RecvInv, Exit \/ EndOfStream \/ Abandon
  PROVE  RecvInv'
<1>1. UNCHANGED <<published, receiver, local_storage, begun, size, filled,
                  reads>>
  <2>1. CASE Exit
    BY <2>1 DEF Exit, callerSide
  <2>2. CASE EndOfStream
    BY <2>2 DEF EndOfStream, driverSide
  <2>3. CASE Abandon
    BY <2>3 DEF Abandon, driverSide
  <2> QED BY <2>1, <2>2, <2>3
<1>2. UNCHANGED <<HandedOut, Taken, Remaining>>
  BY <1>1 DEF HandedOut, Taken, Remaining
<1>3. result' = "pending" => result = "pending"
  BY DEF Exit, EndOfStream, Abandon, callerSide
<1>4. TypeOK'
  <2>1. open' \in BOOLEAN
    BY DEF RecvInv, TypeOK, Exit, EndOfStream, Abandon, driverSide
  <2>2. result' \in {"none", "pending", "Ok", "Err", "abandoned"}
    BY DEF RecvInv, TypeOK, Exit, EndOfStream, Abandon, callerSide
  <2> QED BY <1>1, <2>1, <2>2 DEF RecvInv, TypeOK, NoBytes, Bytes
<1>5. InChannel' /\ InStorage' /\ InReadBuf' /\ Waits'
  BY <1>1, <1>2, <1>3 DEF RecvInv, InChannel, InStorage, InReadBuf, Waits,
    Follow, NoBytes, Length
<1> QED BY <1>4, <1>5 DEF RecvInv

LEMMA StartReadInv ==
  ASSUME RecvInv, NEW n \in Sizes, StartRead(n)
  PROVE  /\ RecvInv'
         /\ begun' = HandedOut /\ size' = n
         /\ result' = "Ok" =>
              HandedOut' = HandedOut + n /\ HandedOut' <= published
         /\ result' \in {"Ok", "pending"}
<1>1. /\ n \in Nat /\ HandedOut \in Nat
      /\ local_storage \in Bytes \cup {NoBytes}
      /\ published \in Nat /\ Len(receiver) \in Nat /\ reads \in Nat
      /\ Taken \in Nat /\ Taken <= published
  <2>1. TypeOK /\ Taken \in Nat
    BY DEF RecvInv, InChannel
  <2>2. /\ local_storage \in Bytes \cup {NoBytes}
        /\ published \in Nat /\ Len(receiver) \in Nat /\ reads \in Nat
    BY <2>1 DEF TypeOK
  <2>3. Len(receiver) * BufLen \in Nat
    BY <2>2, Times
  <2>4. Taken <= published
    BY <2>2, <2>3 DEF Taken
  <2> QED BY <2>1, <2>2, <2>4, HandedOutNat, RecvAssumption
<1>2. /\ Fill(<<>>, n, local_storage)
      /\ begun' = HandedOut /\ size' = n /\ reads' = reads + 1
      /\ UNCHANGED <<open, published, receiver>>
  BY DEF StartRead, driverSide
<1>3. /\ <<>> \in Seq(Bytes)
      /\ Follow(HandedOut, <<>>)
      /\ LastPut(HandedOut, <<>>) = HandedOut
  BY DEF Follow, LastPut
<1>4. local_storage # NoBytes =>
        /\ local_storage.first = HandedOut + 1
        /\ local_storage.last = Taken
        /\ Length(local_storage) < BufLen
  BY DEF RecvInv, InStorage
<1>5. /\ filled' \in Seq(Bytes)
      /\ Follow(HandedOut, filled')
      /\ LastPut(HandedOut, filled') = HandedOut + Fits(n, local_storage)
      /\ local_storage' \in Bytes \cup {NoBytes}
      /\ n < Length(local_storage) =>
           /\ local_storage' # NoBytes
           /\ local_storage'.first = HandedOut + n + 1
           /\ local_storage'.last = local_storage.last
      /\ n >= Length(local_storage) => local_storage' = NoBytes
      /\ result' = IF n = Fits(n, local_storage) THEN "Ok" ELSE "pending"
  <2>1. ASSUME NEW at \in Nat, at = HandedOut,
               NEW bytes \in Bytes \cup {NoBytes}, bytes = local_storage
        PROVE  TakesNext(at, at, n, bytes)
    <3>1. Follow(at, <<>>) /\ LastPut(at, <<>>) = at
      BY <1>3, <2>1
    <3>2. bytes # NoBytes => bytes.first = LastPut(at, <<>>) + 1
      BY <1>4, <2>1, <3>1
    <3>3. Fill(<<>>, n, bytes)
      BY <1>2, <2>1
    <3>4. TakesNext(at, LastPut(at, <<>>), n, bytes)
      BY <1>1, <1>3, <3>1, <3>2, <3>3, FillFacts
    <3> QED BY <3>1, <3>4
  <2>2. TakesNext(HandedOut, HandedOut, n, local_storage)
    BY <2>1, <1>1
  <2> QED BY <2>2 DEF TakesNext
<1>6. HandedOut' = HandedOut + Fits(n, local_storage)
  BY <1>2, <1>5 DEF HandedOut
<1>7. /\ Length(local_storage) \in Nat
      /\ local_storage = NoBytes => Length(local_storage) = 0
      /\ HandedOut + Length(local_storage) = Taken
  BY <1>1, <1>4 DEF Bytes, NoBytes, Length, RecvInv, InStorage
<1>8. TypeOK'
  BY <1>1, <1>2, <1>5 DEF RecvInv, TypeOK
<1>9. Taken' = Taken /\ InChannel'
  BY <1>2 DEF RecvInv, InChannel, Taken
<1>10. InStorage'
  <2>1. CASE n < Length(local_storage)
    <3>1. local_storage # NoBytes
      BY <1>1, <1>7, <2>1
    <3>2. HandedOut' = HandedOut + n
      BY <1>6, <2>1 DEF Fits
    <3>3. Length(local_storage)' < BufLen
      <4>1. Length(local_storage) = Taken - HandedOut
        BY <1>1, <1>4, <3>1 DEF Length
      <4>2. Length(local_storage)' = Taken - (HandedOut + n + 1) + 1
        BY <1>4, <1>5, <2>1, <3>1 DEF Length
      <4> QED BY <1>1, <1>4, <3>1, <4>1, <4>2, Times
    <3> QED
      BY <1>1, <1>4, <1>5, <1>9, <2>1, <3>1, <3>2, <3>3
      DEF InStorage, NoBytes
  <2>2. CASE n >= Length(local_storage)
    BY <1>1, <1>5, <1>6, <1>7, <1>9, <2>2 DEF InStorage, NoBytes, Fits
  <2> QED BY <1>1, <1>7, <2>1, <2>2
<1>11. /\ HandedOut' - begun' = Fits(n, local_storage)
       /\ Fits(n, local_storage) \in 0..n
  BY <1>1, <1>2, <1>6, <1>7 DEF Fits
<1>12. InReadBuf'
  BY <1>1, <1>2, <1>5, <1>6, <1>11 DEF InReadBuf, Follow
<1>13. Waits'
  <2> SUFFICES ASSUME result' = "pending"
               PROVE  local_storage' = NoBytes /\ Remaining' > 0
    BY DEF Waits, NoBytes
  <2>1. n # Fits(n, local_storage)
    BY <1>5
  <2>2. n >= Length(local_storage)
    BY <2>1, <1>1, <1>7 DEF Fits
  <2> QED BY <1>1, <1>2, <1>5, <1>11, <2>1, <2>2 DEF Remaining
<1>14. result' = "Ok" => HandedOut' = HandedOut + n /\ HandedOut' <= published
  <2> SUFFICES ASSUME result' = "Ok"
               PROVE  HandedOut' = HandedOut + n /\ HandedOut' <= published
    OBVIOUS
  <2>1. n = Fits(n, local_storage)
    BY <1>5
  <2>2. n <= Length(local_storage)
    BY <2>1, <1>1, <1>7 DEF Fits
  <2> QED BY <1>1, <1>6, <1>7, <2>1, <2>2
<1> QED
  BY <1>2, <1>5, <1>8, <1>9, <1>10, <1>12, <1>13, <1>14 DEF RecvInv

LEMMA PollRecvInv ==
  ASSUME RecvInv, PollRecv
  PROVE  /\ RecvInv'
         /\ begun' = begun /\ size' = size
         /\ result' = "Ok" =>
              HandedOut' = begun + size /\ HandedOut' <= published
         /\ result' \in {"Ok", "pending"}
<1> DEFINE room == Remaining
           bytes == Head(receiver)
<1>1. /\ TypeOK /\ InChannel /\ InStorage /\ InReadBuf /\ Waits
      /\ result = "pending" /\ receiver # <<>>
      /\ receiver' = Tail(receiver)
      /\ Fill(filled, room, bytes)
      /\ UNCHANGED <<open, published, begun, size, reads>>
  BY DEF RecvInv, PollRecv, driverSide
<1>2. /\ begun \in Nat /\ size \in Nat /\ HandedOut \in Nat /\ published \in Nat
      /\ receiver \in Seq(Bytes) /\ filled \in Seq(Bytes) /\ Taken \in Nat
  BY <1>1, HandedOutNat DEF TypeOK, InChannel
<1>3. /\ Len(receiver) \in Nat /\ Len(receiver) > 0
      /\ bytes = receiver[1] /\ bytes \in Bytes
      /\ receiver' \in Seq(Bytes)
      /\ Len(receiver') = Len(receiver) - 1
      /\ \A i \in 1..Len(receiver') : receiver'[i] = receiver[i + 1]
  BY <1>1, <1>2
<1>4. /\ room \in Nat /\ room > 0 /\ room = begun + size - HandedOut
      /\ HandedOut = Taken
  BY <1>1, <1>2 DEF Waits, InStorage, Remaining
<1>5. bytes.first = HandedOut + 1 /\ bytes.last = Taken + BufLen
  <2>1. bytes = [first |-> Taken + (1 - 1) * BufLen + 1,
                 last |-> Taken + 1 * BufLen]
    BY <1>1, <1>3 DEF InChannel
  <2> QED BY <2>1, <1>2, <1>4, Times
<1>6. Length(bytes) = BufLen
  BY <1>2, <1>4, <1>5, Times DEF Length
<1>7. TakesNext(begun, HandedOut, room, bytes)
  <2>1. ASSUME NEW from \in Nat, from = begun, NEW spans \in Seq(Bytes),
               spans = filled, NEW left \in Nat, left = room,
               NEW b \in Bytes \cup {NoBytes}, b = bytes
        PROVE  TakesNext(from, HandedOut, left, b)
    <3>1. Follow(from, spans) /\ LastPut(from, spans) = HandedOut
      BY <1>1, <2>1 DEF InReadBuf, HandedOut
    <3>2. b.first = LastPut(from, spans) + 1
      BY <1>5, <2>1, <3>1
    <3>3. Fill(spans, left, b)
      BY <1>1, <2>1
    <3>4. TakesNext(from, LastPut(from, spans), left, b)
      BY <3>1, <3>2, <3>3, FillFacts
    <3> QED BY <3>1, <3>4
  <2> HIDE DEF room, bytes
  <2> QED BY <1>2, <1>3, <1>4, <2>1
<1> HIDE DEF room, bytes
<1>8. HandedOut' = HandedOut + Fits(room, bytes)
  BY <1>1, <1>7 DEF TakesNext, HandedOut
<1>9. /\ Fits(room, bytes) \in 0..room
      /\ Fits(room, bytes) <= BufLen
      /\ room < BufLen => Fits(room, bytes) = room
      /\ room >= BufLen => Fits(room, bytes) = BufLen
  BY <1>4, <1>6, Times DEF Fits
<1>10. TypeOK'
  <2>1. /\ filled' \in Seq(Bytes) /\ local_storage' \in Bytes \cup {NoBytes}
        /\ result' \in {"Ok", "pending"}
    BY <1>7 DEF TakesNext
  <2> QED BY <1>1, <1>3, <2>1 DEF TypeOK
<1>11. Taken' = Taken + BufLen
  <2>1. Len(receiver) * BufLen = Len(receiver') * BufLen + BufLen
    BY <1>3, Times
  <2>2. Len(receiver') * BufLen \in Nat
    BY <1>3, Times
  <2> QED BY <1>1, <1>2, <2>1, <2>2, Times DEF Taken
<1>12. InChannel'
  <2>1. Len(receiver') <= ReadCap
    BY <1>1, <1>3, RecvAssumption DEF InChannel
  <2>2. ASSUME NEW i \in 1..Len(receiver')
        PROVE  receiver'[i] = [first |-> Taken' + (i - 1) * BufLen + 1,
                               last |-> Taken' + i * BufLen]
    <3>1. receiver'[i] = [first |-> Taken + ((i + 1) - 1) * BufLen + 1,
                          last |-> Taken + (i + 1) * BufLen]
      BY <1>1, <1>3 DEF InChannel
    <3>2. /\ ((i + 1) - 1) * BufLen = (i - 1) * BufLen + BufLen
          /\ (i + 1) * BufLen = i * BufLen + BufLen
      <4>1. i \in Int /\ i - 1 \in Int /\ i = (i - 1) + 1 /\ (i + 1) - 1 = i
        BY <1>3
      <4> QED BY <4>1, Times
    <3>3. (i - 1) * BufLen \in Nat /\ i * BufLen \in Nat
      BY <1>3, Times
    <3> QED BY <3>1, <3>2, <3>3, <1>2, <1>11, Times
  <2> QED BY <1>2, <1>11, <2>1, <2>2, Times DEF InChannel
<1>13. InStorage'
  <2>1. CASE room < BufLen
    <3>1. /\ local_storage' # NoBytes
          /\ local_storage'.first = HandedOut + room + 1
          /\ local_storage'.last = Taken + BufLen
      BY <1>5, <1>6, <1>7, <2>1 DEF TakesNext
    <3>2. Length(local_storage)' = Taken + BufLen - (HandedOut + room + 1) + 1
      BY <3>1, <1>2, <1>4, Times DEF Length
    <3>3. Length(local_storage)' < BufLen
      BY <3>2, <1>2, <1>4, Times
    <3>4. HandedOut' = HandedOut + room
      BY <1>8, <1>9, <2>1
    <3> QED BY <3>1, <3>3, <3>4, <1>2, <1>4, <1>11 DEF InStorage, NoBytes
  <2>2. CASE room >= BufLen
    <3>1. local_storage' = NoBytes
      BY <1>6, <1>7, <2>2 DEF TakesNext
    <3>2. HandedOut' = Taken'
      BY <1>4, <1>8, <1>9, <1>11, <2>2
    <3> QED BY <3>1, <3>2 DEF InStorage, NoBytes
  <2> QED BY <2>1, <2>2, <1>4, Times
<1>14. InReadBuf'
  <2>1. Follow(begun, filled)'
    BY <1>1, <1>7 DEF TakesNext, Follow
  <2>2. begun <= HandedOut' /\ HandedOut' <= begun + size
    BY <1>1, <1>2, <1>4, <1>8, <1>9 DEF InReadBuf
  <2> QED BY <2>1, <2>2, <1>1 DEF InReadBuf
<1>15. Waits'
  <2> SUFFICES ASSUME result' = "pending"
               PROVE  local_storage' = NoBytes /\ Remaining' > 0
    BY DEF Waits, NoBytes
  <2>1. room # Fits(room, bytes)
    BY <1>7 DEF TakesNext
  <2>2. room >= BufLen
    BY <2>1, <1>4, <1>9, Times
  <2>3. local_storage' = NoBytes
    BY <1>6, <1>7, <2>2 DEF TakesNext
  <2>4. Remaining' = size - (HandedOut' - begun)
    BY <1>1 DEF Remaining
  <2> QED BY <1>2, <1>4, <1>8, <1>9, <2>1, <2>3, <2>4
<1>16. result' = "Ok" => HandedOut' = begun + size /\ HandedOut' <= published
  <2> SUFFICES ASSUME result' = "Ok"
               PROVE  HandedOut' = begun + size /\ HandedOut' <= published
    OBVIOUS
  <2>1. room = Fits(room, bytes)
    BY <1>7 DEF TakesNext
  <2>2. HandedOut' <= Taken + BufLen
    BY <1>2, <1>4, <1>8, <1>9, Times
  <2>3. Taken' <= published
    <3>1. Len(receiver') * BufLen \in Nat
      BY <1>3, Times
    <3> QED BY <3>1, <1>1, <1>2 DEF Taken
  <2> QED BY <1>2, <1>4, <1>8, <1>11, <2>1, <2>2, <2>3, Times
<1>17. result' \in {"Ok", "pending"}
  BY <1>7 DEF TakesNext
<1> QED
  BY <1>1, <1>10, <1>12, <1>13, <1>14, <1>15, <1>16, <1>17 DEF RecvInv

LEMMA StutterInv ==
  ASSUME RecvInv, UNCHANGED recvVars
  PROVE  RecvInv'
<1>1. UNCHANGED <<open, published, receiver, local_storage, begun, size,
                  filled, result, reads>>
  BY DEF recvVars, driverSide, callerSide
<1>2. UNCHANGED <<HandedOut, Taken, Remaining>>
  BY <1>1 DEF HandedOut, Taken, Remaining
<1> QED
  BY <1>1, <1>2 DEF RecvInv, TypeOK, InChannel, InStorage, InReadBuf, Waits,
    Follow, NoBytes, Bytes, Length

LEMMA NextInv ==
  ASSUME RecvInv, [Next]_recvVars
  PROVE  RecvInv'
BY PublishInv, EndsInv, StartReadInv, PollRecvInv, StutterInv
DEF Next, PollRead

\* Each buffer has its place: in the channel, in local_storage or in a ReadBuf.
THEOREM RecvInvariant == Spec => []RecvInv
BY InitInv, NextInv, PTL DEF Spec

\* The variables have their types.
THEOREM RecvTypeTheorem == Spec => []TypeOK
<1>1. RecvInv => TypeOK
  BY DEF RecvInv
<1> QED BY <1>1, RecvInvariant, PTL

\* At most the channel and less than one buffer wait for the reader, and a read
\* goes to the channel only when nothing is kept.
THEOREM BackpressureTheorem == Spec => []Backpressure
<1>1. ASSUME RecvInv PROVE Backpressure
  <2>1. /\ HandedOut \in Nat /\ Taken \in Nat /\ published \in Nat
        /\ Len(receiver) \in Nat /\ Len(receiver) <= ReadCap
    BY <1>1, PlacesNat
  <2>2. /\ Len(receiver) * BufLen \in Nat /\ ReadCap * BufLen \in Nat
        /\ Len(receiver) * BufLen <= ReadCap * BufLen
    BY <2>1, Times, RecvAssumption
  <2>3. published = Taken + Len(receiver) * BufLen
    BY <2>1, <2>2 DEF Taken
  <2>4. Taken - HandedOut < BufLen
    <3>1. CASE local_storage = NoBytes
      BY <1>1, <2>1, <3>1, Times DEF RecvInv, InStorage
    <3>2. CASE local_storage # NoBytes
      <4>1. /\ local_storage.first = HandedOut + 1
            /\ local_storage.last = Taken
            /\ Length(local_storage) < BufLen
        BY <1>1, <3>2 DEF RecvInv, InStorage
      <4>2. Length(local_storage) = Taken - (HandedOut + 1) + 1
        BY <4>1, <2>1 DEF Length
      <4> QED BY <4>1, <4>2, <2>1, Times
    <3> QED BY <3>1, <3>2
  <2>5. published - HandedOut < ReadCap * BufLen + BufLen
    BY <2>1, <2>2, <2>3, <2>4, Times
  <2> QED BY <1>1, <2>5 DEF Backpressure, RecvInv, Waits
<1> QED BY <1>1, RecvInvariant, PTL

-----------------------------------------------------------------------------
(* The order of the bytes.                                                 *)

LEMMA ConcatFollows ==
  ASSUME NEW from \in Nat, NEW s \in Seq(Bytes), NEW t \in Seq(Bytes),
         Follow(from, s), Follow(LastPut(from, s), t)
  PROVE  /\ s \o t \in Seq(Bytes)
         /\ Follow(from, s \o t)
         /\ LastPut(from, s \o t) = LastPut(LastPut(from, s), t)
<1> DEFINE st == s \o t
<1>1. /\ st \in Seq(Bytes)
      /\ Len(st) = Len(s) + Len(t)
      /\ \A i \in 1..Len(s) + Len(t) :
           st[i] = IF i <= Len(s) THEN s[i] ELSE t[i - Len(s)]
  BY ConcatProperties
<1>2. /\ Len(s) \in Nat /\ Len(t) \in Nat /\ Len(st) \in Nat
      /\ s = <<>> <=> Len(s) = 0
      /\ t = <<>> <=> Len(t) = 0
      /\ st = <<>> <=> Len(st) = 0
  <2>1. \A u \in Seq(Bytes) : Len(u) \in Nat /\ (u = <<>> <=> Len(u) = 0)
    BY EmptySeq, LenProperties
  <2> QED BY <1>1, <2>1
<1> HIDE DEF st
<1>3. LastPut(from, s) = IF Len(s) = 0 THEN from ELSE s[Len(s)].last
  BY <1>2 DEF LastPut
<1>4. ASSUME NEW i \in 1..Len(st)
      PROVE  st[i].first = (IF i = 1 THEN from ELSE st[i - 1].last) + 1
  <2>1. CASE i <= Len(s)
    <3>1. /\ i \in 1..Len(s) /\ st[i] = s[i]
          /\ i # 1 => i - 1 \in 1..Len(s) /\ st[i - 1] = s[i - 1]
      BY <1>1, <1>2, <2>1
    <3> QED BY <3>1 DEF Follow
  <2>2. CASE i = Len(s) + 1
    <3>1. st[i] = t[1] /\ 1 \in 1..Len(t)
      BY <1>1, <1>2, <2>2
    <3>2. t[1].first = LastPut(from, s) + 1
      BY <3>1 DEF Follow
    <3>3. i # 1 => Len(s) # 0 /\ st[i - 1] = s[Len(s)]
      BY <1>1, <1>2, <2>2
    <3>4. i = 1 => Len(s) = 0
      BY <1>2, <2>2
    <3> QED BY <1>3, <3>1, <3>2, <3>3, <3>4
  <2>3. CASE i > Len(s) + 1
    <3> DEFINE k == i - Len(s)
    <3>1. /\ k \in 1..Len(t) /\ k # 1 /\ st[i] = t[k]
          /\ i # 1 /\ st[i - 1] = t[k - 1]
      <4>1. /\ k \in 1..Len(t) /\ k # 1 /\ i # 1
            /\ i \in 1..Len(s) + Len(t) /\ i - 1 \in 1..Len(s) + Len(t)
            /\ ~(i <= Len(s)) /\ ~(i - 1 <= Len(s))
            /\ (i - 1) - Len(s) = k - 1
        BY <1>1, <1>2, <2>3
      <4> QED BY <1>1, <4>1
    <3> HIDE DEF k
    <3>2. t[k].first = t[k - 1].last + 1
      BY <3>1 DEF Follow
    <3> QED BY <3>1, <3>2
  <2>4. i <= Len(s) \/ i = Len(s) + 1 \/ i > Len(s) + 1
    BY <1>2
  <2> QED BY <2>1, <2>2, <2>3, <2>4, Zenon
<1>5. LastPut(from, st) = LastPut(LastPut(from, s), t)
  <2>1. CASE Len(t) = 0
    <3>1. Len(s) # 0 => st[Len(st)] = s[Len(s)]
      BY <1>1, <1>2, <2>1
    <3> QED BY <1>1, <1>2, <1>3, <2>1, <3>1 DEF LastPut
  <2>2. CASE Len(t) # 0
    <3>1. st[Len(st)] = t[Len(t)] /\ Len(st) # 0
      BY <1>1, <1>2, <2>2
    <3> QED BY <1>2, <2>2, <3>1 DEF LastPut
  <2> QED BY <2>1, <2>2
<1> QED BY <1>1, <1>4, <1>5 DEF st, Follow

LEMMA FollowSubSeq ==
  ASSUME NEW from \in Nat, NEW s \in Seq(Bytes), Follow(from, s)
  PROVE  \A i \in DOMAIN s : s[i].first = LastPut(from, SubSeq(s, 1, i - 1)) + 1
<1> SUFFICES ASSUME NEW i \in DOMAIN s
             PROVE  s[i].first = LastPut(from, SubSeq(s, 1, i - 1)) + 1
  OBVIOUS
<1>1. Len(s) \in Nat /\ i \in 1..Len(s)
  BY LenProperties
<1>2. s[i].first = (IF i = 1 THEN from ELSE s[i - 1].last) + 1
  BY <1>1 DEF Follow
<1>3. \A j \in 1..i - 1 : s[j] \in Bytes
  BY <1>1, ElementOfSeq
<1> DEFINE u == SubSeq(s, 1, i - 1)
<1>4. /\ Len(u) = IF 1 <= i - 1 THEN i - 1 - 1 + 1 ELSE 0
      /\ \A j \in 1..i - 1 - 1 + 1 : u[j] = s[1 + j - 1]
      /\ u \in Seq(Bytes)
  <2>1. i - 1 \in Int /\ 1 \in Int
    BY <1>1
  <2> QED BY <1>3, <2>1, SubSeqProperties
<1>5. Len(u) = i - 1 /\ (u = <<>> <=> i = 1)
  BY <1>1, <1>4, EmptySeq
<1>6. i # 1 => u[Len(u)] = s[i - 1]
  BY <1>1, <1>4, <1>5
<1> HIDE DEF u
<1>7. LastPut(from, u) = IF i = 1 THEN from ELSE s[i - 1].last
  BY <1>5, <1>6 DEF LastPut
<1> QED BY <1>2, <1>7 DEF u

\* What was handed out, what is kept and what is in the channel follow each
\* other from the byte after the last read to the last one published.
THEOREM ContiguousTheorem == Spec => []Contiguous
<1>1. ASSUME RecvInv PROVE Contiguous
  <2>1. /\ begun \in Nat /\ filled \in Seq(Bytes) /\ receiver \in Seq(Bytes)
        /\ local_storage \in Bytes \cup {NoBytes} /\ published \in Nat
        /\ HandedOut \in Nat /\ Taken \in Nat /\ Len(receiver) \in Nat
    BY <1>1, PlacesNat
  <2>2. Follow(begun, filled) /\ LastPut(begun, filled) = HandedOut
    BY <1>1 DEF RecvInv, InReadBuf, HandedOut
  <2>3. /\ Stored \in Seq(Bytes)
        /\ Follow(HandedOut, Stored)
        /\ LastPut(HandedOut, Stored) = Taken
    <3>1. CASE local_storage = NoBytes
      BY <1>1, <3>1 DEF RecvInv, InStorage, Stored, Follow, LastPut
    <3>2. CASE local_storage # NoBytes
      <4>1. /\ local_storage.first = HandedOut + 1
            /\ local_storage.last = Taken
            /\ local_storage \in Bytes
        BY <1>1, <2>1, <3>2 DEF RecvInv, InStorage
      <4>2. /\ <<local_storage>> \in Seq(Bytes)
            /\ Len(<<local_storage>>) = 1
            /\ <<local_storage>>[1] = local_storage
            /\ <<local_storage>> # <<>>
        BY <4>1
      <4>3. Stored = <<local_storage>>
        BY <3>2 DEF Stored
      <4> QED BY <4>1, <4>2, <4>3 DEF Follow, LastPut
    <3> QED BY <3>1, <3>2
  <2>4. Follow(Taken, receiver) /\ LastPut(Taken, receiver) = published
    <3>1. ASSUME NEW i \in 1..Len(receiver)
          PROVE  /\ receiver[i].first = Taken + (i - 1) * BufLen + 1
                 /\ receiver[i].last = Taken + i * BufLen
      <4>1. receiver[i] = [first |-> Taken + (i - 1) * BufLen + 1,
                           last |-> Taken + i * BufLen]
        BY <1>1 DEF RecvInv, InChannel
      <4> QED BY <4>1
    <3>2. ASSUME NEW i \in 1..Len(receiver)
          PROVE  receiver[i].first =
                   (IF i = 1 THEN Taken ELSE receiver[i - 1].last) + 1
      <4>1. CASE i = 1
        <5>1. receiver[i].first = Taken + 0 * BufLen + 1
          BY <3>1, <4>1
        <5> QED BY <4>1, <5>1, <2>1, Times
      <4>2. CASE i # 1
        <5>1. i - 1 \in 1..Len(receiver)
          BY <4>2, <2>1
        <5> QED BY <3>1, <4>2, <5>1
      <4> QED BY <4>1, <4>2
    <3>3. Taken + Len(receiver) * BufLen = published
      <4>1. Len(receiver) * BufLen \in Nat
        BY <2>1, Times
      <4> QED BY <4>1, <2>1 DEF Taken
    <3>4. CASE receiver = <<>>
      <4>1. Len(receiver) = 0
        BY <3>4
      <4>2. published = Taken
        BY <3>3, <4>1, <2>1, Times
      <4> QED BY <3>2, <3>4, <4>2 DEF Follow, LastPut
    <3>5. CASE receiver # <<>>
      <4>1. Len(receiver) \in 1..Len(receiver)
        BY <3>5, <2>1, EmptySeq
      <4>2. receiver[Len(receiver)].last = published
        BY <3>1, <3>3, <4>1
      <4> QED BY <3>2, <3>5, <4>2 DEF Follow, LastPut
    <3> QED BY <3>4, <3>5
  <2> DEFINE front == filled \o Stored
  <2>5. /\ front \in Seq(Bytes)
        /\ Follow(begun, front)
        /\ LastPut(begun, front) = Taken
    <3>1. ASSUME NEW from \in Nat, from = begun,
                 NEW s \in Seq(Bytes), s = filled,
                 NEW t \in Seq(Bytes), t = Stored
          PROVE  /\ s \o t \in Seq(Bytes)
                 /\ Follow(from, s \o t)
                 /\ LastPut(from, s \o t) = Taken
      BY <3>1, <2>2, <2>3, ConcatFollows
    <3> QED BY <3>1, <2>1, <2>3
  <2>6. Chain = front \o receiver
    BY <2>1, <2>3, ConcatAssociative DEF Chain
  <2> HIDE DEF front
  <2>7. /\ Chain \in Seq(Bytes)
        /\ Follow(begun, Chain)
        /\ LastPut(begun, Chain) = published
    <3>1. ASSUME NEW from \in Nat, from = begun,
                 NEW s \in Seq(Bytes), s = front,
                 NEW t \in Seq(Bytes), t = receiver
          PROVE  /\ s \o t \in Seq(Bytes)
                 /\ Follow(from, s \o t)
                 /\ LastPut(from, s \o t) = published
      BY <3>1, <2>4, <2>5, ConcatFollows
    <3> QED BY <3>1, <2>1, <2>5, <2>6
  <2>8. \A i \in DOMAIN Chain :
          Chain[i].first = LastPut(begun, SubSeq(Chain, 1, i - 1)) + 1
    <3>1. ASSUME NEW from \in Nat, from = begun, NEW s \in Seq(Bytes), s = Chain
          PROVE  \A i \in DOMAIN s :
                   s[i].first = LastPut(from, SubSeq(s, 1, i - 1)) + 1
      BY <3>1, <2>7, FollowSubSeq
    <3> QED BY <3>1, <2>1, <2>7
  <2> QED BY <2>7, <2>8 DEF Contiguous
<1> QED BY <1>1, RecvInvariant, PTL

-----------------------------------------------------------------------------
(* A read hands out what it was asked for: the refinement of ByteReader.   *)

\* The bytes that ByteReader counts as handed out.
Used == IF result = "pending" THEN begun ELSE HandedOut

LEMMA ReaderInitial == Init => Reader!ReaderInit
BY DEF Init, Reader!ReaderInit, HandedOut, LastPut

\* What a stuttering step of ByteReader leaves alone.
LEMMA ReaderStutter ==
  ASSUME UNCHANGED <<published, open, size, Used, result>>
  PROVE  UNCHANGED Reader!readerVars
BY DEF Reader!readerVars, Used

LEMMA PublishRefines ==
  ASSUME RecvInv, Publish
  PROVE  Reader!Write
<1>1. published' > published
  BY PlacesNat, Times DEF Publish
<1>2. UNCHANGED <<open, size, result, HandedOut, begun>>
  BY DEF Publish, callerSide, HandedOut
<1> QED BY <1>1, <1>2 DEF Publish, Reader!Write

LEMMA ExitRefines ==
  ASSUME RecvInv, Exit
  PROVE  Reader!End
<1>1. UNCHANGED <<published, size, result, HandedOut, begun>>
  BY DEF Exit, callerSide, HandedOut
<1> QED BY <1>1 DEF Exit, Reader!End

LEMMA StartReadRefines ==
  ASSUME RecvInv, NEW n \in Sizes, StartRead(n)
  PROVE  Reader!Ask \/ Reader!AskAndSucceed
<1>1. /\ begun' = HandedOut /\ size' = n
      /\ result' = "Ok" => HandedOut' = HandedOut + n /\ HandedOut' <= published
      /\ result' \in {"Ok", "pending"}
  BY StartReadInv
<1>2. /\ result # "pending" /\ n \in Nat
      /\ UNCHANGED <<open, published>>
  BY RecvAssumption DEF StartRead, driverSide
<1>3. CASE result' = "Ok"
  BY <1>1, <1>2, <1>3 DEF Reader!AskAndSucceed
<1>4. CASE result' = "pending"
  BY <1>1, <1>2, <1>4 DEF Reader!Ask
<1> QED BY <1>1, <1>3, <1>4

LEMMA PollRecvRefines ==
  ASSUME RecvInv, PollRecv
  PROVE  Reader!Succeed \/ UNCHANGED Reader!readerVars
<1>1. /\ begun' = begun /\ size' = size
      /\ result' = "Ok" => HandedOut' = begun + size /\ HandedOut' <= published
      /\ result' \in {"Ok", "pending"}
  BY PollRecvInv
<1>2. result = "pending" /\ UNCHANGED <<open, published>>
  BY DEF PollRecv, driverSide
<1>3. CASE result' = "Ok"
  BY <1>1, <1>2, <1>3 DEF Reader!Succeed
<1>4. CASE result' = "pending"
  BY <1>1, <1>2, <1>4, ReaderStutter DEF Used
<1> QED BY <1>1, <1>3, <1>4

\* A read fails once all that was published has been handed out, and it is given
\* up before it is done.
LEMMA EndsRefine ==
  ASSUME RecvInv, EndOfStream \/ Abandon
  PROVE  Reader!Fail \/ Reader!Abandon
<1>1. /\ result = "pending" /\ receiver = <<>>
      /\ UNCHANGED <<open, published, receiver, local_storage, begun, size,
                     filled>>
  BY DEF EndOfStream, Abandon, driverSide
<1>2. local_storage = NoBytes /\ size - (HandedOut - begun) > 0
  BY <1>1 DEF RecvInv, Waits, Remaining
<1>3. HandedOut = published
  <2>1. Len(receiver) = 0 /\ published \in Nat
    BY <1>1, PlacesNat
  <2>2. Taken = published
    BY <2>1, Times DEF Taken
  <2> QED BY <2>2, <1>2 DEF RecvInv, InStorage
<1>4. /\ begun <= HandedOut /\ HandedOut < begun + size
      /\ HandedOut' = HandedOut
  BY <1>1, <1>2, PlacesNat DEF RecvInv, InReadBuf, HandedOut
<1>5. CASE EndOfStream
  BY <1>1, <1>3, <1>4, <1>5 DEF EndOfStream, Reader!Fail
<1>6. CASE Abandon
  <2>1. HandedOut <= published
    BY <1>3, PlacesNat
  <2> QED BY <1>1, <1>4, <1>6, <2>1 DEF Abandon, Reader!Abandon
<1> QED BY <1>5, <1>6

LEMMA StepRefines ==
  ASSUME RecvInv, [Next]_recvVars
  PROVE  [Reader!ReaderNext]_(Reader!readerVars)
<1>1. CASE Publish
  BY <1>1, PublishRefines DEF Reader!ReaderNext
<1>2. CASE Exit
  BY <1>2, ExitRefines DEF Reader!ReaderNext
<1>3. ASSUME NEW n \in Sizes, StartRead(n)
      PROVE  [Reader!ReaderNext]_(Reader!readerVars)
  BY <1>3, StartReadRefines DEF Reader!ReaderNext
<1>4. CASE PollRecv
  BY <1>4, PollRecvRefines DEF Reader!ReaderNext
<1>5. CASE EndOfStream \/ Abandon
  BY <1>5, EndsRefine DEF Reader!ReaderNext
<1>6. CASE UNCHANGED recvVars
  BY <1>6, ReaderStutter
  DEF recvVars, driverSide, callerSide, Used, HandedOut
<1> QED
  BY <1>1, <1>2, <1>3, <1>4, <1>5, <1>6 DEF Next, PollRead

\* Reads give exactly the bytes asked for, in the order of the stream: what
\* poll_read does is what ByteReader allows.
THEOREM ReadsExactlyTheorem == Spec => ReadsExactly
BY ReaderInitial, StepRefines, RecvInvariant, PTL
DEF Spec, ReadsExactly, Reader!ReaderSpec
=============================================================================
