----------------------------- MODULE MCQuicDgram -----------------------------
(***************************************************************************)
(* Instances of QuicDgram for TLC.                                         *)
(***************************************************************************)
EXTENDS QuicDgramProperties, TLC

LOCAL INSTANCE SequencesExt

\* Where datagrams of these lengths end.
EndsOf(lens) ==
  [n \in 0..Len(lens) |-> FoldSeq(LAMBDA x, y : x + y, 0, SubSeq(lens, 1, n))]

\* One length, as in main.
EndsMain == EndsOf(<<2, 2, 2, 2, 2>>)

\* A window of 3 is filled by two datagrams, by one, and never by the fourth.
EndsAwaited == EndsOf(<<2, 1, 3, 4, 1>>)

\* In a window of 4 the second has to wait for the first.
EndsSink == EndsOf(<<2, 3, 1, 4, 1>>)

\* The first fills a window of 3, the third is longer than it; behind the third
\* there is a datagram for the parking place, the channel and a waiting writer.
EndsLive == EndsOf(<<3, 2, 4, 1, 1, 1>>)

\* main's own sequence of operations (lines 613-634).
ScriptMain == <<{"chunk"}, {"chunk"}, {"send"}, {"flush"}>>

\* Operations each of which is awaited, enough of them to fill every buffer.
ScriptAwaited == [i \in 1..5 |-> {"chunk", "send", "flush"}]

\* The same for liveness, which needs the whole graph at once: enough chunks for
\* the last to find a datagram at the head, one parked and one in the channel.
ScriptLive ==
  [i \in 1..6 |-> IF i \in 1..2 THEN {"chunk"} ELSE {"chunk", "flush"}]

\* The whole interface of the Sink, misuse of poll_ready included, once there
\* may be something to flush; and at last a flush, which may meet the entry that
\* an abandoned poll_ready left under its key.
ScriptSink == <<{"chunk", "send", "ready"}, Op, Op, Op, {"flush"}>>

\* Operations that may be abandoned.
ScriptCancel == [i \in 1..5 |-> {"chunk", "flush", "ready"}]

\* Addresses of cx are interchangeable.  Not used with liveness.
KeySymmetry == Permutations(Keys)
=============================================================================
