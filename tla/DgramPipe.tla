------------------------------ MODULE DgramPipe ------------------------------
(***************************************************************************)
(* What the datagram path of poll-read/src/main.rs promises, without       *)
(* channels, requests or tasks.  Datagrams are numbered in the order of    *)
(* their acceptance and pass four stages in that order; the counters say   *)
(* how many have passed each one:                                          *)
(*                                                                         *)
(*   accepted >= forwarded >= transmitted >= acked                         *)
(*                                                                         *)
(* A flush is confirmed only when nothing accepted is short of the send    *)
(* queue.  When the pipe closes, what has not been forwarded is lost.      *)
(***************************************************************************)
EXTENDS Integers

CONSTANTS
  EntryCap,   \* datagrams accepted and not yet in the send queue
  QueueCap,   \* datagrams in the send queue
  Window,     \* bytes transmitted and not acknowledged
  Bytes(_)    \* bytes of the first n datagrams

VARIABLES accepted, forwarded, transmitted, acked, confirmed, closed

pipeVars == <<accepted, forwarded, transmitted, acked, confirmed, closed>>

PipeInit ==
  /\ accepted = 0
  /\ forwarded = 0
  /\ transmitted = 0
  /\ acked = 0
  /\ confirmed = 0
  /\ closed = FALSE

Accept ==
  /\ closed \/ accepted - forwarded < EntryCap
  /\ accepted' = accepted + 1
  /\ UNCHANGED <<forwarded, transmitted, acked, confirmed, closed>>

Forward ==
  /\ ~closed
  /\ forwarded < accepted
  /\ forwarded - transmitted < QueueCap
  /\ forwarded' = forwarded + 1
  /\ UNCHANGED <<accepted, transmitted, acked, confirmed, closed>>

Transmit ==
  /\ ~closed
  /\ transmitted < forwarded
  /\ Bytes(transmitted + 1) - Bytes(acked) <= Window
  /\ transmitted' = transmitted + 1
  /\ UNCHANGED <<accepted, forwarded, acked, confirmed, closed>>

Acknowledge ==
  /\ ~closed
  /\ acked < transmitted
  /\ acked' = acked + 1
  /\ UNCHANGED <<accepted, forwarded, transmitted, confirmed, closed>>

Confirm ==
  /\ forwarded = accepted
  /\ confirmed' = accepted
  /\ UNCHANGED <<accepted, forwarded, transmitted, acked, closed>>

Close ==
  /\ ~closed
  /\ closed' = TRUE
  /\ UNCHANGED <<accepted, forwarded, transmitted, acked, confirmed>>

PipeNext == Accept \/ Forward \/ Transmit \/ Acknowledge \/ Confirm \/ Close

PipeSpec == PipeInit /\ [][PipeNext]_pipeVars

\* A pipe that stays open moves every datagram it can move.
PipeFairness ==
  WF_pipeVars(Forward) /\ WF_pipeVars(Transmit) /\ WF_pipeVars(Acknowledge)

FairPipe == PipeSpec /\ PipeFairness
=============================================================================
