-------------------------- MODULE MCQuicRecvStream --------------------------
(***************************************************************************)
(* Instances of QuicRecvStream for TLC.                                    *)
(***************************************************************************)
EXTENDS QuicRecvStream

\* Nothing, less than a buffer, a buffer, main's first two reads (lines 572
\* and 579), more than two buffers.
MainSizes == {0, 100, 652, 1300, 1948, 2700}
=============================================================================
