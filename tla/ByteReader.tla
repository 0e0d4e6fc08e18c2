----------------------------- MODULE ByteReader -----------------------------
(***************************************************************************)
(* What the receiving side of a stream promises to the caller of           *)
(* poll_read in poll-read/src/main.rs.  Bytes are numbered from 1 in the   *)
(* order of the stream.                                                    *)
(*                                                                         *)
(* A read that succeeds hands out exactly the next bytes, as many as were  *)
(* asked for.  A read that fails does so after the end of the stream and   *)
(* has used up all that was left.  A read that is abandoned may have used  *)
(* up any of the bytes that had been written, but not all it asked for.    *)
(***************************************************************************)
EXTENDS Integers

VARIABLES
  written,   \* number of bytes written to the stream
  ended,     \* nothing more will be written
  asked,     \* number of bytes the current or last read asks for
  used,      \* number of bytes handed out before the current read, or by now
  answer     \* "none", "pending", "Ok", "Err" or "abandoned"

readerVars == <<written, ended, asked, used, answer>>

ReaderInit ==
  /\ written = 0
  /\ ended = FALSE
  /\ asked = 0
  /\ used = 0
  /\ answer = "none"

Write ==
  /\ ~ended
  /\ written' > written
  /\ UNCHANGED <<ended, asked, used, answer>>

End ==
  /\ ~ended
  /\ ended' = TRUE
  /\ UNCHANGED <<written, asked, used, answer>>

Ask ==
  /\ answer # "pending"
  /\ answer' = "pending"
  /\ asked' \in Nat
  /\ UNCHANGED <<written, ended, used>>

Succeed ==
  /\ answer = "pending"
  /\ answer' = "Ok"
  /\ used + asked <= written
  /\ used' = used + asked
  /\ UNCHANGED <<written, ended, asked>>

\* A read that can be satisfied with what is at hand succeeds at once.
AskAndSucceed ==
  /\ answer # "pending"
  /\ answer' = "Ok"
  /\ asked' \in Nat
  /\ used' = used + asked'
  /\ used' <= written
  /\ UNCHANGED <<written, ended>>

Fail ==
  /\ answer = "pending"
  /\ ended
  /\ answer' = "Err"
  /\ used' = written
  /\ used' < used + asked
  /\ UNCHANGED <<written, ended, asked>>

Abandon ==
  /\ answer = "pending"
  /\ answer' = "abandoned"
  /\ used <= used'
  /\ used' <= written
  /\ used' < used + asked
  /\ UNCHANGED <<written, ended, asked>>

ReaderNext ==
  \/ Write \/ End \/ Ask \/ Succeed \/ AskAndSucceed \/ Fail \/ Abandon

ReaderSpec == ReaderInit /\ [][ReaderNext]_readerVars
=============================================================================
