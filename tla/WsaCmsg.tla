------------------------------- MODULE WsaCmsg -------------------------------
(***************************************************************************)
(* The functions of migrate-Udp that stand for the WSA_CMSG_* macros of    *)
(* Winsock, for the 64-bit system it runs on, beside the layout that the   *)
(* system itself uses.  Offsets and lengths are in bytes, and a control    *)
(* buffer is the words of 8 bytes in it.                                   *)
(***************************************************************************)
EXTENDS Integers

WORD == 8        \* size and alignment of usize
HDR == 16        \* size of WSACMSGHDR, whose alignment is that of a word
NULL == -1       \* no record

\* n & !(m - 1), for m a power of two.
Masked(n, m) == n - (n % m)

\* The layout of the system: a record begins at a multiple of a word.
Padded(length) == Masked(length + WORD - 1, WORD)
NextRecord(cmsg, cmsg_len) == cmsg + Padded(cmsg_len)
RecordSpace(length) == HDR + Padded(length)

-----------------------------------------------------------------------------

RoundedDown(length) == Masked(length, HDR)   \* mutant: nothing is added first
HdrAlign(length) == Masked(length + WORD - 1, HDR)

DataAlign(length) == Masked(length + WORD - 1, WORD)

CmsgSpace(length) == DataAlign(HDR + HdrAlign(length))

CmsgLen(length) == DataAlign(HDR + length)

FirstHdr(control_len) == IF control_len >= HDR THEN 0 ELSE NULL

NextHdr(control_len, cmsg, cmsg_len) ==
  IF cmsg = NULL THEN FirstHdr(control_len)
  ELSE LET next == cmsg + HdrAlign(cmsg_len) IN
       IF next + HDR > control_len THEN NULL ELSE next

DataAtHdr(cmsg) == cmsg                  \* mutant: the header is not skipped
CmsgData(cmsg) == cmsg + HDR

-----------------------------------------------------------------------------
(* Properties.                                                             *)

\* The walk to a second record, and the space set aside for one, are right
\* where the padded length is a multiple of the size of a header.  CmsgLen has
\* room for the data, and is exact for lengths in words, as IN_PKTINFO has.
RightFor(length) ==
  /\ Padded(length) % HDR = 0 => CmsgSpace(length) = RecordSpace(length)
  /\ CmsgLen(length) >= HDR + length
  /\ length % WORD = 0 => CmsgLen(length) = HDR + length
  /\ LET next == NextRecord(0, length) IN
     length >= HDR /\ next % HDR = 0 => NextHdr(next + HDR, 0, length) = next

\* Elsewhere HdrAlign, whose mask is a size and not an alignment (line 118), is
\* one word short.  The program has no use for it there.
ShortFor(length) ==
  LET next == NextRecord(0, length) IN
  /\ HdrAlign(length) = Padded(length) - WORD
  /\ CmsgSpace(length) = RecordSpace(length) - WORD
  /\ length >= HDR => NextHdr(next + HDR, 0, length) = next - WORD

\* RightFor each record of up to MaxLength bytes (lines 116-157).
MaxLength == 72
RightForWholeHeaders == \A length \in 0..MaxLength : RightFor(length)
=============================================================================
