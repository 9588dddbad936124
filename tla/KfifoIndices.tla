---------------------------- MODULE KfifoIndices ----------------------------
(***************************************************************************)
(* The index arithmetic of a kfifo (common/kfifo.c): a ring of Size bytes, *)
(* written at `start' and read at `end', one byte of which always stays    *)
(* unused so that start = end means empty.                                 *)
(***************************************************************************)
EXTENDS Integers

CONSTANT Size  \* kfifo_t.size, in bytes

ASSUME SizeAssumption == Size \in Nat \ {0, 1}

Indices == 0 .. Size - 1

SUCCESS == "SUCCESS"
BUFLEN == "BUFLEN"
FULL == "FULL"

\* kfifo_write_fifo(): curfree.
CurFree(start, end) ==
  LET d == start - end IN Size - (IF d < 0 THEN d + Size ELSE d) - 1

\* A slip in the next one: an empty ring counts as a full turn.
CurSizeFullTurn(start, end) ==
  LET d == end - start IN IF d <= 0 THEN d + Size ELSE d

\* kfifo_read_fifo(): cursize.  It is the distance from start up to end, the
\* part of the ring that is not in use.
CurSize(start, end) ==
  LET d == end - start IN IF d < 0 THEN d + Size ELSE d

\* A slip in the next one: an index that reaches Size exactly is not wrapped.
AdvancePast(i, len) == IF i + len > Size THEN i + len - Size ELSE i + len

\* fifo->start += len, fifo->end += len, wrapped once.
Advance(i, len) == IF i + len >= Size THEN i + len - Size ELSE i + len

\* The two length tests of kfifo_write_fifo(), and that of kfifo_read_fifo().
WriteError(start, end, len) ==
  IF Size - 1 < len THEN BUFLEN
  ELSE IF CurFree(start, end) < len THEN FULL
  ELSE SUCCESS

ReadError(start, end, len) ==
  IF CurSize(start, end) < len THEN BUFLEN ELSE SUCCESS

\* The bytes written and not read.
Used(start, end) ==
  LET d == start - end IN IF d < 0 THEN d + Size ELSE d
=============================================================================
