----------------------------- MODULE KfifoRing -----------------------------
(***************************************************************************)
(* The data path of one kfifo between a sender and a receiver that its     *)
(* access lists allow: kfifo_write_fifo() and kfifo_read_fifo() with the   *)
(* bytes they copy into and out of the ring (common/kfifo.c).  Each call   *)
(* runs with interrupts off and is one step.                               *)
(***************************************************************************)
EXTENDS KfifoIndices, Sequences

CONSTANTS
  Record,  \* the length of a record
  Mixed,   \* the lengths that callers pass who do not keep to records
  Bytes,   \* what a byte may be
  Stale    \* what an unwritten page holds

ASSUME LensAssumption == Record \in Nat \ {0} /\ Mixed \subseteq Nat \ {0}

VARIABLES
  lens,   \* the lengths the callers of this kfifo pass
  start,  \* where the next byte is written
  end,    \* where the next byte is read
  buf,    \* the pages of the ring
  out,    \* what the last successful read copied to its caller
  err     \* what the last call returned

ringVars == <<lens, start, end, buf, out, err>>

RingInit ==
  /\ lens \in {{Record}, Mixed}
  /\ start = 0
  /\ end = 0
  /\ buf = [i \in Indices |-> Stale]
  /\ out = <<>>
  /\ err = SUCCESS

\* How far behind `from' index i lies on the ring.
Offset(from, i) == IF i >= from THEN i - from ELSE i + Size - from

\* The bytes from index i on.
Extract(i, len) == [k \in 1 .. len |-> buf[Advance(i, k - 1)]]

\* A slip in the next one: the part of the data behind the ring's end is not copied.
StoreUnwrapped(data) ==
  buf' = [i \in Indices |->
            IF i >= start /\ i - start < Len(data) THEN data[i - start + 1] ELSE buf[i]]

\* memcpy() to start, in two parts when the data reaches the ring's end.
Store(data) ==
  buf' = [i \in Indices |->
            IF Offset(start, i) < Len(data) THEN data[Offset(start, i) + 1] ELSE buf[i]]

Write(data) ==
  LET len == Len(data) IN
  /\ err' = WriteError(start, end, len)
  /\ IF err' = SUCCESS
     THEN Store(data) /\ start' = Advance(start, len)
     ELSE UNCHANGED <<buf, start>>
  /\ UNCHANGED <<end, out>>

Read(len) ==
  /\ err' = ReadError(start, end, len)
  /\ IF err' = SUCCESS
     THEN out' = Extract(end, len) /\ end' = Advance(end, len)
     ELSE UNCHANGED <<out, end>>
  /\ UNCHANGED <<start, buf>>

RingNext ==
  /\ \E len \in lens : Read(len) \/ \E data \in [1 .. len -> Bytes] : Write(data)
  /\ UNCHANGED lens

RingSpec == RingInit /\ [][RingNext]_ringVars

-----------------------------------------------------------------------------
RingTypeOK ==
  /\ lens \in {{Record}, Mixed}
  /\ start \in Indices
  /\ end \in Indices
  /\ buf \in [Indices -> Bytes \cup {Stale}]
  /\ err \in {SUCCESS, BUFLEN, FULL}

\* The bytes written and not read, in the order of the ring.
Contents == Extract(end, Used(start, end))

\* Whatever lengths senders and receivers use, a write adds its bytes behind
\* those not read yet and disturbs none of them, also where it wraps round the
\* ring's end; a refused write changes nothing (kfifo.c:152-217).
WriteAppends ==
  [][/\ start' # start =>
          \A len \in lens : \A data \in [1 .. len -> Bytes] :
            Write(data) => Contents' = Contents \o data
     /\ start' = start /\ end' = end => Contents' = Contents]_ringVars

\* All calls are for records of one length.
InRecords == lens = {Record}

\* The abstract queue that a ring read and written in records amounts to: it
\* holds the whole records that fit in Size - 1 bytes.  A ring that is used
\* otherwise is not mapped to anything.
Queue == INSTANCE ByteQueue WITH
  Capacity <- ((Size - 1) \div Record) * Record,
  Lens <- {Record},
  queue <- IF InRecords THEN Contents ELSE <<>>,
  out <- IF InRecords THEN out ELSE <<>>,
  err <- IF InRecords THEN err ELSE SUCCESS

\* When every caller uses records of one length that divides the ring, the
\* kfifo is a first-in first-out queue: nothing lost, repeated, reordered or
\* made up, and a read is refused only when the ring is empty
\* (kfifo.c:128-335).
RecordQueue == Queue!Spec

\* kfifo.c:237-240: a read "Will return KFIFO_ERR_BUFLEN in the case that the
\* number of requested bytes is not available" and succeeds otherwise, whatever
\* lengths have been used.
ReadAnswersTruly ==
  [][\A len \in lens :
       Read(len) => (err' = SUCCESS <=> len <= Used(start, end))]_ringVars
=============================================================================
