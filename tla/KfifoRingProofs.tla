-------------------------- MODULE KfifoRingProofs --------------------------
(***************************************************************************)
(* Proofs about the data path of a kfifo, for every size of the ring, every*)
(* mix of lengths and every kind of bytes: what a write does to the bytes  *)
(* not read yet, and, for records that divide the ring, that it is a queue.*)
(***************************************************************************)
EXTENDS KfifoRing, TLAPS

-----------------------------------------------------------------------------
(* Arithmetic on the ring.                                                 *)

LEMMA AdvanceType ==
  ASSUME NEW i \in Indices, NEW len \in 0 .. Size
  PROVE  Advance(i, len) \in Indices
BY SizeAssumption DEF Advance, Indices

LEMMA UsedType ==
  ASSUME NEW s \in Indices, NEW e \in Indices
  PROVE  /\ Used(s, e) \in 0 .. Size - 1
         /\ CurFree(s, e) = Size - 1 - Used(s, e)
         /\ Used(s, e) = 0 <=> s = e
BY SizeAssumption DEF Used, CurFree, Indices

\* Bytes written are bytes used, bytes read are not.
LEMMA UsedAfterWrite ==
  ASSUME NEW s \in Indices, NEW e \in Indices, NEW len \in Nat,
         Used(s, e) + len <= Size - 1
  PROVE  Used(Advance(s, len), e) = Used(s, e) + len
BY SizeAssumption DEF Used, Advance, Indices

LEMMA UsedAfterRead ==
  ASSUME NEW s \in Indices, NEW e \in Indices, NEW len \in Nat, len <= Used(s, e)
  PROVE  Used(s, Advance(e, len)) = Used(s, e) - len
BY SizeAssumption DEF Used, Advance, Indices

\* The k-th byte from the reader's index on lies behind everything that a write
\* of what fits can reach if it is unread ...
LEMMA OffsetOfUnread ==
  ASSUME NEW s \in Indices, NEW e \in Indices, NEW k \in 1 .. Used(s, e)
  PROVE  Offset(s, Advance(e, k - 1)) = Size - Used(s, e) + k - 1
BY SizeAssumption DEF Used, Advance, Indices, Offset

\* ... and is what the write puts at that place otherwise.
LEMMA OffsetOfNew ==
  ASSUME NEW s \in Indices, NEW e \in Indices, NEW k \in Nat,
         Used(s, e) < k, k <= Size
  PROVE  Offset(s, Advance(e, k - 1)) = k - 1 - Used(s, e)
BY SizeAssumption DEF Used, Advance, Indices, Offset

LEMMA AdvanceTwice ==
  ASSUME NEW e \in Indices, NEW a \in Nat, NEW b \in Nat, a + b <= Size
  PROVE  Advance(Advance(e, a), b) = Advance(e, a + b)
BY SizeAssumption DEF Advance, Indices

\* A write that is not refused fits, and one that fits is not refused.
LEMMA WriteErrors ==
  ASSUME NEW s \in Indices, NEW e \in Indices, NEW len \in Nat
  PROVE  WriteError(s, e, len) =
           IF len > Size - 1 THEN BUFLEN
           ELSE IF Used(s, e) + len > Size - 1 THEN FULL ELSE SUCCESS
<1> DEFINE u == Used(s, e)
<1>1. u \in Nat /\ CurFree(s, e) = Size - 1 - u /\ Size \in Nat
  BY UsedType, SizeAssumption
<1>2. /\ Size - 1 < len <=> len > Size - 1
      /\ CurFree(s, e) < len <=> u + len > Size - 1
  <2> HIDE DEF u
  <2> QED BY <1>1
<1> QED BY <1>2 DEF WriteError

-----------------------------------------------------------------------------
(* Writes.                                                                 *)

LEMMA LensAreNat ==
  ASSUME RingTypeOK
  PROVE  lens \subseteq Nat \ {0}
BY LensAssumption DEF RingTypeOK

\* A write that succeeds appends its data to what is in the ring.
LEMMA WriteExtends ==
  ASSUME RingTypeOK, NEW len \in Nat \ {0}, NEW data \in [1 .. len -> Bytes],
         Write(data), err' = SUCCESS
  PROVE  /\ Contents' = Contents \o data
         /\ start' # start
         /\ Used(start, end) + len <= Size - 1
         /\ start' = Advance(start, len) /\ end' = end
<1> DEFINE u == Used(start, end)
<1>1. start \in Indices /\ end \in Indices /\ Len(data) = len
  BY DEF RingTypeOK
<1>2. /\ WriteError(start, end, len) = SUCCESS
      /\ Store(data) /\ start' = Advance(start, len) /\ end' = end
  BY <1>1 DEF Write
<1>3. u \in 0 .. Size - 1 /\ u + len <= Size - 1
  <2>1. u \in 0 .. Size - 1
    BY <1>1, UsedType
  <2>2. ~(len > Size - 1) /\ ~(u + len > Size - 1)
    BY <1>1, <1>2, WriteErrors DEF SUCCESS, BUFLEN, FULL
  <2> HIDE DEF u
  <2> QED BY <2>1, <2>2, SizeAssumption
<1>4. start' # start
  BY <1>1, <1>2, <1>3, SizeAssumption DEF Advance, Indices
<1>5. Used(start', end') = u + len
  BY <1>1, <1>2, <1>3, UsedAfterWrite
<1>6. ASSUME NEW k \in 1 .. u + len
      PROVE  buf'[Advance(end, k - 1)] =
               IF k <= u THEN buf[Advance(end, k - 1)] ELSE data[k - u]
  <2> DEFINE i == Advance(end, k - 1)
  <2>0. k - 1 \in 0 .. Size /\ k \in Nat /\ k <= Size
    <3> HIDE DEF u
    <3> QED BY <1>3, SizeAssumption
  <2>1. i \in Indices
    BY <1>1, <2>0, AdvanceType
  <2>2. buf'[i] = IF Offset(start, i) < len THEN data[Offset(start, i) + 1] ELSE buf[i]
    <3> HIDE DEF i
    <3> QED BY <1>1, <1>2, <2>1 DEF Store
  <2>3. CASE k <= u
    <3>1. Offset(start, i) = Size - u + k - 1
      BY <1>1, <2>0, <2>3, OffsetOfUnread
    <3>2. ~(Offset(start, i) < len)
      <4> HIDE DEF i, u
      <4> QED BY <1>3, <2>0, <2>3, <3>1, SizeAssumption
    <3> HIDE DEF u
    <3> QED BY <2>2, <2>3, <3>2
  <2>4. CASE k > u
    <3>1. Offset(start, i) = k - 1 - u
      BY <1>1, <2>0, <2>4, OffsetOfNew
    <3>2. Offset(start, i) < len /\ Offset(start, i) + 1 = k - u /\ ~(k <= u)
      <4> HIDE DEF i, u
      <4> QED BY <1>3, <2>0, <2>4, <3>1, SizeAssumption
    <3> HIDE DEF i, u
    <3>3. buf'[i] = data[k - u]
      BY <2>2, <3>2
    <3> QED BY <3>2, <3>3 DEF i
  <2>5. k <= u \/ k > u
    <3> HIDE DEF u
    <3> QED BY <1>3, <2>0
  <2> QED BY <2>3, <2>4, <2>5
<1>7. Contents = [k \in 1 .. u |-> buf[Advance(end, k - 1)]]
  BY DEF Contents, Extract
<1>8. Contents' = [k \in 1 .. u + len |-> buf'[Advance(end, k - 1)]]
  BY <1>2, <1>5 DEF Contents, Extract
<1>9. Contents \o data =
        [k \in 1 .. u + len |-> IF k <= u THEN Contents[k] ELSE data[k - u]]
  <2> HIDE DEF u
  <2>1. u \in Nat /\ Contents = [k \in 1 .. u |-> Contents[k]]
    BY <1>3, <1>7
  <2>2. Len(Contents) = u
    BY <2>1, <1>7
  <2> QED BY <1>1, <2>1, <2>2
<1>10. Contents' = Contents \o data
  <2> HIDE DEF u
  <2>1. ASSUME NEW k \in 1 .. u + len
        PROVE  Contents'[k] = (Contents \o data)[k]
    <3>1. k \in 1 .. u <=> k <= u
      BY <1>3
    <3> QED BY <1>6, <1>7, <1>8, <1>9, <3>1
  <2> QED BY <2>1, <1>8, <1>9
<1> QED BY <1>2, <1>3, <1>4, <1>10

-----------------------------------------------------------------------------
\* Every call leaves the ring in shape.
LEMMA RingStep == RingTypeOK /\ [RingNext]_ringVars => RingTypeOK'
<1> SUFFICES ASSUME RingTypeOK, [RingNext]_ringVars PROVE RingTypeOK'
  OBVIOUS
<1>1. CASE UNCHANGED ringVars
  BY <1>1 DEF RingTypeOK, ringVars
<1>2. ASSUME NEW len \in lens, Read(len), UNCHANGED lens
      PROVE  RingTypeOK'
  <2>1. len \in Nat /\ start \in Indices /\ end \in Indices
    BY LensAreNat DEF RingTypeOK
  <2>2. err' \in {SUCCESS, BUFLEN, FULL}
    BY <1>2 DEF Read, ReadError
  <2>3. end' \in Indices
    <3>1. CASE err' = SUCCESS
      <4>1. len <= Size - 1 /\ end' = Advance(end, len)
        BY <1>2, <2>1, <3>1, SizeAssumption
        DEF Read, ReadError, CurSize, Indices, SUCCESS, BUFLEN
      <4> QED BY <2>1, <4>1, AdvanceType, SizeAssumption
    <3> QED BY <1>2, <2>1, <3>1 DEF Read
  <2> QED BY <1>2, <2>2, <2>3 DEF Read, RingTypeOK
<1>3. ASSUME NEW len \in lens, NEW data \in [1 .. len -> Bytes], Write(data), UNCHANGED lens
      PROVE  RingTypeOK'
  <2>1. len \in Nat \ {0} /\ start \in Indices /\ end \in Indices
    BY LensAreNat DEF RingTypeOK
  <2>2. err' \in {SUCCESS, BUFLEN, FULL}
    BY <1>3 DEF Write, WriteError
  <2>3. CASE err' = SUCCESS
    <3>1. start' \in Indices /\ end' \in Indices
      <4>1. /\ start' = Advance(start, len) /\ end' = end
            /\ Used(start, end) + len <= Size - 1
        BY <1>3, <2>1, <2>3, WriteExtends
      <4>2. Used(start, end) \in Nat
        BY <2>1, UsedType
      <4>3. len \in 0 .. Size
        BY <2>1, <4>1, <4>2, SizeAssumption
      <4> QED BY <2>1, <4>1, <4>3, AdvanceType
    <3>2. buf' \in [Indices -> Bytes \cup {Stale}]
      <4>1. Store(data) /\ Len(data) = len
        BY <1>3, <2>1, <2>3 DEF Write
      <4>2. \A i \in Indices : Offset(start, i) \in Nat
        BY <2>1, SizeAssumption DEF Offset, Indices
      <4>3. ASSUME NEW i \in Indices
            PROVE  (IF Offset(start, i) < Len(data) THEN data[Offset(start, i) + 1]
                    ELSE buf[i]) \in Bytes \cup {Stale}
        BY <2>1, <4>1, <4>2 DEF RingTypeOK
      <4> QED BY <4>1, <4>3 DEF Store
    <3> QED BY <1>3, <2>2, <3>1, <3>2 DEF RingTypeOK
  <2>4. CASE err' # SUCCESS
    BY <1>3, <2>2, <2>4 DEF Write, RingTypeOK
  <2> QED BY <2>3, <2>4
<1> QED BY <1>1, <1>2, <1>3 DEF RingNext

\* The indices never leave the ring, whatever lengths are written and read
\* (kfifo.c:214-217, 313-316).
THEOREM IndicesStayInRing == RingSpec => []RingTypeOK
<1>1. RingInit => RingTypeOK
  BY SizeAssumption DEF RingInit, RingTypeOK, Indices
<1> QED BY <1>1, RingStep, PTL DEF RingSpec

\* A write of any length adds its bytes behind the unread ones and disturbs
\* none of them; a refused one changes nothing (kfifo.c:152-217).
THEOREM WritesAppend == RingSpec => WriteAppends
<1>1. RingTypeOK /\ [RingNext]_ringVars =>
        [/\ start' # start =>
              \A len \in lens : \A data \in [1 .. len -> Bytes] :
                Write(data) => Contents' = Contents \o data
         /\ start' = start /\ end' = end => Contents' = Contents]_ringVars
  <2> SUFFICES ASSUME RingTypeOK, [RingNext]_ringVars
               PROVE  /\ start' # start =>
                           \A len \in lens : \A data \in [1 .. len -> Bytes] :
                             Write(data) => Contents' = Contents \o data
                      /\ start' = start /\ end' = end => Contents' = Contents
    OBVIOUS
  <2>1. ASSUME start' # start, NEW len \in lens, NEW data \in [1 .. len -> Bytes], Write(data)
        PROVE  Contents' = Contents \o data
    <3>1. err' = SUCCESS
      BY <2>1 DEF Write
    <3> QED BY <2>1, <3>1, LensAreNat, WriteExtends
  <2>2. ASSUME start' = start, end' = end
        PROVE  Contents' = Contents
    <3>1. buf' = buf
      <4>1. CASE UNCHANGED ringVars
        BY <4>1 DEF ringVars
      <4>2. CASE \E len \in lens : Read(len)
        BY <4>2 DEF Read
      <4>3. ASSUME NEW len \in lens, NEW data \in [1 .. len -> Bytes], Write(data)
            PROVE  buf' = buf
        <5>1. err' # SUCCESS
          BY <2>2, <4>3, LensAreNat, WriteExtends
        <5> QED BY <4>3, <5>1 DEF Write
      <4> QED BY <4>1, <4>2, <4>3 DEF RingNext
    <3> QED BY <2>2, <3>1 DEF Contents, Extract
  <2> QED BY <2>1, <2>2
<1> QED BY <1>1, IndicesStayInRing, PTL DEF RingSpec, WriteAppends

-----------------------------------------------------------------------------
(* Records.  Everything is counted in whole records, so a test that compares *)
(* with the unused part of the ring comes out as the one that was meant.   *)

\* The length of the records divides that of the ring.
Divides == \E m \in Int : Size = m * Record

Whole(x) == \E a \in Int : x = a * Record

LEMMA WholeSums ==
  ASSUME NEW x \in Int, NEW y \in Int, Whole(x), Whole(y)
  PROVE  Whole(x + y) /\ Whole(x - y)
<1>1. PICK a \in Int, b \in Int : x = a * Record /\ y = b * Record
  BY DEF Whole
<1>2. x + y = (a + b) * Record /\ x - y = (a - b) * Record
  BY <1>1, LensAssumption
<1> QED BY <1>2 DEF Whole

\* Of two whole numbers of records the smaller is at least a record smaller.
LEMMA WholeGap ==
  ASSUME NEW x \in Int, NEW y \in Int, Whole(x), Whole(y), x < y
  PROVE  x + Record <= y
<1>1. PICK a \in Int, b \in Int : x = a * Record /\ y = b * Record
  BY DEF Whole
<1> DEFINE d == b - a
<1>2. y - x = d * Record /\ d \in Int
  BY <1>1, LensAssumption
<1>3. d >= 1
  BY <1>2, LensAssumption
<1>4. (d - 1) * Record >= 0
  <2> HIDE DEF d
  <2> QED BY <1>2, <1>3, LensAssumption
<1>5. (d - 1) * Record = d * Record - Record
  <2> HIDE DEF d
  <2> QED BY <1>2, LensAssumption
<1> QED BY <1>2, <1>4, <1>5, LensAssumption

LEMMA WholeRing ==
  ASSUME Divides, NEW s \in Indices, NEW e \in Indices, Whole(s), Whole(e)
  PROVE  /\ Whole(Record) /\ Whole(Size)
         /\ Whole(Used(s, e))
         /\ Whole(Advance(s, Record)) /\ Whole(Advance(e, Record))
<1>1. s \in Int /\ e \in Int /\ Size \in Int /\ Record \in Int
  BY SizeAssumption, LensAssumption DEF Indices
<1>2. Whole(Record)
  <2>1. Record = 1 * Record
    BY LensAssumption
  <2> QED BY <2>1 DEF Whole
<1>3. Whole(Size)
  BY DEF Divides, Whole
<1>4. Whole(Used(s, e))
  <2>1. Whole(s - e) /\ s - e \in Int
    BY <1>1, WholeSums
  <2>2. Whole((s - e) + Size)
    BY <1>1, <1>3, <2>1, WholeSums
  <2> QED BY <2>1, <2>2 DEF Used
<1>5. ASSUME NEW i \in Int, Whole(i)
      PROVE  Whole(Advance(i, Record))
  <2>1. Whole(i + Record) /\ i + Record \in Int
    BY <1>1, <1>2, <1>5, WholeSums
  <2>2. Whole((i + Record) - Size)
    BY <1>1, <1>3, <2>1, WholeSums
  <2>3. CASE i + Record >= Size
    <3>1. Advance(i, Record) = (i + Record) - Size
      BY <1>1, <2>3 DEF Advance
    <3> QED BY <2>2, <3>1
  <2>4. CASE ~(i + Record >= Size)
    <3>1. Advance(i, Record) = i + Record
      BY <2>4 DEF Advance
    <3> QED BY <2>1, <3>1
  <2> QED BY <2>3, <2>4
<1> QED BY <1>1, <1>2, <1>3, <1>4, <1>5

\* All but one record of the ring can be used.
LEMMA RecordCapacity ==
  ASSUME Divides
  PROVE  ((Size - 1) \div Record) * Record = Size - Record
<1>1. PICK m \in Int : Size = m * Record
  BY DEF Divides
<1>2. Size - 1 = (m - 1) * Record + (Record - 1)
  BY <1>1, LensAssumption
<1>3. m - 1 \in Int /\ Record - 1 \in 0 .. Record - 1 /\ Record \in Nat \ {0}
  BY LensAssumption
<1>4. ((m - 1) * Record + (Record - 1)) \div Record = m - 1
  BY <1>3, SMTT(30)
<1>5. (m - 1) * Record = m * Record - Record
  BY LensAssumption
<1> QED BY <1>1, <1>2, <1>4, <1>5

RecordInv ==
  /\ RingTypeOK
  /\ InRecords => Whole(start) /\ Whole(end)

\* The tests of kfifo_write_fifo() and kfifo_read_fifo() say of records what
\* the queue says; the second looks at the unused part of the ring.
LEMMA RecordErrors ==
  ASSUME Divides, NEW s \in Indices, NEW e \in Indices, Whole(s), Whole(e)
  PROVE  /\ WriteError(s, e, Record) =
              IF Used(s, e) + Record <= Size - Record THEN SUCCESS
              ELSE IF Record > Size - Record THEN BUFLEN ELSE FULL
         /\ ReadError(s, e, Record) = IF Record <= Used(s, e) THEN SUCCESS ELSE BUFLEN
<1> DEFINE u == Used(s, e)
<1>1. /\ u \in 0 .. Size - 1 /\ Record \in Nat \ {0} /\ Size \in Nat \ {0, 1}
      /\ Whole(u) /\ Whole(Record) /\ Whole(Size)
  BY UsedType, WholeRing, SizeAssumption, LensAssumption
<1> HIDE DEF u
<1>2. u + Record > Size - 1 <=> ~(u + Record <= Size - Record)
  <2>1. Whole(u + Record) /\ u + Record \in Int
    BY <1>1, WholeSums
  <2>2. u + Record < Size => (u + Record) + Record <= Size
    BY <1>1, <2>1, WholeGap
  <2> QED BY <1>1, <2>1, <2>2
<1>3. Record > Size - 1 <=> Record > Size - Record
  <2>1. Record < Size => Record + Record <= Size
    BY <1>1, WholeGap
  <2> QED BY <1>1, <2>1
<1>4. WriteError(s, e, Record) =
        IF u + Record <= Size - Record THEN SUCCESS
        ELSE IF Record > Size - Record THEN BUFLEN ELSE FULL
  <2>1. Record > Size - 1 => u + Record > Size - 1
    BY <1>1
  <2>2. WriteError(s, e, Record) =
          IF Record > Size - 1 THEN BUFLEN
          ELSE IF u + Record > Size - 1 THEN FULL ELSE SUCCESS
    BY <1>1, WriteErrors DEF u
  <2> QED BY <1>2, <1>3, <2>1, <2>2
<1>5. CurSize(s, e) < Record <=> ~(Record <= u)
  <2>1. CurSize(s, e) = IF u = 0 THEN 0 ELSE Size - u
    BY SizeAssumption DEF CurSize, Used, Indices, u
  <2>2. 0 < u => Record <= u
    <3>1. Whole(0)
      <4>1. 0 = 0 * Record
        BY LensAssumption
      <4> QED BY <4>1 DEF Whole
    <3> QED BY <1>1, <3>1, WholeGap
  <2>3. u + Record <= Size
    BY <1>1, WholeGap
  <2> QED BY <1>1, <2>1, <2>2, <2>3
<1>6. ReadError(s, e, Record) = IF Record <= u THEN SUCCESS ELSE BUFLEN
  BY <1>5 DEF ReadError
<1> QED BY <1>4, <1>6 DEF u

\* What a record's read takes out is the head of the contents; the rest stays.
LEMMA ReadTakes ==
  ASSUME RingTypeOK, NEW len \in Nat \ {0}, Read(len), err' = SUCCESS,
         len <= Used(start, end)
  PROVE  /\ out' = SubSeq(Contents, 1, len)
         /\ Contents' = SubSeq(Contents, len + 1, Len(Contents))
<1> DEFINE u == Used(start, end)
<1>1. start \in Indices /\ end \in Indices /\ u \in 0 .. Size - 1
  BY UsedType DEF RingTypeOK
<1>2. out' = Extract(end, len) /\ end' = Advance(end, len) /\ start' = start /\ buf' = buf
  BY DEF Read
<1>3. Used(start', end') = u - len
  BY <1>1, <1>2, UsedAfterRead
<1>4. Contents = [k \in 1 .. u |-> buf[Advance(end, k - 1)]] /\ Len(Contents) = u
  <2>1. Contents = [k \in 1 .. u |-> buf[Advance(end, k - 1)]]
    BY DEF Contents, Extract
  <2> HIDE DEF u
  <2> QED BY <1>1, <2>1
<1>5. out' = [k \in 1 .. len |-> buf[Advance(end, k - 1)]]
  BY <1>2 DEF Extract
<1>6. Contents' = [k \in 1 .. u - len |-> buf[Advance(Advance(end, len), k - 1)]]
  BY <1>2, <1>3 DEF Contents, Extract
<1> HIDE DEF u
<1>7. len <= u /\ u \in Nat /\ Size \in Nat
  BY <1>1, SizeAssumption DEF u
<1>8. ASSUME NEW k \in 1 .. u - len
      PROVE  Advance(Advance(end, len), k - 1) = Advance(end, (k + len) - 1)
  <2>1. k - 1 \in Nat /\ len + (k - 1) <= Size /\ len + (k - 1) = (k + len) - 1
    BY <1>1, <1>7
  <2> QED BY <1>1, <2>1, AdvanceTwice
<1>9. SubSeq(Contents, 1, len) = [k \in 1 .. len |-> Contents[k]]
  BY <1>4, <1>7
<1>10. SubSeq(Contents, len + 1, u) = [k \in 1 .. u - len |-> Contents[k + len]]
  <2>1. (u - (len + 1)) + 1 = u - len
    BY <1>7
  <2>2. \A k \in 1 .. u - len : (k + (len + 1)) - 1 = k + len
    BY <1>7
  <2>3. SubSeq(Contents, len + 1, u) =
          [k \in 1 .. (u - (len + 1)) + 1 |-> Contents[(k + (len + 1)) - 1]]
    BY <1>4, <1>7
  <2> QED BY <2>1, <2>2, <2>3
<1>11. out' = SubSeq(Contents, 1, len)
  BY <1>4, <1>5, <1>7, <1>9
<1>12. Contents' = SubSeq(Contents, len + 1, u)
  <2>1. ASSUME NEW k \in 1 .. u - len
        PROVE  k + len \in 1 .. u /\ Contents[k + len] = buf[Advance(end, (k + len) - 1)]
    BY <1>4, <1>7
  <2> QED BY <1>6, <1>8, <1>10, <2>1
<1> QED BY <1>4, <1>11, <1>12

LEMMA RecordStep ==
  ASSUME Divides
  PROVE  RecordInv /\ [RingNext]_ringVars => RecordInv'
<1> SUFFICES ASSUME RecordInv, [RingNext]_ringVars PROVE RecordInv'
  OBVIOUS
<1>1. RingTypeOK'
  BY RingStep DEF RecordInv
<1>2. ASSUME InRecords' PROVE Whole(start') /\ Whole(end')
  <2>1. lens' = lens /\ InRecords /\ lens = {Record}
    BY <1>2 DEF RingNext, ringVars, InRecords
  <2>2. start \in Indices /\ end \in Indices /\ Whole(start) /\ Whole(end)
    BY <2>1 DEF RecordInv, RingTypeOK
  <2>3. Whole(Advance(start, Record)) /\ Whole(Advance(end, Record))
    BY <2>2, WholeRing
  <2>4. start' \in {start, Advance(start, Record)} /\ end' \in {end, Advance(end, Record)}
    <3>1. CASE UNCHANGED ringVars
      BY <3>1 DEF ringVars
    <3>2. CASE Read(Record)
      BY <3>2 DEF Read
    <3>3. ASSUME NEW data \in [1 .. Record -> Bytes], Write(data)
          PROVE  start' \in {start, Advance(start, Record)} /\ end' = end
      <4>1. Len(data) = Record
        BY LensAssumption
      <4> QED BY <3>3, <4>1 DEF Write
    <3> QED BY <2>1, <3>1, <3>2, <3>3 DEF RingNext
  <2> QED BY <2>2, <2>3, <2>4
<1> QED BY <1>1, <1>2 DEF RecordInv

\* A call for a record is a call of the queue, with the same result.
LEMMA RecordRefines ==
  ASSUME Divides
  PROVE  RecordInv /\ [RingNext]_ringVars => [Queue!Next]_Queue!vars
<1> SUFFICES ASSUME RecordInv, [RingNext]_ringVars
             PROVE  [Queue!Next]_Queue!vars
  OBVIOUS
<1>1. lens' = lens /\ (InRecords' <=> InRecords)
  BY DEF RingNext, ringVars, InRecords
<1>2. CASE ~InRecords
  BY <1>1, <1>2 DEF Queue!vars
<1>3. CASE InRecords /\ UNCHANGED ringVars
  <2>1. Contents' = Contents
    BY <1>3 DEF Contents, Extract, ringVars
  <2> QED BY <1>1, <1>3, <2>1 DEF Queue!vars, ringVars
<1>4. CASE InRecords /\ RingNext
  <2> DEFINE u == Used(start, end)
             cap == ((Size - 1) \div Record) * Record
  <2>1. /\ RingTypeOK /\ start \in Indices /\ end \in Indices
        /\ Whole(start) /\ Whole(end)
    BY <1>4 DEF RecordInv, RingTypeOK
  <2>2. cap = Size - Record
    BY RecordCapacity
  <2>3. u \in 0 .. Size - 1 /\ Len(Contents) = u
    <3>1. u \in 0 .. Size - 1
      BY <2>1, UsedType
    <3> HIDE DEF u
    <3>2. Contents = [k \in 1 .. u |-> buf[Advance(end, k - 1)]]
      BY DEF Contents, Extract, u
    <3> QED BY <3>1, <3>2
  <2>4. /\ WriteError(start, end, Record) =
             IF u + Record <= cap THEN SUCCESS
             ELSE IF Record > cap THEN BUFLEN ELSE FULL
        /\ ReadError(start, end, Record) = IF Record <= u THEN SUCCESS ELSE BUFLEN
    BY <2>1, <2>2, RecordErrors
  <2>5. Record \in Nat \ {0} /\ SUCCESS = "SUCCESS" /\ BUFLEN = "BUFLEN" /\ FULL = "FULL"
        /\ SUCCESS # BUFLEN /\ SUCCESS # FULL
    BY LensAssumption DEF SUCCESS, BUFLEN, FULL
  <2>6. ASSUME Read(Record)
        PROVE  IF Record <= Len(Contents)
               THEN /\ out' = SubSeq(Contents, 1, Record)
                    /\ Contents' = SubSeq(Contents, Record + 1, Len(Contents))
                    /\ err' = "SUCCESS"
               ELSE Contents' = Contents /\ out' = out /\ err' = "BUFLEN"
    <3>1. err' = IF Record <= u THEN SUCCESS ELSE BUFLEN
      BY <2>4, <2>6 DEF Read
    <3>2. CASE Record <= u
      BY <2>1, <2>3, <2>5, <2>6, <3>1, <3>2, ReadTakes
    <3>3. CASE ~(Record <= u)
      <4>1. err' = BUFLEN
        BY <3>1, <3>3
      <4>2. UNCHANGED <<start, end, buf, out>>
        BY <2>5, <2>6, <4>1 DEF Read
      <4>3. Contents' = Contents
        BY <4>2 DEF Contents, Extract
      <4> QED BY <2>3, <2>5, <3>3, <4>1, <4>2, <4>3
    <3> QED BY <3>2, <3>3
  <2>7. ASSUME NEW data \in [1 .. Record -> Bytes], Write(data)
        PROVE  /\ IF Len(Contents) + Len(data) <= cap
                  THEN Contents' = Contents \o data /\ err' = "SUCCESS"
                  ELSE /\ Contents' = Contents
                       /\ err' = (IF Len(data) > cap THEN "BUFLEN" ELSE "FULL")
               /\ out' = out
    <3>1. Len(data) = Record
      BY <2>5
    <3>2. err' = IF u + Record <= cap THEN SUCCESS
                 ELSE IF Record > cap THEN BUFLEN ELSE FULL
      BY <2>4, <2>7, <3>1 DEF Write
    <3>3. out' = out
      BY <2>7 DEF Write
    <3> HIDE DEF cap
    <3>4. CASE u + Record <= cap
      <4>1. Contents' = Contents \o data
        BY <2>1, <2>5, <2>7, <3>2, <3>4, WriteExtends
      <4> QED BY <2>3, <2>5, <3>1, <3>2, <3>3, <3>4, <4>1
    <3>5. CASE ~(u + Record <= cap)
      <4>1. UNCHANGED <<start, end, buf>>
        BY <2>5, <2>7, <3>2, <3>5 DEF Write
      <4>2. Contents' = Contents
        BY <4>1 DEF Contents, Extract
      <4> QED BY <2>3, <2>5, <3>1, <3>2, <3>3, <3>5, <4>2
    <3> QED BY <3>4, <3>5
  <2>8. \/ Read(Record)
        \/ \E data \in [1 .. Record -> Bytes] : Write(data)
    BY <1>4 DEF RingNext, InRecords
  <2>9. Queue!Next
    <3>1. CASE Read(Record)
      <4>1. Queue!Get(Record)
        BY <1>1, <1>4, <2>6, <3>1 DEF Queue!Get
      <4> QED BY <4>1 DEF Queue!Next
    <3>2. ASSUME NEW data \in [1 .. Record -> Bytes], Write(data)
          PROVE  Queue!Next
      <4>1. Queue!Put(data)
        BY <1>1, <1>4, <2>7, <3>2 DEF Queue!Put
      <4> QED BY <4>1 DEF Queue!Next
    <3> QED BY <2>8, <3>1, <3>2
  <2> QED BY <2>9
<1> QED BY <1>2, <1>3, <1>4

\* Read and written in records that divide the ring, a kfifo of any size is a
\* first-in first-out queue, although kfifo_read_fifo() compares the length
\* with the unused part of the ring (kfifo.c:128-335).
THEOREM RecordsAreQueued ==
  ASSUME Divides
  PROVE  RingSpec => RecordQueue
<1>1. RingInit => RecordInv
  <2> SUFFICES ASSUME RingInit PROVE RecordInv
    OBVIOUS
  <2>1. RingTypeOK
    BY SizeAssumption DEF RingInit, RingTypeOK, Indices
  <2>2. Whole(0)
    <3>1. 0 = 0 * Record
      BY LensAssumption
    <3> QED BY <3>1 DEF Whole
  <2> QED BY <2>1, <2>2 DEF RingInit, RecordInv
<1>2. RingInit => Queue!Init
  <2> SUFFICES ASSUME RingInit PROVE Queue!Init
    OBVIOUS
  <2>1. Contents = <<>>
    <3>1. Used(start, end) = 0
      BY DEF RingInit, Used
    <3>2. Contents = [k \in 1 .. 0 |-> buf[Advance(end, k - 1)]]
      BY <3>1 DEF Contents, Extract
    <3> QED BY <3>2
  <2> QED BY <2>1 DEF RingInit, Queue!Init, SUCCESS
<1>3. RecordInv /\ [RingNext]_ringVars => RecordInv'
  BY RecordStep
<1>4. RecordInv /\ [RingNext]_ringVars => [Queue!Next]_Queue!vars
  BY RecordRefines
<1> QED BY <1>1, <1>2, <1>3, <1>4, PTL DEF RingSpec, RecordQueue, Queue!Spec
=============================================================================
