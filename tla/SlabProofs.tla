----------------------------- MODULE SlabProofs -----------------------------
(***************************************************************************)
(* Theorems about slabs (module Slab), for any number and size of pages:   *)
(* no cell is given out twice, and a slab that only grows keeps working    *)
(* and wastes no cell.                                                     *)
(***************************************************************************)
EXTENDS Slab, FiniteSetTheorems, TLAPS

-----------------------------------------------------------------------------
(* No cell is given out twice.  The free list of a page is described       *)
(* without following it: it starts and continues at free cells, and no two *)
(* free cells, nor the head, lead to the same one.                         *)

Free(p) == {i \in Indexes : holders[<<p, i>>] = 0}

CellTypes ==
  /\ first_free \in [PageIds -> Indexes \cup {END}]
  /\ num_free \in [PageIds -> Int]
  /\ link \in [PageIds -> [Indexes -> Indexes \cup {END}]]
  /\ holders \in [Objects -> {0, 1}]

Threaded(p) ==
  /\ first_free[p] \in Free(p) \cup {END}
  /\ \A i \in Free(p) :
       /\ link[p][i] \in Free(p) \cup {END}
       /\ link[p][i] = END \/ link[p][i] # first_free[p]
  /\ \A i, j \in Free(p) : link[p][i] = link[p][j] => link[p][i] = END \/ i = j

CellInv == CellTypes /\ \A p \in PageIds : Threaded(p)

LEMMA SlabInitCells == SlabInit => CellInv
<1> SUFFICES ASSUME SlabInit PROVE CellInv
  OBVIOUS
<1> USE SlabAssumption
<1>1. FreshLinks \in [Indexes -> Indexes \cup {END}]
  BY DEF FreshLinks, Indexes, END
<1>2. CellTypes
  BY <1>1 DEF SlabInit, CellTypes, Indexes, Objects
<1>3. ASSUME NEW p \in PageIds PROVE Threaded(p)
  <2>1. Free(p) = Indexes
    BY DEF SlabInit, Free, Objects
  <2>2. first_free[p] = 0 /\ link[p] = FreshLinks
    BY DEF SlabInit
  <2> QED
    BY <2>1, <2>2 DEF Threaded, FreshLinks, Indexes, END
<1> QED
  BY <1>2, <1>3 DEF CellInv

\* Cells of other pages are not touched.
LEMMA OtherPages ==
  ASSUME NEW p \in PageIds, NEW q \in PageIds \ {p}, CellInv, CellTypes',
         first_free'[q] = first_free[q], link'[q] = link[q],
         \A i \in Indexes : holders'[<<q, i>>] = holders[<<q, i>>]
  PROVE  Threaded(q)'
<1>1. Free(q)' = Free(q)
  BY DEF Free
<1>2. Threaded(q)
  BY DEF CellInv
<1> QED
  BY <1>1, <1>2 DEF Threaded

LEMMA TakeCellKeeps ==
  ASSUME CellInv, NEW p \in PageIds, first_free[p] # END, TakeCell(p)
  PROVE  /\ CellInv'
         /\ ObjectPool!Take
<1> DEFINE h == first_free[p]
<1>1. Threaded(p) /\ CellTypes
  BY DEF CellInv
<1>2. h \in Free(p) /\ h \in Indexes /\ <<p, h>> \in Objects /\ holders[<<p, h>>] = 0
  BY <1>1 DEF Threaded, Free, Objects
<1>3. /\ holders' = [holders EXCEPT ![<<p, h>>] = 1]
      /\ first_free' = [first_free EXCEPT ![p] = link[p][h]]
      /\ num_free' = [num_free EXCEPT ![p] = @ - 1]
      /\ link' = link
  BY <1>1, <1>2 DEF TakeCell, NextFree, CellTypes
<1>4. CellTypes'
  BY <1>1, <1>2, <1>3 DEF CellTypes
<1>5. Threaded(p)'
  <2>1. Free(p)' = Free(p) \ {h}
    BY <1>1, <1>2, <1>3 DEF Free, CellTypes, Objects
  <2>2. first_free'[p] = link[p][h] /\ link'[p] = link[p]
    BY <1>1, <1>3 DEF CellTypes
  <2>3. \A i \in Free(p) : link[p][i] # h
    BY <1>1, <1>2 DEF Threaded, Indexes, END
  <2> QED
    BY <1>1, <1>2, <2>1, <2>2, <2>3 DEF Threaded
<1>6. ASSUME NEW q \in PageIds \ {p} PROVE Threaded(q)'
  <2>1. first_free'[q] = first_free[q] /\ link'[q] = link[q]
    BY <1>1, <1>3 DEF CellTypes
  <2>2. \A i \in Indexes : holders'[<<q, i>>] = holders[<<q, i>>]
    BY <1>1, <1>3 DEF CellTypes, Objects
  <2> QED
    BY <1>4, <2>1, <2>2, OtherPages
<1> QED
  BY <1>2, <1>3, <1>4, <1>5, <1>6 DEF CellInv, ObjectPool!Take

LEMMA GiveCellKeeps ==
  ASSUME CellInv, NEW p \in PageIds, NEW c \in Indexes, holders[<<p, c>>] > 0,
         GiveCell(p, c)
  PROVE  CellInv' /\ ObjectPool!Give
<1>1. Threaded(p) /\ CellTypes
  BY DEF CellInv
<1>2. /\ <<p, c>> \in Objects /\ holders[<<p, c>>] = 1
      /\ holders' = [holders EXCEPT ![<<p, c>>] = 0]
      /\ link' = [link EXCEPT ![p][c] = first_free[p]]
      /\ first_free' = [first_free EXCEPT ![p] = c]
      /\ num_free' = [num_free EXCEPT ![p] = @ + 1]
  <2>1. <<p, c>> \in Objects
    BY DEF Objects
  <2>2. holders[<<p, c>>] = 1
    BY <1>1, <2>1 DEF CellTypes
  <2> QED
    BY <2>1, <2>2 DEF GiveCell, Freed
<1>3. CellTypes'
  BY <1>1, <1>2 DEF CellTypes
<1>4. Threaded(p)'
  <2>1. Free(p)' = Free(p) \cup {c} /\ c \notin Free(p)
    BY <1>1, <1>2 DEF Free, CellTypes, Objects
  <2>2. first_free'[p] = c /\ link'[p] = [link[p] EXCEPT ![c] = first_free[p]]
    BY <1>1, <1>2 DEF CellTypes
  <2>3. link'[p][c] = first_free[p] /\ \A i \in Free(p) : link'[p][i] = link[p][i]
    BY <1>1, <2>1, <2>2 DEF CellTypes, Free
  <2>4. /\ first_free[p] \in Free(p) \cup {END}
        /\ \A i \in Free(p) : link[p][i] \in Free(p) \cup {END}
        /\ \A i \in Free(p) : link[p][i] = END \/ link[p][i] # first_free[p]
        /\ \A i, j \in Free(p) :
             link[p][i] = link[p][j] => link[p][i] = END \/ i = j
    BY <1>1 DEF Threaded
  <2> HIDE DEF Free
  <2> QED
    BY <2>1, <2>2, <2>3, <2>4 DEF Threaded
<1>5. ASSUME NEW q \in PageIds \ {p} PROVE Threaded(q)'
  <2>1. first_free'[q] = first_free[q] /\ link'[q] = link[q]
    BY <1>1, <1>2 DEF CellTypes
  <2>2. \A i \in Indexes : holders'[<<q, i>>] = holders[<<q, i>>]
    BY <1>1, <1>2 DEF CellTypes, Objects
  <2> QED
    BY <1>3, <2>1, <2>2, OtherPages
<1> QED
  BY <1>2, <1>3, <1>4, <1>5 DEF CellInv, ObjectPool!Give

\* What a step does to the cells is one of three things, wherever the pages
\* are filed.
LEMMA StepOnCells ==
  ASSUME CellInv, [SlabNext]_slabVars
  PROVE  CellInv' /\ [ObjectPool!Take \/ ObjectPool!Give]_holders
<1>1. CASE UNCHANGED cellVars
  BY <1>1 DEF cellVars, CellInv, CellTypes, Threaded, Free
<1>2. ASSUME NEW p \in PageIds, first_free[p] # END, TakeCell(p)
      PROVE  CellInv' /\ [ObjectPool!Take \/ ObjectPool!Give]_holders
  BY <1>2, TakeCellKeeps
<1>3. ASSUME NEW p \in PageIds, NEW i \in Indexes, Deallocate(p, i)
      PROVE  CellInv' /\ [ObjectPool!Take \/ ObjectPool!Give]_holders
  BY <1>3, GiveCellKeeps DEF Deallocate
<1>4. CASE Allocate
  BY <1>1, <1>2, <1>4 DEF Allocate
<1>5. CASE UNCHANGED slabVars
  BY <1>1, <1>5 DEF slabVars
<1> QED
  BY <1>3, <1>4, <1>5 DEF SlabNext

\* A slab is a pool (SlabIsPool): allocate_from_slab() never returns a cell
\* that somebody holds, whatever pages are lost to the lists.
THEOREM SlabsArePools == SlabSpec => SlabIsPool
<1>1. SlabInit => CellInv
  BY SlabInitCells
<1>2. SlabInit => ObjectPool!Init
  BY DEF SlabInit, ObjectPool!Init
<1>3. CellInv /\ [SlabNext]_slabVars => CellInv'
  BY StepOnCells
<1>4. CellInv /\ [SlabNext]_slabVars => [ObjectPool!Take \/ ObjectPool!Give]_holders
  BY StepOnCells
<1> QED
  BY <1>1, <1>2, <1>3, <1>4, PTL DEF SlabSpec, SlabIsPool, ObjectPool!Spec

-----------------------------------------------------------------------------
(* Types.  The counts of free cells stay between none and all because they *)
(* are the numbers of cells that nobody holds.                             *)

Counted(p) == num_free[p] = Cardinality(Free(p))

ListTypes ==
  /\ npages \in PageIds
  /\ empty \in PageIds \cup {NULL}
  /\ partial \in PageIds \cup {NULL}
  /\ full \in PageIds \cup {NULL}
  /\ next \in [PageIds -> PageIds \cup {NULL}]
  /\ running \in {OK, HUNG, WILD}
  /\ low \in {"NULL", "OTHER"}
  /\ growing \in BOOLEAN

CountInv == CellInv /\ ListTypes /\ \A p \in PageIds : Counted(p)

LEMMA AllCells ==
  IsFiniteSet(Indexes) /\ Cardinality(Indexes) = Cells
<1>1. 0 \in Int /\ Cells - 1 \in Int
  BY SlabAssumption
<1>2. IsFiniteSet(0 .. Cells - 1)
  BY <1>1, FS_Interval
<1>3. Cardinality(0 .. Cells - 1) = IF 0 > Cells - 1 THEN 0 ELSE (Cells - 1) - 0 + 1
  BY <1>1, FS_Interval
<1> QED BY <1>2, <1>3, SlabAssumption DEF Indexes

LEMMA FreeCells ==
  ASSUME NEW p
  PROVE  IsFiniteSet(Free(p)) /\ Cardinality(Free(p)) \in 0 .. Cells
<1>1. Free(p) \subseteq Indexes
  BY DEF Free
<1>2. IsFiniteSet(Free(p)) /\ Cardinality(Free(p)) <= Cells
  BY <1>1, AllCells, FS_Subset
<1> QED BY <1>2, FS_CardinalityType, SlabAssumption

\* A cell taken or given is one cell less or more, on its page.
LEMMA CountsFollow ==
  ASSUME CellInv, CellInv', \A p \in PageIds : Counted(p),
         NEW p \in PageIds, NEW c \in Indexes,
         \/ /\ holders[<<p, c>>] = 0
            /\ holders' = [holders EXCEPT ![<<p, c>>] = 1]
            /\ num_free' = [num_free EXCEPT ![p] = @ - 1]
         \/ /\ holders[<<p, c>>] = 1
            /\ holders' = [holders EXCEPT ![<<p, c>>] = 0]
            /\ num_free' = [num_free EXCEPT ![p] = @ + 1]
  PROVE  \A q \in PageIds : Counted(q)'
<1>1. <<p, c>> \in Objects /\ CellTypes
  BY DEF Objects, CellInv
<1>2. ASSUME NEW q \in PageIds \ {p} PROVE Counted(q)'
  <2>1. Free(q)' = Free(q)
    BY <1>1 DEF Free, CellTypes, Objects
  <2>2. num_free'[q] = num_free[q]
    BY <1>1 DEF CellTypes
  <2> QED BY <2>1, <2>2 DEF Counted
<1>3. CASE holders[<<p, c>>] = 0 /\ holders' = [holders EXCEPT ![<<p, c>>] = 1]
           /\ num_free' = [num_free EXCEPT ![p] = @ - 1]
  <2>1. Free(p)' = Free(p) \ {c} /\ c \in Free(p)
    BY <1>1, <1>3 DEF Free, CellTypes, Objects
  <2>2. Cardinality(Free(p) \ {c}) = Cardinality(Free(p)) - 1
    BY <2>1, FreeCells, FS_RemoveElement
  <2>3. num_free'[p] = num_free[p] - 1
    BY <1>1, <1>3 DEF CellTypes
  <2> QED BY <1>2, <2>1, <2>2, <2>3 DEF Counted
<1>4. CASE holders[<<p, c>>] = 1 /\ holders' = [holders EXCEPT ![<<p, c>>] = 0]
           /\ num_free' = [num_free EXCEPT ![p] = @ + 1]
  <2>1. Free(p)' = Free(p) \cup {c} /\ c \notin Free(p)
    BY <1>1, <1>4 DEF Free, CellTypes, Objects
  <2>2. Cardinality(Free(p) \cup {c}) = Cardinality(Free(p)) + 1
    BY <2>1, FreeCells, FS_AddElement
  <2>3. num_free'[p] = num_free[p] + 1
    BY <1>1, <1>4 DEF CellTypes
  <2> QED BY <1>2, <2>1, <2>2, <2>3 DEF Counted
<1> QED BY <1>3, <1>4

\* Pages are filed on lists of pages.
LEMMA MovedType ==
  ASSUME ListTypes, NEW head \in PageIds \cup {NULL}, NEW other \in PageIds \cup {NULL},
         NEW p \in PageIds
  PROVE  /\ Moved(head, other, p) \in [PageIds -> PageIds \cup {NULL}]
         /\ HeadWithout(head, p) \in PageIds \cup {NULL}
BY DEF ListTypes, Moved, HeadWithout

LEMMA AllocateLists ==
  ASSUME ListTypes, Allocate
  PROVE  ListTypes'
<1> DEFINE new == partial = NULL /\ empty = NULL
           head == IF new THEN npages + 1 ELSE empty
           p == IF partial # NULL THEN partial ELSE head
<1>1. /\ p \in PageIds
      /\ npages' = IF new THEN npages + 1 ELSE npages
      /\ IF first_free[p] = END
         THEN running' = WILD /\ UNCHANGED <<cellVars, listVars>>
         ELSE TakeCell(p) /\ FileTaken(head, p, num_free[p] - 1)
      /\ UNCHANGED <<low, growing>>
  BY DEF Allocate
<1>2. head \in PageIds \cup {NULL} /\ npages' \in PageIds
  BY <1>1 DEF ListTypes
<1> HIDE DEF p, head
<1>3. CASE first_free[p] = END
  BY <1>1, <1>2, <1>3 DEF ListTypes, listVars
<1>4. CASE FileTaken(head, p, num_free[p] - 1)
  <2>0. UNCHANGED <<low, growing>> /\ npages' \in PageIds
    BY <1>1, <1>2
  <2>1. CASE FileFull(p)
    <3>1. CASE Hang /\ UNCHANGED <<low, growing>>
      BY <2>0, <3>1 DEF Hang, listVars, ListTypes
    <3>2. CASE /\ next' = Moved(partial, full, p) /\ partial' = HeadWithout(partial, p)
               /\ full' = p /\ UNCHANGED <<empty, running>>
      <4>1. next' \in [PageIds -> PageIds \cup {NULL}] /\ partial' \in PageIds \cup {NULL}
        BY <1>1, <3>2, MovedType DEF ListTypes
      <4> QED BY <1>1, <2>0, <3>2, <4>1 DEF ListTypes
    <3> QED BY <2>0, <2>1, <3>1, <3>2 DEF FileFull
  <2>2. CASE FilePartial(head, p)
    <3>1. CASE Hang /\ UNCHANGED <<low, growing>>
      BY <2>0, <3>1 DEF Hang, listVars, ListTypes
    <3>2. CASE /\ next' = Moved(head, partial, p) /\ empty' = HeadWithout(head, p)
               /\ partial' = p /\ UNCHANGED <<full, running>>
      <4>1. next' \in [PageIds -> PageIds \cup {NULL}] /\ empty' \in PageIds \cup {NULL}
        BY <1>1, <1>2, <3>2, MovedType DEF ListTypes
      <4> QED BY <1>1, <2>0, <3>2, <4>1 DEF ListTypes
    <3> QED BY <2>0, <2>2, <3>1, <3>2 DEF FilePartial
  <2>3. CASE empty' = head /\ UNCHANGED <<partial, full, next, running>>
    BY <1>1, <1>2, <2>3 DEF ListTypes
  <2> QED BY <1>4, <2>1, <2>2, <2>3 DEF FileTaken
<1> QED BY <1>1, <1>3, <1>4

LEMMA DeallocateLists ==
  ASSUME ListTypes, NEW p \in PageIds, NEW i \in Indexes, Deallocate(p, i)
  PROVE  ListTypes'
<1>1. FileReturned(p) /\ UNCHANGED <<npages, low, growing>>
  BY DEF Deallocate
<1>2. CASE UNCHANGED <<listVars, running>>
  BY <1>1, <1>2 DEF ListTypes, listVars
<1>3. CASE Hang
  BY <1>1, <1>3 DEF ListTypes, listVars, Hang
<1>4. ASSUME NEW q \in Before(p),
             next' = [[next EXCEPT ![q] = next[p]] EXCEPT ![p] = empty],
             empty' = p, UNCHANGED <<partial, full, running>>
      PROVE  ListTypes'
  BY <1>1, <1>4 DEF ListTypes
<1> QED BY <1>1, <1>2, <1>3, <1>4 DEF FileReturned

LEMMA CountStep == CountInv /\ [SlabNext]_slabVars => CountInv'
<1> SUFFICES ASSUME CountInv, [SlabNext]_slabVars PROVE CountInv'
  OBVIOUS
<1>1. CellInv /\ CellInv' /\ \A p \in PageIds : Threaded(p)
  BY StepOnCells DEF CountInv, CellInv
<1>2. ASSUME UNCHANGED cellVars PROVE \A p \in PageIds : Counted(p)'
  BY <1>2 DEF CountInv, Counted, Free, cellVars
<1>3. ASSUME NEW p \in PageIds, first_free[p] # END, TakeCell(p)
      PROVE  \A q \in PageIds : Counted(q)'
  <2>1. first_free[p] \in Indexes /\ holders[<<p, first_free[p]>>] = 0
    BY <1>1, <1>3 DEF Threaded, Free
  <2>2. /\ holders' = [holders EXCEPT ![<<p, first_free[p]>>] = 1]
        /\ num_free' = [num_free EXCEPT ![p] = @ - 1]
    BY <1>3, <2>1 DEF TakeCell
  <2> QED BY <1>1, <2>1, <2>2, CountsFollow DEF CountInv
<1>4. ASSUME NEW p \in PageIds, NEW i \in Indexes, Deallocate(p, i)
      PROVE  \A q \in PageIds : Counted(q)'
  <2>1. holders[<<p, i>>] = 1
    BY <1>1, <1>4 DEF Deallocate, CellInv, CellTypes, Objects
  <2>2. /\ holders' = [holders EXCEPT ![<<p, i>>] = 0]
        /\ num_free' = [num_free EXCEPT ![p] = @ + 1]
    BY <1>4, <2>1 DEF Deallocate, GiveCell
  <2> QED BY <1>1, <2>1, <2>2, CountsFollow DEF CountInv
<1>5. CASE Allocate
  <2>1. \A p \in PageIds : Counted(p)'
    BY <1>2, <1>3, <1>5 DEF Allocate
  <2> QED BY <1>1, <1>5, <2>1, AllocateLists DEF CountInv
<1>6. CASE \E p \in PageIds, i \in Indexes : Deallocate(p, i)
  BY <1>1, <1>4, <1>6, DeallocateLists DEF CountInv
<1>7. CASE UNCHANGED slabVars
  BY <1>1, <1>2, <1>7 DEF CountInv, slabVars, listVars, ListTypes
<1> QED BY <1>5, <1>6, <1>7 DEF SlabNext

LEMMA SlabInitCounts == SlabInit => CountInv
<1> SUFFICES ASSUME SlabInit PROVE CountInv
  OBVIOUS
<1>1. CellInv
  BY SlabInitCells
<1>2. ListTypes
  BY SlabAssumption DEF SlabInit, ListTypes, PageIds
<1>3. ASSUME NEW p \in PageIds PROVE Counted(p)
  <2>1. Free(p) = Indexes
    BY DEF SlabInit, Free, Objects
  <2> QED BY <2>1, AllCells DEF SlabInit, Counted
<1> QED BY <1>1, <1>2, <1>3 DEF CountInv

\* The fields of a slab and its pages stay what they are declared as; a count
\* of free cells never goes below none or above all (slab.c:106-110, 160-164).
THEOREM SlabTypes == SlabSpec => []SlabTypeOK
<1>1. CountInv => SlabTypeOK
  <2> SUFFICES ASSUME CountInv PROVE SlabTypeOK
    OBVIOUS
  <2>1. num_free \in [PageIds -> 0 .. Cells]
    BY FreeCells DEF CountInv, CellInv, CellTypes, Counted
  <2>2. holders \in [Objects -> Nat]
    BY DEF CountInv, CellInv, CellTypes
  <2> QED BY <2>1, <2>2 DEF CountInv, CellInv, CellTypes, ListTypes, SlabTypeOK
<1> QED BY <1>1, SlabInitCounts, CountStep, PTL DEF SlabSpec

-----------------------------------------------------------------------------
(* The free list of a page, followed.  It is a sequence s of as many cells *)
(* as are counted, from the head along the links: what it meets are the    *)
(* free cells, each once.                                                  *)

Follows(s, p) ==
  /\ s[0] = first_free[p]
  /\ \A k \in 0 .. num_free[p] - 1 : s[k] \in Free(p) /\ s[k + 1] = link[p][s[k]]
  /\ s[num_free[p]] = END
  /\ \A i \in Free(p) : \E k \in 0 .. num_free[p] - 1 : s[k] = i
  /\ \A j, k \in 0 .. num_free[p] - 1 : s[j] = s[k] => j = k

ListInv == CountInv /\ \A p \in PageIds : \E s : Follows(s, p)

\* What CountInv says of one page.
LEMMA PageOf ==
  ASSUME CountInv, NEW p \in PageIds
  PROVE  /\ num_free[p] \in 0 .. Cells
         /\ first_free[p] \in Indexes \cup {END} /\ END \notin Indexes
         /\ link[p] \in [Indexes -> Indexes \cup {END}]
         /\ Free(p) \subseteq Indexes
<1>1. num_free[p] \in 0 .. Cells
  BY FreeCells DEF CountInv, Counted
<1>2. END \notin Indexes
  BY SlabAssumption DEF Indexes, END
<1> QED BY <1>1, <1>2 DEF CountInv, CellInv, CellTypes, Free

LEMMA TakenCellLeavesList ==
  ASSUME CountInv, CountInv', NEW p \in PageIds, NEW s, Follows(s, p),
         first_free[p] # END, TakeCell(p)
  PROVE  \E t : Follows(t, p)'
<1> DEFINE h == first_free[p]
           n == num_free[p]
<1>0. PICK t : t = [k \in 0 .. n - 1 |-> s[k + 1]]
  OBVIOUS
<1>1. n \in 1 .. Cells /\ s[0] = h /\ s[n] = END
  BY PageOf DEF Follows
<1>2. h \in Free(p) /\ h \in Indexes
  <2>1. 0 \in 0 .. num_free[p] - 1
    BY <1>1
  <2> QED BY <1>1, <2>1 DEF Follows, Free
<1>3. /\ num_free'[p] = n - 1 /\ first_free'[p] = link[p][h] /\ link' = link
      /\ holders' = [holders EXCEPT ![<<p, h>>] = @ + 1]
  BY DEF TakeCell, NextFree, CountInv, CellInv, CellTypes
<1>4. Free(p)' = Free(p) \ {h}
  <2>1. holders[<<p, h>>] = 0 /\ <<p, h>> \in Objects
    BY <1>2 DEF Free, Objects
  <2>2. \A i \in Indexes : holders'[<<p, i>>] = IF i = h THEN 1 ELSE holders[<<p, i>>]
    BY <1>3, <2>1 DEF Objects, CountInv, CellInv, CellTypes
  <2> QED BY <1>2, <2>2 DEF Free
<1>5. t[0] = first_free'[p] /\ t[n - 1] = END
  BY <1>0, <1>1, <1>3 DEF Follows
<1>6. ASSUME NEW k \in 0 .. (n - 1) - 1
      PROVE  t[k] \in Free(p)' /\ t[k + 1] = link'[p][t[k]]
  <2>1. k + 1 \in 0 .. n - 1 /\ 0 \in 0 .. n - 1 /\ k + 1 # 0 /\ k \in 0 .. n - 1
    BY <1>1
  <2>2. s[k + 1] \in Free(p) /\ s[k + 1] # s[0] /\ s[(k + 1) + 1] = link[p][s[k + 1]]
    BY <2>1 DEF Follows
  <2>3. t[k] = s[k + 1] /\ t[k + 1] = s[(k + 1) + 1]
    BY <1>0, <2>1
  <2> QED BY <1>1, <1>3, <1>4, <2>2, <2>3
<1>7. ASSUME NEW i \in Free(p)' PROVE \E k \in 0 .. (n - 1) - 1 : t[k] = i
  <2>1. i \in Free(p) /\ i # s[0]
    BY <1>1, <1>4
  <2>2. PICK k \in 0 .. n - 1 : s[k] = i
    BY <2>1 DEF Follows
  <2>3. k - 1 \in 0 .. (n - 1) - 1 /\ k - 1 \in 0 .. n - 1 /\ (k - 1) + 1 = k
    BY <1>1, <2>1, <2>2
  <2>4. t[k - 1] = s[k]
    BY <1>0, <2>3
  <2> QED BY <2>2, <2>3, <2>4
<1>8. ASSUME NEW j \in 0 .. (n - 1) - 1, NEW k \in 0 .. (n - 1) - 1, t[j] = t[k]
      PROVE  j = k
  <2>1. j + 1 \in 0 .. n - 1 /\ k + 1 \in 0 .. n - 1 /\ j \in 0 .. n - 1 /\ k \in 0 .. n - 1
    BY <1>1
  <2>2. s[j + 1] = s[k + 1]
    BY <1>0, <1>8, <2>1
  <2>3. j + 1 = k + 1
    BY <2>1, <2>2 DEF Follows
  <2> QED BY <2>3
<1>9. Follows(t, p)'
  BY <1>1, <1>3, <1>5, <1>6, <1>7, <1>8 DEF Follows
<1> QED BY <1>9

LEMMA GivenCellHeadsList ==
  ASSUME CountInv, CountInv', NEW p \in PageIds, NEW s, Follows(s, p),
         NEW c \in Indexes, holders[<<p, c>>] > 0, GiveCell(p, c)
  PROVE  \E t : Follows(t, p)'
<1> DEFINE n == num_free[p]
<1>0. PICK t : t = [k \in 0 .. n + 1 |-> IF k = 0 THEN c ELSE s[k - 1]]
  OBVIOUS
<1>1. n \in 0 .. Cells /\ s[0] = first_free[p] /\ s[n] = END
  BY PageOf DEF Follows
<1>2. <<p, c>> \in Objects /\ holders[<<p, c>>] = 1 /\ c \notin Free(p)
  BY DEF Objects, CountInv, CellInv, CellTypes, Free
<1>3. /\ num_free'[p] = n + 1 /\ first_free'[p] = c
      /\ link' = [link EXCEPT ![p][c] = first_free[p]]
      /\ holders' = [holders EXCEPT ![<<p, c>>] = 0]
  BY <1>2 DEF GiveCell, Freed, CountInv, CellInv, CellTypes
<1>4. Free(p)' = Free(p) \cup {c}
  <2>1. \A i \in Indexes : holders'[<<p, i>>] = IF i = c THEN 0 ELSE holders[<<p, i>>]
    BY <1>2, <1>3 DEF Objects, CountInv, CellInv, CellTypes
  <2> QED BY <2>1 DEF Free
<1>5. link[p] \in [Indexes -> Indexes \cup {END}] /\ link \in [PageIds -> [Indexes -> Indexes \cup {END}]]
  BY DEF CountInv, CellInv, CellTypes
<1>6. link'[p] = [link[p] EXCEPT ![c] = first_free[p]]
  BY <1>3, <1>5
<1>7. link'[p][c] = first_free[p] /\ \A i \in Indexes \ {c} : link'[p][i] = link[p][i]
  BY <1>5, <1>6
<1>8. t[0] = c /\ t[n + 1] = END
  BY <1>0, <1>1
<1>9. ASSUME NEW k \in 0 .. (n + 1) - 1
      PROVE  t[k] \in Free(p)' /\ t[k + 1] = link'[p][t[k]]
  <2>1. k + 1 \in 0 .. n + 1 /\ k \in 0 .. n + 1 /\ k + 1 # 0 /\ (k + 1) - 1 = k
    BY <1>1
  <2>2. t[k + 1] = s[k]
    BY <1>0, <2>1
  <2>3. CASE k = 0
    BY <1>1, <1>4, <1>7, <1>8, <2>2, <2>3
  <2>4. CASE k # 0
    <3>1. k - 1 \in 0 .. n - 1 /\ (k - 1) + 1 = k
      BY <1>1, <2>4
    <3>2. s[k - 1] \in Free(p) /\ s[(k - 1) + 1] = link[p][s[k - 1]]
      BY <3>1 DEF Follows
    <3>3. t[k] = s[k - 1] /\ s[k] = link[p][s[k - 1]]
      BY <1>0, <2>1, <2>4, <3>1, <3>2
    <3>4. s[k - 1] \in Indexes \ {c}
      BY <1>2, <3>2 DEF Free
    <3> QED BY <1>4, <1>7, <2>2, <3>2, <3>3, <3>4
  <2> QED BY <2>3, <2>4
<1>10. ASSUME NEW i \in Free(p)' PROVE \E k \in 0 .. (n + 1) - 1 : t[k] = i
  <2>1. CASE i = c
    BY <1>1, <1>8, <2>1
  <2>2. CASE i \in Free(p)
    <3>1. PICK k \in 0 .. n - 1 : s[k] = i
      BY <2>2 DEF Follows
    <3>2. k + 1 \in 0 .. n + 1 /\ k + 1 # 0 /\ (k + 1) - 1 = k /\ k + 1 \in 0 .. (n + 1) - 1
      BY <1>1
    <3>3. t[k + 1] = i
      BY <1>0, <3>1, <3>2
    <3> QED BY <3>2, <3>3
  <2> QED BY <1>4, <2>1, <2>2
<1>11. ASSUME NEW j \in 0 .. (n + 1) - 1, NEW k \in 0 .. (n + 1) - 1, t[j] = t[k]
       PROVE  j = k
  <2>1. ASSUME NEW i \in 0 .. (n + 1) - 1, i # 0
        PROVE  i - 1 \in 0 .. n - 1 /\ t[i] = s[i - 1] /\ t[i] \in Free(p)
    <3>1. i - 1 \in 0 .. n - 1 /\ i \in 0 .. n + 1
      BY <1>1, <2>1
    <3>2. s[i - 1] \in Free(p)
      BY <3>1 DEF Follows
    <3> QED BY <1>0, <2>1, <3>1, <3>2
  <2>2. CASE j = 0 \/ k = 0
    BY <1>2, <1>8, <1>11, <2>1, <2>2
  <2>3. CASE j # 0 /\ k # 0
    <3>1. j - 1 = k - 1
      <4>1. j - 1 \in 0 .. n - 1 /\ k - 1 \in 0 .. n - 1 /\ s[j - 1] = s[k - 1]
        BY <1>11, <2>1, <2>3
      <4> QED BY <4>1 DEF Follows
    <3> QED BY <3>1
  <2> QED BY <2>2, <2>3
<1>12. Follows(t, p)'
  BY <1>1, <1>3, <1>8, <1>9, <1>10, <1>11 DEF Follows
<1> QED BY <1>12

\* The lists of other pages stay what they are.
LEMMA OtherLists ==
  ASSUME NEW q, NEW s, Follows(s, q), first_free'[q] = first_free[q],
         num_free'[q] = num_free[q], link'[q] = link[q],
         \A i \in Indexes : holders'[<<q, i>>] = holders[<<q, i>>]
  PROVE  Follows(s, q)'
<1>1. Free(q)' = Free(q)
  BY DEF Free
<1> QED BY <1>1 DEF Follows

LEMMA ListStep == ListInv /\ [SlabNext]_slabVars => ListInv'
<1> SUFFICES ASSUME ListInv, [SlabNext]_slabVars PROVE ListInv'
  OBVIOUS
<1>1. CountInv /\ CountInv'
  BY CountStep DEF ListInv
<1>2. \A p \in PageIds : \E s : Follows(s, p)
  BY DEF ListInv
<1>3. CASE UNCHANGED cellVars
  BY <1>1, <1>2, <1>3, OtherLists DEF ListInv, cellVars
<1>4. ASSUME NEW p \in PageIds, first_free[p] # END, TakeCell(p) PROVE ListInv'
  <2>1. \E t : Follows(t, p)'
    BY <1>1, <1>2, <1>4, TakenCellLeavesList
  <2>2. ASSUME NEW q \in PageIds \ {p} PROVE \E t : Follows(t, q)'
    <3>1. /\ first_free'[q] = first_free[q] /\ num_free'[q] = num_free[q] /\ link'[q] = link[q]
          /\ \A i \in Indexes : holders'[<<q, i>>] = holders[<<q, i>>]
      BY <1>1, <1>4 DEF TakeCell, CountInv, CellInv, CellTypes, Objects
    <3> QED BY <1>2, <3>1, OtherLists
  <2> QED BY <1>1, <2>1, <2>2 DEF ListInv
<1>5. ASSUME NEW p \in PageIds, NEW i \in Indexes, Deallocate(p, i) PROVE ListInv'
  <2>1. holders[<<p, i>>] > 0 /\ GiveCell(p, i)
    BY <1>5 DEF Deallocate
  <2>2. \E t : Follows(t, p)'
    BY <1>1, <1>2, <2>1, GivenCellHeadsList
  <2>3. ASSUME NEW q \in PageIds \ {p} PROVE \E t : Follows(t, q)'
    <3>1. /\ first_free'[q] = first_free[q] /\ num_free'[q] = num_free[q] /\ link'[q] = link[q]
          /\ \A j \in Indexes : holders'[<<q, j>>] = holders[<<q, j>>]
      BY <1>1, <2>1 DEF GiveCell, Freed, CountInv, CellInv, CellTypes, Objects
    <3> QED BY <1>2, <3>1, OtherLists
  <2> QED BY <1>1, <2>2, <2>3 DEF ListInv
<1>6. CASE Allocate
  BY <1>3, <1>4, <1>6 DEF Allocate
<1>7. CASE UNCHANGED slabVars
  BY <1>3, <1>7 DEF slabVars
<1> QED BY <1>5, <1>6, <1>7 DEF SlabNext

LEMMA SlabInitLists == SlabInit => ListInv
<1> SUFFICES ASSUME SlabInit PROVE ListInv
  OBVIOUS
<1>1. ASSUME NEW p \in PageIds PROVE \E s : Follows(s, p)
  <2> DEFINE s == [k \in 0 .. Cells |-> IF k = Cells THEN END ELSE k]
  <2>1. Free(p) = Indexes
    BY DEF SlabInit, Free, Objects
  <2>2. first_free[p] = 0 /\ num_free[p] = Cells /\ link[p] = FreshLinks
    BY DEF SlabInit
  <2>3. Cells \in Nat /\ Cells >= 2
    BY SlabAssumption
  <2>4. s[0] = first_free[p] /\ s[num_free[p]] = END
    BY <2>2, <2>3
  <2>5. ASSUME NEW k \in 0 .. num_free[p] - 1
        PROVE  s[k] = k /\ s[k] \in Free(p) /\ s[k + 1] = link[p][s[k]]
    <3>1. k \in Indexes /\ k \in 0 .. Cells /\ k + 1 \in 0 .. Cells /\ k # Cells
      BY <2>2, <2>3 DEF Indexes
    <3>2. s[k] = k /\ s[k + 1] = IF k + 1 = Cells THEN END ELSE k + 1
      BY <3>1
    <3>3. link[p][k] = IF k = Cells - 1 THEN END ELSE k + 1
      BY <2>2, <3>1 DEF FreshLinks
    <3>4. k + 1 = Cells <=> k = Cells - 1
      BY <2>3
    <3> QED BY <2>1, <3>1, <3>2, <3>3, <3>4
  <2>6. \A i \in Free(p) : i \in 0 .. num_free[p] - 1
    BY <2>1, <2>2 DEF Indexes
  <2> HIDE DEF s
  <2>7. Follows(s, p)
    BY <2>4, <2>5, <2>6 DEF Follows
  <2> QED BY <2>7
<1> QED BY <1>1, SlabInitCounts DEF ListInv

\* The cell behind cell i, in the links of a page.
Behind(links, i, k) == IF i = END THEN END ELSE links[i]

\* No invariant of the repetitions below is needed.
Nothing(q, i, s) == TRUE

Lists == INSTANCE Recursion WITH Step <- Behind, Keeps <- Nothing

\* FreeList(p) is what its definition says of it.
LEMMA FreeListIs ==
  ASSUME NEW p \in PageIds
  PROVE  FreeList(p) = [k \in 0 .. Cells |->
           IF k = 0 THEN first_free[p]
           ELSE IF FreeList(p)[k - 1] = END THEN END ELSE link[p][FreeList(p)[k - 1]]]
<1> DEFINE F(f) == [k \in 0 .. Cells |->
                      IF k = 0 THEN first_free[p]
                      ELSE IF f[k - 1] = END THEN END ELSE link[p][f[k - 1]]]
           ids == [k \in 1 .. Cells |-> k]
<1>1. Cells \in Nat /\ DOMAIN ids = 1 .. Cells
  BY SlabAssumption
<1>2. PICK f : Lists!IsFold(f, link[p], first_free[p], ids, Cells)
  <2> HIDE DEF ids
  <2> QED BY <1>1, Lists!FoldSteps
<1>3. /\ f = [k \in 0 .. Cells |-> f[k]] /\ f[0] = first_free[p]
      /\ \A k \in 1 .. Cells : f[k] = IF f[k - 1] = END THEN END ELSE link[p][f[k - 1]]
  BY <1>2 DEF Lists!IsFold, Behind
<1>4. f = F(f)
  <2>1. ASSUME NEW k \in 0 .. Cells PROVE f[k] = F(f)[k]
    <3>1. k # 0 => k \in 1 .. Cells
      BY <1>1
    <3> QED BY <1>3, <3>1
  <2>2. F(f) = [k \in 0 .. Cells |-> F(f)[k]]
    OBVIOUS
  <2> HIDE DEF F
  <2> QED BY <1>3, <2>1, <2>2
<1>5. FreeList(p) = CHOOSE h : h = F(h)
  BY DEF FreeList
<1> HIDE DEF F
<1>6. FreeList(p) = F(FreeList(p))
  BY <1>4, <1>5
<1> QED BY <1>6 DEF F

LEMMA FollowedIsFreeList ==
  ASSUME CountInv, NEW p \in PageIds, NEW s, Follows(s, p)
  PROVE  \A k \in 0 .. num_free[p] : FreeList(p)[k] = s[k]
<1> DEFINE n == num_free[p]
           L == FreeList(p)
           Same == {k \in 0 .. n : L[k] = s[k]}
<1>1. n \in Nat /\ n <= Cells
  BY PageOf, SlabAssumption
<1>2. \A k \in 0 .. Cells :
        L[k] = IF k = 0 THEN first_free[p]
               ELSE IF L[k - 1] = END THEN END ELSE link[p][L[k - 1]]
  <2>1. L = [k \in 0 .. Cells |-> IF k = 0 THEN first_free[p]
                                  ELSE IF L[k - 1] = END THEN END ELSE link[p][L[k - 1]]]
    BY FreeListIs
  <2> HIDE DEF L
  <2> QED BY <2>1
<1> HIDE DEF L
<1>3. 0 \in Same
  BY <1>1, <1>2, SlabAssumption DEF Follows
<1>4. ASSUME NEW k \in 1 .. n, k - 1 \in Same PROVE k \in Same
  <2>1. k - 1 \in 0 .. n - 1 /\ k \in 0 .. Cells /\ k # 0 /\ (k - 1) + 1 = k
    BY <1>1, SlabAssumption
  <2>2. L[k - 1] = s[k - 1] /\ s[k - 1] \in Free(p) /\ s[(k - 1) + 1] = link[p][s[k - 1]]
    BY <1>4, <2>1 DEF Follows
  <2>3. s[k - 1] # END
    BY <2>2, PageOf
  <2>4. L[k] = s[k]
    BY <1>2, <2>1, <2>2, <2>3
  <2> QED BY <1>1, <2>4
<1>5. 0 .. n \subseteq Same
  <2> HIDE DEF Same
  <2> QED BY <1>1, <1>3, <1>4, Lists!UpTo
<1> QED BY <1>5 DEF L

\* The free list of each page, followed from its head, meets every cell that
\* nobody holds once, and no other, and num_free_objects counts them
\* (FreeListsExact), in whatever order objects come back (slab.c:106-110,
\* 160-164).
THEOREM FreeListsStayExact == SlabSpec => []FreeListsExact
<1>1. ListInv => FreeListsExact
  <2> SUFFICES ASSUME ListInv, NEW p \in PageIds
               PROVE  /\ {FreeList(p)[k] : k \in 0 .. num_free[p] - 1} = Free(p)
                      /\ FreeList(p)[num_free[p]] = END
    BY DEF FreeListsExact, Free
  <2>1. CountInv
    BY DEF ListInv
  <2>2. PICK s : Follows(s, p)
    BY DEF ListInv
  <2>3. num_free[p] \in Nat
    BY <2>1, PageOf, SlabAssumption
  <2>4. \A k \in 0 .. num_free[p] : FreeList(p)[k] = s[k]
    BY <2>1, <2>2, FollowedIsFreeList
  <2>5. \A k \in 0 .. num_free[p] - 1 : k \in 0 .. num_free[p]
    BY <2>3
  <2>6. {FreeList(p)[k] : k \in 0 .. num_free[p] - 1} = {s[k] : k \in 0 .. num_free[p] - 1}
    BY <2>4, <2>5
  <2>7. {s[k] : k \in 0 .. num_free[p] - 1} = Free(p)
    BY <2>2 DEF Follows
  <2>8. FreeList(p)[num_free[p]] = END
    BY <2>2, <2>3, <2>4 DEF Follows
  <2> QED BY <2>6, <2>7, <2>8
<1> QED BY <1>1, SlabInitLists, ListStep, PTL DEF SlabSpec

-----------------------------------------------------------------------------
(* A slab that only grows.  Cells go out in order, so the state is that of *)
(* one page, the last one taken: full pages before it, fresh ones after.   *)

\* How many cells of the last page are out.
Out == Cells - num_free[npages]

Fresh(p) == num_free[p] = Cells /\ first_free[p] = 0 /\ next[p] = NULL

GrowingInv ==
  /\ running = OK
  /\ npages \in PageIds
  /\ next \in [PageIds -> PageIds \cup {NULL}]
  /\ num_free \in [PageIds -> 0 .. Cells]
  /\ first_free \in [PageIds -> Indexes \cup {END}]
  /\ full \in PageIds \cup {NULL}
  /\ link = [p \in PageIds |-> FreshLinks]
  /\ holders \in [Objects -> Nat]
  /\ \A p \in PageIds : p > npages => Fresh(p)
  /\ \A q \in PageIds, i \in Indexes :
       holders[<<q, i>>] > 0 <=> q < npages \/ (q = npages /\ i < Out)
  /\ num_free[npages] = Cells =>
       empty = npages /\ partial = NULL /\ Fresh(npages)
  /\ num_free[npages] \in 1 .. Cells - 1 =>
       empty = NULL /\ partial = npages /\ next[npages] = NULL /\ first_free[npages] = Out
  /\ num_free[npages] = 0 => empty = NULL /\ partial = NULL

LEMMA SlabInitGrowing == SlabInit => GrowingInv
  BY SlabAssumption DEF SlabInit, GrowingInv, Fresh, Out, PageIds, Indexes, Objects, NULL, END

\* The last page, or a fresh one when it is full, gives its next cell.
LEMMA AllocateGrows ==
  ASSUME GrowingInv, Allocate
  PROVE  /\ GrowingInv'
         /\ npages' # npages => \A q \in 1 .. npages, i \in Indexes : holders[<<q, i>>] > 0
<1> USE SlabAssumption DEF NULL, END
<1> DEFINE new == partial = NULL /\ empty = NULL
           head == IF new THEN npages + 1 ELSE empty
           p == IF partial # NULL THEN partial ELSE head
           n == num_free[p]
<1>1. npages \in PageIds /\ npages \in Nat \ {0} /\ num_free[npages] \in 0 .. Cells
  BY DEF GrowingInv, PageIds
<1>2. p \in PageIds /\ npages' = IF new THEN npages + 1 ELSE npages
  BY DEF Allocate
<1>3. /\ npages' = p
      /\ n \in 1 .. Cells /\ num_free[p] = n
      /\ first_free[p] = Cells - n
      /\ next[p] = NULL
      /\ n = Cells => partial = NULL /\ head = p
      /\ n # Cells => partial = p /\ head = NULL
      /\ npages # p => num_free[npages] = 0 /\ p = npages + 1 /\ n = Cells
  <2>1. CASE num_free[npages] = Cells
    BY <1>1, <1>2, <2>1 DEF GrowingInv, Fresh
  <2>2. CASE num_free[npages] \in 1 .. Cells - 1
    BY <1>1, <1>2, <2>2 DEF GrowingInv, Out
  <2>3. CASE num_free[npages] = 0
    BY <1>1, <1>2, <2>3 DEF GrowingInv, Fresh
  <2> QED
    BY <1>1, <2>1, <2>2, <2>3
<1>4. TakeCell(p) /\ FileTaken(head, p, n - 1)
  BY <1>3 DEF Allocate
<1> HIDE DEF new, head, p, n
<1>5. /\ holders' = [holders EXCEPT ![<<p, Cells - n>>] = @ + 1]
      /\ num_free' = [num_free EXCEPT ![p] = n - 1]
      /\ first_free' = [first_free EXCEPT ![p] = IF n = 1 THEN END ELSE Cells - n + 1]
      /\ link' = link
  <2>1. NextFree(p) = IF n = 1 THEN END ELSE Cells - n + 1
    BY <1>2, <1>3 DEF GrowingInv, NextFree, FreshLinks, Indexes
  <2> QED
    BY <1>2, <1>3, <1>4, <2>1 DEF TakeCell
<1>6. <<p, Cells - n>> \in Objects /\ holders[<<p, Cells - n>>] \in Nat
  BY <1>2, <1>3 DEF GrowingInv, Objects, Indexes
<1>7. /\ running' = OK
      /\ next' \in [PageIds -> PageIds \cup {NULL}]
      /\ full' \in PageIds \cup {NULL}
      /\ \A q \in PageIds : q # p => next'[q] = next[q]
      /\ n = 1 => empty' = NULL /\ partial' = NULL
      /\ n # 1 => empty' = NULL /\ partial' = p /\ next'[p] = NULL
  <2> p # NULL /\ partial \in PageIds \cup {NULL}
    BY <1>2, <1>3 DEF PageIds
  <2>1. CASE n = 1
    <3>1. FileFull(p) /\ partial = p /\ head = NULL
      BY <1>3, <1>4, <2>1 DEF FileTaken, UsedUp
    <3>2. /\ next' = [next EXCEPT ![p] = full] /\ partial' = NULL /\ full' = p
          /\ empty' = empty /\ running' = running
      BY <1>3, <3>1 DEF FileFull, Loops, Moved, HeadWithout
    <3>3. empty = NULL
      BY <1>1, <1>3, <2>1 DEF GrowingInv
    <3> QED
      BY <1>2, <2>1, <3>2, <3>3 DEF GrowingInv
  <2>2. CASE n = Cells
    <3>1. FilePartial(p, p) /\ partial = NULL
      BY <1>3, <1>4, <2>2 DEF FileTaken, UsedUp
    <3>2. /\ next' = [next EXCEPT ![p] = NULL] /\ partial' = p /\ empty' = NULL
          /\ full' = full /\ running' = running
      BY <1>3, <3>1 DEF FilePartial, Loops, Moved, HeadWithout
    <3> QED
      BY <1>2, <2>2, <3>2 DEF GrowingInv
  <2>3. CASE n # 1 /\ n # Cells
    BY <1>2, <1>3, <1>4, <2>3 DEF GrowingInv, FileTaken, UsedUp
  <2> QED
    BY <2>1, <2>2, <2>3
<1>8. \A q \in PageIds, i \in Indexes :
        holders[<<q, i>>] > 0 <=> q < p \/ (q = p /\ i < Cells - n)
  <2>1. CASE npages = p
    BY <1>3, <2>1 DEF GrowingInv, Out
  <2>2. CASE npages # p
    <3>1. Out = Cells /\ p = npages + 1 /\ Cells - n = 0
      BY <1>3, <2>2 DEF Out
    <3>2. \A q \in PageIds, i \in Indexes :
            holders[<<q, i>>] > 0 <=> q < npages \/ (q = npages /\ i < Cells)
      BY <3>1 DEF GrowingInv
    <3>3. ASSUME NEW q \in PageIds, NEW i \in Indexes
          PROVE  /\ q \in Int /\ i < Cells /\ ~ i < 0
                 /\ q < npages + 1 <=> q < npages \/ q = npages
      BY <1>1 DEF PageIds, Indexes
    <3> QED
      BY <3>1, <3>2, <3>3
  <2> QED
    BY <2>1, <2>2
<1>9. Out' = Cells - n + 1
  BY <1>2, <1>3, <1>5 DEF GrowingInv, Out
<1>10. \A q \in PageIds, i \in Indexes :
        holders'[<<q, i>>] > 0 <=> q < npages' \/ (q = npages' /\ i < Out')
  <2>1. \A q \in PageIds, i \in Indexes :
          holders'[<<q, i>>] > 0 <=> holders[<<q, i>>] > 0 \/ (q = p /\ i = Cells - n)
    <3> SUFFICES ASSUME NEW q \in PageIds, NEW i \in Indexes
                 PROVE  holders'[<<q, i>>] > 0 <=>
                          holders[<<q, i>>] > 0 \/ (q = p /\ i = Cells - n)
      OBVIOUS
    <3>1. <<q, i>> \in Objects
      BY DEF Objects
    <3>2. CASE q = p /\ i = Cells - n
      BY <1>5, <1>6, <3>1, <3>2 DEF GrowingInv
    <3>3. CASE ~(q = p /\ i = Cells - n)
      <4>1. <<q, i>> # <<p, Cells - n>>
        BY <3>3
      <4> QED
        BY <1>5, <3>1, <3>3, <4>1 DEF GrowingInv
    <3> QED
      BY <3>2, <3>3
  <2> SUFFICES ASSUME NEW q \in PageIds, NEW i \in Indexes
               PROVE  holders'[<<q, i>>] > 0 <=> q < p \/ (q = p /\ i < Cells - n + 1)
    BY <1>3, <1>9
  <2>2. q = p => ~ q < p
    BY DEF PageIds
  <2>3. i < Cells - n + 1 <=> i < Cells - n \/ i = Cells - n
    BY <1>3 DEF Indexes
  <2> QED
    BY <1>8, <2>1, <2>2, <2>3
<1>11. \A q \in PageIds : q > npages' => Fresh(q)'
  <2> SUFFICES ASSUME NEW q \in PageIds, q > p PROVE Fresh(q)'
    BY <1>3
  <2>1. Fresh(q) /\ q # p
    BY <1>1, <1>2, <1>3 DEF GrowingInv, PageIds
  <2> QED
    BY <1>2, <1>5, <1>7, <2>1 DEF GrowingInv, Fresh
<1>12. /\ num_free' \in [PageIds -> 0 .. Cells] /\ num_free'[p] = n - 1
       /\ first_free' \in [PageIds -> Indexes \cup {END}]
       /\ n # 1 => first_free'[p] = Cells - n + 1
  BY <1>2, <1>3, <1>5 DEF GrowingInv, Indexes
<1>13. holders' \in [Objects -> Nat]
  BY <1>5, <1>6 DEF GrowingInv
<1>14. GrowingInv'
  BY <1>2, <1>3, <1>13, <1>5, <1>7, <1>9, <1>10, <1>11, <1>12 DEF GrowingInv
<1>15. npages' # npages => \A q \in 1 .. npages, i \in Indexes : holders[<<q, i>>] > 0
  <2> SUFFICES ASSUME p = npages + 1, NEW q \in 1 .. npages, NEW i \in Indexes
               PROVE  holders[<<q, i>>] > 0
    BY <1>3
  <2> QED
    BY <1>1, <1>2, <1>8 DEF PageIds
<1> QED
  BY <1>14, <1>15

NewPageStep ==
  growing /\ npages' # npages =>
    \A q \in 1 .. npages, i \in Indexes : holders[<<q, i>>] > 0

LEMMA GrowingStep ==
  ASSUME growing => GrowingInv, [SlabNext]_slabVars
  PROVE  (growing => GrowingInv)' /\ [NewPageStep]_slabVars
<1>1. CASE ~growing
  <2>1. ~growing'
    BY <1>1 DEF SlabNext, Allocate, Deallocate, slabVars
  <2> QED
    BY <1>1, <2>1 DEF NewPageStep
<1>2. CASE growing /\ Allocate
  BY <1>2, AllocateGrows DEF NewPageStep
<1>3. CASE UNCHANGED slabVars
  BY <1>3 DEF GrowingInv, Fresh, Out, slabVars, cellVars, listVars
<1> QED
  BY <1>1, <1>2, <1>3 DEF SlabNext, Deallocate

\* A slab from which objects are only taken (contexts, address spaces,
\* kqueues, device nodes) never gets lost in its lists (GrowsSafely).
THEOREM GrowingKeepsRunning == SlabSpec => []GrowsSafely
<1>1. (growing => GrowingInv) => GrowsSafely
  BY DEF GrowingInv, GrowsSafely
<1> QED
  BY <1>1, SlabInitGrowing, GrowingStep, PTL DEF SlabSpec

\* Such a slab takes a page only when all cells of the others are out
\* (NewPageOnlyWhenFull).
THEOREM GrowingWastesNothing == SlabSpec => NewPageOnlyWhenFull
<1>1. SlabSpec => [][NewPageStep]_slabVars
  BY SlabInitGrowing, GrowingStep, PTL DEF SlabSpec
<1> QED
  BY <1>1, PTL DEF NewPageOnlyWhenFull, NewPageStep
=============================================================================
