-------------------------------- MODULE Slab --------------------------------
(***************************************************************************)
(* One slab (common/slab.c): pages of cells, a free list threaded through  *)
(* the free cells of each page, and the three lists that pages are filed   *)
(* on.  Callers return only objects that they hold.  se->num_objects is    *)
(* never read and left out.                                                *)
(***************************************************************************)
EXTENDS Integers

CONSTANTS
  Cells,    \* cells in a page: (PAGE_SIZE - sizeof (sbuf_t)) / size
  Pages,    \* a bound on the pages the slab takes
  LowWords  \* what NULL->next, the word at address 8, may read as: OTHER is no page

ASSUME SlabAssumption ==
  /\ Cells \in Nat \ {0, 1}
  /\ Pages \in Nat \ {0}
  /\ LowWords \subseteq {"NULL", "OTHER"}

NULL == 0
END == -1
PageIds == 1 .. Pages
Indexes == 0 .. Cells - 1
Objects == PageIds \X Indexes

\* Whether the slab works, an operation loops forever, or the "object" in
\* front of the first cell has been handed out.
OK == "OK"
HUNG == "HUNG"
WILD == "WILD"

VARIABLES
  npages,                \* pages taken so far; page ids follow that order
  empty, partial, full,  \* the heads of the three lists
  next, first_free, num_free,  \* the fields of sbuf_t
  link,                  \* the first word of each cell while it is free
  holders,               \* how many callers hold each object
  running, low,
  growing                \* whether callers only take objects

cellVars == <<first_free, num_free, link, holders>>
listVars == <<empty, partial, full, next>>
slabVars == <<npages, cellVars, listVars, running, low, growing>>

-----------------------------------------------------------------------------
FreshLinks == [i \in Indexes |-> IF i = Cells - 1 THEN END ELSE i + 1]

\* create_slab(), and the fields that a page gets when it is taken.
SlabInit ==
  /\ npages = 1
  /\ empty = 1 /\ partial = NULL /\ full = NULL
  /\ next = [p \in PageIds |-> NULL]
  /\ first_free = [p \in PageIds |-> 0]
  /\ num_free = [p \in PageIds |-> Cells]
  /\ link = [p \in PageIds |-> FreshLinks]
  /\ holders = [o \in Objects |-> 0]
  /\ running = OK
  /\ low \in LowWords
  /\ growing \in BOOLEAN

\* A slip in the next one: first_free stays where it is.
NextFreeSame(p) == first_free[p]

NextFree(p) == link[p][first_free[p]]

\* A slip in the next one: the count is not put down.
TakeCellUncounted(p) ==
  /\ holders' = [holders EXCEPT ![<<p, first_free[p]>>] = @ + 1]
  /\ first_free' = [first_free EXCEPT ![p] = NextFree(p)]
  /\ UNCHANGED <<num_free, link>>

TakeCell(p) ==
  /\ holders' = [holders EXCEPT ![<<p, first_free[p]>>] = @ + 1]
  /\ first_free' = [first_free EXCEPT ![p] = NextFree(p)]
  /\ num_free' = [num_free EXCEPT ![p] = @ - 1]
  /\ UNCHANGED link

\* A slip in the next one: the cell forgets the rest of the free list.
FreedUnlinked(p, i) == [link EXCEPT ![p][i] = END]

Freed(p, i) == [link EXCEPT ![p][i] = first_free[p]]

GiveCell(p, i) ==
  /\ holders' = [holders EXCEPT ![<<p, i>>] = @ - 1]
  /\ link' = Freed(p, i)
  /\ first_free' = [first_free EXCEPT ![p] = i]
  /\ num_free' = [num_free EXCEPT ![p] = @ + 1]

-----------------------------------------------------------------------------
\* Page p leaves the list at `head' for the one at `other'.  If p is not the
\* head, the loop of the code looks at the head's successor only: it does not
\* advance, and reads address 8 if the list is empty.
Loops(head, p) == IF head = NULL THEN low = "OTHER"
                  ELSE head # p /\ next[head] \notin {NULL, p}

HeadWithout(head, p) == IF head = p THEN next[p] ELSE head

Moved(head, other, p) ==
  LET cut == IF head # p /\ head # NULL /\ next[head] = p
             THEN [next EXCEPT ![head] = next[p]] ELSE next
  IN [cut EXCEPT ![p] = other]

Hang == running' = HUNG /\ UNCHANGED listVars

\* A slip in the next one: the page is looked for on the list of empty ones.
FileFullFromEmpty(p) ==
  IF Loops(empty, p) THEN Hang
  ELSE /\ next' = Moved(empty, full, p)
       /\ empty' = HeadWithout(empty, p)
       /\ full' = p
       /\ UNCHANGED <<partial, running>>

FileFull(p) ==
  IF Loops(partial, p) THEN Hang
  ELSE /\ next' = Moved(partial, full, p)
       /\ partial' = HeadWithout(partial, p)
       /\ full' = p
       /\ UNCHANGED <<empty, running>>

\* `head' is se->empty, or the page just taken.
FilePartial(head, p) ==
  IF Loops(head, p) THEN Hang
  ELSE /\ next' = Moved(head, partial, p)
       /\ empty' = HeadWithout(head, p)
       /\ partial' = p
       /\ UNCHANGED <<full, running>>

\* A slip in the next one: a page counts as full with one cell left.
UsedUpEarly(left) == left <= 1

UsedUp(left) == left = 0

\* Where allocate_from_slab() files page p that has `left' free cells now.
FileTaken(head, p, left) ==
  IF UsedUp(left) THEN FileFull(p)
  ELSE IF left = Cells - 1 THEN FilePartial(head, p)
  ELSE /\ empty' = head
       /\ UNCHANGED <<partial, full, next, running>>

Allocate ==
  LET new == partial = NULL /\ empty = NULL
      head == IF new THEN npages + 1 ELSE empty
      p == IF partial # NULL THEN partial ELSE head
  IN /\ running = OK
     /\ p \in PageIds
     /\ npages' = IF new THEN npages + 1 ELSE npages
     /\ IF first_free[p] = END
        THEN running' = WILD /\ UNCHANGED <<cellVars, listVars>>
        ELSE TakeCell(p) /\ FileTaken(head, p, num_free[p] - 1)
     /\ UNCHANGED <<low, growing>>

\* deallocate_from_slab() looks through the partial pages for the one in front
\* of p: the pages it meets, and whether it finds it or goes round for ever.
Walk ==
  LET w[k \in 0 .. Pages] == IF k = 0 THEN partial
                             ELSE IF w[k - 1] = NULL THEN NULL ELSE next[w[k - 1]]
  IN w

Before(p) ==
  {q \in PageIds : \E k \in 0 .. Pages :
     /\ Walk[k] = q /\ next[q] = p
     /\ \A j \in 0 .. k - 1 : next[Walk[j]] # p}

FileReturned(p) ==
  IF num_free[p] + 1 # Cells THEN UNCHANGED <<listVars, running>>
  ELSE \/ \E q \in Before(p) :
            /\ next' = [[next EXCEPT ![q] = next[p]] EXCEPT ![p] = empty]
            /\ empty' = p
            /\ UNCHANGED <<partial, full, running>>
       \/ Before(p) = {} /\ Walk[Pages] = NULL /\ UNCHANGED <<listVars, running>>
       \/ Before(p) = {} /\ Walk[Pages] # NULL /\ Hang

Deallocate(p, i) ==
  /\ running = OK /\ ~growing
  /\ holders[<<p, i>>] > 0
  /\ GiveCell(p, i)
  /\ FileReturned(p)
  /\ UNCHANGED <<npages, low, growing>>

SlabNext == Allocate \/ \E p \in PageIds, i \in Indexes : Deallocate(p, i)

SlabSpec == SlabInit /\ [][SlabNext]_slabVars
-----------------------------------------------------------------------------
SlabTypeOK ==
  /\ npages \in PageIds
  /\ empty \in PageIds \cup {NULL}
  /\ partial \in PageIds \cup {NULL}
  /\ full \in PageIds \cup {NULL}
  /\ next \in [PageIds -> PageIds \cup {NULL}]
  /\ first_free \in [PageIds -> Indexes \cup {END}]
  /\ num_free \in [PageIds -> 0 .. Cells]
  /\ link \in [PageIds -> [Indexes -> Indexes \cup {END}]]
  /\ holders \in [Objects -> Nat]
  /\ running \in {OK, HUNG, WILD}
  /\ low \in {"NULL", "OTHER"}
  /\ growing \in BOOLEAN

\* The free list of a page, in whatever order its cells came back.
FreeList(p) ==
  LET f[k \in 0 .. Cells] == IF k = 0 THEN first_free[p]
                             ELSE IF f[k - 1] = END THEN END ELSE link[p][f[k - 1]]
  IN f

\* The free list of every page meets each cell that nobody holds, once, and
\* no other, and num_free_objects says how many they are (slab.c:106-110,
\* 160-164).
FreeListsExact ==
  \A p \in PageIds :
    /\ {FreeList(p)[k] : k \in 0 .. num_free[p] - 1} = {i \in Indexes : holders[<<p, i>>] = 0}
    /\ FreeList(p)[num_free[p]] = END

\* A slab is a pool: no object is handed out while somebody holds it
\* (slab.c:68-178).
ObjectPool == INSTANCE Pool
SlabIsPool == ObjectPool!Spec

\* The slabs from which objects are only taken, those of contexts, address
\* spaces, kqueues and device nodes, never get lost in their lists
\* (slab.c:113-141).
GrowsSafely == growing => running = OK

\* slab.h:13-14: "When full, another page of objects is allocated": such a slab
\* takes a page only when every cell of the pages taken before is held
\* (slab.c:79-103).
NewPageOnlyWhenFull ==
  [][growing /\ npages' # npages =>
       \A q \in 1 .. npages, i \in Indexes : holders[<<q, i>>] > 0]_slabVars

\* slab.c:149: deallocate_from_slab() "Returns an object to the pool to be
\* allocated again": every slab goes on working afterwards.
SlabKeepsRunning == running = OK
=============================================================================
