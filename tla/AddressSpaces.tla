--------------------------- MODULE AddressSpaces ---------------------------
(***************************************************************************)
(* Address spaces (i386/context.c): m.spaces[p] is the list of process p's *)
(* regions, in list order, its two sentinels left out.  va and len count   *)
(* pages.  Regions of type IPC with one parameter are each other's         *)
(* sharedmem_next ring; every other region is alone in its ring.           *)
(***************************************************************************)
EXTENDS Paging

CONSTANTS
  Low,       \* the first user page: 0x40000000
  Top,       \* the first page of the stack: 0xB0000000
  StackPages \* pages of the stack: 0x10000

ASSUME AddressSpacesAssumption ==
  {Low, Top, StackPages} \subseteq Nat \ {0} /\ Low < Top

Region(va, len, type, param) == [va |-> va, len |-> len, type |-> type, param |-> param]

\* The index of the first region with the page, 0 if there is none.
DetermineRegion(list, page) == SelectInSeq(list, LAMBDA r : page \in Pages(r))

\* Where p has a region of FIFO id, 0 if nowhere, or if there is no process p.
IpcRegion(m, p, id) ==
  IF p \notin DOMAIN m.spaces THEN 0
  ELSE SelectInSeq(m.spaces[p], LAMBDA r : r.type = "IPC" /\ r.param = id)

IsFree(list, i) == i # 0 /\ list[i].type = "FREE"

Shared(m, r) ==
  /\ r.type = "IPC"
  /\ Cardinality(UNION {{<<p, i>> : i \in {j \in DOMAIN m.spaces[p] :
                            m.spaces[p][j].type = "IPC" /\ m.spaces[p][j].param = r.param}}
                        : p \in DOMAIN m.spaces}) > 1

-----------------------------------------------------------------------------
\* create_address_space(): the page directory and two regions.
CreateAddressSpace(m, p) ==
  [UsableKernelPage(m) EXCEPT
     !.spaces[p] = <<Region(Low, Top - Low, "FREE", 0), Region(Top, StackPages, "STACK", 0)>>]

-----------------------------------------------------------------------------
\* The pages of a region that is deleted are given back by their address, which
\* as a page number has its bit in memory behind the bitmap (BitAt).  Where there is no page table, page 0 is taken for one.
ReleasePages(m, p, r) ==
  LET alone == ~Shared(m, r) IN
  ForPages(LAMBDA s, page :
             LET b == BrieflyMapped(s)
                 u == IF s.tables[p][Table(page)] = NONE THEN Stop(b, "no page table") ELSE b
                 d == IF alone THEN DeallocatePage(u, Physical(s, p, page) * PageSize) ELSE u
             IN  [d EXCEPT !.pt[p][page] = NONE],
           m, r)

\* A slip in the next one: the region grows by one page too few.
MergeBeforeShort(list, i) ==
  LET b == DetermineRegion(list, list[i].va - 1) IN
  IF ~IsFree(list, b) THEN [list |-> list, at |-> i]
  ELSE [list |-> RemoveAt([list EXCEPT ![b].len = @ + list[i].len - 1], i),
        at |-> IF b < i THEN b ELSE b - 1]

\* Merge region i with a free one that ends where it begins.
MergeBefore(list, i) ==
  LET b == DetermineRegion(list, list[i].va - 1) IN
  IF ~IsFree(list, b) THEN [list |-> list, at |-> i]
  ELSE [list |-> RemoveAt([list EXCEPT ![b].len = @ + list[i].len], i),
        at |-> IF b < i THEN b ELSE b - 1]

After(list, i) == DetermineRegion(list, list[i].va + list[i].len)

\* Merge region i with a free one that begins where it ends, and free it.
MergeAfter(list, i) ==
  LET a == After(list, i)
      merged == IF ~IsFree(list, a) THEN [list EXCEPT ![i].type = "FREE"]
                ELSE [list EXCEPT ![i].len = @ + list[a].len, ![i].type = "FREE"]
  IN  IF IsFree(list, a) THEN RemoveAt(merged, a) ELSE merged

DeleteRegion(m, p, i) ==
  LET released == ReleasePages(m, p, m.spaces[p][i])
      before == MergeBefore(released.spaces[p], i)
  IN  [released EXCEPT !.spaces[p] = MergeAfter(before.list, before.at)]

-----------------------------------------------------------------------------
Fits(list, len) == {i \in DOMAIN list : list[i].type = "FREE" /\ list[i].len >= len}

\* The smallest free region that is large enough, the last one of several.
BestFit(list, len) ==
  LET smallest == {i \in Fits(list, len) :
                     \A j \in Fits(list, len) : list[i].len <= list[j].len}
  IN  CHOOSE i \in smallest : \A j \in smallest : j <= i

\* A slip in the next one: the free region is not made smaller.
CreateRegionTwice(m, p, len, type, param) ==
  LET list == m.spaces[p] IN
  IF Fits(list, len) = {} THEN Stop(m, "no room")
  ELSE LET i == BestFit(list, len)
           left == list[i].len - len
       IN  [m EXCEPT !.spaces[p] = <<Region(list[i].va + left, len, type, param)>> \o list]

\* create_region() with address 0: the end of a free region.  Without one
\* it returns a null region, which every caller uses.
CreateRegion(m, p, len, type, param) ==
  LET list == m.spaces[p] IN
  IF Fits(list, len) = {} THEN Stop(m, "no room")
  ELSE LET i == BestFit(list, len)
           left == list[i].len - len
       IN  [m EXCEPT !.spaces[p] = <<Region(list[i].va + left, len, type, param)>>
                                   \o [list EXCEPT ![i].len = left]]

\* One round of the loop of create_region() with an address, which makes room
\* for the pages from va up to stop: region s.at of what the rounds before
\* have left.  After a deletion it goes on behind the next region, which it has
\* not looked at.  It does look at the right part of a region that it has
\* split, to which no case applies.
CarveAt(s, p, va, stop) ==
  LET m == s.m
      list == m.spaces[p]
      i == s.at
      cur == list[i]
      cur_stop == cur.va + cur.len
      On(l, at) == [m |-> [m EXCEPT !.spaces[p] = l], at |-> at]
  IN
  IF m.stop # RUNNING \/ i > Len(list) THEN s
  ELSE IF cur.va >= va /\ cur_stop <= stop THEN
    IF i = Len(list) THEN [s EXCEPT !.m = Stop(m, "end of the list")]
    ELSE LET deleted == DeleteRegion(m, p, i)
             a == After(list, i)
             left == Len(list) - (i + 1) - (IF IsFree(list, a) /\ a > i + 1 THEN 1 ELSE 0)
         IN  [m |-> deleted, at |-> Len(deleted.spaces[p]) - left + 1]
  ELSE IF cur.va <= va /\ cur_stop <= stop /\ cur_stop > va THEN
    On([list EXCEPT ![i].len = @ - (cur_stop - va)], i + 1)
  ELSE IF cur_stop > stop /\ cur.va >= va /\ cur.va < stop THEN
    On([list EXCEPT ![i].len = @ - (stop - cur.va), ![i].va = stop], i + 1)
  ELSE IF cur.va < va /\ cur_stop > stop THEN
    On(InsertAt([list EXCEPT ![i].len = va - cur.va], i + 1,
                Region(stop, cur_stop - stop, cur.type, cur.param)), i + 2)
  ELSE [s EXCEPT !.at = @ + 1]

\* A region is looked at once, if at all: as many rounds as regions.
Carve(m, p, va, stop) ==
  FoldLeft(LAMBDA s, r : CarveAt(s, p, va, stop), [m |-> m, at |-> 1], m.spaces[p]).m

CreateRegionAt(m, p, va, len, type, param) ==
  LET carved == Carve(m, p, va, va + len)
  IN  [carved EXCEPT !.spaces[p] = <<Region(va, len, type, param)>> \o @]

\* clone_region(): region r of process q, anywhere in p, on the same frames.
CloneRegion(m, p, q, r) ==
  LET created == CreateRegion(m, p, r.len, r.type, r.param)
      mr == created.spaces[p][1]
  IN  IF created.stop # RUNNING THEN created
      ELSE ForPages(LAMBDA s, page :
             LET source == r.va + page - mr.va
             IN  MapUserAddress(Looked(s, q, source), p, page, Physical(s, q, source)),
           created, mr)
=============================================================================
