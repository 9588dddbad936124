------------------------------- MODULE Paging -------------------------------
(***************************************************************************)
(* The kernel's virtual pages and the page tables of the processes         *)
(* (i386/paging.c).  Of the kernel's page tables only the number of taken  *)
(* entries is kept.  m.tables[p][t] is the frame of page table t of        *)
(* process p, m.pt[p][a] the frame that its page a is mapped to.  Memory   *)
(* is taken to be zero when the machine starts, so a new table maps        *)
(* nothing.                                                                *)
(***************************************************************************)
EXTENDS PageFrames

CONSTANTS
  KernelEntries, \* entries of the kernel's page tables above the first 4 MB
  TableSize      \* entries in a page table: 1024

ASSUME PagingAssumption == {KernelEntries, TableSize} \subseteq Nat \ {0}

NONE == -1

Table(page) == page \div TableSize

Pages(r) == r.va .. r.va + r.len - 1

\* Op(m, page) for every page of region r, in order.
ForPages(Op(_, _), m, r) == FoldLeft(Op, m, [i \in 1 .. r.len |-> r.va + i - 1])

-----------------------------------------------------------------------------
\* get_unused_kernel_virtual_page(): with no entry left it writes to the
\* word after the array of page tables.
UnusedKernelPage(m) ==
  IF m.kpages = KernelEntries THEN Stop(m, "no kernel page") ELSE [m EXCEPT !.kpages = @ + 1]

\* A slip in the next one: the entry stays taken.
FreeKernelPageNot(m) == m

FreeKernelPage(m) == [m EXCEPT !.kpages = @ - 1]

\* A kernel page that is mapped, used and freed again.
BrieflyMapped(m) == FreeKernelPage(UnusedKernelPage(m))

\* allocate_page() for a caller that does not look at what it returns, and so
\* uses page 0 like any other.  The model ends when memory has run out.
Frame(m) ==
  LET a == AllocatePage(m) IN IF m.free = 0 THEN Stop(a, "no frame") ELSE a

\* get_usable_kernel_virtual_page() hangs on page 0, out of memory or not.
UsableKernelPage(m) ==
  LET f == Frame(UnusedKernelPage(m)) IN
  IF f.stop = RUNNING /\ f.ret = 0 THEN Stop(f, "page 0") ELSE f

-----------------------------------------------------------------------------
WithTable(m, p, page) ==
  IF m.tables[p][Table(page)] # NONE THEN m
  ELSE LET a == Frame(m) IN [a EXCEPT !.tables[p][Table(page)] = a.ret]

SetPte(m, p, page, frame) == [m EXCEPT !.pt[p][page] = frame]

\* One round of map_user_region_to_physical(): its kernel page stays taken.
MapPage(m, p, page, frame) == SetPte(UnusedKernelPage(WithTable(m, p, page)), p, page, frame)

\* A slip in the next one: one frame is allocated, before the loop.
MapRegionOnce(m, p, r) ==
  LET a == Frame(m) IN ForPages(LAMBDA s, page : MapPage(s, p, page, a.ret), a, r)

MapRegion(m, p, r) ==
  ForPages(LAMBDA s, page : LET a == Frame(s) IN MapPage(a, p, page, a.ret), m, r)

\* The same function with a physical address: these frames are no memory.
MapDirected(m, p, r, phys) ==
  ForPages(LAMBDA s, page : MapPage(s, p, page, phys + page - r.va), m, r)

\* map_user_address() writes to the table at its physical address.
MapUserAddress(m, p, page, frame) ==
  LET t == WithTable(m, p, page) IN
  IF t.tables[p][Table(page)] >= Identity
  THEN Stop(t, "page table out of reach")
  ELSE SetPte(t, p, page, frame)

\* user_address_to_physical(), and the kernel page that it needs for a while.
Physical(m, p, page) ==
  IF NONE \in {m.tables[p][Table(page)], m.pt[p][page]} THEN 0 ELSE m.pt[p][page]

Looked(m, p, page) == IF m.tables[p][Table(page)] = NONE THEN m ELSE BrieflyMapped(m)

\* map_user_virtual_to_kernel(): the caller gets a kernel page of its own.
UserPageInKernel(m) == UnusedKernelPage(BrieflyMapped(m))

\* page_fault_handler() for a fault of core code on its stack; elsewhere the
\* machine hangs.
PageFault(m, p, page) == LET a == Frame(m) IN MapUserAddress(a, p, page, a.ret)
=============================================================================
