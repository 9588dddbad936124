----------------------------- MODULE PageFrames -----------------------------
(***************************************************************************)
(* Physical memory (i386/physical_memory.c): a bitmap of the pages in use  *)
(* and a count of the free ones.  The C functions are operators from a     *)
(* state m of the memory system to the state that they leave, with their   *)
(* result in m.ret; m.stop says why the kernel cannot go on.  The domain's *)
(* lock is left out: nothing interrupts the kernel here.                   *)
(***************************************************************************)
EXTENDS Integers, Sequences, SequencesExt

CONSTANTS
  PageSize,    \* bytes in a page
  WordBits,    \* bits in a word of the bitmap: 32
  Limit,       \* the last page that the bitmap is filled in for: mem_upper / 4
  KernelPages0,\* pages in use before the allocator is: the kernel and the bitmap
  Bitmap,      \* the page where the bitmap begins: 0x200
  Identity     \* frames that the kernel sees at their own address: 4 MB of them

ASSUME PageFramesAssumption ==
  /\ {PageSize, WordBits, KernelPages0, Identity} \subseteq Nat \ {0}
  /\ {Limit, Bitmap} \subseteq Nat
  /\ Bitmap < KernelPages0
  /\ PageSize > Limit \* no address of a page but page 0's is the number of a page

RUNNING == "running"

Stop(m, why) == IF m.stop = RUNNING THEN [m EXCEPT !.stop = why] ELSE m

-----------------------------------------------------------------------------
(* initialize_memory(): map is the loader's list of areas, with their first *)
(* and last unit of 1 KB, which the code takes for page numbers; ram is the *)
(* set of bits that the bitmap's own memory happens to hold.                *)

PagesOf(area) == {p \in area.first .. area.last : p <= Limit}

AddArea(m, area) ==
  LET pages == PagesOf(area) IN
  IF area.available
  THEN [m EXCEPT !.total = @ + Cardinality(pages),
                 !.free = @ + Cardinality(pages), !.bitmap = @ \ pages]
  ELSE [m EXCEPT !.total = @ + Cardinality(pages), !.bitmap = @ \cup pages]

InitializeMemory(m, map, ram) ==
  LET filled == FoldLeft(AddArea,
                         [m EXCEPT !.bitmap = ram, !.free = 0, !.total = 0], map)
  IN  [filled EXCEPT !.bitmap = @ \cup (0 .. KernelPages0 - 1), !.free = @ - KernelPages0]

-----------------------------------------------------------------------------
\* The pages whose bits allocate_page() looks at: whole words, one too many
\* when total_pages is a multiple of WordBits.
Searched(m) == 0 .. WordBits * (m.total \div WordBits + 1) - 1

Clear(m) == Searched(m) \ m.bitmap

\* A slip in the next one: the bit is not set.
AllocatePageUnmarked(m) ==
  IF m.free = 0 THEN [m EXCEPT !.ret = 0]
  ELSE IF Clear(m) = {} THEN Stop(m, "no clear bit")
  ELSE [m EXCEPT !.free = @ - 1, !.ret = Min(Clear(m))]

\* Returns page 0 if there is none left.
AllocatePage(m) ==
  IF m.free = 0 THEN [m EXCEPT !.ret = 0]
  ELSE IF Clear(m) = {} THEN Stop(m, "no clear bit")
  ELSE LET page == Min(Clear(m))
       IN  [m EXCEPT !.bitmap = @ \cup {page}, !.free = @ - 1, !.ret = page]

\* The page that holds a page's bit; a word of the bitmap has four bytes.
BitAt(page) == Bitmap + page \div (WordBits * (PageSize \div 4))

\* The argument is a page number, whatever callers pass.  A bit beyond the
\* bitmap's first page is some other memory's: clearing it changes nothing in
\* a page that was never used, which holds zeros.  In a used one it clears a
\* bit of a page table, a slab or a ring, and what follows is not modelled.
DeallocatePage(m, page) ==
  LET d == [m EXCEPT !.bitmap = @ \ {page}, !.free = @ + 1]
      stray == BitAt(page)
  IN  IF stray = Bitmap \/ (stray \notin m.bitmap /\ stray < Identity) THEN d
      ELSE Stop(d, "other memory written")
=============================================================================
