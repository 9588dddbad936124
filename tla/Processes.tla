----------------------------- MODULE Processes -----------------------------
(***************************************************************************)
(* The memory of processes and of their FIFOs, from the boot loader's map  *)
(* on: common/process.c, the memory calls of i386/syscall.c and of         *)
(* common/kfifo.c over the address spaces and the physical pages.  A call  *)
(* runs to its end with interrupts off, so it is one step.                 *)
(***************************************************************************)
EXTENDS AccessLists

CONSTANTS
  MaxPid,     \* a bound on the processes
  MaxFifo,    \* a bound on the FIFOs ever created
  MemoryMaps, \* the maps that a loader passes
  BootModules,\* the modules that a loader passes: each the segments of an ELF file
  MmapSizes,  \* the sizes in pages that processes map
  MaxPrivate, \* a bound on the mappings and stack pages of all processes
  MaxReturned,\* a bound on the access list entries that wait for their next use
  MaxRegions, \* a bound on the regions, which writes make more and more of
  Residues,   \* the words up to a zero that the stack holds behind a pid
  Uses        \* what programs do beyond the uses that the kernel survives

ASSUME ProcessesAssumption ==
  /\ MaxPid \in Nat \ {0} /\ MaxFifo \in Nat
  /\ \A map \in MemoryMaps : Len(map) \in Nat /\ DOMAIN map = 1 .. Len(map)
  /\ MmapSizes \subseteq Nat \ {0}
  /\ Residues \subseteq Seq(Nat \ {0})
  /\ Uses \subseteq {"mmap and fork", "fork touching regions", "close unread", "create after close"}

\* A segment lies behind the one before it, but may begin on its last page.
Loadable(segments) == \A i \in DOMAIN segments :
  /\ {segments[i].va, segments[i].len} \subseteq Nat
  /\ Low <= segments[i].va /\ segments[i].len > 0 /\ segments[i].va + segments[i].len < Top
  /\ i > 1 => /\ segments[i - 1].va < segments[i].va
              /\ segments[i - 1].va + segments[i - 1].len <= segments[i].va + 1

ASSUME BootModulesAssumption == \A modules \in BootModules :
  /\ modules = [i \in 1 .. Len(modules) |-> modules[i]] /\ Len(modules) \in 0 .. MaxPid
  /\ \A i \in 1 .. Len(modules) :
       /\ modules[i] = [j \in 1 .. Len(modules[i]) |-> modules[i][j]]
       /\ Len(modules[i]) \in Nat
       /\ Loadable(modules[i])

VARIABLE mem  \* the state of the memory system

Kernel == MaxPid + 1 \* kfifo_kernel_pid
Temp == 0            \* the page at 0x20000000 that execve_elf() maps
Device == 9999       \* the frame of a device's memory

PidsUpTo(m) == 1 .. m.npids
UserPages == 0 .. Top + StackPages - 1

Blank ==
  [bitmap |-> {}, free |-> 0, total |-> 0, kpages |-> 0,
   tables |-> [p \in 1 .. MaxPid |-> [t \in 0 .. Table(Top + StackPages - 1) |-> NONE]],
   pt |-> [p \in 1 .. MaxPid |-> [a \in UserPages |-> NONE]],
   spaces |-> [p \in 1 .. MaxPid |-> <<>>], npids |-> 0,
   fifos |-> <<>>, next_fifo |-> 1, acl |-> <<>>, acl_free |-> <<>>,
   ret |-> 0, stop |-> RUNNING]

\* No page that the bitmap has ever to do with has a number that is an address
\* or a device's.
PageNumbers == {f \in 0 .. PageSize - 1 : f < Device}

ASSUME MemoryMapsAssumption == \A map \in MemoryMaps, ram \in {{}, 0 .. Limit} :
  LET m == InitializeMemory(Blank, map, ram) IN m.bitmap \cup Searched(m) \subseteq PageNumbers

-----------------------------------------------------------------------------
(* Boot: initialize_memory(), initialize_kernel_paging() with its directory *)
(* and 16 tables counted as one frame, and load_modules().                  *)

CreateProcess(m) ==
  CreateAddressSpace([m EXCEPT !.npids = @ + 1], m.npids + 1)

\* execve_elf(): the copy of the image stays mapped; there are no old core
\* regions at boot.  A segment's size is rounded up to one page more than
\* needed if it is whole pages: segments are given with their pages.
LoadSegment(m, p, segment) ==
  LET c == CreateRegionAt(m, p, segment.va, segment.len, "CORE", 0)
  IN  IF c.stop # RUNNING THEN c ELSE MapRegion(c, p, c.spaces[p][1])

ExecveElf(m, p, segments) ==
  FoldLeft(LAMBDA s, segment : LoadSegment(s, p, segment),
           MapRegion(m, p, Region(Temp, 1, "CORE", 0)), segments)

LoadModules(m, modules) ==
  FoldLeft(LAMBDA s, segments : ExecveElf(CreateProcess(s), s.npids + 1, segments), m, modules)

Boot(map, ram, modules) ==
  LoadModules(Frame(InitializeMemory(Blank, map, ram)), modules)

\* What is left after a call, or after the boot: nothing if the kernel stopped.
Left(m) == IF m.stop = RUNNING THEN [m EXCEPT !.ret = 0] ELSE [Blank EXCEPT !.stop = m.stop]

Init == \E map \in MemoryMaps, ram \in {{}, 0 .. Limit}, modules \in BootModules :
          mem = Left(Boot(map, ram, modules))

-----------------------------------------------------------------------------
(* fork() *)

\* The new process, with the stack taken out of its address space.
ForkedSpace(m) ==
  LET c == CreateProcess(m)
  IN  [c EXCEPT !.spaces[c.npids] = <<Head(@)>>]

CopyPrivate(m, c, r) ==
  LET created == CreateRegionAt(m, c, r.va, r.len, r.type, r.param)
      mapped == MapRegion(created, c, created.spaces[c][1])
  IN  IF created.stop # RUNNING THEN created
      ELSE ForPages(LAMBDA s, page : FreeKernelPage(UserPageInKernel(s)), mapped, r)

\* Only pages that the parent has; the kernel page of each stays taken.
CopyStackPage(m, p, c, page) ==
  LET l == Looked(m, p, page)
      a == Frame(l)
  IN  IF Physical(m, p, page) = 0 THEN l
      ELSE UserPageInKernel(MapUserAddress(a, c, page, a.ret))

\* A slip in the next one: the pages are left to page_fault_handler().
CopyStackEmpty(m, p, c, r) == CreateRegionAt(m, c, r.va, r.len, r.type, r.param)

CopyStack(m, p, c, r) ==
  LET created == CreateRegionAt(m, c, r.va, r.len, r.type, r.param)
  IN  IF created.stop # RUNNING THEN created
      ELSE ForPages(LAMBDA s, page : CopyStackPage(s, p, c, page), created, r)

CopyRegion(m, p, c, r) ==
  CASE r.type \in {"ANON", "CORE"} -> CopyPrivate(m, c, r)
    [] r.type = "STACK" -> CopyStack(m, p, c, r)
    [] r.type = "IPC" -> CloneFifo(CloneRegion(m, c, p, r), r.param, c)
    [] OTHER -> m

Fork(m, p) ==
  LET c == m.npids + 1
  IN  FoldLeft(LAMBDA s, r : IF s.stop # RUNNING THEN s
                             ELSE UpdateSenders(CopyRegion(s, p, c, r), p, c),
               ForkedSpace(m), m.spaces[p])

-----------------------------------------------------------------------------
(* System calls of the current process p, which may be any.                *)

Runs(p) == /\ mem.stop = RUNNING /\ p <= mem.npids
           /\ \A q \in 1 .. MaxPid : Len(mem.spaces[q]) <= MaxRegions

Return(m) == mem' = Left(m)

Has(p, types) == \E i \in DOMAIN mem.spaces[p] : mem.spaces[p][i].type \in types

Segments == UNION {UNION {ToSet(segments) : segments \in ToSet(modules)} : modules \in BootModules}

ImageTop == Max({g.va + g.len : g \in Segments})

Private(m, p) == {r \in ToSet(m.spaces[p]) : r.type \in {"ANON", "CORE"}}

\* The mappings of p that are not part of its program.
Mappings(p) == {r \in Private(mem, p) : r.va >= ImageTop}

Bounded ==
  FoldSet(LAMBDA p, n : n + Cardinality(Mappings(p)), 0, PidsUpTo(mem))
    + Cardinality({x \in PidsUpTo(mem) \X (Top .. Top + StackPages - 1) :
                     mem.pt[x[1]][x[2]] # NONE}) < MaxPrivate

Touching(p) == \E r, s \in Private(mem, p) : r.va < s.va /\ s.va <= r.va + r.len

Full(p) == \A r \in ToSet(mem.spaces[p]) : r.type = "FREE" => r.len = 0

\* With mappings, or segments beyond the first, and FIFOs in one address space
\* the copies can collide.  What is left free between copies that touch, or
\* in a full space, is covered by the next copy.
MayFork(p) ==
  /\ "mmap and fork" \in Uses
       \/ ~(Has(p, {"IPC"}) /\ \E r \in Private(mem, p) : r.va # Low)
  /\ "fork touching regions" \in Uses \/ ~(Touching(p) \/ Full(p))

MayCreate == "create after close" \in Uses \/ mem.acl_free = <<>>

Readers(m, f) == PidsOf(m, f.recvlist)
Writers(m, f) == PidsOf(m, f.sendlist)

FromKernel(q) ==
  {f.id : f \in {g \in ToSet(mem.fifos) : Kernel \in Writers(mem, g) /\ q \in Readers(mem, g)}}

\* REQUEST_MMAP with MMAP_OP_ANON and with MMAP_OP_DIRECTED
MmapAnon(p) == \E len \in MmapSizes :
  /\ Runs(p) /\ Bounded
  /\ LET c == CreateRegion(mem, p, len, "ANON", 0)
     IN  Return(IF c.stop # RUNNING THEN c ELSE MapRegion(c, p, c.spaces[p][1]))

MmapDirected(p) == \E len \in MmapSizes :
  /\ Runs(p) /\ Bounded
  /\ LET c == CreateRegion(mem, p, len, "CORE", 0)
     IN  Return(IF c.stop # RUNNING THEN c ELSE MapDirected(c, p, c.spaces[p][1], Device))

\* FIFO_PIPE
Pipe(p) ==
  /\ Runs(p) /\ MayCreate /\ mem.next_fifo < MaxFifo
  /\ LET first == CreateFifo(mem, <<p>>, <<p>>)
     IN  Return(IF first.stop # RUNNING THEN first ELSE CreateFifo(first, <<p>>, <<p>>))

\* devnode_accept() and DEVNODE_OP_LINK_IRQ: only the kernel sends.
Accept(p) ==
  /\ Runs(p) /\ MayCreate /\ mem.next_fifo <= MaxFifo
  /\ Return(CreateFifo(mem, <<p>>, <<Kernel>>))

\* devnode_connect() to a device of process q: two FIFOs, and the kernel's
\* announcement in the accept FIFO, if the device has one that is open.  The
\* arrays with the two pids have no terminator.
Connect(p, q) == \E accept \in {0} \cup FromKernel(q), behind_q, behind_p \in Residues :
  /\ Runs(p) /\ MayCreate /\ mem.next_fifo < MaxFifo
  /\ q # p /\ q <= mem.npids
  /\ LET receivers == <<q>> \o behind_q
         senders == <<p>> \o behind_p
         first == CreateFifo(mem, receivers, senders)
         second == IF first.stop # RUNNING THEN first ELSE CreateFifo(first, senders, receivers)
     IN  Return(IF accept = 0 \/ second.stop # RUNNING THEN second
                ELSE WriteFifo(second, accept, p))

\* kfifo_write_fifo() by p, and by the kernel while p is current.
Write(p) == \E f \in ToSet(mem.fifos) :
  Runs(p) /\ p \in Writers(mem, f) /\ Return(WriteFifo(mem, f.id, p))

InterruptWrite(p) == \E f \in ToSet(mem.fifos) :
  Runs(p) /\ Kernel \in Writers(mem, f) /\ Return(WriteFifo(mem, f.id, p))

\* kfifo_read_fifo() only looks for the region, and hangs without one.
Read(p) == \E f \in ToSet(mem.fifos) :
  /\ Runs(p) /\ p \in Readers(mem, f)
  /\ Return(IF IpcRegion(mem, p, f.id) = 0 THEN Stop(mem, "receiver without region") ELSE mem)

\* The call tests neither that the FIFO exists nor that the caller is on one
\* of its lists; without "close unread" only receivers make it.
Close(p) == \E id \in 1 .. MaxFifo :
  /\ Runs(p) /\ Len(mem.acl_free) < MaxReturned
  /\ "close unread" \in Uses \/ \E f \in ToSet(mem.fifos) : f.id = id /\ p \in Readers(mem, f)
  /\ Return(CloseFifo(mem, id, p))

\* An access to a stack page that is not there yet.
Touch(p) == \E page \in Top .. Top + StackPages - 1 :
  /\ Runs(p) /\ Bounded /\ mem.pt[p][page] = NONE /\ Has(p, {"CORE"})
  /\ Return(PageFault(mem, p, page))

\* FORK
ForkCall(p) ==
  /\ Runs(p) /\ MayFork(p) /\ mem.npids < MaxPid
  /\ Return(Fork(mem, p))

Next == \E p \in 1 .. MaxPid :
  \/ MmapAnon(p) \/ MmapDirected(p)
  \/ Pipe(p) \/ Accept(p) \/ \E q \in 1 .. MaxPid : Connect(p, q)
  \/ Write(p) \/ InterruptWrite(p) \/ Read(p) \/ Close(p)
  \/ Touch(p) \/ ForkCall(p)

Spec == Init /\ [][Next]_mem

-----------------------------------------------------------------------------
(* Properties                                                              *)

\* The regions of an address space neither overlap nor leave gaps, whatever
\* is created, cloned into it, merged and forked (context.c:192-357).
SpacePartitioned ==
  \A p \in PidsUpTo(mem) :
    /\ UNION {Pages(r) : r \in ToSet(mem.spaces[p])} = Low .. Top + StackPages - 1
    /\ FoldLeft(LAMBDA n, r : n + r.len, 0, mem.spaces[p]) = Top + StackPages - Low

Mapped == {x \in PidsUpTo(mem) \X UserPages : mem.pt[x[1]][x[2]] # NONE}

Frames == {mem.pt[x[1]][x[2]] : x \in Mapped}

TableFrames == UNION {{mem.tables[p][t] : t \in DOMAIN mem.tables[p]} : p \in PidsUpTo(mem)}

RegionOf(p, a) == mem.spaces[p][DetermineRegion(mem.spaces[p], a)]

\* The same page of two regions of one FIFO.
SamePlace(p, a, q, b) ==
  LET r == RegionOf(p, a) s == RegionOf(q, b)
  IN  /\ a # Temp /\ b # Temp
      /\ r.type = "IPC" /\ s.type = "IPC" /\ r.param = s.param
      /\ a - r.va = b - s.va

\* Two pages are on one frame only if they are the same page of one FIFO's
\* ring, and the rings of all its receivers are on the same frames.
FramesPrivate ==
  /\ \A x, y \in {z \in Mapped : mem.pt[z[1]][z[2]] < Device} :
       x # y /\ mem.pt[x[1]][x[2]] = mem.pt[y[1]][y[2]] => SamePlace(x[1], x[2], y[1], y[2])
  /\ \A p, q \in PidsUpTo(mem) : \A r \in ToSet(mem.spaces[p]), s \in ToSet(mem.spaces[q]) :
       r.type = "IPC" /\ s.type = "IPC" /\ r.param = s.param =>
         \A i \in 0 .. r.len - 1 : mem.pt[p][r.va + i] = mem.pt[q][s.va + i]

\* What is mapped or is a page table is never free to be handed out again,
\* although pages are given back by address (context.c:287).
FramesTaken ==
  /\ \A f \in Frames \cup (TableFrames \ {NONE}) : f < Device => f \in mem.bitmap
  /\ Frames \cap TableFrames = {}

\* The processes on a FIFO's list of receivers are those with its region: a
\* writer finds one (kfifo.c:186), a reader its own (kfifo.c:300).
ReceiversHaveRegions ==
  \A p \in PidsUpTo(mem) :
    /\ \A f \in ToSet(mem.fifos) :
         Cardinality({i \in DOMAIN mem.spaces[p] :
                        mem.spaces[p][i].type = "IPC" /\ mem.spaces[p][i].param = f.id})
           = IF p \in Readers(mem, f) THEN 1 ELSE 0
    /\ \A r \in ToSet(mem.spaces[p]) : r.type = "IPC" => FifoAt(mem, r.param) # 0

Exhausted == {RUNNING, "no kernel page", "no frame", "no clear bit", "no room"}

\* Programs that keep to the uses of the calls that Uses leaves them bring the
\* kernel to a stop only by running out of kernel pages, of frames or of room in
\* their address space: no call walks off the end of a list of regions
\* (context.c:230), uses a FIFO, a region or a list cell that is not there
\* (kfifo.c:186, 300, 429-480), hangs on page 0, takes it for a page table,
\* or clears a bit of memory in use (context.c:287).  The last holds, and page
\* tables stay in the kernel's reach (paging.c:247), as long as memory is as
\* small as in the run.  Slabs are taken to work, which they do not after
\* returns (run slab_return).
StopsOnlyExhausted == mem.stop \in Exhausted

\* Every kernel page that is never freed goes with a frame that is not
\* either, or with a page of a device (paging.c:229, process.c:234).
LeakBounded ==
  mem.stop = RUNNING =>
    mem.kpages <= Cardinality(mem.bitmap) - KernelPages0
                  + Cardinality({x \in Mapped : mem.pt[x[1]][x[2]] >= Device})

\* A process that is forked may read and write exactly the FIFOs that its
\* parent may, and nobody else's rights change, whatever the lists look
\* like (kfifo.c:342-411 and the calls at process.c:242 and 247).
ForkGivesRights ==
  [][mem'.npids > mem.npids =>
       \E p \in PidsUpTo(mem) : \A f \in ToSet(mem.fifos), g \in ToSet(mem'.fifos) :
         f.id = g.id =>
           /\ Readers(mem', g) = Readers(mem, f)
                \cup (IF p \in Readers(mem, f) THEN {mem'.npids} ELSE {})
           /\ Writers(mem', g) = Writers(mem, f)
                \cup (IF p \in Writers(mem, f) THEN {mem'.npids} ELSE {})]_mem

Own(m, p) == {r \in ToSet(m.spaces[p]) : r.type \in {"CORE", "ANON", "STACK"}}

\* "Implements POSIX fork()" (process.c:181): the child has its parent's
\* program, mappings and stack where the parent has them, and what its
\* stack holds, and a region for every FIFO that the parent reads.
ForkCopiesMemory ==
  [][mem'.npids > mem.npids =>
       \E p \in PidsUpTo(mem) : LET c == mem'.npids IN
         /\ Own(mem', c) = Own(mem, p)
         /\ \A r \in Own(mem, p) : \A a \in Pages(r) :
              mem'.pt[c][a] = NONE <=> mem.pt[p][a] = NONE
         /\ \A f \in ToSet(mem.fifos) :
              IpcRegion(mem', c, f.id) = 0 <=> IpcRegion(mem, p, f.id) = 0]_mem

UsedRegions(m, p) == {r \in ToSet(m.spaces[p]) : r.type # "FREE"}

\* A write clones a region into the space it runs in and deletes it again:
\* it leaves everybody's regions, mappings and the kernel's pages as they were.
WriteLeavesNoTrace ==
  [][(\E p \in PidsUpTo(mem) : Write(p) \/ InterruptWrite(p)) /\ mem'.stop = RUNNING =>
       /\ mem'.kpages = mem.kpages /\ mem'.pt = mem.pt
       /\ \A p \in PidsUpTo(mem) : UsedRegions(mem', p) = UsedRegions(mem, p)]_mem
=============================================================================
