# A verification project for AkARiS

AkARiS is a small 32-bit x86 kernel (`src/sys`): a round-robin scheduler, byte
FIFOs between processes and from interrupts, kqueues to sleep on FIFOs, named
device nodes to find servers by, and a slab allocator and address spaces under
them. User programs (`src/sys/servers`) are a keyboard server and small tests.
This directory holds TLA+ modules translated from that code, TLC runs over
small instances of them, and TLAPS proofs for every instance.

## 1. The system

| Part | State it keeps | Operations | How it meets the others |
|---|---|---|---|
| Scheduler (`common/process.c`) | `context_list`, `cur_process`, `next_avail_pid`; per process `status`, `registers`, `kqueue_block` | `schedule`, `create_process`, `fork`, `get_process` | called by the timer interrupt and by `kqueue_block`; `kqueue_trigger_event` writes `status` behind its back |
| Interrupt dispatch (`i386/interrupt.c`) | `int_handler`, `int_to_pid`, `kernel_reenter` | `c_isr`, `link_irq`, `link_irq_to_fifo` | calls the handler, then writes a byte to the FIFO linked to the vector |
| System calls (`i386/syscall.c`) | none of its own | `syscall_handler` | one `switch` over everything below, results through a pointer into the caller |
| kfifos (`common/kfifo.c`) | `fifo_list`, `cur_fifo_id`; per FIFO ring, `start`, `end`, two access lists, `ke_list` | create, write, read, clone, update senders, close, add event | trigger and untrigger the events of kqueues; map regions into receivers |
| kqueues (`common/kqueue.c`) | `kqueue_list`, `next_kqueue_id`; per event `triggered` | create, event, block, poll, trigger, untrigger | block ends in `schedule`, trigger makes processes RUNNING |
| Device nodes (`common/device_interface.c`) | `devlist` with `pid`, `accept_fifo_id` | register, connect, accept | create FIFOs, announce connections through one |
| Slabs (`common/slab.c`) | per slab lists of pages, per page a free list | create, allocate, deallocate | every list cell of the parts above |
| Physical pages (`i386/physical_memory.c`) | a bitmap of pages in use, the number of free ones | allocate, deallocate | regions, page tables, slabs |
| Interrupt controllers (`i386/pic.c`) | vectors, masks, lines in service | set-up, end of interrupt | their vectors start the handlers of `c_isr`, which acknowledges |
| Entry code (`i386/asm_interrupts.s`) | the frame on the stack | entry stubs, the way out | builds the frame that `schedule` copies and replaces |
| Address spaces (`i386/context.c`, `i386/paging.c`) | region lists, page tables, taken kernel virtual pages | create, clone, delete, map regions; page faults | FIFO rings are regions cloned into writers |
| Text screen (`i386/bootvideo.c`) | cells, cursor | put, scroll, print; string functions | kernel messages, `KDEBUG`, names of devices |
| Servers (`servers/`) | their own loops | keyboard server, test client, library stubs | system calls only |

What is hard about it. There is one CPU, and every vector is an interrupt gate
(`i386/interrupt.c:60`), so a handler runs to its `iret` undisturbed - except
for the idle loop inside `schedule()` (`common/process.c:155-165`), which lets
interrupts in while a `kqueue_block()` is half done. Everything asynchronous
goes through that hole: a wake-up may come before the block, in the idle loop,
or from another process; the frame `c_isr()` holds a pointer to may belong to
another process when the handler returns; pointers into the caller's memory
outlive the caller's address space. Beyond it there are the ring arithmetic of
kfifos, the two linked lists that every event is on, and the reuse of list
cells.

What makes each part correct:

- scheduler: the CPU is the current process's, it idles only when nobody can
  run, contexts are not mixed up, nobody who can run starves;
- kfifos: a bounded first-in first-out queue, whole writes and whole reads;
- kqueues: no lost and no spurious wake-up, a sleeper whose FIFO is written
  runs;
- device nodes: a connection gives each side one end of two FIFOs and the
  server hears of it;
- slabs and pages: nothing is given out twice, nothing free is lost;
- regions: disjoint, without gaps, and a FIFO's ring mapped where it is read; a
  fork is a copy;
- interrupts: whatever comes in, the frame is whole, the controllers are not
  left waiting, and the clock goes on;
- the keyboard's server: no key is stuck, and its client hears of them;
- the screen: it shows what was printed, as it was meant.

## 2. The modules

```
              CpuSharing (abstract)            ByteQueue (abstract)      Pool (abstract)
                    ^ refines                       ^ refines               ^ refines
RoundRobin ---- Sched ------------.  KfifoIndices - KfifoRing             Slab
                 |    ^ refines   |       |
                 |    |           |       |         PageFrames - Paging - AddressSpaces
   Pic -- InterruptPath          KernelIpc                                    |
                                  |                                     AccessLists
                              KbdServer                                       |
                                                                          Processes
   Bootvideo -- KernelText -- DeviceNames
```

Three families meet in the scheduler. `InterruptPath` is below it: what the
controllers, the entry code and the copies of register frames do is shown to
give what `Sched` assumes. `KernelIpc` is above it, and `KbdServer` above
`KernelIpc`. The memory family (`PageFrames` to `Processes`) runs calls to their
end, with any process as the current one; the text family has no state in common
with the others.

**RoundRobin** - the order of the walk over `context_list`. Processes are
appended in the order of their pids and never removed, so the list is
`1..n`; `Following` is the first process the walk of `schedule()` stops at,
`FirstFrom` the same after an idle loop, which first tests the process it
halted at.

**Sched** - the scheduler. `mode` says where the CPU is between two steps: in a
user program, at `hlt`, or between `hlt` and `cli`. `registers[p]` is the saved
frame, reduced to whose program it continues and its `int_no`; `live` is whose
program the CPU's registers continue; `cr3` whose address space is loaded.
Actions: `Tick` (timer), `Block` (the end of `kqueue_block`), `Serve` (any other
call or interrupt), `Fork`, `Interrupt` (of the idle loop) and `Cli` (the idle
loop goes on). Each takes the set `W` of processes that the handler wakes; in
this module it is any set of sleepers.

**CpuSharing** - what the scheduler promises: a ready set, a process with the
CPU, an idle flag; processes leave the ready set by their own doing only, the
CPU rests only when the set is empty, and whoever is ready is served.

**Pic** and **InterruptPath** - an interrupt's way. `Pic` is the two 8259 chips,
external, with everything the kernel writes to their ports: `PicRemapIRQs` is
the ten writes of `picRemapIRQs`, `Acknowledge` the end of `c_isr`. In
`InterruptPath` a word on the stack is the pair of whose program it belongs to
and the register it belongs in; `Stub` is what a vector's entry stub pushes,
`Interrupted` what the processor pushed before it, `Entry` the whole stack as
`c_isr` finds it, `Return` the pops and the `iret`, and `CopyOut` and `CopyIn` the
two `memcpy` of `schedule`. `cpu` and `frames` are the registers of the processor
and the saved frames, word by word. Each action of the path is an action of
`Sched` with the chips and the frames beside it: `TakeInterrupt` for what the
controllers answer, `TakeSpurious` when they have nothing to answer with,
`TakeException`, `CallReturns`, `CallBlocks` and `CallForks` for what programs
cause, `LeaveIdleLoop`; `Request` is a device, and no step of `Sched`.

**KfifoIndices** and **KfifoRing** - the two indices, the error tests and the
two-part copies of `kfifo_write_fifo` and `kfifo_read_fifo`, for one FIFO whose
access lists allow the calls. `lens` are the lengths its callers pass: one
record length, or several mixed. **ByteQueue** is the bounded queue of bytes
that it implements for records of one length dividing the ring.

**KernelIpc** - system calls and interrupts with FIFOs, kqueues, device nodes
and linked vectors. Each action is a step of `Sched` together with what the
handler does to the IPC state, so `W` is now decided by the kqueues. The
correspondence: `start`, `end`, `sender`, `receiver` are the fields of
`kfifo_t`; `kevents` and `triggered` those of `kevent_t`, `kq_pid` is
`kqueue_t.pid`, `kqueue_block` the field of `context_t`, `int_to_pid` and
`devlist` the globals. `ke_list` and `event_list` are not kept: both are built
by pushing in front, so their order is that of the event ids, newest first.

**KbdServer** - the two programs that are built with the kernel, as processes of
`KernelIpc`, call by call: `prog[p]` is the next call of process `p` and its
variables, `port` whether the keyboard holds a scancode. A call the kernel
refuses moves the program on and nothing else, as neither program looks at the
result. `announced` is what the accept FIFO holds, which `KernelIpc` has as two
indices only.

**PageFrames**, **Paging**, **AddressSpaces**, **AccessLists** - the functions of
`physical_memory.c`, `paging.c`, `context.c` and the access lists of `kfifo.c` as
operators on one record `m`, composed the way the C functions call each other,
with a result in `m.ret`. `m.stop` says why the kernel cannot go on, once it
cannot: it hangs, it uses a null pointer, it writes into other memory, or memory has run out. **Processes** is
the state machine over them: `Init` is the boot up to the loaded modules, each
action a system call, a page fault or a write by an interrupt, by any process.
Correspondence: `m.bitmap`, `m.free`, `m.total` are `domains[0]`; `m.kpages` counts
the taken entries of `kernel_page_tables`; `m.tables` and `m.pt` are page
directories and page tables; `m.spaces[p]` is the region list in list order;
`m.fifos` is `fifo_list`, `m.acl` the cells of `acl_slab` with their `next`, and
`m.acl_free` those given back.

**Bootvideo**, **DeviceNames**, **KernelText** - the text screen with its numerals
and formats, also those of the programs' library; devices found by name with the
kernel's own `strncmp`, `strlen` and `memcpy`, on bytes. `text` is all that was
ever printed, which the screen is compared with. `printf` takes its arguments
from the stack as the format tells it, so `MessagesAssumption` says that the
messages fit their formats (`Fits`): where a conversion stands, `Kind` says what
its argument is. `Char` is the set of characters and `IntValues` how many values
an int has.

**Slab** - one slab. A page is `next`, `first_free` and `num_free` (the fields of
`sbuf_t`), and `link`, the first words of its cells; `empty`, `partial` and
`full` are the heads of the lists in `slab_entry_t`. `Allocate` is
`allocate_from_slab` with both of its searches, which look at the successor of
the head only, because the loops do not advance `temp`. They read
`((sbuf_t *) 0)->next` if the list is empty: address 8, whose word (`low`) is
zero or some other value that is no page. `running` says whether the kernel
got out of those loops, or the slab handed out the memory in front of the
first cell. `Deallocate` is `deallocate_from_slab`; callers return what they
hold, and some slabs' callers only take (`growing`). `holders` counts who holds an
object, so that handing one out twice shows. **Pool** is what a slab is for: an
object has one holder at a time.

**InterruptPathProofs** (with those of `Sched`), **KbdServerProofs** (with those of
`KernelIpc`), **KfifoRingProofs**, **KernelTextProofs**, **SlabProofs**,
**AddressSpacesProofs** and, on top of it, **ProcessesProofs** - the theorems.
**Recursion** - lemmas about functions defined by recursion on a number and about
folds over sequences, for any step (section 4). **MCSched**, **MCInterruptPath**, **MCKfifoRing**, **MCKernelIpc**,
**MCKbdServer**, **MCProcesses**, **MCKernelText**, **MCSlab** - what TLC checks.

Definitions marked "slip" (`AcknowledgeMaster`, `AdvancePast`, `TriggerSilently`
and so on) are not part of any specification. They are the same operator with a
plausible mistake, and put in its place each of them makes the property it is
meant for fail; they show that the properties can see the mistakes.

### Abstractions

- One processor. The `test_and_set` locks are taken and released within one
  handler, so nobody ever finds one taken; they are left out. So is the lock of
  `set_page_status`, whose loop ends in its second round.
- A handler is one step. A call that fails changes nothing and is a stuttering
  step (in `KfifoRing`, where results matter, it is a step that sets `err`, and in
  `KbdServer` the program moves on).
- Bytes exist in `KfifoRing` only; in `KernelIpc` a FIFO is its two indices.
- Processes do not fork in `KernelIpc` (they do in `Sched` and `Processes`);
  access lists hold one pid each there, as every caller creates them. The arrays that `devnode_connect` passes have no
  terminator; what stands behind them is the constant `Residues` of `Processes`.
- `kfifo_close_fifo` tests neither that the FIFO exists nor that the caller is on
  one of its lists (`common/kfifo.c:429-434` and `:480`). `AccessLists!CloseFifo` has
  all of it: with an unknown id the kernel goes on with a null FIFO, and after a
  close by a stranger or a mere sender it returns a null cell. Both stop the model. In the
  run `processes` and in `KernelIpc` only who receives from a FIFO closes it.
- `Kernel` stands for `kfifo_kernel_pid`.
- Events are for existing FIFOs or for ids that do not exist yet; the
  `KEVENT_PROC` filter, which has no hook, is not used.
- `while (1)` on `ebp == 0` in `kqueue_block` is a debugging aid and left out.
- Vector `0x80` is not linked to a FIFO.
- What an uninitialised word holds is chosen freely: `int_no` of a context not
  yet saved (`FreshVectors`), `accept_fifo_id` before `devnode_accept`
  (`FreshWords`), a device node before its name is copied into it (`Junk`), the
  bits of the page bitmap that the boot loader's map does not cover.
- In `KernelIpc` memory is left out: a FIFO's region exists as long as the FIFO does.
- In `InterruptPath` values are left out, and the words of a frame say where
  they came from: a register that a program changes between two entries is still
  its own. `fork` gives the child a copy of the words, which are the child's from
  then on. Exceptions that make the kernel hang, and software interrupts other
  than `0x80`, are not taken. Segment descriptors are not modelled.
- In the memory family memory is zero when the machine starts, so a new page
  table maps nothing. A segment of a program is given with its pages. `va`, `len` and
  `Low`, `Top` count pages. `create_region` with an address skips the region
  behind one that it has deleted, and the model does the same; the `sharedmem_next`
  of a region split in two is not set, which matters only for a shared region
  that something is created inside of.
- `delete_region` and `deallocate_page`: a page number is expected and an address
  given. `PageSize > Limit`, and `MemoryMapsAssumption` for the last word of the
  bitmap, make sure that an address is no page's number, but for page 0's, so pages of regions never come back, as in the code. Page 0 does:
  `Frame` hands it out like any other page, as its callers use it. The bit that is
  cleared lies 512 bytes further behind the bitmap for each page (`BitAt`): for
  page `f` it is the lowest bit of a word of page 512 + `f` / 8, a page table's, a slab's or a
  ring's, if it is used. The model has the clearing of a bit in an unused page,
  which is zero and stays it, and stops with "other memory written" where the
  page is used or not the kernel's to see. The allocator hands out pages from
  514 on, so the code meets the latter as soon as some 576 pages are taken and a
  region that nobody shares is deleted; what breaks then depends on who
  has the page.
- `execve_elf` runs at boot only, before there are regions to replace; nothing
  calls `expand_region`, `free_kernel_physical_page` and `context_print_mmap`.
- Until the first `schedule()`, process 1 runs in the address space of the module
  loaded last (`i386/cmain.c:48`): `Sched` has the wrong `cr3`, but `KbdServer` lets
  the server run its own program at once. In the code it executes the other program's
  text, as the server, up to the first tick, and its own from there on, wherever it has got to by then.
- In `KbdServer` the result of `kqueue_block`, which lands in another process
  (run `block_result`), is left out, and so are prints and the client's mapping
  of the screen, which no other call depends on.

## 3. The runs

| Run | Question | Result |
|---|---|---|
| `sched` | the CPU is the current process's and halts only when nobody can run; contexts stay their owners', and every word of a frame; no controller is left with an interrupt in service; `CpuSharing` is implemented, and the controllers give the clock that `Sched` assumes | pass |
| `block_result` | the result of `kqueue_block` reaches its caller | violated |
| `kfifo` | indices in the ring; a write disturbs no unread byte, whatever mix of lengths is used; in records of one length: implements `ByteQueue` with its results | pass |
| `kfifo_overrun` | reads answered as they deserve with mixed lengths | violated |
| `ipc_irq` | no lost wake-up, no spurious one, every arrival reaches who waits | pass |
| `ipc_live` | `KernelIpc` implements `Sched` with its fairness; a sleeper whose FIFO is written, by the timer's vector or otherwise, is not left asleep and gets the CPU | pass |
| `kbd` | no key gets stuck in the port, the server sleeps only with the port empty, the first client is served and told of its keys | pass |
| `processes` | regions partition the address spaces; frames are shared only as rings and never free while in use; lists and regions agree; a fork copies memory and rights; writes leave no trace; leaks are bounded; the kernel stops for want of frames, kernel pages or room, never on a region, a list cell or a FIFO that is not there | pass |
| `fork_touching` | regions partition the address spaces, also of a child whose program's segments touch | violated |
| `text` | the screen is the end of what was printed; numerals denote; strings arrive as they are; names find their own device only | pass |
| `slab` | the free lists are the cells nobody holds, in whatever order they come back; implements `Pool`; a slab that only grows keeps working and takes a page only when the others are full | pass |
| `slab_return` | a slab keeps working when objects come back | violated |

### Bounds

- `sched`: three pids, of which one to three exist at boot; with three the walk
  can pass over a sleeper and come to a process that was forked meanwhile. The
  timer, the keyboard's line and a line of the slave; vectors 39 and 47 for
  spurious interrupts; exceptions 0 and 14, of which one has an error code. The
  controllers start with and without masked lines, and with one in service, as
  a BIOS may leave them.
- `block_result`: four pids of which one to four exist at boot.
- `kfifo`: six bytes, and callers that keep to records of two or use lengths 1,
  4 and 6 as they like. Records of two divide the ring, of which two fit into
  the five usable bytes; 1 and 4 make both parts of the copies occur in every
  split, an index meets the ring's end exactly and by passing it, 4 and 1 fill
  the ring to its last usable byte, and 6 is always refused.
- `ipc_irq`: two processes, two FIFOs of two bytes, two kqueues, two events, the
  keyboard's vector. Two events are needed for an event
  behind the head of a list, two kqueues for a sleeper on the wrong one, one
  usable byte for a full FIFO. A FIFO may be closed while events and the vector
  name it, with the other FIFO made before or after.
- `ipc_live`: one kqueue and one event, FIFOs linked to the timer only; liveness over
  larger bounds is the same question and the state graph much larger.
- `kbd`: the server and one client, six FIFOs of four bytes, a kqueue each.
  Three bytes of room and announcements of one make the interrupt's FIFO fill
  and refuse, as it does after 4095 keys.
- `processes`: three processes, so that a forked one forks; three FIFOs, twenty
  frames, of which a program leaves few enough that memory runs out in reach, behind a
  kernel and a bitmap that take the first fifty pages; 24 kernel pages; one page table for the user's part; a stack of one page, in
  which the first touch faults. Two programs, or one whose segments share a
  page or leave a gap. `MaxPrivate`, `MaxReturned` and `MaxRegions` bound mappings, returned cells
  and regions, which grow without end otherwise. The constant `Uses` is empty in
  this run, which leaves out four uses of the calls that the code does not
  survive: forking with regions that touch, or with no page of the address space
  free (run `fork_touching` allows it), forking with FIFOs and mappings, or segments
  beyond the first, of which the copies collide,
  closing a FIFO that one does not receive from, or that does not exist, which goes
  on with null pointers, and
  creating FIFOs out of the cells of closed ones, whose lists then continue in
  other lists. `Residues` is the empty residue: the word behind the one pid in
  the arrays of `devnode_connect` is zero; with any other word
  (`MCStaleResidues`) `ReceiversHaveRegions` fails at once. Memory is so small that
  no page outside the first 4 MB is handed out (`Identity`), and that the bits which
  `deallocate_page` clears by mistake lie in pages that are not used: `StopsOnlyExhausted`
  says nothing of machines whose programs use more than that, on which the code
  does go wrong in both ways (`i386/paging.c:247`, `i386/context.c:287`). Nor does it of
  slabs, which the memory family takes to work: the cells of regions, access lists and
  FIFOs do come back, and what that does to a slab is the run `slab_return`.
- `text`: a screen of two by two, all texts of up to three characters, all ints of five
  bits (`IntValues` is 32) in all formats. A screen so small scrolls and wraps in every combination.
  Names of up to three characters over two letters, in fields of two, with numbers
  behind them that look like letters or terminators. The two halves share no
  state, so `MaxBoth` lets only one of them be in use at a time.
- `slab`, `slab_return`: two pages of three cells. With three a page is empty,
  partly used by one, by two, and full, so it passes all lists; two pages put
  one behind the other on a list. Callers give back in any order, or never
  (`growing`). The run stops at the bound on pages, or when the kernel hangs.

Ids are never reused by the code, so the bounds on ids bound the number of
creations; everything else in the state graphs is unbounded in time. Deadlock
is checked but in `processes`, `fork_touching`, `text` and the slab's runs, which
end at their bounds, or because the kernel stops.

### Fairness

`SchedFairness` says that the timer interrupt keeps coming (in a process or in
the idle loop) and that the CPU goes on from `hlt` to `cli` when an interrupt
has ended the `hlt`. `PathFairness` says less: that the timer chip pulls its line
again and again, that the processor takes an interrupt that the controllers
assert, and that `cli` follows `hlt`. `ClockDrivesScheduler` shows that the
first follows from the second: line 0 has the highest priority and nothing is
left in service, so its request always gets through. The timer chip is not
stopped by anything in the kernel, and interrupts are on in every program
(`eflags` is `0x200`, `common/process.c:108`). `KbdFairness` adds that a
program which gets the CPU again and again makes its next call: strong fairness,
as its time slices are interrupted; and no key is ever required to be pressed.
In `KernelIpc` no process is assumed to do anything: `DataWakesSleeper` says
that who sleeps runs *if* its FIFO is written.

### What the violated runs show

- `block_result` (`i386/syscall.c:109`): the result of `kqueue_block()` is
  stored through the caller's pointer after `schedule()` loaded another address
  space, so the caller reads a word nobody wrote (`servers/libak/syscall.c:113`)
  and another process's memory is written instead.
- `kfifo_overrun` (`common/kfifo.c:283`): `end - start` is the unused part of
  the ring. With records of one length that divides the ring the unused part
  is at least one record long exactly when the used part is, so the test comes
  out right; `RecordQueue` shows that this use is safe. Mixed lengths are not.
- `fork_touching` (`i386/context.c:230`): a region that a new one covers exactly is
  marked free by `delete_region`, but stays in the list, under the new one. A child
  starts with one free region, out of which `fork` cuts its parent's: of two that
  touch at the start or the end of that space, once the inner one is cut out, the
  outer one is all that is left there. The child of any program with text and data, as
  `servers/linker.ld` lays them out, so has a free region over its own text, and its
  next mapping may get that. The pages of the free region, which are none, are
  given back, each of them as page 0, and the child's text is copied to page 0.
  The same happens to the region of a FIFO when its owner has an older mapping
  (`common/process.c:241`): the list has the newest region first, so the FIFO's is
  cloned first, to where the mapping goes, and the mapping's creation then deletes
  the clone. The child stays on the list of receivers without a region and its
  first read runs off the list: `ForkCopiesMemory` fails under
  `Uses = {"mmap and fork"}` with mappings of two pages.
- `slab_return` (`common/slab.c:132`): take an object, give it back, take it
  again. The page stayed on the partial list (its predecessor there is looked
  for, and it has none), but the allocation counts it as coming from the list
  of empty pages, looks for it there, and reads through a null pointer in a
  loop that does not advance.

The slabs of contexts, address spaces, kqueues and device nodes only grow;
`GrowsSafely` and `NewPageOnlyWhenFull` show that they are not affected. Those
of regions, FIFOs, access lists and events are. Of those it is also true that a
cell given back to a page on the full list (`common/slab.c:167-177`) is free but
never found again, so that `NewPageOnlyWhenFull` is claimed for growing slabs
only.

Three more things that the modules do as the code does, and that no run claims
otherwise: a poll clears the mark of an event whose FIFO still has bytes
(`common/kqueue.c:241`); a read untriggers events of the reader's kqueue where it
means the FIFO's (`common/kfifo.c:328`); the byte of a timer interrupt goes
where the vector in the next process's frame says (`i386/interrupt.c:36`).

## 4. The proofs

For every `N`, every set of vectors, every ring size of at least two bytes,
every bound on the ids, every size of screen, every int of at most ten digits,
all names, all messages that fit their formats, all address spaces, and every
program whose segments the loader finds in order (assumptions `NAssumption`,
`VectorAssumption`, `PathAssumption`, `SizeAssumption`, `LensAssumption`,
`IpcAssumption`, `SlabAssumption`, `ScreenAssumption`, `IntAssumption`,
`CharAssumption`, `MessagesAssumption`, `NamesAssumption`, `ProgramAssumption`,
`FramesAssumption`, `AddressSpacesAssumption`, `ProcessesAssumption`,
`BootModulesAssumption`):

- `InterruptPathProofs!SchedulerInvariant`, and from it `CpuIsCurrents`,
  `NoSleepWithWork`, `OwnContexts`. The inductive invariant `SchedInv` is the
  conjunction of `SchedTypeOK` and the three invariants of the run: `Tick` and
  `Block` save the running process's own frame because the registers are its own,
  and load an own frame because all saved ones are; after a wake-up in the idle
  loop `Cli` finds whoever is runnable. There is one lemma per action.
- `SharesTheCpu`: every step of `Sched` is a step of `CpuSharing` or a stutter.
  `Tick` is `Run`, `Block` is `GiveUp` or `Rest`, `Cli` is `Run` or a stutter,
  everything else is `Admit`.
- `InterruptPathProofs!PathIsSchedulers`: every behaviour of the interrupt path
  is one of `Sched`, so all of the above holds with the controllers below.
- `NothingIsHeldBack`, for every set of lines and exceptions: between handlers
  no controller has anything in service. The inductive invariant `PicsIdle` adds
  how the chips are set up (`Programmed`), which `RemappedIdle` derives from the
  ten writes of `picRemapIRQs` whatever the BIOS left. A handler starts with at
  most one line of the master in service, and one of the slave only if the vector
  is 40 or more (`Busy`; lemmas `AcceptedBusy`, `SpuriousBusy`), and its end of
  interrupt clears both (`AcknowledgedIdle`). The frame it goes by may be
  another process's only after the timer's vector 32, which is the master's
  alone; and a timer interrupt of a process never ends in the idle loop, where
  no end of interrupt would follow (`TickGoesOn`, which needs `SchedInv`).
- `FramesStayWhole`: every register of every saved frame comes back in the
  register it was taken from, and the processor's registers are all those of the
  program that `Sched` says is live. `PathWhole`, which is inductive beside
  `SchedInv`, says no more than the invariant; what takes the work is what the
  entry code leaves on the stack (`EntryOf`). Each stub and the common entry push the words in an order that, read as a
  `regs_t`, names each by where it came from, with an error code or a zero in its
  place; `Return` undoes it, for every vector with or without an error code.
- `KbdServerProofs!IpcInvariant`, and from it `IpcTypes` and `WakeupsAreKept`
  (no lost wake-up). `NoLostWakeup` is not inductive: `kqueue_trigger_event`
  looks up the *owner* of the event's kqueue and compares the kqueue it sleeps
  on, so the invariant `Quiet` must add that whoever sleeps sleeps on a kqueue
  of its own; and `create_kqueue` keeps that only because the next id belongs
  to nobody yet (`KqueuesOK`). A wake-up that comes by way of another process's
  frame needs no case of its own: `SendByteAfterSwitchQuiet` holds for whatever
  vector the frame names.
- `NobodyIsWokenInVain` and `ArrivalsReachWaiters`, for each step from `IpcInv`:
  what a write or an interrupt makes of the state is `Delivered`, that is, FIFOs
  that get bytes have their READABLE events marked, and whoever is woken has
  such an event (`SentDelivers`). That a hooked event is one of the kqueue's is
  part of `KqueuesOK`; that nobody stays asleep is `Quiet` of the next state.
- `KernelSharesTheCpu`: every behaviour of `KernelIpc` is one of `Sched`, so what
  is proved of the scheduler holds for the kernel with its FIFOs and kqueues.
- `KbdServerProofs!EveryKeyIsAccounted` and `NeverSleepsOnAKey`: while the
  keyboard holds a scancode, and so raises no interrupt, its byte is in the
  interrupt's FIFO or the server is about to read the port, and the server does
  not sleep. The inductive invariant `KbdInv` (theorem `KbdInvariant`) ties the
  server's place in its loop to its FIFO, event and kqueue: they exist and
  are its own from the call on that makes them (`Linked`, `Waits`), and while it
  serves, its only event watches that FIFO and is marked whenever the server is
  about to block or to poll and the port is taken or the FIFO full (`Attends`,
  `Signals`). It stands on `IpcInv` and needs every action of the kernel, by
  whichever process.
- `KfifoRingProofs!IndicesStayInRing` and `WritesAppend`, for every mix of lengths:
  counted from the reader's index, the bytes up to `Used` lie behind all that a
  write that fits can reach (`OffsetOfUnread`), and those after it are the data
  (`OffsetOfNew`).
- `RecordsAreQueued`: if `Record` divides `Size`, every step is one of `ByteQueue`.
  Both indices are whole multiples of `Record` (`RecordInv`), and of two such
  numbers the smaller is at least a record smaller (`WholeGap`); so the test
  against the unused part of the ring and the one against `Size - 1` come out
  as those of the queue (`RecordErrors`).
- `SlabProofs!SlabTypes`: the number of free cells of a page is its `num_free`
  (`Counted`), which is why it stays between none and all.
- `SlabsArePools`, for every number and size of pages
  (`SlabAssumption`): a slab implements `Pool`. The free list is described
  without following it, which would take an induction over its length: the head
  is free or the end, a free cell continues at a free cell or ends the list, no
  two free cells continue at the same one, and none at the head (`Threaded`).
  The lists of pages play no part: whichever page an allocation ends up at, and
  even if pages are lost, no cell has two holders.
- `FreeListsStayExact`: the free list of each page reaches every free cell, once.
  `Threaded` does not exclude a circle, so the inductive invariant `ListInv` adds
  that a sequence of `num_free` cells begins at the head, follows the links and
  holds each free cell once (`Follows`): taking a cell drops the sequence's head,
  giving one back adds to it. That following the links gives that sequence is an
  induction along it.
- `GrowingKeepsRunning` and `GrowingWastesNothing`: without returns the whole
  state is given by the number of pages and how far the last one is used
  (`GrowingInv`), so the loops are never entered.
- `KernelTextProofs!ScreenKeepsText`: the screen shows the last lines of all that
  was ever printed. The inductive invariant `ScreenWhole` compares the cells with
  the lines by row and column, which hides the addressing, and by the first line
  shown; a character appends to the last line or begins one (`LineStepGrows`), is
  put in the cell that belongs to it (`PutShows`), and scrolling moves the first
  line by one (`ScrollShows`). What is printed is a fold over characters, so a
  message is shown if every character is (`PrintShows`).
- `NumbersStayTrue`: `itoa` for every base and int. By induction over its rounds
  the digits, turned round, are a numeral (`IsNumeral`): they evaluate to the
  number and have no leading zero; ten rounds are enough for ten decimal
  digits (`TenRounds`), which with the sign is within `printf`'s 20 bytes.
- `PutsStayVerbatim`: the string that a program prints is not taken for a format
  (`OneConversion`) and not for a null pointer (`StringVerbatim`).
- `NamesFindTheirDevices`: `strncmp` over what `strlen` and `memcpy` left in a
  node finds exactly the node of that name, whatever was in the memory before
  (`SameName`; the inductive invariant is `DevnodesOK`).

- `ProcessesProofs!SpacesPartitioned`, for any number of processes and FIFOs, address
  spaces of any size and lists of any length, as long as forks of colliding
  regions are not among the `Uses` (where the run `fork_touching` shows what
  becomes of them): the regions of each address space are neither on top of each
  other nor leave gaps. What the run checks are two sums over pages. What is
  inductive, while the kernel runs, is that each list is `Tidy`: regions that have
  pages lie off each other, each in its place, and every page below the stack lies
  on one; and that it holds the stack (`HasStack`). A process not yet created has an
  empty list (`Partitioned`). From that the sums follow by an
  induction over the list (`TidyPartitions`). Regions come
  from a free one that is long enough (`CreateRegionTakes`, `CloneRegionTakes`) and
  go back by becoming free and merging with free neighbours (`DeleteRegionMerges`).
  `create_region` with an address is the hard one: it walks over a list that its own
  rounds shorten and lengthen. In the uses that are left it is called with
  pages that lie on the one free region (`Loaded` at boot, `Forkable` in a fork), so
  each round either cuts that region or passes by one it has nothing to do with
  (`CreateRegionAtMakes`), and it never comes to a region that it deletes. For a
  fork the list of the child is described round by round (`ForkList`): the
  regions copied so far, and between them what is left of the free region, of
  which the parent's next region still lies in one (`Gap`, `Unforked`). Everything
  else that a call does to
  frames, page tables and access lists leaves the region lists alone (`Quiet`), fold
  by fold.

Folds and recursive functions are `CHOOSE` expressions to the prover, and the
library's theorems about them take an operator as a parameter. `Recursion` gets
by without: its constants are `Step`, the step of the recursion, and `Keeps`, what is
to hold after each, so that each proof that needs one makes an instance of the
module with the step it has (`Mapping == INSTANCE Recursion WITH Step <- MappingStep,
Keeps <- QuietKept`), and the instance's lemmas say that the fold exists, what its
steps are (`FoldSteps`, `IterSteps`) and that `Keeps` holds of its result if every step
keeps it (`IterKeeps`). Its induction (`UpTo`) is about sets of numbers, and is
derived from the well-foundedness of `<`.

Only model-checked: everything under fairness (`CpuFairness`,
`ClockDrivesScheduler`, `SchedulesFairly`, `DataWakesSleeper`, and the three
liveness properties of `KbdServer`), which is beyond the prover; and of `Processes`
what is about frames (`FramesPrivate`, `FramesTaken`, `LeakBounded`,
`WriteLeavesNoTrace`) and what is about the
access lists (`ReceiversHaveRegions`, `StopsOnlyExhausted`, `ForkGivesRights`,
`ForkCopiesMemory`). The first need, on top of `Partitioned`, which
frame each page of each region has, through every fold over pages; the second
that the chains of cells neither meet nor end in a freed one, which is an
induction over the data they are made of.

## 5. Not modelled

`i386/gdt.c`, `cpuid.c`, `asmutil.s`: tables written once and single
instructions. One thing about the first: `gdt.h` declares `stack` as a pointer,
while in `start.s` it is the memory of the stack, so `esp0` is built from the
word at the stack's low end, which is zero (`gdt.c:16` and `:39`); interrupts
use a stack in the reserved low memory instead of the one meant.
`include/elf.h`: third-party declarations. `x86_64/`: copies of i386 files that
no kernel is built from. `test1.c`, `test2.c`, `console.c`, `mailbox.h`: obsolete
or empty. On a machine with several processors the locks of
`kfifo_write_fifo` and `kqueue_event` would be taken in different orders; the
kernel starts only one, so no run can show it.

What else is left out of parts that are modelled: several senders and receivers of one FIFO
together with kqueues; what a program finds in page 0 when memory has run out;
lists that run into each other after a close.

## 6. What could come next

1. The access lists of `AccessLists` and the events of `KernelIpc` together: a
   FIFO with several receivers, one of whom closes it under the others.
2. On top of `SpacesPartitioned`, the proofs of what `Processes` says of frames, and
   of the chains of access list cells.
