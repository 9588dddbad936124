------------------------------- MODULE Sched -------------------------------
(***************************************************************************)
(* The process scheduler: schedule(), fork()'s new list entry, the timer   *)
(* interrupt, the sleep and wake-up of processes, and the interrupt frames *)
(* they pass around (common/process.c, i386/interrupt.c, i386/cmain.c).    *)
(*                                                                         *)
(* Every vector is an interrupt gate, so a handler runs with interrupts    *)
(* off and is one step, from its entry to its iret.  The exception is the  *)
(* idle loop inside schedule(): `sti; hlt' lets interrupts in, and they    *)
(* are let in until `cli'.                                                 *)
(***************************************************************************)
EXTENDS RoundRobin

CONSTANTS
  Timer,        \* vector 32, the one hardware interrupt that reschedules
  Syscall,      \* vector 0x80
  Devices,      \* the other hardware interrupt vectors
  FreshVectors  \* what int_no of a context_t may hold that nobody wrote yet

ASSUME VectorAssumption ==
  /\ Timer # Syscall
  /\ {Timer, Syscall} \cap Devices = {}
  /\ FreshVectors \subseteq Devices \cup {Timer, Syscall}

Vectors == Devices \cup {Timer, Syscall}

\* PROCESS_STATUS_*; "NONE" is a pid not handed out yet.
RUNNING == "RUNNING"
WAITING == "WAITING"
NONE == "NONE"

\* What the CPU is doing between two handlers.  kernel_reenter is set in
\* the last two: halted by `sti; hlt', and between `hlt' and `cli'.
USER == "user"
HLT == "hlt"
STI == "sti"

\* The owner of a register frame that belongs to no process.
Kernel == 0

VARIABLES
  next_avail_pid,
  status,       \* context_t.status
  cur_process,
  mode,
  registers,    \* context_t.registers: whose program it continues, int_no
  live,         \* whose program the CPU's registers continue
  cr3,          \* whose address space is loaded
  dispatched    \* schedule() has loaded a context at least once

schedVars ==
  <<next_avail_pid, status, cur_process, mode, registers, live, cr3, dispatched>>

Frame(p, v) == [owner |-> p, int_no |-> v]

Runnable(st) == {p \in Pids : st[p] = RUNNING}
Waiting(st) == {p \in Pids : st[p] = WAITING}

Wake(st, W) == [p \in Pids |-> IF p \in W THEN RUNNING ELSE st[p]]

-----------------------------------------------------------------------------
\* cmain() has loaded one process per module and starts the first of them.
\* create_process() left the address space of the last one in cr3, and
\* begin_schedule() loads registers but no address space.
SchedInit ==
  /\ next_avail_pid \in 2 .. N + 1
  /\ status = [p \in Pids |-> IF p < next_avail_pid THEN RUNNING ELSE NONE]
  /\ cur_process = 1
  /\ mode = USER
  /\ \E v \in FreshVectors : registers = [p \in Pids |-> Frame(p, v)]
  /\ live = 1
  /\ cr3 = next_avail_pid - 1
  /\ dispatched = FALSE

\* schedule(): save the interrupted frame in the current context ...
SaveContext(v) ==
  registers' = [registers EXCEPT ![cur_process] = Frame(live, v)]

\* A slip in the next one: set_cr3() is forgotten.
LoadContextKeepSpace(q) ==
  /\ cur_process' = q
  /\ mode' = USER
  /\ live' = registers'[q].owner
  /\ dispatched' = TRUE
  /\ UNCHANGED cr3

\* ... and load that of the process the walk stopped at.
LoadContext(q) ==
  /\ cur_process' = q
  /\ mode' = USER
  /\ live' = registers'[q].owner
  /\ cr3' = q
  /\ dispatched' = TRUE

\* The walk came back to a process that cannot run: sti; hlt.
Halt ==
  /\ mode' = HLT
  /\ live' = Kernel
  /\ UNCHANGED <<cur_process, cr3, dispatched>>

\* A slip in the next one: the loop test is missing, whoever comes next is loaded.
RescheduleAny(st) ==
  \E q \in Pids : Following({p \in Pids : st[p] # NONE}, cur_process, q) /\ LoadContext(q)

\* The walk of schedule() over statuses st, starting behind cur_process.
Reschedule(st) ==
  IF Runnable(st) = {} THEN Halt
  ELSE \E q \in Pids : Following(Runnable(st), cur_process, q) /\ LoadContext(q)

-----------------------------------------------------------------------------
\* Each action names the set W of waiting processes that are made RUNNING by
\* the writes of the handler and by the byte c_isr() sends at its end; which
\* ones they are is decided by the FIFOs and kqueues (module KernelIpc).

\* The timer interrupts a process.
Tick(W) ==
  /\ mode = USER
  /\ SaveContext(Timer)
  /\ Reschedule(status)
  /\ W \subseteq Waiting(status)
  /\ status' = Wake(status, W)
  /\ UNCHANGED next_avail_pid

\* kqueue_block() puts the running process to sleep and reschedules; nothing
\* is sent before schedule() returns.
Block(W) ==
  LET st == [status EXCEPT ![cur_process] = WAITING] IN
  /\ mode = USER
  /\ SaveContext(Syscall)
  /\ Reschedule(st)
  /\ W \subseteq (IF mode' = HLT THEN {} ELSE Waiting(st))
  /\ status' = Wake(st, W)
  /\ UNCHANGED next_avail_pid

\* Any other system call or device interrupt: the process goes on.
Serve(v, W) ==
  /\ mode = USER
  /\ v \in Vectors \ {Timer}
  /\ W \subseteq Waiting(status)
  /\ status' = Wake(status, W)
  /\ UNCHANGED <<next_avail_pid, cur_process, mode, registers, live, cr3, dispatched>>

\* fork(): the child is appended to context_list with a copy of the frame.
Fork(W) ==
  /\ mode = USER
  /\ next_avail_pid \in Pids
  /\ next_avail_pid' = next_avail_pid + 1
  /\ registers' = [registers EXCEPT ![next_avail_pid] = Frame(next_avail_pid, Syscall)]
  /\ W \subseteq Waiting(status)
  /\ status' = Wake([status EXCEPT ![next_avail_pid] = RUNNING], W)
  /\ UNCHANGED <<cur_process, mode, live, cr3, dispatched>>

\* A slip in the next one: schedule() without its kernel_reenter test.
InterruptReentered(v, W) ==
  /\ mode \in {HLT, STI}
  /\ v \in Vectors \ {Syscall}
  /\ W \subseteq Waiting(status)
  /\ status' = Wake(status, W)
  /\ IF v = Timer THEN SaveContext(v) ELSE UNCHANGED registers
  /\ mode' = STI
  /\ UNCHANGED <<next_avail_pid, cur_process, live, cr3, dispatched>>

\* An interrupt of the idle loop ends the hlt.  The timer's handler returns
\* at once because kernel_reenter is set.
Interrupt(v, W) ==
  /\ mode \in {HLT, STI}
  /\ v \in Vectors \ {Syscall}
  /\ W \subseteq Waiting(status)
  /\ status' = Wake(status, W)
  /\ mode' = STI
  /\ UNCHANGED <<next_avail_pid, cur_process, registers, live, cr3, dispatched>>

\* A slip in the next one: back to hlt unless the process it halted for woke.
CliOnlyOrig(W) ==
  /\ mode = STI
  /\ UNCHANGED <<next_avail_pid, registers>>
  /\ IF status[cur_process] # RUNNING THEN Halt ELSE LoadContext(cur_process)
  /\ W \subseteq (IF mode' = HLT THEN {} ELSE Waiting(status))
  /\ status' = Wake(status, W)

\* cli ends the idle loop: the loop condition looks at the process it halted
\* for, then the walk goes round the list again.
Cli(W) ==
  /\ mode = STI
  /\ UNCHANGED <<next_avail_pid, registers>>
  /\ IF Runnable(status) = {} THEN Halt
     ELSE \E q \in Pids : FirstFrom(Runnable(status), cur_process, q) /\ LoadContext(q)
  /\ W \subseteq (IF mode' = HLT THEN {} ELSE Waiting(status))
  /\ status' = Wake(status, W)

\* The same steps, whoever they wake.
TickStep == \E W \in SUBSET Pids : Tick(W)
BlockStep == \E W \in SUBSET Pids : Block(W)
ServeStep(v) == \E W \in SUBSET Pids : Serve(v, W)
ForkStep == \E W \in SUBSET Pids : Fork(W)
InterruptStep(v) == \E W \in SUBSET Pids : Interrupt(v, W)
CliStep == \E W \in SUBSET Pids : Cli(W)

SchedNext ==
  \/ TickStep
  \/ BlockStep
  \/ ForkStep
  \/ CliStep
  \/ \E v \in Vectors : ServeStep(v) \/ InterruptStep(v)

SchedSafety == SchedInit /\ [][SchedNext]_schedVars

\* The interval timer never stops, and the CPU does not stop between hlt and
\* cli.  Fairness is about the CPU changing hands: whom a step wakes besides
\* is not for the timer to decide.
SchedFairness ==
  /\ WF_<<cur_process, mode>>(TickStep \/ InterruptStep(Timer))
  /\ WF_<<cur_process, mode>>(CliStep)

SchedSpec == SchedSafety /\ SchedFairness
-----------------------------------------------------------------------------
\* The types of the scheduler's state; the processes that exist are the pids
\* handed out (process.c:114-117, 198-207).
SchedTypeOK ==
  /\ next_avail_pid \in 2 .. N + 1
  /\ status \in [Pids -> {RUNNING, WAITING, NONE}]
  /\ \A p \in Pids : status[p] = NONE <=> p >= next_avail_pid
  /\ cur_process \in Pids
  /\ mode \in {USER, HLT, STI}
  /\ registers \in [Pids -> [owner : Pids \cup {Kernel}, int_no : Vectors]]
  /\ live \in Pids \cup {Kernel}
  /\ cr3 \in Pids
  /\ dispatched \in BOOLEAN

\* Outside the kernel the CPU executes cur_process and nobody else: that
\* process is RUNNING, the registers continue its program, and from the first
\* schedule() on its address space is the one loaded (process.c:147-170; the
\* first process is started without its address space, cmain.c:48-49).
CpuBelongsToCurrent ==
  mode = USER =>
    /\ status[cur_process] = RUNNING
    /\ live = cur_process
    /\ dispatched => cr3 = cur_process

\* The processor halts only while no process can run: a wake-up that comes
\* while the walk is under way or the CPU is idle is never slept through
\* (process.c:155-167).
HaltsOnlyWhenNobodyRuns == mode = HLT => Runnable(status) = {}

\* A saved context continues the program of the process it is saved for, also
\* after timer interrupts have hit the kernel in its idle loop
\* (process.c:144-147).
ContextsAreOwn == \A p \in Pids : registers[p].owner = p

\* The scheduler shares the CPU as the abstract module says.
CPU == INSTANCE CpuSharing WITH
  Procs <- Pids,
  cur <- cur_process,
  ready <- Runnable(status),
  idle <- (mode # USER)

\* Only RUNNING processes get the CPU, only the current one can give it up,
\* and it idles only when the last one has (process.c:140-171).
CpuSafety == CPU!Safety

\* With the timer ticking, a RUNNING process is not passed over forever: it
\* runs, whatever other processes block, wake or fork (process.c:151-167).
CpuFairness == CPU!Fairness

\* kqueue_block() ends in schedule(), and syscall.c:109 stores its result
\* through the caller's pointer when schedule() returns: the result belongs in
\* the address space the call was made from, where the library reads it back
\* (libak/syscall.c:113, used by test3.c:35).
BlockResultReachesCaller ==
  [][(BlockStep \/ CliStep) /\ mode' = USER => cr3' = cr3]_schedVars
=============================================================================
