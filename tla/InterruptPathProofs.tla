------------------------- MODULE InterruptPathProofs -------------------------
(***************************************************************************)
(* Proofs about the scheduler and the way of an interrupt (modules Sched   *)
(* and InterruptPath), for any number of processes, any lines and any      *)
(* exceptions: the scheduler's invariants hold and it implements the       *)
(* abstract sharing of the CPU; no controller is left with an interrupt in *)
(* service, and every program gets back every register as it left it.      *)
(***************************************************************************)
EXTENDS InterruptPath, SequenceTheorems, TLAPS

\* The invariants of the runs are inductive together: Tick and Block save the
\* running process's own frame because live = cur_process in user mode, and
\* load an own frame because all saved ones are.
SchedInv ==
  /\ SchedTypeOK
  /\ CpuBelongsToCurrent
  /\ HaltsOnlyWhenNobodyRuns
  /\ ContextsAreOwn

\* Waking processes that wait only adds them to the runnable ones.
LEMMA WakeRunnable ==
  ASSUME NEW st, NEW W, W \subseteq Pids
  PROVE  Runnable(Wake(st, W)) = Runnable(st) \cup W
BY DEF Runnable, Wake

\* A wake-up changes no status but WAITING, and that to RUNNING.
LEMMA WakeType ==
  ASSUME NEW st, NEW W, W \subseteq Waiting(st),
         st \in [Pids -> {RUNNING, WAITING, NONE}]
  PROVE  /\ Wake(st, W) \in [Pids -> {RUNNING, WAITING, NONE}]
         /\ \A p \in Pids : Wake(st, W)[p] = NONE <=> st[p] = NONE
         /\ \A p \in Pids : st[p] = RUNNING => Wake(st, W)[p] = RUNNING
         /\ W \subseteq Pids
BY DEF Wake, Waiting, RUNNING, WAITING, NONE

\* Saving the frame of the process that runs keeps every context its own.
LEMMA SavedContexts ==
  ASSUME SchedInv, mode = USER, NEW v \in Vectors, SaveContext(v)
  PROVE  /\ registers' \in [Pids -> [owner : Pids \cup {Kernel}, int_no : Vectors]]
         /\ \A p \in Pids : registers'[p].owner = p
BY DEF SchedInv, SchedTypeOK, CpuBelongsToCurrent, ContextsAreOwn, SaveContext, Frame

\* What schedule() establishes, given statuses st under which the process it
\* switches to stays RUNNING, and contexts that are their owners'.
LEMMA LoadedContext ==
  ASSUME NEW st, NEW q \in Pids, st[q] = RUNNING, LoadContext(q),
         status'[q] = RUNNING, registers'[q].owner = q
  PROVE  /\ cur_process' \in Pids /\ mode' \in {USER, HLT, STI}
         /\ live' \in Pids \cup {Kernel} /\ cr3' \in Pids /\ dispatched' \in BOOLEAN
         /\ CpuBelongsToCurrent' /\ HaltsOnlyWhenNobodyRuns'
BY DEF LoadContext, CpuBelongsToCurrent, HaltsOnlyWhenNobodyRuns, USER, HLT, STI

LEMMA Halted ==
  ASSUME SchedTypeOK, Halt, Runnable(status') = {}
  PROVE  /\ cur_process' \in Pids /\ mode' \in {USER, HLT, STI}
         /\ live' \in Pids \cup {Kernel} /\ cr3' \in Pids /\ dispatched' \in BOOLEAN
         /\ CpuBelongsToCurrent' /\ HaltsOnlyWhenNobodyRuns'
BY DEF Halt, SchedTypeOK, CpuBelongsToCurrent, HaltsOnlyWhenNobodyRuns, USER, HLT, STI

-----------------------------------------------------------------------------
LEMMA InitInv == SchedInit => SchedInv
<1> SUFFICES ASSUME SchedInit PROVE SchedInv
  OBVIOUS
<1>1. N \in Nat /\ N >= 1
  BY NAssumption
<1>2. SchedTypeOK
  <2>1. /\ next_avail_pid \in 2 .. N + 1
        /\ cur_process \in Pids
        /\ live \in Pids \cup {Kernel}
        /\ cr3 \in Pids
    BY <1>1 DEF SchedInit, Pids
  <2>2. /\ status \in [Pids -> {RUNNING, WAITING, NONE}]
        /\ \A p \in Pids : status[p] = NONE <=> p >= next_avail_pid
    BY <1>1, <2>1 DEF SchedInit, Pids, RUNNING, WAITING, NONE
  <2>3. registers \in [Pids -> [owner : Pids \cup {Kernel}, int_no : Vectors]]
    <3>1. PICK v \in FreshVectors : registers = [p \in Pids |-> Frame(p, v)]
      BY DEF SchedInit
    <3>2. v \in Vectors
      BY VectorAssumption DEF Vectors
    <3> QED BY <3>1, <3>2 DEF Frame
  <2>4. mode \in {USER, HLT, STI} /\ dispatched \in BOOLEAN
    BY DEF SchedInit
  <2> QED BY <2>1, <2>2, <2>3, <2>4 DEF SchedTypeOK
<1>3. CpuBelongsToCurrent
  BY <1>1 DEF SchedInit, CpuBelongsToCurrent, Pids
<1>4. HaltsOnlyWhenNobodyRuns /\ ContextsAreOwn
  BY DEF SchedInit, HaltsOnlyWhenNobodyRuns, ContextsAreOwn, Frame, USER, HLT
<1> QED BY <1>2, <1>3, <1>4 DEF SchedInv

LEMMA TickInv ==
  ASSUME SchedInv, NEW W, Tick(W)
  PROVE  SchedInv'
<1>1. /\ registers' \in [Pids -> [owner : Pids \cup {Kernel}, int_no : Vectors]]
      /\ \A p \in Pids : registers'[p].owner = p
  BY SavedContexts DEF Tick, Vectors
<1>2. cur_process \in Runnable(status)
  BY DEF Tick, SchedInv, SchedTypeOK, CpuBelongsToCurrent, Runnable
<1>3. PICK q \in Pids : q \in Runnable(status) /\ LoadContext(q)
  BY <1>2 DEF Tick, Reschedule, Following
<1>4. /\ status' \in [Pids -> {RUNNING, WAITING, NONE}]
      /\ \A p \in Pids : status'[p] = NONE <=> status[p] = NONE
      /\ status'[q] = RUNNING
  BY <1>3, WakeType DEF Tick, SchedInv, SchedTypeOK, Runnable
<1>5. CpuBelongsToCurrent' /\ HaltsOnlyWhenNobodyRuns' /\ SchedTypeOK'
  BY <1>1, <1>3, <1>4, LoadedContext
  DEF Tick, SchedInv, SchedTypeOK, Runnable
<1> QED BY <1>1, <1>5 DEF SchedInv, ContextsAreOwn

LEMMA BlockInv ==
  ASSUME SchedInv, NEW W, Block(W)
  PROVE  SchedInv'
<1> DEFINE st == [status EXCEPT ![cur_process] = WAITING]
<1>1. /\ registers' \in [Pids -> [owner : Pids \cup {Kernel}, int_no : Vectors]]
      /\ \A p \in Pids : registers'[p].owner = p
  BY SavedContexts DEF Block, Vectors
<1>2. /\ st \in [Pids -> {RUNNING, WAITING, NONE}]
      /\ \A p \in Pids : st[p] = NONE <=> status[p] = NONE
  BY DEF Block, SchedInv, SchedTypeOK, CpuBelongsToCurrent, RUNNING, WAITING, NONE
<1>3. W \subseteq Waiting(st) /\ status' = Wake(st, W) /\ Reschedule(st)
  BY DEF Block, Waiting
<1>4. /\ status' \in [Pids -> {RUNNING, WAITING, NONE}]
      /\ \A p \in Pids : status'[p] = NONE <=> status[p] = NONE
      /\ \A p \in Pids : st[p] = RUNNING => status'[p] = RUNNING
      /\ W \subseteq Pids
  <2> HIDE DEF st
  <2> QED BY <1>2, <1>3, WakeType
<1>5. CASE Runnable(st) = {}
  <2>1. Halt
    BY <1>3, <1>5 DEF Reschedule
  <2>2. W = {}
    BY <2>1 DEF Halt, Block
  <2>3. Runnable(status') = {}
    <3> HIDE DEF st
    <3> QED BY <1>3, <1>4, <1>5, <2>2, WakeRunnable
  <2>4. CpuBelongsToCurrent' /\ HaltsOnlyWhenNobodyRuns' /\ SchedTypeOK'
    BY <1>1, <1>4, <2>1, <2>3, Halted DEF Block, SchedInv, SchedTypeOK
  <2> QED BY <1>1, <2>4 DEF SchedInv, ContextsAreOwn
<1>6. CASE Runnable(st) # {}
  <2>1. PICK q \in Pids : q \in Runnable(st) /\ LoadContext(q)
    BY <1>3, <1>6 DEF Reschedule, Following
  <2>2. st[q] = RUNNING
    BY <2>1 DEF Runnable
  <2>3. CpuBelongsToCurrent' /\ HaltsOnlyWhenNobodyRuns' /\ SchedTypeOK'
    <3> HIDE DEF st
    <3> QED BY <1>1, <1>4, <2>1, <2>2, LoadedContext DEF Block, SchedInv, SchedTypeOK
  <2> QED BY <1>1, <2>3 DEF SchedInv, ContextsAreOwn
<1> QED BY <1>5, <1>6

LEMMA ForkInv ==
  ASSUME SchedInv, NEW W, Fork(W)
  PROVE  SchedInv'
<1> DEFINE child == next_avail_pid
           st == [status EXCEPT ![child] = RUNNING]
<1>1. child \in Pids /\ N \in Nat /\ child' = child + 1
  BY NAssumption DEF Fork
<1>2. /\ st \in [Pids -> {RUNNING, WAITING, NONE}]
      /\ \A p \in Pids : st[p] = NONE <=> p >= child + 1
      /\ \A p \in Pids : status[p] = RUNNING => st[p] = RUNNING
  BY <1>1 DEF SchedInv, SchedTypeOK, RUNNING, WAITING, NONE, Pids
<1>3. W \subseteq Waiting(st) /\ status' = Wake(st, W)
  BY <1>1 DEF Fork, Waiting, SchedInv, SchedTypeOK, WAITING, NONE
<1>4. /\ status' \in [Pids -> {RUNNING, WAITING, NONE}]
      /\ \A p \in Pids : status'[p] = NONE <=> p >= child + 1
      /\ \A p \in Pids : status[p] = RUNNING => status'[p] = RUNNING
  <2> HIDE DEF st
  <2> QED BY <1>2, <1>3, WakeType
<1>5. SchedTypeOK'
  <2>1. /\ next_avail_pid' \in 2 .. N + 1
        /\ \A p \in Pids : status'[p] = NONE <=> p >= next_avail_pid'
    BY <1>1, <1>4 DEF SchedInv, SchedTypeOK, Pids
  <2>2. registers' \in [Pids -> [owner : Pids \cup {Kernel}, int_no : Vectors]]
    BY <1>1 DEF Fork, SchedInv, SchedTypeOK, Frame, Vectors
  <2> QED BY <1>4, <2>1, <2>2 DEF Fork, SchedInv, SchedTypeOK
<1>6. CpuBelongsToCurrent' /\ HaltsOnlyWhenNobodyRuns' /\ ContextsAreOwn'
  BY <1>1, <1>4 DEF Fork, SchedInv, SchedTypeOK, CpuBelongsToCurrent,
     HaltsOnlyWhenNobodyRuns, ContextsAreOwn, Frame, USER, HLT
<1> QED BY <1>5, <1>6 DEF SchedInv

LEMMA ServeInv ==
  ASSUME SchedInv, NEW v, NEW W, Serve(v, W)
  PROVE  SchedInv'
<1>1. /\ status' \in [Pids -> {RUNNING, WAITING, NONE}]
      /\ \A p \in Pids : status'[p] = NONE <=> status[p] = NONE
      /\ \A p \in Pids : status[p] = RUNNING => status'[p] = RUNNING
  BY WakeType DEF Serve, SchedInv, SchedTypeOK
<1> QED
  BY <1>1 DEF Serve, SchedInv, SchedTypeOK, CpuBelongsToCurrent,
     HaltsOnlyWhenNobodyRuns, ContextsAreOwn, USER, HLT

LEMMA InterruptInv ==
  ASSUME SchedInv, NEW v, NEW W, Interrupt(v, W)
  PROVE  SchedInv'
<1>1. /\ status' \in [Pids -> {RUNNING, WAITING, NONE}]
      /\ \A p \in Pids : status'[p] = NONE <=> status[p] = NONE
  BY WakeType DEF Interrupt, SchedInv, SchedTypeOK
<1> QED
  BY <1>1 DEF Interrupt, SchedInv, SchedTypeOK, CpuBelongsToCurrent,
     HaltsOnlyWhenNobodyRuns, ContextsAreOwn, USER, HLT, STI

LEMMA CliInv ==
  ASSUME SchedInv, NEW W, Cli(W)
  PROVE  SchedInv'
<1>1. W \subseteq Waiting(status) /\ status' = Wake(status, W) /\ registers' = registers
  BY DEF Cli, Waiting
<1>2. /\ status' \in [Pids -> {RUNNING, WAITING, NONE}]
      /\ \A p \in Pids : status'[p] = NONE <=> status[p] = NONE
      /\ \A p \in Pids : status[p] = RUNNING => status'[p] = RUNNING
      /\ W \subseteq Pids
  BY <1>1, WakeType DEF SchedInv, SchedTypeOK
<1>3. CASE Runnable(status) = {}
  <2>1. Halt
    BY <1>3 DEF Cli
  <2>2. W = {}
    BY <2>1 DEF Halt, Cli
  <2>3. Runnable(status') = {}
    BY <1>1, <1>2, <1>3, <2>2, WakeRunnable
  <2>4. CpuBelongsToCurrent' /\ HaltsOnlyWhenNobodyRuns' /\ SchedTypeOK'
    BY <1>1, <1>2, <2>1, <2>3, Halted DEF Cli, SchedInv, SchedTypeOK
  <2> QED BY <1>1, <2>4 DEF SchedInv, ContextsAreOwn
<1>4. CASE Runnable(status) # {}
  <2>1. PICK q \in Pids : q \in Runnable(status) /\ LoadContext(q)
    BY <1>4 DEF Cli, FirstFrom
  <2>2. status[q] = RUNNING /\ status'[q] = RUNNING /\ registers'[q].owner = q
    BY <1>1, <1>2, <2>1 DEF Runnable, SchedInv, ContextsAreOwn
  <2>3. CpuBelongsToCurrent' /\ HaltsOnlyWhenNobodyRuns' /\ SchedTypeOK'
    BY <1>1, <1>2, <2>1, <2>2, LoadedContext DEF Cli, SchedInv, SchedTypeOK
  <2> QED BY <1>1, <2>3 DEF SchedInv, ContextsAreOwn
<1> QED BY <1>3, <1>4

\* One step of the scheduler keeps the invariant.
LEMMA StepInv == SchedInv /\ [SchedNext]_schedVars => SchedInv'
<1> SUFFICES ASSUME SchedInv, [SchedNext]_schedVars PROVE SchedInv'
  OBVIOUS
<1>1. CASE TickStep
  BY <1>1, TickInv DEF TickStep
<1>2. CASE BlockStep
  BY <1>2, BlockInv DEF BlockStep
<1>3. CASE ForkStep
  BY <1>3, ForkInv DEF ForkStep
<1>4. CASE CliStep
  BY <1>4, CliInv DEF CliStep
<1>5. ASSUME NEW v \in Vectors, ServeStep(v) PROVE SchedInv'
  BY <1>5, ServeInv DEF ServeStep
<1>6. ASSUME NEW v \in Vectors, InterruptStep(v) PROVE SchedInv'
  BY <1>6, InterruptInv DEF InterruptStep
<1>7. CASE UNCHANGED schedVars
  BY <1>7 DEF schedVars, SchedInv, SchedTypeOK, CpuBelongsToCurrent,
     HaltsOnlyWhenNobodyRuns, ContextsAreOwn, Runnable
<1> QED BY <1>1, <1>2, <1>3, <1>4, <1>5, <1>6, <1>7 DEF SchedNext

\* Every invariant of the scheduler, for every number of processes.
THEOREM SchedulerInvariant == SchedSafety => []SchedInv
<1> QED BY InitInv, StepInv, PTL DEF SchedSafety

\* In user mode the CPU runs cur_process: a RUNNING process, its registers
\* and, after the first schedule(), its address space (process.c:147-170).
THEOREM CpuIsCurrents == SchedSafety => []CpuBelongsToCurrent
<1>1. SchedInv => CpuBelongsToCurrent
  BY DEF SchedInv
<1> QED BY <1>1, SchedulerInvariant, PTL

\* The CPU is halted only while no process is RUNNING (process.c:155-167).
THEOREM NoSleepWithWork == SchedSafety => []HaltsOnlyWhenNobodyRuns
<1>1. SchedInv => HaltsOnlyWhenNobodyRuns
  BY DEF SchedInv
<1> QED BY <1>1, SchedulerInvariant, PTL

\* No saved context is overwritten with another process's or the kernel's
\* frame (process.c:144-147).
THEOREM OwnContexts == SchedSafety => []ContextsAreOwn
<1>1. SchedInv => ContextsAreOwn
  BY DEF SchedInv
<1> QED BY <1>1, SchedulerInvariant, PTL

-----------------------------------------------------------------------------
\* The refinement: each step of the scheduler, seen through the mapping, is
\* one of CpuSharing.

LEMMA TickShares ==
  ASSUME SchedInv, NEW W, Tick(W)
  PROVE  \E q \in Pids : CPU!Run(q)
<1>1. cur_process \in Runnable(status) /\ W \subseteq Pids
  BY DEF Tick, SchedInv, SchedTypeOK, CpuBelongsToCurrent, Runnable, Waiting
<1>2. PICK q \in Pids : q \in Runnable(status) /\ LoadContext(q)
  BY <1>1 DEF Tick, Reschedule, Following
<1>3. Runnable(status') = Runnable(status) \cup W
  BY <1>1, WakeRunnable DEF Tick
<1> QED BY <1>1, <1>2, <1>3 DEF CPU!Run, LoadContext

LEMMA BlockShares ==
  ASSUME SchedInv, NEW W, Block(W)
  PROVE  CPU!Rest \/ \E q \in Pids : CPU!GiveUp(q)
<1> DEFINE st == [status EXCEPT ![cur_process] = WAITING]
<1>1. /\ mode = USER /\ cur_process \in Runnable(status) /\ W \subseteq Pids
      /\ Runnable(st) = Runnable(status) \ {cur_process}
  BY DEF Block, SchedInv, SchedTypeOK, CpuBelongsToCurrent, Runnable, Waiting,
     RUNNING, WAITING
<1>2. Reschedule(st) /\ status' = Wake(st, W)
  BY DEF Block
<1>3. Runnable(status') = (Runnable(status) \ {cur_process}) \cup W
  <2> HIDE DEF st
  <2> QED BY <1>1, <1>2, WakeRunnable
<1>4. CASE Runnable(st) = {}
  <2>1. Halt /\ W = {}
    BY <1>2, <1>4 DEF Reschedule, Halt, Block
  <2> QED BY <1>1, <1>3, <1>4, <2>1 DEF Halt, CPU!Rest, USER, HLT
<1>5. CASE Runnable(st) # {}
  <2>1. PICK q \in Pids : q \in Runnable(st) /\ LoadContext(q)
    BY <1>2, <1>5 DEF Reschedule, Following
  <2> QED BY <1>1, <1>3, <2>1 DEF LoadContext, CPU!GiveUp
<1> QED BY <1>4, <1>5

LEMMA CliShares ==
  ASSUME SchedInv, NEW W, Cli(W)
  PROVE  UNCHANGED CPU!vars \/ \E q \in Pids : CPU!Run(q)
<1>1. /\ mode = STI /\ W \subseteq Pids /\ status' = Wake(status, W)
  BY DEF Cli, Waiting
<1>2. Runnable(status') = Runnable(status) \cup W
  BY <1>1, WakeRunnable
<1>3. CASE Runnable(status) = {}
  <2>1. Halt /\ W = {}
    BY <1>3 DEF Halt, Cli
  <2> QED BY <1>1, <1>2, <2>1 DEF Halt, CPU!vars, USER, HLT, STI
<1>4. CASE Runnable(status) # {}
  <2>1. PICK q \in Pids : q \in Runnable(status) /\ LoadContext(q)
    BY <1>4 DEF Cli, FirstFrom
  <2> QED BY <1>1, <1>2, <2>1 DEF LoadContext, CPU!Run
<1> QED BY <1>3, <1>4

\* fork(), other calls and interrupts only make processes ready.
LEMMA OthersShare ==
  ASSUME SchedInv, NEW v, NEW W, Fork(W) \/ Serve(v, W) \/ Interrupt(v, W)
  PROVE  CPU!Admit
<1>1. /\ W \subseteq Pids /\ cur_process' = cur_process
      /\ (mode' # USER) = (mode # USER)
  BY DEF Fork, Serve, Interrupt, Waiting, USER, HLT, STI
<1>2. PICK V \in SUBSET Pids : Runnable(status') = Runnable(status) \cup V
  <2>1. CASE Fork(W)
    <3> DEFINE st == [status EXCEPT ![next_avail_pid] = RUNNING]
    <3>1. Runnable(st) = Runnable(status) \cup {next_avail_pid} /\ next_avail_pid \in Pids
      BY <2>1 DEF Fork, Runnable, SchedInv, SchedTypeOK
    <3>2. Runnable(status') = Runnable(st) \cup W
      <4>1. status' = Wake(st, W)
        BY <2>1 DEF Fork
      <4> HIDE DEF st
      <4> QED BY <1>1, <4>1, WakeRunnable
    <3>3. /\ W \cup {next_avail_pid} \in SUBSET Pids
          /\ Runnable(status') = Runnable(status) \cup (W \cup {next_avail_pid})
      BY <1>1, <3>1, <3>2
    <3> QED BY <3>3
  <2>2. CASE Serve(v, W) \/ Interrupt(v, W)
    BY <1>1, <2>2, WakeRunnable DEF Serve, Interrupt
  <2> QED BY <2>1, <2>2
<1> QED BY <1>1, <1>2 DEF CPU!Admit

\* The scheduler only ever shares the CPU as CpuSharing allows: it gives it to
\* RUNNING processes, takes them out of that set only by their own doing, and
\* rests only when none is left (process.c:140-171).
THEOREM SharesTheCpu == SchedSafety => CpuSafety
<1>1. SchedInit => CPU!Init
  <2> SUFFICES ASSUME SchedInit PROVE CPU!Init
    OBVIOUS
  <2>1. Runnable(status) \in SUBSET Pids
    BY DEF Runnable
  <2>2. cur_process \in Runnable(status)
    BY NAssumption DEF SchedInit, Runnable, Pids
  <2> QED BY <2>1, <2>2 DEF SchedInit, CPU!Init
<1>2. SchedInv /\ [SchedNext]_schedVars => [CPU!Next]_(CPU!vars)
  <2> SUFFICES ASSUME SchedInv, [SchedNext]_schedVars PROVE [CPU!Next]_(CPU!vars)
    OBVIOUS
  <2>1. CASE TickStep
    BY <2>1, TickShares DEF TickStep, CPU!Next
  <2>2. CASE BlockStep
    BY <2>2, BlockShares DEF BlockStep, CPU!Next
  <2>3. CASE CliStep
    BY <2>3, CliShares DEF CliStep, CPU!Next
  <2>4. CASE ForkStep
    BY <2>4, OthersShare DEF ForkStep, CPU!Next
  <2>5. ASSUME NEW v \in Vectors, ServeStep(v) \/ InterruptStep(v) PROVE CPU!Next
    BY <2>5, OthersShare DEF ServeStep, InterruptStep, CPU!Next
  <2>6. CASE UNCHANGED schedVars
    BY <2>6 DEF schedVars, CPU!vars, Runnable
  <2> QED BY <2>1, <2>2, <2>3, <2>4, <2>5, <2>6 DEF SchedNext
<1> QED BY <1>1, <1>2, SchedulerInvariant, PTL DEF SchedSafety, CpuSafety, CPU!Safety

-----------------------------------------------------------------------------
\* Every step on the way of an interrupt is a step of the scheduler or none,
\* so what is proved of the scheduler holds with the controllers and the
\* entry code below it (interrupt.c:28-51, asm_interrupts.s:52-278).
THEOREM PathIsSchedulers == PathSafety => SchedSafety
<1>1. PathInit => SchedInit
  BY DEF PathInit
<1>2. [PathNext]_pathVars => [SchedNext]_schedVars
  <2> SUFFICES ASSUME [PathNext]_pathVars PROVE [SchedNext]_schedVars
    OBVIOUS
  <2>1. ASSUME NEW v, ServeStep(v) \/ InterruptStep(v) PROVE SchedNext
    <3>1. v \in Vectors
      BY <2>1 DEF ServeStep, InterruptStep, Serve, Interrupt
    <3> QED BY <2>1, <3>1 DEF SchedNext
  <2>2. ASSUME NEW v, NEW p, Handle(v, p) PROVE SchedNext
    BY <2>1, <2>2 DEF Handle, SchedNext
  <2>3. CASE \E l \in Lines : Request(l)
    BY <2>3 DEF Request
  <2>4. CASE TakeInterrupt \/ TakeSpurious \/ TakeException
    BY <2>2, <2>4 DEF TakeInterrupt, TakeSpurious, TakeException
  <2>5. CASE CallReturns
    BY <2>1, <2>5 DEF CallReturns
  <2>6. CASE CallBlocks
    BY <2>6 DEF CallBlocks, SchedNext
  <2>7. CASE CallForks
    BY <2>7 DEF CallForks, SchedNext
  <2>8. CASE LeaveIdleLoop
    BY <2>8 DEF LeaveIdleLoop, SchedNext
  <2>9. CASE UNCHANGED pathVars
    BY <2>9 DEF pathVars
  <2> QED BY <2>3, <2>4, <2>5, <2>6, <2>7, <2>8, <2>9 DEF PathNext
<1> QED BY <1>1, <1>2, PTL DEF PathSafety, SchedSafety

-----------------------------------------------------------------------------
(* The controllers                                                         *)

Chips ==
  [base : Nat, mask : SUBSET (0 .. 7), cascade : Nat, irr : SUBSET (0 .. 7),
   isr : SUBSET (0 .. 7), icw : Nat]

\* The controllers as picRemapIRQs() sets them up.
Programmed(p) ==
  /\ p \in [master : Chips, slave : Chips]
  /\ p.master.base = 32 /\ p.slave.base = 40
  /\ p.master.cascade = 4 /\ p.slave.cascade = 2
  /\ 2 \notin p.master.irr

Idle(p) == Programmed(p) /\ p.master.isr = {} /\ p.slave.isr = {}

\* The inductive invariant, together with the scheduler's.
PicsIdle == Idle(pics)

\* What one interrupt puts in service, the slave's only with a vector from 40 on.
Busy(p, v) ==
  /\ Programmed(p)
  /\ p.master.isr = {} \/ \E i \in 0 .. 7 : p.master.isr = {i}
  /\ p.slave.isr = {} \/ (v >= 40 /\ \E j \in 0 .. 7 : p.slave.isr = {j})

LEMMA MinOfOne == ASSUME NEW i \in Int PROVE Min({i}) = i
BY DEF Min

LEMMA MinIsIn ==
  ASSUME NEW S \in SUBSET (0 .. 7), S # {}
  PROVE  Min(S) \in S
<1> DEFINE Least == \E x \in S : \A y \in S : x =< y
<1>1. S \subseteq 7 .. 7 => Least
  <2>1. HAVE S \subseteq 7 .. 7
  <2>2. PICK x \in S : TRUE  OBVIOUS
  <2>3. \A y \in S : y = 7  BY <2>1
  <2> QED BY <2>2, <2>3
<1>2. S \subseteq 6 .. 7 => Least
  <2>1. CASE 6 \in S  BY <2>1
  <2>2. CASE 6 \notin S  BY <1>1, <2>2
  <2> QED BY <2>1, <2>2
<1>3. S \subseteq 5 .. 7 => Least
  <2>1. CASE 5 \in S  BY <2>1
  <2>2. CASE 5 \notin S  BY <1>2, <2>2
  <2> QED BY <2>1, <2>2
<1>4. S \subseteq 4 .. 7 => Least
  <2>1. CASE 4 \in S  BY <2>1
  <2>2. CASE 4 \notin S  BY <1>3, <2>2
  <2> QED BY <2>1, <2>2
<1>5. S \subseteq 3 .. 7 => Least
  <2>1. CASE 3 \in S  BY <2>1
  <2>2. CASE 3 \notin S  BY <1>4, <2>2
  <2> QED BY <2>1, <2>2
<1>6. S \subseteq 2 .. 7 => Least
  <2>1. CASE 2 \in S  BY <2>1
  <2>2. CASE 2 \notin S  BY <1>5, <2>2
  <2> QED BY <2>1, <2>2
<1>7. S \subseteq 1 .. 7 => Least
  <2>1. CASE 1 \in S  BY <2>1
  <2>2. CASE 1 \notin S  BY <1>6, <2>2
  <2> QED BY <2>1, <2>2
<1>8. Least
  <2>1. CASE 0 \in S  BY <2>1
  <2>2. CASE 0 \notin S  BY <1>7, <2>2
  <2> QED BY <2>1, <2>2
<1> QED BY <1>8 DEF Min

\* What does not change of a chip but its requests and services.
SameSetup(c, d) ==
  c \in Chips /\ c.base = d.base /\ c.cascade = d.cascade

\* The end of interrupt of a chip takes the one that is in service, and does
\* nothing to a chip that serves none.
LEMMA EndOfInterrupt ==
  ASSUME NEW chip \in Chips, chip.isr = {} \/ \E i \in 0 .. 7 : chip.isr = {i}
  PROVE  LET c == Command(chip, 32) IN SameSetup(c, chip) /\ c.isr = {} /\ c.irr = chip.irr
<1>1. 4 \notin Bits(32)
  BY DEF Bits, Weights
<1>2. CASE chip.isr = {}
  <2>1. Command(chip, 32) = chip
    BY <1>1, <1>2 DEF Command
  <2> QED BY <1>2, <2>1 DEF SameSetup
<1>3. ASSUME NEW i \in 0 .. 7, chip.isr = {i}
      PROVE  LET c == Command(chip, 32) IN SameSetup(c, chip) /\ c.isr = {} /\ c.irr = chip.irr
  <2>1. Min(chip.isr) = i
    BY <1>3, MinOfOne
  <2>2. Command(chip, 32) = [chip EXCEPT !.isr = chip.isr \ {Min(chip.isr)}]
    BY <1>1, <1>3 DEF Command
  <2> QED BY <1>3, <2>1, <2>2 DEF SameSetup, Chips
<1> QED BY <1>2, <1>3

\* After the end of c_isr() nothing is in service, provided that the slave is
\* acknowledged if it serves: its vectors are from 40 on, and those that make
\* schedule() replace the frame are not its own.
LEMMA AcknowledgedIdle ==
  ASSUME NEW p, NEW n, Busy(p, n)
  PROVE  Idle(Acknowledge(p, n))
<1> DEFINE s == IF n >= 40 THEN Outportb(p, 160, 32) ELSE p
           a == Acknowledge(p, n)
<1>1. p.master \in Chips /\ p.slave \in Chips
  <2>1. p \in [master : Chips, slave : Chips]
    BY DEF Busy, Programmed
  <2> QED BY <2>1
<1>2. Outportb(p, 160, 32).master = p.master
  <2>1. Outportb(p, 160, 32).master = Written(p.master, 32, 33, 160, 32)
    BY DEF Outportb
  <2> QED BY <2>1 DEF Written
<1>3. Outportb(p, 160, 32).slave = Command(p.slave, 32)
  <2>1. Outportb(p, 160, 32).slave = Written(p.slave, 160, 161, 160, 32)
    BY DEF Outportb
  <2> QED BY <2>1 DEF Written
<1>4. s.master = p.master
  BY <1>2
<1>5. SameSetup(s.slave, p.slave) /\ s.slave.isr = {}
  <2>1. CASE n >= 40
    <3>1. LET c == Command(p.slave, 32) IN SameSetup(c, p.slave) /\ c.isr = {}
      BY <1>1, EndOfInterrupt DEF Busy
    <3> QED BY <1>3, <2>1, <3>1
  <2>2. CASE ~(n >= 40)
    BY <1>1, <2>2 DEF Busy, SameSetup
  <2> QED BY <2>1, <2>2
<1>6. LET c == Command(p.master, 32) IN
        SameSetup(c, p.master) /\ c.isr = {} /\ c.irr = p.master.irr
  BY <1>1, EndOfInterrupt DEF Busy
<1>7. a = Outportb(s, 32, 32)
  BY DEF Acknowledge
<1> HIDE DEF s, a
<1>8. a = [master |-> Command(s.master, 32), slave |-> s.slave]
  <2>1. a = [master |-> Written(s.master, 32, 33, 32, 32),
             slave |-> Written(s.slave, 160, 161, 32, 32)]
    BY <1>7 DEF Outportb
  <2>2. Written(s.master, 32, 33, 32, 32) = Command(s.master, 32)
    BY DEF Written
  <2>3. Written(s.slave, 160, 161, 32, 32) = s.slave
    BY DEF Written
  <2> QED BY <2>1, <2>2, <2>3
<1>9. SameSetup(a.master, p.master) /\ SameSetup(a.slave, p.slave)
      /\ a.master.isr = {} /\ a.slave.isr = {} /\ a.master.irr = p.master.irr
      /\ a = [master |-> a.master, slave |-> a.slave]
  BY <1>4, <1>5, <1>6, <1>8
<1>10. Idle(a)
  BY <1>9 DEF Idle, Programmed, Busy, SameSetup
<1> QED BY <1>10 DEF a

-----------------------------------------------------------------------------
(* What a vector meets                                                     *)

\* c_isr() reads the vector that came in, whatever the stub leaves to the
\* processor to push.
LEMMA EntryNamesVector ==
  ASSUME NEW regs, NEW v
  PROVE  IntNo(Entry(regs, v)) = v
<1> DEFINE w == Words(regs, Saved)
           hard == Words(regs, IF regs["cs"][1] = Kernel THEN SubSeq(Hard, 1, 3) ELSE Hard)
<1>1. Len(Saved) = 12 /\ DOMAIN Saved = 1 .. 12
  BY DEF Saved
<1>2. w = [i \in 1 .. 12 |-> w[i]]
  BY <1>1 DEF Words
<1> QED BY <1>1, <1>2 DEF IntNo, Entry, Stub, Number, Interrupted

\* A chip in the midst of its set-up, with nothing pending.
Fresh(b, c, i) ==
  [base |-> b, mask |-> {}, cascade |-> c, irr |-> {}, isr |-> {}, icw |-> i]

\* picRemapIRQs() sets the chips up from whatever state the BIOS left.
LEMMA RemappedIdle ==
  ASSUME NEW p
  PROVE  Idle(PicRemapIRQs(p))
<1> DEFINE icw1 == Outportb(Outportb(p, 32, 17), 160, 17)
           icw2 == Outportb(Outportb(icw1, 33, 32), 161, 40)
           icw3 == Outportb(Outportb(icw2, 33, 4), 161, 2)
           icw4 == Outportb(Outportb(icw3, 33, 1), 161, 1)
           done == Outportb(Outportb(icw4, 33, 0), 161, 0)
<1>1. ASSUME NEW q, NEW x, NEW y
      PROVE  Outportb(Outportb(q, 33, x), 161, y) =
               [master |-> Data(q.master, x), slave |-> Data(q.slave, y)]
  <2>1. ASSUME NEW c PROVE /\ Written(c, 32, 33, 33, x) = Data(c, x)
                           /\ Written(c, 32, 33, 161, y) = c
    BY DEF Written
  <2>2. ASSUME NEW c PROVE /\ Written(c, 160, 161, 33, x) = c
                           /\ Written(c, 160, 161, 161, y) = Data(c, y)
    BY DEF Written
  <2> QED BY <2>1, <2>2 DEF Outportb
<1>2. icw1 = [master |-> Command(p.master, 17), slave |-> Command(p.slave, 17)]
  <2>1. ASSUME NEW c PROVE /\ Written(c, 32, 33, 32, 17) = Command(c, 17)
                           /\ Written(c, 32, 33, 160, 17) = c
    BY DEF Written
  <2>2. ASSUME NEW c PROVE /\ Written(c, 160, 161, 32, 17) = c
                           /\ Written(c, 160, 161, 160, 17) = Command(c, 17)
    BY DEF Written
  <2> QED BY <2>1, <2>2 DEF Outportb
<1>3. ASSUME NEW c PROVE Command(c, 17) = Fresh(c.base, 0, 2)
  <2>1. 4 \in Bits(17)
    BY DEF Bits, Weights
  <2> QED BY <2>1 DEF Command, Chip, Fresh
<1>4. ASSUME NEW b, NEW x \in {32, 40} PROVE Data(Fresh(b, 0, 2), x) = Fresh(x, 0, 3)
  <2>1. Fresh(b, 0, 2).icw = 2
    BY DEF Fresh
  <2>2. 8 * (x \div 8) = x
    OBVIOUS
  <2>3. Data(Fresh(b, 0, 2), x) = [[Fresh(b, 0, 2) EXCEPT !.base = x] EXCEPT !.icw = 3]
    <3> DEFINE y == 8 * (x \div 8)
    <3>1. Data(Fresh(b, 0, 2), x) = [[Fresh(b, 0, 2) EXCEPT !.base = y] EXCEPT !.icw = 3]
      BY <2>1 DEF Data
    <3>2. y = x
      BY <2>2
    <3> HIDE DEF y
    <3> QED BY <3>1, <3>2
  <2>4. [Fresh(b, 0, 2) EXCEPT !.base = x] = Fresh(x, 0, 2)
    BY DEF Fresh
  <2>5. [Fresh(x, 0, 2) EXCEPT !.icw = 3] = Fresh(x, 0, 3)
    BY DEF Fresh
  <2> QED BY <2>3, <2>4, <2>5
<1>5. ASSUME NEW b, NEW c PROVE Data(Fresh(b, 0, 3), c) = Fresh(b, c, 4)
  <2>1. Fresh(b, 0, 3).icw = 3
    BY DEF Fresh
  <2>2. Data(Fresh(b, 0, 3), c) = [[Fresh(b, 0, 3) EXCEPT !.cascade = c] EXCEPT !.icw = 4]
    BY <2>1 DEF Data
  <2>3. [Fresh(b, 0, 3) EXCEPT !.cascade = c] = Fresh(b, c, 3)
    BY DEF Fresh
  <2>4. [Fresh(b, c, 3) EXCEPT !.icw = 4] = Fresh(b, c, 4)
    BY DEF Fresh
  <2> QED BY <2>2, <2>3, <2>4
<1>6. ASSUME NEW b, NEW c PROVE Data(Fresh(b, c, 4), 1) = Fresh(b, c, 0)
  BY DEF Data, Fresh
<1>7. ASSUME NEW b, NEW c PROVE Data(Fresh(b, c, 0), 0) = Fresh(b, c, 0)
  <2>1. Bits(0) = {}
    BY DEF Bits, Weights
  <2> QED BY <2>1 DEF Data, Fresh
<1>8. icw2 = [master |-> Fresh(32, 0, 3), slave |-> Fresh(40, 0, 3)]
  <2>1. icw1.master = Fresh(p.master.base, 0, 2) /\ icw1.slave = Fresh(p.slave.base, 0, 2)
    <3> HIDE DEF icw1
    <3>1. icw1.master = Command(p.master, 17) /\ icw1.slave = Command(p.slave, 17)
      BY <1>2
    <3> QED BY <1>3, <3>1
  <2> HIDE DEF icw1
  <2>2. icw2 = [master |-> Data(icw1.master, 32), slave |-> Data(icw1.slave, 40)]
    BY <1>1
  <2> QED BY <1>4, <2>1, <2>2
<1> HIDE DEF icw1, icw2
<1>9. icw3 = [master |-> Fresh(32, 4, 4), slave |-> Fresh(40, 2, 4)]
  BY <1>1, <1>5, <1>8
<1> HIDE DEF icw3
<1>10. icw4 = [master |-> Fresh(32, 4, 0), slave |-> Fresh(40, 2, 0)]
  BY <1>1, <1>6, <1>9
<1> HIDE DEF icw4
<1>11. done = [master |-> Fresh(32, 4, 0), slave |-> Fresh(40, 2, 0)]
  BY <1>1, <1>7, <1>10
<1>12. PicRemapIRQs(p) = done
  BY DEF PicRemapIRQs, icw1, icw2, icw3, icw4
<1> HIDE DEF done
<1>13. Idle([master |-> Fresh(32, 4, 0), slave |-> Fresh(40, 2, 0)])
  BY DEF Idle, Programmed, Chips, Fresh
<1> QED BY <1>11, <1>12, <1>13

-----------------------------------------------------------------------------
(* Nothing is left in service                                              *)

LEMMA InServiceFields ==
  ASSUME NEW chip \in Chips, NEW i \in 0 .. 7, chip.isr = {}
  PROVE  LET c == InService(chip, i) IN
           SameSetup(c, chip) /\ c.isr = {i} /\ c.irr = chip.irr \ {i}
<1>1. InService(chip, i) = [chip EXCEPT !.irr = chip.irr \ {i}, !.isr = {i}]
  BY DEF InService
<1> QED BY <1>1 DEF Chips, SameSetup

\* A chip of Programmed controllers is replaced by one that is set up alike.
LEMMA StillProgrammed ==
  ASSUME NEW p, Programmed(p), NEW m, NEW s,
         SameSetup(m, p.master), SameSetup(s, p.slave), 2 \notin m.irr
  PROVE  Programmed([master |-> m, slave |-> s])
BY DEF Programmed, SameSetup

\* What the processor is given: a line of the master alone, or one of the
\* slave's together with the master's line 2.
LEMMA AcceptedBusy ==
  ASSUME Idle(pics), Asserted(pics)
  PROVE  LET a == Accepted(pics) IN
           Busy(a.pics, a.vector) /\ (a.vector = 32 => a.pics.slave.isr = {})
<1> DEFINE w == WithSlave(pics)
           i == Min(Requests(w.master))
           m == [pics EXCEPT !.master = InService(pics.master, i)]
           j == Min(Requests(pics.slave))
<1>1. /\ pics = [master |-> pics.master, slave |-> pics.slave]
      /\ pics.master \in Chips /\ pics.slave \in Chips
      /\ pics.master.isr = {} /\ pics.slave.isr = {}
  <2>1. pics \in [master : Chips, slave : Chips]
    BY DEF Idle, Programmed
  <2> QED BY <2>1 DEF Idle
<1>2. Requests(w.master) \subseteq pics.master.irr \cup (IF Requests(pics.slave) = {} THEN {} ELSE {2})
  <2>1. CASE Requests(pics.slave) = {}
    <3>1. w = pics
      BY <2>1 DEF WithSlave
    <3> QED BY <2>1, <3>1 DEF Requests
  <2>2. CASE Requests(pics.slave) # {}
    <3>1. w.master = [pics.master EXCEPT !.irr = pics.master.irr \cup {2}]
      BY <1>1, <2>2 DEF WithSlave
    <3>2. w.master.irr = pics.master.irr \cup {2}
      BY <1>1, <3>1 DEF Chips
    <3> QED BY <2>2, <3>2 DEF Requests
  <2> QED BY <2>1, <2>2
<1>3. pics.master.irr \subseteq 0 .. 7 /\ pics.slave.irr \subseteq 0 .. 7 /\ 2 \notin pics.master.irr
  BY <1>1 DEF Chips, Idle, Programmed
<1>4. i \in Requests(w.master) /\ i \in 0 .. 7
  <2>1. Requests(w.master) \in SUBSET (0 .. 7) /\ Requests(w.master) # {}
    BY <1>2, <1>3 DEF Asserted
  <2> HIDE DEF w
  <2> QED BY <2>1, MinIsIn
<1> HIDE DEF w, i
<1>5. /\ m = [master |-> InService(pics.master, i), slave |-> pics.slave]
      /\ SameSetup(InService(pics.master, i), pics.master)
      /\ InService(pics.master, i).isr = {i}
      /\ 2 \notin InService(pics.master, i).irr
  BY <1>1, <1>3, <1>4, InServiceFields
<1>6. SameSetup(pics.slave, pics.slave)
  BY <1>1 DEF SameSetup
<1>7. CASE i # 2
  <2>1. Accepted(pics) = [pics |-> m, vector |-> pics.master.base + i]
    BY <1>7 DEF Accepted, i, w
  <2>2. Programmed(m)
    <3>1. Programmed([master |-> InService(pics.master, i), slave |-> pics.slave])
      BY <1>5, <1>6, StillProgrammed DEF Idle
    <3> QED BY <1>5, <3>1
  <2> HIDE DEF m
  <2>3. m.master.isr = {i} /\ m.slave.isr = {}
    BY <1>1, <1>5
  <2>4. Busy(m, pics.master.base + i)
    BY <1>4, <2>2, <2>3 DEF Busy
  <2> QED BY <2>1, <2>3, <2>4
<1>8. CASE i = 2
  <2>1. Requests(pics.slave) # {} /\ Requests(pics.slave) \in SUBSET (0 .. 7)
    BY <1>2, <1>3, <1>4, <1>8 DEF Requests
  <2>2. j \in 0 .. 7
    BY <2>1, MinIsIn
  <2>3. Cascaded(pics)
    <3>1. 2 \in Bits(4)
      BY DEF Bits, Weights
    <3> QED BY <3>1 DEF Cascaded, Idle, Programmed
  <2> HIDE DEF j
  <2> DEFINE b == [m EXCEPT !.slave = InService(pics.slave, j)]
  <2>4. Accepted(pics) = [pics |-> b, vector |-> pics.slave.base + j]
    BY <1>5, <1>8, <2>3 DEF Accepted, i, w, j
  <2>5. /\ b = [master |-> InService(pics.master, i), slave |-> InService(pics.slave, j)]
        /\ SameSetup(InService(pics.slave, j), pics.slave)
        /\ InService(pics.slave, j).isr = {j}
    <3>1. b = [master |-> InService(pics.master, i), slave |-> InService(pics.slave, j)]
      <4>1. b = [[master |-> InService(pics.master, i), slave |-> pics.slave]
                   EXCEPT !.slave = InService(pics.slave, j)]
        BY <1>5
      <4> QED BY <4>1
    <3> QED BY <1>1, <2>2, <3>1, InServiceFields
  <2>6. Programmed(b)
    <3>1. Programmed([master |-> InService(pics.master, i), slave |-> InService(pics.slave, j)])
      BY <1>5, <2>5, StillProgrammed DEF Idle
    <3> QED BY <2>5, <3>1
  <2> HIDE DEF b
  <2>7. b.master.isr = {i} /\ b.slave.isr = {j}
    BY <1>5, <2>5
  <2>8. pics.slave.base + j >= 40
    BY <2>2 DEF Idle, Programmed
  <2>9. Busy(b, pics.slave.base + j)
    BY <1>4, <2>2, <2>6, <2>7, <2>8 DEF Busy
  <2> QED BY <2>4, <2>8, <2>9
<1> QED BY <1>7, <1>8

\* A timer interrupt of a process ends in a process, not in the idle loop.
LEMMA TickGoesOn ==
  ASSUME SchedInv, TickStep
  PROVE  mode' = USER
<1>1. PICK W \in SUBSET Pids : Tick(W)
  BY DEF TickStep
<1>2. cur_process \in Runnable(status)
  BY <1>1 DEF Tick, SchedInv, SchedTypeOK, CpuBelongsToCurrent, Runnable
<1>3. PICK q \in Pids : LoadContext(q)
  BY <1>1, <1>2 DEF Tick, Reschedule
<1> QED BY <1>3 DEF LoadContext

\* c_isr() acknowledges by the vector in the frame it leaves by: its own, or
\* any after a timer interrupt, which is the master's.
LEMMA HandleIdle ==
  ASSUME SchedInv, NEW v, NEW p, Busy(p, v), v = 32 => p.slave.isr = {}, Handle(v, p)
  PROVE  Idle(pics')
<1> DEFINE stack == Entry(cpu, v)
<1>1. IntNo(stack) = v
  BY EntryNamesVector
<1> HIDE DEF stack
<1>2. CASE Leave(stack, p)
  BY <1>1, <1>2, AcknowledgedIdle DEF Leave
<1>3. CASE v = Timer /\ TickStep /\ LeaveSwitched(stack, p)
  <2>1. PICK s : pics' = Acknowledge(p, IntNo(s))
    BY <1>3, TickGoesOn DEF LeaveSwitched, Leave
  <2>2. Busy(p, IntNo(s))
    BY <1>3, PathAssumption DEF Busy
  <2> QED BY <2>1, <2>2, AcknowledgedIdle
<1> QED BY <1>1, <1>2, <1>3 DEF Handle, stack

\* A call finds nothing in service, and whatever its end acknowledges is not.
LEMMA CallIdle ==
  ASSUME Idle(pics), NEW n, pics' = Acknowledge(pics, n)
  PROVE  Idle(pics')
<1>1. Busy(pics, n)
  BY DEF Idle, Busy
<1> QED BY <1>1, AcknowledgedIdle

LEMMA RequestIdle ==
  ASSUME Idle(pics), NEW line \in Lines, Request(line)
  PROVE  Idle(pics')
<1>1. /\ pics = [master |-> pics.master, slave |-> pics.slave]
      /\ pics.master \in Chips /\ pics.slave \in Chips
  <2>1. pics \in [master : Chips, slave : Chips]
    BY DEF Idle, Programmed
  <2> QED BY <2>1
<1>2. line \in 0 .. 15 /\ line # 2
  BY PathAssumption
<1>3. CASE line < 8
  <2> DEFINE m == [pics.master EXCEPT !.irr = pics.master.irr \cup {line}]
  <2>1. SameSetup(m, pics.master) /\ m.isr = pics.master.isr /\ 2 \notin m.irr
    BY <1>1, <1>2, <1>3 DEF SameSetup, Chips, Idle, Programmed
  <2>2. pics' = [pics EXCEPT !.master = m]
    BY <1>3 DEF Request, Requested
  <2> HIDE DEF m
  <2>3. pics' = [master |-> m, slave |-> pics.slave]
    BY <1>1, <2>2
  <2>4. Programmed([master |-> m, slave |-> pics.slave])
    BY <1>1, <2>1, StillProgrammed DEF Idle, SameSetup
  <2> QED BY <2>1, <2>3, <2>4 DEF Idle
<1>4. CASE ~(line < 8)
  <2> DEFINE s == [pics.slave EXCEPT !.irr = pics.slave.irr \cup {line - 8}]
  <2>1. SameSetup(s, pics.slave) /\ s.isr = pics.slave.isr
    BY <1>1, <1>2, <1>4 DEF SameSetup, Chips
  <2>2. pics' = [pics EXCEPT !.slave = s]
    BY <1>4 DEF Request, Requested
  <2> HIDE DEF s
  <2>3. pics' = [master |-> pics.master, slave |-> s]
    BY <1>1, <2>2
  <2>4. Programmed([master |-> pics.master, slave |-> s])
    BY <1>1, <2>1, StillProgrammed DEF Idle, Programmed, SameSetup
  <2> QED BY <2>1, <2>3, <2>4 DEF Idle
<1> QED BY <1>3, <1>4

\* A spurious interrupt of the slave leaves line 2 of the master in service.
LEMMA SpuriousBusy ==
  ASSUME Idle(pics), NEW a \in Spurious(pics)
  PROVE  Busy(a.pics, a.vector) /\ a.vector # 32
<1>1. /\ pics = [master |-> pics.master, slave |-> pics.slave]
      /\ pics.master \in Chips /\ pics.slave \in Chips
      /\ pics.master.base = 32 /\ pics.slave.base = 40
  <2>1. pics \in [master : Chips, slave : Chips]
    BY DEF Idle, Programmed
  <2> QED BY <2>1 DEF Idle, Programmed
<1>2. CASE a = [pics |-> pics, vector |-> pics.master.base + 7]
  BY <1>1, <1>2 DEF Idle, Busy
<1>3. CASE a = [pics |-> [pics EXCEPT !.master = InService(pics.master, 2)],
                vector |-> pics.slave.base + 7]
  <2> DEFINE m == InService(pics.master, 2)
             b == [master |-> m, slave |-> pics.slave]
  <2>1. SameSetup(m, pics.master) /\ m.isr = {2} /\ m.irr = pics.master.irr \ {2}
    BY <1>1, InServiceFields DEF Idle
  <2> HIDE DEF m
  <2>2. a.pics = b
    <3>1. a.pics = [pics EXCEPT !.master = m]
      BY <1>3 DEF m
    <3> QED BY <1>1, <3>1
  <2>3. Programmed(b)
    BY <1>1, <2>1, StillProgrammed DEF Idle, SameSetup
  <2>4. b.master.isr = {2} /\ b.slave.isr = {}
    BY <2>1 DEF Idle
  <2>5. Busy(b, a.vector)
    BY <2>3, <2>4 DEF Busy
  <2>6. a.vector = 47
    BY <1>1, <1>3
  <2> QED BY <2>2, <2>5, <2>6
<1> QED BY <1>2, <1>3 DEF Spurious

LEMMA PathStepIdle ==
  ASSUME SchedInv, Idle(pics), [PathNext]_pathVars
  PROVE  Idle(pics')
<1>1. CASE \E l \in Lines : Request(l)
  BY <1>1, RequestIdle
<1>2. CASE TakeInterrupt
  <2>1. Asserted(pics) /\ Handle(Accepted(pics).vector, Accepted(pics).pics)
    BY <1>2 DEF TakeInterrupt
  <2> QED BY <2>1, AcceptedBusy, HandleIdle
<1>3. CASE TakeSpurious
  <2>1. PICK a \in Spurious(pics) : Handle(a.vector, a.pics)
    BY <1>3 DEF TakeSpurious
  <2> QED BY <2>1, SpuriousBusy, HandleIdle
<1>4. CASE TakeException
  <2>1. PICK v \in Exceptions : Handle(v, pics)
    BY <1>4 DEF TakeException
  <2>2. Busy(pics, v) /\ pics.slave.isr = {}
    BY DEF Busy, Idle
  <2> QED BY <2>1, <2>2, HandleIdle
<1>5. CASE CallReturns
  BY <1>5, CallIdle DEF CallReturns, Leave
<1>6. CASE CallBlocks
  BY <1>6, CallIdle DEF CallBlocks, LeaveSwitched, Leave
<1>7. CASE CallForks
  BY <1>7, CallIdle DEF CallForks, Leave
<1>8. CASE LeaveIdleLoop
  BY <1>8, CallIdle DEF LeaveIdleLoop, Leave
<1>9. CASE UNCHANGED pathVars
  BY <1>9 DEF pathVars
<1> QED BY <1>1, <1>2, <1>3, <1>4, <1>5, <1>6, <1>7, <1>8, <1>9 DEF PathNext

\* Whatever comes in whatever order, between handlers and in the idle loop no
\* controller has an interrupt in service that would hold back others: not
\* when a timer interrupt acknowledges by another process's vector, because
\* the timer is the master's and its handler never ends in the idle loop, and
\* not after a spurious interrupt (interrupt.c:43-47).
THEOREM NothingIsHeldBack == PathSafety => []NothingInService
<1>1. PathInit => PicsIdle
  BY RemappedIdle DEF PathInit, PicsIdle
<1>2. SchedInv /\ PicsIdle /\ [PathNext]_pathVars => PicsIdle'
  BY PathStepIdle DEF PicsIdle
<1>3. PicsIdle => NothingInService
  BY DEF PicsIdle, Idle, NothingInService
<1> QED
  BY <1>1, <1>2, <1>3, PathIsSchedulers, SchedulerInvariant, PTL DEF PathSafety
-----------------------------------------------------------------------------
(* What is pushed and what is popped                                       *)

\* f is a tuple of n words.
IsTuple(f, n) == n \in Nat /\ f = [i \in 1 .. n |-> f[i]]

LEMMA TupleLen == ASSUME NEW n, NEW f, IsTuple(f, n) PROVE Len(f) = n /\ DOMAIN f = 1 .. n
<1>1. n \in Nat /\ DOMAIN f = 1 .. n
  BY DEF IsTuple
<1> QED BY <1>1

JoinOf(h, f, m, g, n) ==
  /\ IsTuple(h, m + n)
  /\ \A i \in 1 .. m : h[i] = f[i]
  /\ \A i \in 1 .. n : h[m + i] = g[i]

LEMMA Joined ==
  ASSUME NEW m, NEW n, NEW f, NEW g, IsTuple(f, m), IsTuple(g, n)
  PROVE  JoinOf(f \o g, f, m, g, n)
<1> DEFINE S == {f[i] : i \in 1 .. m} \cup {g[i] : i \in 1 .. n}
<1>1. f \in [1 .. m -> S] /\ g \in [1 .. n -> S]
  BY DEF IsTuple
<1>2. m \in Nat /\ n \in Nat
  BY DEF IsTuple
<1>3. Len(f) = m /\ Len(g) = n
  BY TupleLen
<1> HIDE DEF S
<1>4. f \in Seq(S) /\ g \in Seq(S)
  BY <1>1, <1>2, SeqDef
<1> DEFINE h == f \o g
<1>5. h \in Seq(S) /\ Len(h) = m + n /\ \A i \in 1 .. m + n : h[i] = IF i <= m THEN f[i] ELSE g[i - m]
  BY <1>3, <1>4, ConcatProperties
<1> HIDE DEF h
<1>6. h \in [1 .. m + n -> S]
  BY <1>5, LenProperties
<1>7. IsTuple(h, m + n)
  BY <1>2, <1>6 DEF IsTuple
<1>8. \A i \in 1 .. m : h[i] = f[i]
  BY <1>2, <1>5
<1>9. ASSUME NEW i \in 1 .. n PROVE h[m + i] = g[i]
  <2>1. m + i \in 1 .. m + n /\ ~(m + i <= m) /\ (m + i) - m = i
    BY <1>2
  <2> QED BY <1>5, <2>1
<1> QED BY <1>7, <1>8, <1>9 DEF h, JoinOf

LEMMA Part ==
  ASSUME NEW n, NEW f, IsTuple(f, n), NEW a \in 1 .. n, NEW b \in a - 1 .. n
  PROVE  /\ IsTuple(SubSeq(f, a, b), b - a + 1)
         /\ \A i \in 1 .. b - a + 1 : SubSeq(f, a, b)[i] = f[a + i - 1]
<1> DEFINE S == {f[i] : i \in 1 .. n}
           h == SubSeq(f, a, b)
<1>1. n \in Nat /\ b - a + 1 \in Nat
  BY DEF IsTuple
<1>2. \A i \in a .. b : f[i] \in S
  BY <1>1
<1> HIDE DEF S
<1>3. h \in Seq(S) /\ Len(h) = (IF a <= b THEN b - a + 1 ELSE 0)
      /\ \A i \in 1 .. b - a + 1 : h[i] = f[a + i - 1]
  BY <1>1, <1>2, SubSeqProperties
<1> HIDE DEF h
<1>4. Len(h) = b - a + 1
  BY <1>1, <1>3
<1>5. h \in [1 .. b - a + 1 -> S]
  BY <1>3, <1>4, LenProperties
<1> QED BY <1>1, <1>3, <1>5 DEF IsTuple, h

\* The names of a frame's words, in numbers.
LEMMA Layout ==
  /\ IsTuple(Saved, 12) /\ IsTuple(Hard, 5) /\ IsTuple(Fields, 19)
  /\ IsTuple(SubSeq(Hard, 1, 3), 3)
  /\ \A i \in 1 .. 3 : SubSeq(Hard, 1, 3)[i] = Hard[i]
<1>1. IsTuple(Saved, 12)
  BY DEF Saved, IsTuple
<1>2. IsTuple(Hard, 5)
  BY DEF Hard, IsTuple
<1>3. IsTuple(<<"int_no", "err_code">>, 2)
  BY DEF IsTuple
<1>4. IsTuple(Saved \o <<"int_no", "err_code">>, 14)
  <2>1. JoinOf(Saved \o <<"int_no", "err_code">>, Saved, 12, <<"int_no", "err_code">>, 2)
    BY <1>1, <1>3, Joined
  <2> QED BY <2>1 DEF JoinOf
<1>5. IsTuple(Fields, 19)
  <2>1. JoinOf((Saved \o <<"int_no", "err_code">>) \o Hard,
               Saved \o <<"int_no", "err_code">>, 14, Hard, 5)
    BY <1>4, <1>2, Joined
  <2> QED BY <2>1 DEF Fields, JoinOf
<1>6. IsTuple(SubSeq(Hard, 1, 3), 3 - 1 + 1) /\ \A i \in 1 .. 3 - 1 + 1 : SubSeq(Hard, 1, 3)[i] = Hard[1 + i - 1]
  BY <1>2, Part
<1> QED BY <1>1, <1>2, <1>5, <1>6

LEMMA Registers ==
  /\ Regs \subseteq ToSet(Saved) \cup ToSet(Hard)
  /\ \A i \in 1 .. 5 : Hard[i] \in Regs
  /\ \A i \in 1 .. 12 : Saved[i] # "esp" => Saved[i] \in Regs
  /\ "esp" \notin Regs /\ "number" \notin Regs /\ "err_code" \notin Regs
<1> DEFINE All == Saved \o Hard
<1>1. /\ DOMAIN All = 1 .. 17
      /\ \A i \in 1 .. 12 : All[i] = Saved[i]
      /\ \A i \in 1 .. 5 : All[12 + i] = Hard[i]
  <2>1. /\ IsTuple(All, 12 + 5)
        /\ \A i \in 1 .. 12 : All[i] = Saved[i]
        /\ \A i \in 1 .. 5 : All[12 + i] = Hard[i]
    <3>1. IsTuple(Saved, 12) /\ IsTuple(Hard, 5)
      BY Layout
    <3>2. JoinOf(Saved \o Hard, Saved, 12, Hard, 5)
      BY <3>1, Joined
    <3> QED BY <3>2 DEF JoinOf
  <2> HIDE DEF All
  <2>2. DOMAIN All = 1 .. 12 + 5
    BY <2>1, TupleLen
  <2> QED BY <2>1, <2>2
<1>2. DOMAIN Saved = 1 .. 12 /\ DOMAIN Hard = 1 .. 5
  BY Layout, TupleLen
<1> HIDE DEF All
<1>3. Regs = {All[i] : i \in 1 .. 17} \ {"esp"}
  BY <1>1 DEF Regs, ToSet, All
<1>4. {All[i] : i \in 1 .. 17} = {Saved[i] : i \in 1 .. 12} \cup {Hard[i] : i \in 1 .. 5}
  <2>1. ASSUME NEW i \in 1 .. 17 PROVE i \in 1 .. 12 \/ \E j \in 1 .. 5 : i = 12 + j
    <3>1. i \in 1 .. 12 \/ (i - 12 \in 1 .. 5 /\ i = 12 + (i - 12))
      OBVIOUS
    <3> QED BY <3>1
  <2>2. \A j \in 1 .. 5 : 12 + j \in 1 .. 17
    OBVIOUS
  <2>3. \A j \in 1 .. 12 : j \in 1 .. 17
    OBVIOUS
  <2> QED BY <1>1, <2>1, <2>2, <2>3
<1>5. ASSUME NEW i \in 1 .. 5 PROVE Hard[i] \notin {"esp", "number", "err_code"}
  BY DEF Hard
<1>6. ASSUME NEW i \in 1 .. 12 PROVE Saved[i] \notin {"number", "err_code"}
  BY DEF Saved
<1> QED BY <1>2, <1>3, <1>4, <1>5, <1>6 DEF ToSet

\* The processor's stack at the entry of c_isr(), word by word: 19 words for
\* a user program whether or not there is an error code, 17 for the kernel.
HardWords(p) == IF p = Kernel THEN 3 ELSE 5

EntryOf(stack, p, v) ==
  /\ IsTuple(stack, 14 + HardWords(p))
  /\ \A i \in 1 .. 12 : stack[i] = IF Saved[i] \in Regs THEN <<p, Saved[i]>> ELSE <<Kernel, Saved[i]>>
  /\ stack[13] = Number(v)
  /\ stack[14] = IF v \in ErrorCodes THEN <<Kernel, "err_code">> ELSE Number(0)
  /\ \A i \in 1 .. HardWords(p) : stack[14 + i] = <<p, Hard[i]>>

WordsOf(w, p, names, n) ==
  /\ IsTuple(w, n)
  /\ \A i \in 1 .. n : w[i] = IF names[i] \in Regs THEN <<p, names[i]>> ELSE <<Kernel, names[i]>>

LEMMA WordsAre ==
  ASSUME NEW p, NEW n, NEW names, IsTuple(names, n)
  PROVE  WordsOf(Words(Program(p), names), p, names, n)
<1>1. n \in Nat /\ DOMAIN names = 1 .. n
  BY TupleLen DEF IsTuple
<1> QED BY <1>1 DEF Words, Program, IsTuple, WordsOf

LEMMA EntryIs ==
  ASSUME NEW p \in Pids \cup {Kernel}, NEW v
  PROVE  EntryOf(Entry(Program(p), v), p, v)
<1> DEFINE names == IF p = Kernel THEN SubSeq(Hard, 1, 3) ELSE Hard
           k == HardWords(p)
           saved == Words(Program(p), Saved)
           hard == Words(Program(p), names)
           code == IF v \in ErrorCodes THEN <<<<Kernel, "err_code">>>> ELSE <<>>
           stub == Stub(v)
           stack == Entry(Program(p), v)
<1>1. Program(p)["cs"][1] = p
  <2>1. "cs" \in Regs
    <3>1. Hard[2] \in Regs
      BY Registers
    <3> QED BY <3>1 DEF Hard
  <2> QED BY <2>1 DEF Program
<1> DEFINE left == saved \o stub
           right == code \o hard
<1>2. stack = left \o right
  BY <1>1 DEF Entry, Interrupted
<1>3. /\ IsTuple(saved, 12)
      /\ \A i \in 1 .. 12 : saved[i] = IF Saved[i] \in Regs THEN <<p, Saved[i]>> ELSE <<Kernel, Saved[i]>>
  <2>1. WordsOf(saved, p, Saved, 12)
    BY Layout, WordsAre
  <2> QED BY <2>1 DEF WordsOf
<1>4. IsTuple(names, k) /\ \A i \in 1 .. k : names[i] = Hard[i]
  BY Layout DEF HardWords
<1>5. IsTuple(hard, k) /\ \A i \in 1 .. k : hard[i] = <<p, Hard[i]>>
  <2>1. \A i \in 1 .. k : names[i] \in Regs
    BY <1>4, Registers DEF HardWords
  <2> HIDE DEF names, k
  <2>2. WordsOf(hard, p, names, k)
    BY <1>4, WordsAre
  <2> QED BY <1>4, <2>1, <2>2 DEF WordsOf
<1> HIDE DEF names, saved, hard, stack
<1>6. k \in {3, 5}
  BY DEF HardWords
<1>7. CASE v \in ErrorCodes
  <2>1. IsTuple(stub, 1) /\ stub[1] = Number(v)
    BY <1>7 DEF Stub, ErrorCodes, IsTuple
  <2>2. IsTuple(code, 1) /\ code[1] = <<Kernel, "err_code">>
    BY <1>7 DEF IsTuple
  <2> HIDE DEF stub, code, k
  <2>3. JoinOf(left, saved, 12, stub, 1)
    BY <1>3, <2>1, Joined
  <2>4. JoinOf(right, code, 1, hard, k)
    BY <1>5, <2>2, Joined
  <2> HIDE DEF left, right
  <2>5. JoinOf(stack, left, 13, right, 1 + k)
    <3>1. IsTuple(left, 13) /\ IsTuple(right, 1 + k)
      BY <2>3, <2>4 DEF JoinOf
    <3> QED BY <1>2, <3>1, Joined
  <2>6. ASSUME NEW i \in 1 .. k PROVE stack[14 + i] = hard[i]
    <3>1. 1 + i \in 1 .. 1 + k /\ 13 + (1 + i) = 14 + i
      BY <1>6
    <3>2. stack[13 + (1 + i)] = right[1 + i]
      BY <2>5, <3>1 DEF JoinOf
    <3>3. right[1 + i] = hard[i]
      BY <2>4 DEF JoinOf
    <3> QED BY <3>1, <3>2, <3>3
  <2>7. stack[14] = code[1]
    <3>1. 1 \in 1 .. 1 + k
      BY <1>6
    <3>2. stack[13 + 1] = right[1]
      BY <2>5, <3>1 DEF JoinOf
    <3>3. right[1] = code[1]
      BY <2>4 DEF JoinOf
    <3> QED BY <3>2, <3>3
  <2>8. stack[13] = stub[1] /\ \A i \in 1 .. 12 : stack[i] = saved[i]
    <3>1. \A i \in 1 .. 13 : stack[i] = left[i]
      BY <2>5 DEF JoinOf
    <3>2. left[12 + 1] = stub[1]
      BY <2>3 DEF JoinOf
    <3>3. \A i \in 1 .. 12 : left[i] = saved[i]
      BY <2>3 DEF JoinOf
    <3> QED BY <3>1, <3>2, <3>3
  <2>9. IsTuple(stack, 14 + k)
    <3>1. 13 + (1 + k) = 14 + k
      BY <1>6
    <3> QED BY <2>5, <3>1 DEF JoinOf
  <2> QED BY <1>3, <1>5, <1>7, <2>1, <2>2, <2>6, <2>7, <2>8, <2>9 DEF EntryOf, k, stack
<1>8. CASE v \notin ErrorCodes
  <2>1. IsTuple(stub, 2) /\ stub[1] = Number(v) /\ stub[2] = Number(0)
    BY <1>8 DEF Stub, ErrorCodes, IsTuple
  <2>2. IsTuple(code, 0)
    BY <1>8 DEF IsTuple
  <2> HIDE DEF stub, code, k
  <2>3. JoinOf(left, saved, 12, stub, 2)
    BY <1>3, <2>1, Joined
  <2>4. JoinOf(right, code, 0, hard, k)
    BY <1>5, <2>2, Joined
  <2> HIDE DEF left, right
  <2>5. JoinOf(stack, left, 14, right, 0 + k)
    <3>1. IsTuple(left, 14) /\ IsTuple(right, 0 + k)
      BY <2>3, <2>4 DEF JoinOf
    <3> QED BY <1>2, <3>1, Joined
  <2>6. ASSUME NEW i \in 1 .. k PROVE stack[14 + i] = hard[i]
    <3>1. i \in 1 .. 0 + k /\ 0 + i = i
      BY <1>6
    <3>2. stack[14 + i] = right[i]
      BY <2>5, <3>1 DEF JoinOf
    <3>3. right[0 + i] = hard[i]
      BY <2>4 DEF JoinOf
    <3> QED BY <3>1, <3>2, <3>3
  <2>7. /\ stack[13] = stub[1] /\ stack[14] = stub[2]
        /\ \A i \in 1 .. 12 : stack[i] = saved[i]
    <3>1. \A i \in 1 .. 14 : stack[i] = left[i]
      BY <2>5 DEF JoinOf
    <3>2. left[12 + 1] = stub[1] /\ left[12 + 2] = stub[2]
      BY <2>3 DEF JoinOf
    <3>3. \A i \in 1 .. 12 : left[i] = saved[i]
      BY <2>3 DEF JoinOf
    <3> QED BY <3>1, <3>2, <3>3
  <2>8. IsTuple(stack, 14 + k)
    <3>1. 14 + (0 + k) = 14 + k
      BY <1>6
    <3> QED BY <2>5, <3>1 DEF JoinOf
  <2> QED BY <1>3, <1>5, <1>8, <2>1, <2>6, <2>7, <2>8 DEF EntryOf, k, stack
<1> QED BY <1>7, <1>8

\* A stack is determined by what EntryOf() says of it.
LEMMA EntryUnique ==
  ASSUME NEW p, NEW v, NEW s, NEW t, EntryOf(s, p, v), EntryOf(t, p, v)
  PROVE  s = t
<1> DEFINE k == HardWords(p)
<1>1. k \in {3, 5}
  BY DEF HardWords
<1>2. /\ s = [i \in 1 .. 14 + k |-> s[i]]
      /\ t = [i \in 1 .. 14 + k |-> t[i]]
  BY DEF EntryOf, IsTuple
<1> HIDE DEF k
<1>3. ASSUME NEW i \in 1 .. 14 + k PROVE s[i] = t[i]
  <2>1. CASE i \in 1 .. 12
    BY <2>1 DEF EntryOf
  <2>2. CASE i = 13 \/ i = 14
    BY <2>2 DEF EntryOf
  <2>3. CASE i > 14
    <3>1. i - 14 \in 1 .. k /\ 14 + (i - 14) = i
      BY <1>1, <2>3
    <3>2. \A j \in 1 .. k : s[14 + j] = t[14 + j]
      BY DEF EntryOf, k
    <3> QED BY <3>1, <3>2
  <2> QED BY <1>1, <2>1, <2>2, <2>3
<1> QED BY <1>2, <1>3

\* What the entry pushes the way out pops, into the registers it came from.
LEMMA ReturnIs ==
  ASSUME NEW p \in Pids \cup {Kernel}, NEW v, NEW stack, EntryOf(stack, p, v)
  PROVE  Return(stack) = Program(p)
<1> DEFINE k == HardWords(p)
           hard == SubSeq(stack, Len(Saved) + 3, Len(stack))
           names == IF hard[2][1] = Kernel THEN SubSeq(Hard, 1, 3) ELSE Hard
           Popped(r, ns, s) == s[CHOOSE i \in DOMAIN ns : ns[i] = r]
<1>1. k \in {3, 5} /\ (k = 3 <=> p = Kernel)
  BY DEF HardWords
<1>2. Len(stack) = 14 + k /\ Len(Saved) = 12
  BY Layout, TupleLen DEF EntryOf
<1>3. \A i \in 1 .. k : hard[i] = <<p, Hard[i]>>
  <2>1. IsTuple(stack, 14 + k)
    BY DEF EntryOf
  <2>2. \A i \in 1 .. k : stack[14 + i] = <<p, Hard[i]>>
    BY DEF EntryOf
  <2> HIDE DEF k
  <2>3. 15 \in 1 .. 14 + k /\ 14 + k \in 15 - 1 .. 14 + k
    BY <1>1
  <2>4. \A i \in 1 .. (14 + k) - 15 + 1 : SubSeq(stack, 15, 14 + k)[i] = stack[15 + i - 1]
    BY <2>1, <2>3, Part
  <2>5. hard = SubSeq(stack, 15, 14 + k)
    BY <1>2
  <2> HIDE DEF hard
  <2>6. ASSUME NEW i \in 1 .. k PROVE hard[i] = stack[14 + i]
    <3>1. i \in 1 .. (14 + k) - 15 + 1 /\ 15 + i - 1 = 14 + i
      BY <1>1
    <3> QED BY <2>4, <2>5, <3>1
  <2> QED BY <2>2, <2>6
<1>4. IsTuple(names, k) /\ \A i \in 1 .. k : names[i] = Hard[i]
  <2>1. hard[2] = <<p, Hard[2]>>
    <3>1. 2 \in 1 .. k
      BY <1>1
    <3> HIDE DEF hard, k
    <3> QED BY <1>3, <3>1
  <2>2. hard[2][1] = p
    <3> HIDE DEF hard
    <3>1. <<p, Hard[2]>>[1] = p
      OBVIOUS
    <3> QED BY <2>1, <3>1
  <2>3. CASE p = Kernel
    BY <1>1, <2>2, <2>3, Layout
  <2>4. CASE p # Kernel
    BY <1>1, <2>2, <2>4, Layout
  <2> QED BY <2>3, <2>4
<1>5. DOMAIN names = 1 .. k /\ DOMAIN Saved = 1 .. 12
  BY <1>4, Layout, TupleLen
<1>6. Return(stack) =
        [r \in Regs |-> IF r \in ToSet(Saved) THEN Popped(r, Saved, stack)
                        ELSE IF r \in ToSet(names) THEN Popped(r, names, hard)
                        ELSE <<Kernel, r>>]
  BY DEF Return
<1> HIDE DEF hard, names, k
<1>7. ASSUME NEW r \in Regs, r \in ToSet(Saved) PROVE Popped(r, Saved, stack) = <<p, r>>
  <2> DEFINE i == CHOOSE i \in DOMAIN Saved : Saved[i] = r
  <2>1. i \in 1 .. 12 /\ Saved[i] = r
    BY <1>5, <1>7 DEF ToSet
  <2> HIDE DEF i
  <2>2. stack[i] = <<p, r>>
    BY <2>1 DEF EntryOf
  <2> QED BY <2>2 DEF i
<1>8. ASSUME NEW r \in Regs, r \in ToSet(names) PROVE Popped(r, names, hard) = <<p, r>>
  <2> DEFINE i == CHOOSE i \in DOMAIN names : names[i] = r
  <2>1. i \in 1 .. k /\ names[i] = r
    BY <1>5, <1>8 DEF ToSet
  <2> HIDE DEF i
  <2>2. hard[i] = <<p, r>>
    BY <1>3, <1>4, <2>1
  <2> QED BY <2>2 DEF i
<1>9. ASSUME NEW r \in Regs, r \notin ToSet(Saved), r \notin ToSet(names) PROVE p = Kernel
  <2>1. SUFFICES ASSUME k = 5 PROVE FALSE
    BY <1>1
  <2>2. PICK i \in 1 .. 5 : Hard[i] = r
    <3>1. DOMAIN Hard = 1 .. 5
      BY Layout, TupleLen
    <3> QED BY <1>9, <3>1, Registers DEF ToSet
  <2>3. names[i] = r /\ i \in DOMAIN names
    BY <1>4, <1>5, <2>1, <2>2
  <2> QED BY <1>9, <2>3 DEF ToSet
<1> HIDE DEF Popped
<1> QED BY <1>6, <1>7, <1>8, <1>9 DEF Program

\* A program's frame is the 19 words that schedule() copies, no more and no less.
LEMMA CopyOutIs ==
  ASSUME NEW p \in Pids, NEW v, NEW stack, EntryOf(stack, p, v)
  PROVE  CopyOut(stack) = stack
<1> DEFINE above == <<<<Kernel, "above">>>>
           more == stack \o above
           h == SubSeq(more, 1, 19)
<1>1. IsTuple(stack, 19)
  <2>1. p # Kernel
    BY NAssumption DEF Pids, Kernel
  <2> QED BY <2>1 DEF EntryOf, HardWords
<1>2. IsTuple(above, 1)
  BY DEF IsTuple
<1> HIDE DEF above
<1>3. JoinOf(more, stack, 19, above, 1)
  BY <1>1, <1>2, Joined
<1> HIDE DEF more
<1>4. IsTuple(more, 20) /\ \A i \in 1 .. 19 : more[i] = stack[i]
  BY <1>3 DEF JoinOf
<1>5. IsTuple(h, 19 - 1 + 1) /\ \A i \in 1 .. 19 - 1 + 1 : h[i] = more[1 + i - 1]
  BY <1>4, Part
<1>6. CopyOut(stack) = h
  <2>1. Len(Fields) = 19
    BY Layout, TupleLen
  <2> QED BY <2>1 DEF CopyOut, more, above
<1> HIDE DEF h
<1>7. IsTuple(h, 19) /\ \A i \in 1 .. 19 : h[i] = stack[i]
  BY <1>4, <1>5
<1> QED BY <1>1, <1>6, <1>7 DEF IsTuple

\* A frame copied over the stack of another program replaces all of it.
LEMMA CopyInIs ==
  ASSUME NEW p \in Pids, NEW v, NEW stack, EntryOf(stack, p, v),
         NEW q \in Pids, NEW w, NEW frame, EntryOf(frame, q, w)
  PROVE  CopyIn(stack, frame) = frame
<1> DEFINE rest == SubSeq(stack, 20, 19)
           h == frame \o rest
<1>1. IsTuple(stack, 19) /\ IsTuple(frame, 19)
  <2>1. p # Kernel /\ q # Kernel
    BY NAssumption DEF Pids, Kernel
  <2> QED BY <2>1 DEF EntryOf, HardWords
<1>2. CopyIn(stack, frame) = h
  <2>1. Len(Fields) = 19 /\ Len(stack) = 19
    BY <1>1, Layout, TupleLen
  <2> QED BY <2>1 DEF CopyIn
<1>3. rest = <<>>
  BY SubSeqEmpty
<1>4. IsTuple(rest, 0)
  BY <1>3 DEF IsTuple
<1> HIDE DEF rest
<1>5. JoinOf(h, frame, 19, rest, 0)
  BY <1>1, <1>4, Joined
<1> HIDE DEF h
<1>6. IsTuple(h, 19) /\ \A i \in 1 .. 19 : h[i] = frame[i]
  BY <1>5 DEF JoinOf
<1> QED BY <1>1, <1>2, <1>6 DEF IsTuple

LEMMA RoundTrip ==
  ASSUME NEW p \in Pids, NEW v, NEW q \in Pids, NEW w
  PROVE  /\ Return(CopyOut(Entry(Program(p), v))) = Program(p)
         /\ CopyIn(Entry(Program(q), w), CopyOut(Entry(Program(p), v))) = CopyOut(Entry(Program(p), v))
<1> DEFINE s == Entry(Program(p), v)
           t == Entry(Program(q), w)
<1>1. EntryOf(s, p, v) /\ EntryOf(t, q, w)
  BY EntryIs
<1> HIDE DEF s, t
<1>2. CopyOut(s) = s
  BY <1>1, CopyOutIs
<1>3. Return(s) = Program(p) /\ CopyIn(t, s) = s
  BY <1>1, ReturnIs, CopyInIs
<1> QED BY <1>2, <1>3 DEF s, t

LEMMA ComesBack ==
  ASSUME NEW p \in Pids \cup {Kernel}, NEW v
  PROVE  Return(Entry(Program(p), v)) = Program(p)
BY EntryIs, ReturnIs

\* fork() writes the caller's stack as the child's frame.
LEMMA ChildsFrame ==
  ASSUME NEW p \in Pids, NEW q \in Pids, NEW v
  PROVE  LET stack == CopyOut(Entry(Program(p), v))
             Own(w) == IF w[1] = p /\ w[2] \in Regs THEN <<q, w[2]>> ELSE w
         IN  [i \in DOMAIN Fields |-> Own(stack[i])] = CopyOut(Entry(Program(q), v))
<1> DEFINE stack == CopyOut(Entry(Program(p), v))
           Own(w) == IF w[1] = p /\ w[2] \in Regs THEN <<q, w[2]>> ELSE w
           frame == [i \in DOMAIN Fields |-> Own(stack[i])]
           child == CopyOut(Entry(Program(q), v))
<1>1. p # Kernel /\ q # Kernel
  BY NAssumption DEF Pids, Kernel
<1>2. EntryOf(stack, p, v) /\ EntryOf(child, q, v)
  BY EntryIs, CopyOutIs
<1>3. DOMAIN Fields = 1 .. 19
  BY Layout, TupleLen
<1> HIDE DEF stack, child
<1>4. IsTuple(frame, 19) /\ \A i \in 1 .. 19 : frame[i] = Own(stack[i])
  BY <1>3 DEF IsTuple
<1> HIDE DEF frame
<1>5. ASSUME NEW n, NEW x \in Regs PROVE Own(<<p, x>>) = <<q, x>>
  OBVIOUS
<1>6. ASSUME NEW n, NEW x, x \notin Regs PROVE Own(<<n, x>>) = <<n, x>>
  BY <1>6
<1> HIDE DEF Own
<1>7. EntryOf(frame, q, v)
  <2>1. IsTuple(frame, 14 + HardWords(q))
    BY <1>1, <1>4 DEF HardWords
  <2>2. ASSUME NEW i \in 1 .. 12
        PROVE  frame[i] = IF Saved[i] \in Regs THEN <<q, Saved[i]>> ELSE <<Kernel, Saved[i]>>
    <3>1. frame[i] = Own(stack[i])
      BY <1>4
    <3>2. stack[i] = IF Saved[i] \in Regs THEN <<p, Saved[i]>> ELSE <<Kernel, Saved[i]>>
      BY <1>2 DEF EntryOf
    <3> QED BY <1>5, <1>6, <3>1, <3>2
  <2>3. frame[13] = Number(v)
    <3>1. frame[13] = Own(stack[13]) /\ stack[13] = <<v, "number">>
      BY <1>2, <1>4 DEF EntryOf, Number
    <3> QED BY <1>6, <3>1, Registers DEF Number
  <2>4. frame[14] = IF v \in ErrorCodes THEN <<Kernel, "err_code">> ELSE Number(0)
    <3>1. /\ frame[14] = Own(stack[14])
          /\ stack[14] = IF v \in ErrorCodes THEN <<Kernel, "err_code">> ELSE <<0, "number">>
      BY <1>2, <1>4 DEF EntryOf, Number
    <3> QED BY <1>6, <3>1, Registers DEF Number
  <2>5. ASSUME NEW i \in 1 .. HardWords(q) PROVE frame[14 + i] = <<q, Hard[i]>>
    <3>1. i \in 1 .. 5 /\ i \in 1 .. HardWords(p)
      BY <1>1 DEF HardWords
    <3>2. frame[14 + i] = Own(stack[14 + i])
      BY <1>4, <3>1
    <3>3. stack[14 + i] = <<p, Hard[i]>>
      BY <1>2, <3>1 DEF EntryOf
    <3> QED BY <1>5, <3>1, <3>2, <3>3, Registers
  <2> QED BY <2>1, <2>2, <2>3, <2>4, <2>5 DEF EntryOf
<1>8. frame = child
  BY <1>2, <1>7, EntryUnique
<1> QED BY <1>8 DEF frame, Own, stack, child

-----------------------------------------------------------------------------
(* Frames stay whole                                                       *)

\* The inductive invariant, together with the scheduler's.
PathWhole == FramesAreWhole /\ DOMAIN frames = Pids

\* What a process that exists is to find in its frame.
FrameOf(p) == CopyOut(Entry(Program(p), registers[p].int_no))

LEMMA WholeFrame ==
  ASSUME SchedInv, PathWhole, NEW p \in Pids, status[p] # NONE
  PROVE  frames[p] = FrameOf(p)
BY DEF PathWhole, FramesAreWhole, FrameOf, SchedInv, ContextsAreOwn

\* A step is right when the processor has the program that is live, and the
\* frames are those of the contexts that are saved.
LEMMA WholeNext ==
  ASSUME SchedInv', cpu' = Program(live'), DOMAIN frames' = Pids,
         \A p \in Pids : status'[p] # NONE => frames'[p] = FrameOf(p)'
  PROVE  PathWhole'
BY DEF PathWhole, FramesAreWhole, FrameOf, SchedInv, ContextsAreOwn

\* No frame is touched when no context is.
LEMMA SameFrames ==
  ASSUME SchedInv, PathWhole, UNCHANGED <<frames, registers>>,
         \A p \in Pids : status'[p] # NONE => status[p] # NONE
  PROVE  /\ DOMAIN frames' = Pids
         /\ \A p \in Pids : status'[p] # NONE => frames'[p] = FrameOf(p)'
BY WholeFrame DEF PathWhole, FrameOf

LEMMA WokenExist ==
  ASSUME SchedInv, NEW W, W \subseteq Waiting(status), status' = Wake(status, W)
  PROVE  \A p \in Pids : status'[p] # NONE => status[p] # NONE
BY WakeType DEF SchedInv, SchedTypeOK

\* A handler that leaves by the frame it was entered with gives the registers
\* back to whom it interrupted, a process or the idle loop.
LEMMA GoesOnWhole ==
  ASSUME SchedInv, PathWhole, SchedInv', NEW v, NEW p,
         \E n : ServeStep(n) \/ InterruptStep(n), Leave(Entry(cpu, v), p), UNCHANGED frames
  PROVE  PathWhole'
<1>1. UNCHANGED <<registers, live>> /\ \E W : W \subseteq Waiting(status) /\ status' = Wake(status, W)
  BY DEF ServeStep, Serve, InterruptStep, Interrupt
<1>2. cpu' = Program(live')
  <2>1. cpu = Program(live) /\ live \in Pids \cup {Kernel}
    BY DEF PathWhole, FramesAreWhole, SchedInv, SchedTypeOK
  <2> QED BY <1>1, <2>1, ComesBack DEF Leave
<1> QED BY <1>1, <1>2, WokenExist, SameFrames, WholeNext

\* schedule() saves all of the interrupted program and loads all of the next
\* one, or leaves the kernel in its idle loop.
LEMMA SwitchedWhole ==
  ASSUME SchedInv, PathWhole, SchedInv', mode = USER, NEW v, NEW p,
         SaveContext(v), LeaveSwitched(Entry(cpu, v), p),
         \A q \in Pids : status'[q] # NONE => status[q] # NONE,
         mode' # USER => live' = Kernel
  PROVE  PathWhole'
<1>1. /\ cur_process \in Pids /\ live = cur_process /\ cpu = Program(cur_process)
      /\ DOMAIN frames = Pids /\ DOMAIN registers = Pids
  BY DEF SchedInv, SchedTypeOK, CpuBelongsToCurrent, PathWhole, FramesAreWhole
<1>2. /\ registers' = [registers EXCEPT ![cur_process] = Frame(cur_process, v)]
      /\ frames' = [frames EXCEPT ![cur_process] = CopyOut(Entry(Program(cur_process), v))]
  BY <1>1 DEF SaveContext, LeaveSwitched
<1>3. DOMAIN frames' = Pids
  BY <1>1, <1>2
<1>4. ASSUME NEW q \in Pids, status'[q] # NONE PROVE frames'[q] = FrameOf(q)'
  <2>1. CASE q = cur_process
    <3>1. registers'[q].int_no = v
      BY <1>1, <1>2, <2>1 DEF Frame
    <3>2. frames'[q] = CopyOut(Entry(Program(q), v))
      BY <1>1, <1>2, <2>1
    <3> QED BY <3>1, <3>2 DEF FrameOf
  <2>2. CASE q # cur_process
    <3>1. frames'[q] = frames[q] /\ registers'[q] = registers[q]
      BY <1>1, <1>2, <2>2
    <3>2. frames[q] = FrameOf(q)
      BY <1>4, WholeFrame
    <3> QED BY <3>1, <3>2 DEF FrameOf
  <2> QED BY <2>1, <2>2
<1>5. cpu' = Program(live')
  <2>1. CASE mode' = USER
    <3>1. PICK q : q = cur_process'
      OBVIOUS
    <3>2. q \in Pids /\ status'[q] = RUNNING /\ live' = q
      BY <2>1, <3>1 DEF SchedInv, SchedTypeOK, CpuBelongsToCurrent
    <3>3. PICK n : n = registers'[q].int_no
      OBVIOUS
    <3>4. frames'[q] = CopyOut(Entry(Program(q), n))
      BY <1>4, <3>2, <3>3 DEF FrameOf, RUNNING, NONE
    <3>5. cpu' = Return(CopyIn(Entry(Program(cur_process), v), frames'[q]))
      BY <1>1, <2>1, <3>1 DEF LeaveSwitched, Leave
    <3>6. cpu' = Program(q)
      BY <1>1, <3>2, <3>4, <3>5, RoundTrip
    <3> QED BY <3>2, <3>6
  <2>2. CASE mode' # USER
    BY <2>2 DEF LeaveSwitched
  <2> QED BY <2>1, <2>2
<1> QED BY <1>3, <1>4, <1>5, WholeNext

\* The walk of schedule() leaves the idle loop only to load a context.
LEMMA IdleIsKernels ==
  ASSUME NEW st, Reschedule(st), mode' # USER
  PROVE  live' = Kernel
BY DEF Reschedule, Halt, LoadContext

LEMMA HandleWhole ==
  ASSUME SchedInv, PathWhole, SchedInv', NEW v, NEW p, Handle(v, p)
  PROVE  PathWhole'
<1>1. IntNo(Entry(cpu, v)) = v
  BY EntryNamesVector
<1>2. CASE v = Timer /\ TickStep /\ LeaveSwitched(Entry(cpu, v), p)
  <2>1. PICK W \in SUBSET Pids : Tick(W)
    BY <1>2 DEF TickStep
  <2>2. mode = USER /\ SaveContext(v)
    BY <1>2, <2>1 DEF Tick
  <2>3. mode' # USER => live' = Kernel
    BY <2>1, IdleIsKernels DEF Tick
  <2>4. \A q \in Pids : status'[q] # NONE => status[q] # NONE
    BY <2>1, WokenExist DEF Tick
  <2> QED BY <1>2, <2>2, <2>3, <2>4, SwitchedWhole
<1>3. CASE (ServeStep(v) \/ InterruptStep(v)) /\ Leave(Entry(cpu, v), p) /\ UNCHANGED frames
  BY <1>3, GoesOnWhole
<1> QED BY <1>1, <1>2, <1>3 DEF Handle

LEMMA BlocksWhole ==
  ASSUME SchedInv, PathWhole, SchedInv', CallBlocks
  PROVE  PathWhole'
<1>1. PICK W \in SUBSET Pids : Block(W)
  BY DEF CallBlocks, BlockStep
<1> DEFINE st == [status EXCEPT ![cur_process] = WAITING]
<1>2. mode = USER /\ SaveContext(Syscall) /\ Reschedule(st)
  BY <1>1 DEF Block
<1>3. mode' # USER => live' = Kernel
  BY <1>2, IdleIsKernels
<1>4. \A q \in Pids : status'[q] # NONE => status[q] # NONE
  <2>1. \A q \in Pids : st[q] # NONE => status[q] # NONE
    BY <1>2 DEF SchedInv, SchedTypeOK, CpuBelongsToCurrent, RUNNING, NONE
  <2>2. st \in [Pids -> {RUNNING, WAITING, NONE}] /\ W \subseteq Waiting(st) /\ status' = Wake(st, W)
    BY <1>1 DEF Block, SchedInv, SchedTypeOK, Waiting
  <2> HIDE DEF st
  <2> QED BY <2>1, <2>2, WakeType
<1> QED BY <1>2, <1>3, <1>4, SwitchedWhole DEF CallBlocks

\* The child's frame is its own program's, at the call; the caller goes on.
LEMMA ForksWhole ==
  ASSUME SchedInv, PathWhole, SchedInv', CallForks
  PROVE  PathWhole'
<1>1. PICK W \in SUBSET Pids : Fork(W)
  BY DEF CallForks, ForkStep
<1>2. PICK child : child = next_avail_pid
  OBVIOUS
<1>3. /\ child \in Pids /\ status[child] = NONE /\ UNCHANGED live
      /\ cur_process \in Pids /\ live = cur_process /\ cpu = Program(cur_process)
      /\ DOMAIN frames = Pids /\ DOMAIN registers = Pids
  BY <1>1, <1>2 DEF Fork, SchedInv, SchedTypeOK, CpuBelongsToCurrent, PathWhole, FramesAreWhole
<1>4. registers' = [registers EXCEPT ![child] = Frame(child, Syscall)]
  BY <1>1, <1>2 DEF Fork
<1>5. frames' = [frames EXCEPT ![child] = CopyOut(Entry(Program(child), Syscall))]
  <2> DEFINE stack == CopyOut(Entry(Program(cur_process), Syscall))
             Own(w) == IF w[1] = cur_process /\ w[2] \in Regs THEN <<child, w[2]>> ELSE w
             copy == [i \in DOMAIN Fields |-> Own(stack[i])]
  <2>1. frames' = [frames EXCEPT ![child] = copy]
    BY <1>2, <1>3 DEF CallForks
  <2>2. copy = CopyOut(Entry(Program(child), Syscall))
    BY <1>3, ChildsFrame
  <2> HIDE DEF copy
  <2> QED BY <2>1, <2>2
<1>6. DOMAIN frames' = Pids
  BY <1>3, <1>5
<1>7. ASSUME NEW q \in Pids, status'[q] # NONE PROVE frames'[q] = FrameOf(q)'
  <2>1. CASE q = child
    <3>1. registers'[q].int_no = Syscall
      BY <1>3, <1>4, <2>1 DEF Frame
    <3>2. frames'[q] = CopyOut(Entry(Program(q), Syscall))
      BY <1>3, <1>5, <2>1
    <3> QED BY <3>1, <3>2 DEF FrameOf
  <2>2. CASE q # child
    <3>1. frames'[q] = frames[q] /\ registers'[q] = registers[q]
      BY <1>3, <1>4, <1>5, <2>2
    <3>2. status[q] # NONE
      BY <1>1, <1>2, <1>7, <2>2
      DEF Fork, Wake, Waiting, SchedInv, SchedTypeOK, WAITING, NONE
    <3>3. frames[q] = FrameOf(q)
      BY <3>2, WholeFrame
    <3> QED BY <3>1, <3>3 DEF FrameOf
  <2> QED BY <2>1, <2>2
<1>8. cpu' = Program(live')
  <2>1. cpu' = Return(Entry(Program(cur_process), Syscall))
    BY <1>3 DEF CallForks, Leave
  <2> QED BY <1>3, <2>1, ComesBack
<1> QED BY <1>6, <1>7, <1>8, WholeNext

LEMMA IdleLoopWhole ==
  ASSUME SchedInv, PathWhole, SchedInv', LeaveIdleLoop
  PROVE  PathWhole'
<1>1. PICK W \in SUBSET Pids : Cli(W)
  BY DEF LeaveIdleLoop, CliStep
<1>2. W \subseteq Waiting(status) /\ status' = Wake(status, W)
  BY <1>1 DEF Cli, Waiting
<1>3. UNCHANGED <<frames, registers>>
  BY <1>1 DEF Cli, LeaveIdleLoop
<1>4. /\ DOMAIN frames' = Pids
      /\ \A p \in Pids : status'[p] # NONE => frames'[p] = FrameOf(p)'
  BY <1>2, <1>3, WokenExist, SameFrames
<1>5. cpu' = Program(live')
  <2>1. CASE mode' = USER
    <3>1. PICK q : q = cur_process'
      OBVIOUS
    <3>2. q \in Pids /\ status'[q] = RUNNING /\ live' = q
      BY <2>1, <3>1 DEF SchedInv, SchedTypeOK, CpuBelongsToCurrent
    <3>3. PICK n : n = registers'[q].int_no
      OBVIOUS
    <3>4. frames'[q] = CopyOut(Entry(Program(q), n))
      BY <1>4, <3>2, <3>3 DEF FrameOf, RUNNING, NONE
    <3>5. cpu' = Return(frames'[q])
      BY <1>3, <2>1, <3>1 DEF LeaveIdleLoop, Leave
    <3> QED BY <3>2, <3>4, <3>5, RoundTrip
  <2>2. CASE mode' # USER
    <3>1. live' = Kernel
      BY <1>1, <2>2 DEF Cli, Halt, LoadContext
    <3> QED BY <2>2, <3>1 DEF LeaveIdleLoop
  <2> QED BY <2>1, <2>2
<1> QED BY <1>4, <1>5, WholeNext

LEMMA PathStepWhole ==
  ASSUME SchedInv, PathWhole, SchedInv', [PathNext]_pathVars
  PROVE  PathWhole'
<1>1. CASE \E l \in Lines : Request(l)
  BY <1>1 DEF Request, PathWhole, FramesAreWhole, schedVars
<1>2. CASE TakeInterrupt \/ TakeSpurious \/ TakeException
  BY <1>2, HandleWhole DEF TakeInterrupt, TakeSpurious, TakeException
<1>3. CASE CallReturns
  BY <1>3, GoesOnWhole DEF CallReturns
<1>4. CASE CallBlocks
  BY <1>4, BlocksWhole
<1>5. CASE CallForks
  BY <1>5, ForksWhole
<1>6. CASE LeaveIdleLoop
  BY <1>6, IdleLoopWhole
<1>7. CASE UNCHANGED pathVars
  BY <1>7 DEF pathVars, PathWhole, FramesAreWhole, schedVars
<1> QED BY <1>1, <1>2, <1>3, <1>4, <1>5, <1>6, <1>7 DEF PathNext

\* Every program gets back each register as it left it and every saved frame
\* is the whole of one program, whichever vector it went in by, with an error
\* code of the processor's or of the stub's, and whichever way out it came:
\* its own handler's, schedule()'s, the idle loop's or fork()'s
\* (asm_interrupts.s:52-277, process.c:147-168).
THEOREM FramesStayWhole == PathSafety => []FramesAreWhole
<1>1. PathInit => PathWhole
  <2> SUFFICES ASSUME PathInit PROVE PathWhole
    OBVIOUS
  <2>1. PICK v \in FreshVectors : registers = [p \in Pids |-> Frame(p, v)]
    BY DEF PathInit, SchedInit
  <2>2. frames = [p \in Pids |-> CopyOut(Entry(Program(p), registers[p].int_no))]
    BY DEF PathInit
  <2>3. ASSUME NEW p \in Pids PROVE frames[p] = CopyOut(Entry(Program(registers[p].owner), registers[p].int_no))
    <3>1. registers[p].owner = p
      BY <2>1 DEF Frame
    <3> QED BY <2>2, <3>1
  <2>4. 1 \in Pids /\ live = 1
    BY NAssumption DEF Pids, PathInit, SchedInit
  <2>5. cpu = Program(live)
    <3>1. cpu = Return(CopyOut(Entry(Program(1), registers[1].int_no)))
      BY <2>2, <2>4 DEF PathInit
    <3> QED BY <2>4, <3>1, RoundTrip
  <2> QED BY <2>2, <2>3, <2>5 DEF PathWhole, FramesAreWhole
<1>2. SchedInv /\ PathWhole /\ SchedInv' /\ [PathNext]_pathVars => PathWhole'
  BY PathStepWhole
<1>3. PathWhole => FramesAreWhole
  BY DEF PathWhole
<1> QED
  BY <1>1, <1>2, <1>3, PathIsSchedulers, SchedulerInvariant, PTL DEF PathSafety
=============================================================================
