---------------------------- MODULE InterruptPath ----------------------------
(***************************************************************************)
(* The way of an interrupt through the kernel, below module Sched: from    *)
(* the controllers through the entry stub on to the stack, to c_isr(), and *)
(* back to a program (i386/asm_interrupts.s, i386/interrupt.c, the copies  *)
(* of register frames in common/process.c).  A word is the pair of whose   *)
(* program it belongs to and the register it belongs in.                   *)
(***************************************************************************)
EXTENDS Sched, Pic, SequencesExt

CONSTANTS
  Lines,      \* the lines of the controllers that have a device; 0 has the timer
  Exceptions  \* the exceptions that programs cause

ASSUME PathAssumption ==
  /\ Timer = 32 /\ Syscall = 128
  /\ 0 \in Lines /\ Lines \subseteq 0 .. 15 \ {2}
  /\ Exceptions \subseteq Devices \cap 0 .. 31
  /\ {32 + l : l \in Lines} \cup {39, 47} \subseteq Devices \cup {Timer}

VARIABLES
  pics,
  cpu,     \* the registers of the processor, outside of handlers
  frames   \* context_t.registers, word by word

pathVars == <<schedVars, pics, cpu, frames>>

-----------------------------------------------------------------------------
\* initialize_idt(): all are interrupt gates, which turn interrupts off.
Gates == 0 .. 47 \cup {128}

\* isr_regs, from the top of the stack down: what int_hand pushes, what the
\* stub pushes, and what the processor pushes.
Saved == <<"gs", "fs", "es", "ds", "edi", "esi", "ebp", "esp", "ebx", "edx", "ecx", "eax">>
Hard == <<"eip", "cs", "eflags", "useresp", "ss">>
Fields == Saved \o <<"int_no", "err_code">> \o Hard

Regs == ToSet(Saved \o Hard) \ {"esp"}

Program(p) == [r \in Regs |-> <<p, r>>]
Number(n) == <<n, "number">>

IntNo(stack) == stack[Len(Saved) + 1][1]

Words(regs, names) ==
  [i \in DOMAIN names |-> IF names[i] \in Regs THEN regs[names[i]] ELSE <<Kernel, names[i]>>]

\* The processor's part: the stack of a user program is saved, that of the
\* kernel is stayed on; some exceptions come with an error code.
ErrorCodes == {8, 10, 11, 12, 13, 14, 17}

Interrupted(regs, v) ==
  (IF v \in ErrorCodes THEN <<<<Kernel, "err_code">>>> ELSE <<>>)
    \o Words(regs, IF regs["cs"][1] = Kernel THEN SubSeq(Hard, 1, 3) ELSE Hard)

\* A slip in the next one: an error code is pushed for every vector.
StubAlike(v) == <<Number(v), Number(0)>>

\* intr00 to intr47 and intx80
Stub(v) ==
  IF v \in {8, 10, 11, 12, 13, 14, 17} THEN <<Number(v)>> ELSE <<Number(v), Number(0)>>

\* int_hand: pusha and the segment registers
Entry(regs, v) == Words(regs, Saved) \o Stub(v) \o Interrupted(regs, v)

\* schedule_inject: the registers are popped, two words dropped, and iret
\* pops the stack pointer too when it goes back to a user program.
Return(stack) ==
  LET hard == SubSeq(stack, Len(Saved) + 3, Len(stack))
      names == IF hard[2][1] = Kernel THEN SubSeq(Hard, 1, 3) ELSE Hard
      Popped(r, ns, s) == s[CHOOSE i \in DOMAIN ns : ns[i] = r]
  IN  [r \in Regs |-> IF r \in ToSet(Saved) THEN Popped(r, Saved, stack)
                      ELSE IF r \in ToSet(names) THEN Popped(r, names, hard)
                      ELSE <<Kernel, r>>]

\* schedule() copies sizeof(isr_regs) bytes from the frame, and back.
CopyOut(stack) == SubSeq(stack \o <<<<Kernel, "above">>>>, 1, Len(Fields))
CopyIn(stack, frame) == frame \o SubSeq(stack, Len(Fields) + 1, Len(stack))

-----------------------------------------------------------------------------
\* create_process() sets some of the registers; the program is whatever it
\* finds in the others.  The controllers come from the BIOS in any state, and
\* devices may have pulled their lines since.
PathInit ==
  /\ SchedInit
  /\ frames = [p \in Pids |-> CopyOut(Entry(Program(p), registers[p].int_no))]
  /\ cpu = Return(frames[1]) \* begin_schedule
  /\ \E masked \in {{}, 0 .. 7} :
       pics = PicRemapIRQs([master |-> [Chip(8) EXCEPT !.mask = masked, !.isr = {0}],
                            slave |-> [Chip(112) EXCEPT !.mask = masked]])

\* c_isr() and the way out: p are the controllers as the entry found them.
Leave(stack, p) ==
  /\ cpu' = Return(stack)
  /\ pics' = Acknowledge(p, IntNo(stack))

\* schedule() has replaced the frame, or stays in its idle loop.
LeaveSwitched(stack, p) ==
  /\ frames' = [frames EXCEPT ![cur_process] = CopyOut(stack)]
  /\ IF mode' = USER THEN Leave(CopyIn(stack, frames'[cur_process']), p)
     ELSE cpu' = Program(Kernel) /\ pics' = p

\* c_isr() of a vector that the processor has taken.
Handle(v, p) ==
  LET stack == Entry(cpu, v) n == IntNo(stack) IN
  /\ v \in Gates
  /\ \/ n = Timer /\ TickStep /\ LeaveSwitched(stack, p)
     \/ ServeStep(n) /\ Leave(stack, p) /\ UNCHANGED frames
     \/ InterruptStep(n) /\ Leave(stack, p) /\ UNCHANGED frames

Request(line) ==
  /\ pics' = Requested(pics, line)
  /\ UNCHANGED <<schedVars, cpu, frames>>

\* Interrupts are on in programs and in the idle loop.
TakeInterrupt ==
  /\ Asserted(pics)
  /\ Handle(Accepted(pics).vector, Accepted(pics).pics)

TakeSpurious == \E a \in Spurious(pics) : Handle(a.vector, a.pics)

TakeException == mode = USER /\ \E v \in Exceptions : Handle(v, pics)

\* int $0x80: a call that returns, kqueue_block(), or fork(), whose child's
\* frame is a copy of the caller's and so continues the child's own program.
CallReturns ==
  /\ ServeStep(Syscall)
  /\ Leave(Entry(cpu, Syscall), pics)
  /\ UNCHANGED frames

CallBlocks == BlockStep /\ LeaveSwitched(Entry(cpu, Syscall), pics)

CallForks ==
  LET stack == Entry(cpu, Syscall)
      Own(w) == IF w[1] = cur_process /\ w[2] \in Regs THEN <<next_avail_pid, w[2]>> ELSE w
  IN  /\ ForkStep
      /\ frames' = [frames EXCEPT ![next_avail_pid] =
                      [i \in DOMAIN Fields |-> Own(CopyOut(stack)[i])]]
      /\ Leave(stack, pics)

\* The idle loop goes on, or its handler returns to whom it found.
LeaveIdleLoop ==
  /\ CliStep
  /\ IF mode' = USER THEN Leave(frames[cur_process'], pics)
     ELSE cpu' = Program(Kernel) /\ UNCHANGED pics
  /\ UNCHANGED frames

PathNext ==
  \/ \E l \in Lines : Request(l)
  \/ TakeInterrupt
  \/ TakeSpurious
  \/ TakeException
  \/ CallReturns
  \/ CallBlocks
  \/ CallForks
  \/ LeaveIdleLoop

PathSafety == PathInit /\ [][PathNext]_pathVars

\* The timer chip runs, and the processor takes an interrupt that is asserted
\* and executes cli after hlt.
PathFairness ==
  /\ WF_pathVars(Request(0))
  /\ WF_pathVars(TakeInterrupt)
  /\ WF_pathVars(LeaveIdleLoop)

PathSpec == PathSafety /\ PathFairness
-----------------------------------------------------------------------------
\* Between handlers no controller has anything in service, or it would hold
\* back that line and all lower ones: not while the CPU halts in the midst of
\* a handler, not after an end of interrupt that goes by another process's
\* vector, nor after a spurious interrupt (interrupt.c:43-47).
NothingInService == pics.master.isr = {} /\ pics.slave.isr = {}

\* A program gets back every register as it left it, and a saved frame is the
\* whole of one program, whichever stub and whichever way out it came by
\* (asm_interrupts.s:52-277, process.c:147-168).
FramesAreWhole ==
  /\ cpu = Program(live)
  /\ \A p \in Pids : status[p] # NONE =>
       frames[p] = CopyOut(Entry(Program(registers[p].owner), registers[p].int_no))

\* The controllers as programmed deliver the timer's requests for ever, as
\* module Sched assumes: each step is one of Sched, with its fairness.
ClockDrivesScheduler == SchedSpec
==============================================================================
