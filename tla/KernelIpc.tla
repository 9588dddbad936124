----------------------------- MODULE KernelIpc -----------------------------
(***************************************************************************)
(* System calls and interrupts as a running AkARiS system interleaves them:*)
(* kfifos, kqueues, device nodes and interrupt FIFOs on top of the         *)
(* scheduler (common/kfifo.c, common/kqueue.c, common/device_interface.c,  *)
(* i386/interrupt.c, i386/syscall.c).                                      *)
(*                                                                         *)
(* Every action is a step of module Sched together with what the handler   *)
(* does to the IPC state; the processes the step wakes are those that the  *)
(* kqueues say.  A call that fails changes nothing and is a stuttering     *)
(* step.  The bytes themselves are in module KfifoRing; here a kfifo is its*)
(* two indices.  Processes do not fork, and who closes a FIFO receives from it.*)
(***************************************************************************)
EXTENDS Sched, KfifoIndices, Sequences, FiniteSets

CONSTANTS
  MaxFifo, MaxKqueue, MaxEvent,  \* bounds on the ids handed out
  Lens,        \* the lengths callers read and write
  MsgLen,      \* sizeof (uint32) * 2, the message of devnode_connect()
  PollSizes,   \* the nchanges that callers pass to kqueue_poll()
  Flags,       \* the flags of the events they ask for
  IrqLines,    \* the hardware vectors that drivers link to FIFOs
  DevNames,
  FreshWords   \* what accept_fifo_id holds before devnode_accept()

FifoIds == 1 .. MaxFifo
KqueueIds == 1 .. MaxKqueue
EventIds == 1 .. MaxEvent

READABLE == "READABLE"
WRITABLE == "WRITABLE"

ASSUME IpcAssumption ==
  /\ MaxFifo \in Nat /\ MaxKqueue \in Nat /\ MaxEvent \in Nat
  /\ Lens \subseteq Nat \ {0}
  /\ MsgLen \in Nat \ {0}
  /\ PollSizes \subseteq Nat
  /\ Flags \subseteq {READABLE, WRITABLE}
  /\ IrqLines \subseteq Devices \cup {Timer}
  /\ FreshWords \subseteq 0 .. MaxFifo

VARIABLES
  cur_fifo_id,
  receiver,        \* the pid in kfifo_t.recvlist, 0 when there is no such FIFO
  sender,          \* the pid in kfifo_t.sendlist, or Kernel for kfifo_kernel_pid
  start, end,      \* kfifo_t.start, kfifo_t.end
  next_kqueue_id,
  kq_pid,          \* kqueue_t.pid, 0 when there is no such kqueue
  nevents,         \* how many events exist; ids follow the order of creation
  kevents,         \* the fields of kevent_t that never change
  triggered,       \* kevent_t.triggered
  kqueue_block,    \* context_t.kqueue_block
  int_to_pid,      \* the FIFO an interrupt vector is linked to, 0 for none
  devlist          \* devnode_t.pid (0: not registered), accept_fifo_id

fifoVars == <<cur_fifo_id, receiver, sender>>
kqueueVars == <<next_kqueue_id, kq_pid, nevents, kevents>>
ipcVars ==
  <<fifoVars, start, end, kqueueVars, triggered, kqueue_block, int_to_pid, devlist>>
vars == <<schedVars, ipcVars>>

\* The state that sending to a FIFO reads and changes.
State == [start |-> start, triggered |-> triggered, status |-> status,
          block |-> kqueue_block]

Becomes(k) ==
  /\ start' = k.start
  /\ triggered' = k.triggered
  /\ status' = k.status
  /\ kqueue_block' = k.block

Exists(id) == id \in FifoIds /\ receiver[id] # 0

-----------------------------------------------------------------------------
\* fifo->ke_list: the events that kfifo_add_kqueue_event() found the FIFO for.
Hooked(id) == {e \in EventIds : kevents[e].hooked /\ kevents[e].ident = id}

OfKqueue(kq) == {e \in EventIds : e <= nevents /\ kevents[e].parent = kq}

Marked(k, F) == [e \in EventIds |-> e \in F \/ k.triggered[e]]

\* The owners of the kqueues of events F that wait on those kqueues.
Woken(k, F) ==
  {p \in Waiting(k.status) : \E e \in F :
     kq_pid[kevents[e].parent] = p /\ k.block[p] = kevents[e].parent}

\* Slips in the next one: the owner is not woken; it is woken whatever kqueue
\* it waits on; only the event at the head of ke_list is looked at.
TriggerSilently(k, F) == [k EXCEPT !.triggered = Marked(k, F)]

TriggerAnyQueue(k, F) ==
  [k EXCEPT !.triggered = Marked(k, F), !.status = Wake(k.status,
     {p \in Waiting(k.status) : \E e \in F : kq_pid[kevents[e].parent] = p})]

TriggerHead(k, F) ==
  LET heads == {e \in F : \A g \in F : g <= e} IN
  [k EXCEPT !.triggered = Marked(k, heads), !.status = Wake(k.status, Woken(k, heads))]

\* kqueue_trigger_event() for each of the events F: mark it, and wake the
\* owner of its kqueue if it waits on that kqueue.
Trigger(k, F) ==
  [start |-> k.start, triggered |-> Marked(k, F),
   status |-> Wake(k.status, Woken(k, F)), block |-> k.block]

\* kfifo_write_fifo(): its tests in the order of the code, then the bytes,
\* then every READABLE event of ke_list.
Sent(k, id, pid, len) ==
  IF Exists(id) /\ WriteError(k.start[id], end[id], len) = SUCCESS /\ sender[id] = pid
  THEN Trigger([k EXCEPT !.start[id] = Advance(@, len)],
               {e \in Hooked(id) : kevents[e].flag = READABLE})
  ELSE k

\* The end of c_isr(): a byte for the FIFO that vector v is linked to.
SendByte(k, v) ==
  IF int_to_pid[v] = 0 THEN k ELSE Sent(k, int_to_pid[v], Kernel, 1)

\* After schedule() the frame that c_isr() looks at is that of the process it
\* switched to, and so is the int_no in it.
SendByteAfterSwitch(k) ==
  IF mode' = USER THEN SendByte(k, registers'[cur_process'].int_no) ELSE k

\* kfifo_create_fifo(), once for each <<recv, send>> of the sequence.
CreateFifos(ends) ==
  LET new == cur_fifo_id .. cur_fifo_id + Len(ends) - 1
      pos(id) == id - cur_fifo_id + 1
  IN /\ new \subseteq FifoIds
     /\ cur_fifo_id' = cur_fifo_id + Len(ends)
     /\ receiver' = [id \in FifoIds |-> IF id \in new THEN ends[pos(id)][1] ELSE receiver[id]]
     /\ sender' = [id \in FifoIds |-> IF id \in new THEN ends[pos(id)][2] ELSE sender[id]]

-----------------------------------------------------------------------------
\* System calls of the running process.

me == cur_process

FifoPipe ==
  /\ ServeStep(Syscall)
  /\ CreateFifos(<< <<me, me>>, <<me, me>> >>)
  /\ Becomes(State)
  /\ UNCHANGED <<end, kqueueVars, int_to_pid, devlist>>

LinkIrq(v) ==
  /\ ServeStep(Syscall)
  /\ CreateFifos(<< <<me, Kernel>> >>)
  /\ int_to_pid' = [int_to_pid EXCEPT ![v] = cur_fifo_id]
  /\ Becomes(State)
  /\ UNCHANGED <<end, kqueueVars, devlist>>

DevnodeRegister(d) ==
  /\ ServeStep(Syscall)
  /\ devlist[d].pid = 0
  /\ \E w \in FreshWords : devlist' = [devlist EXCEPT ![d] = [pid |-> me, accept |-> w]]
  /\ Becomes(State)
  /\ UNCHANGED <<fifoVars, end, kqueueVars, int_to_pid>>

\* Two FIFOs between the caller and the device, told to the device through its
\* accept FIFO.  The result of that write is not looked at.
DevnodeConnect(d) ==
  /\ ServeStep(Syscall)
  /\ devlist[d].pid # 0
  /\ CreateFifos(<< <<devlist[d].pid, me>>, <<me, devlist[d].pid>> >>)
  /\ Becomes(Sent(State, devlist[d].accept, Kernel, MsgLen))
  /\ UNCHANGED <<end, kqueueVars, int_to_pid, devlist>>

DevnodeAccept(d) ==
  /\ ServeStep(Syscall)
  /\ devlist[d].pid # 0
  /\ CreateFifos(<< <<me, Kernel>> >>)
  /\ devlist' = [devlist EXCEPT ![d].accept = cur_fifo_id]
  /\ Becomes(State)
  /\ UNCHANGED <<end, kqueueVars, int_to_pid>>

FifoWrite(id, len) ==
  /\ ServeStep(Syscall)
  /\ Becomes(Sent(State, id, me, len))
  /\ UNCHANGED <<fifoVars, end, kqueueVars, int_to_pid, devlist>>

\* The events that kfifo_read_fifo() untriggers when it empties the FIFO: it
\* starts from the head of ke_list but walks on along `next', the list of the
\* head's kqueue, whose older events come behind it.
Untriggered(id) ==
  {e \in EventIds :
     /\ kevents[e].flag = READABLE
     /\ \E head \in Hooked(id) :
          /\ \A g \in Hooked(id) : g <= head
          /\ e \in OfKqueue(kevents[head].parent) /\ e <= head}

FifoRead(id, len) ==
  /\ ServeStep(Syscall)
  /\ Exists(id)
  /\ receiver[id] = me
  /\ ReadError(start[id], end[id], len) = SUCCESS
  /\ end' = [end EXCEPT ![id] = Advance(@, len)]
  /\ Becomes([State EXCEPT !.triggered = [e \in EventIds |->
                triggered[e] /\ ~(start[id] = end'[id] /\ e \in Untriggered(id))]])
  /\ UNCHANGED <<fifoVars, kqueueVars, int_to_pid, devlist>>

\* kfifo_close_fifo() by the only receiver: with its list empty the FIFO goes.
\* The code tests neither that there is such a FIFO nor that the caller is on
\* its lists; closes by others and of other ids, which go on with null
\* pointers, are in AccessLists and not here.
\* Events, accept_fifo_id and int_to_pid keep naming it, and the cell is used
\* again for the next FIFO, with another id.
FifoClose(id) ==
  /\ ServeStep(Syscall)
  /\ Exists(id)
  /\ receiver[id] = me
  /\ receiver' = [receiver EXCEPT ![id] = 0]
  /\ Becomes(State)
  /\ UNCHANGED <<cur_fifo_id, sender, end, kqueueVars, int_to_pid, devlist>>

KqueueCreate ==
  /\ ServeStep(Syscall)
  /\ next_kqueue_id \in KqueueIds
  /\ kq_pid' = [kq_pid EXCEPT ![next_kqueue_id] = me]
  /\ next_kqueue_id' = next_kqueue_id + 1
  /\ Becomes(State)
  /\ UNCHANGED <<fifoVars, end, nevents, kevents, int_to_pid, devlist>>

\* A slip in the next one: bytes that came before the event are not looked at.
KqueueEventLate(kq, id, flag) ==
  LET new == nevents + 1 IN
  /\ ServeStep(Syscall)
  /\ kq_pid[kq] = me
  /\ new \in EventIds
  /\ nevents' = new
  /\ kevents' = [kevents EXCEPT ![new] =
       [parent |-> kq, ident |-> id, flag |-> flag, hooked |-> Exists(id)]]
  /\ Becomes(State)
  /\ UNCHANGED <<fifoVars, end, next_kqueue_id, kq_pid, int_to_pid, devlist>>

\* kqueue_event(): an event for a FIFO that does not exist is added as well,
\* but no FIFO knows of it.  A FIFO that holds bytes triggers it at once.
KqueueEvent(kq, id, flag) ==
  LET new == nevents + 1 IN
  /\ ServeStep(Syscall)
  /\ kq_pid[kq] = me
  /\ new \in EventIds
  /\ nevents' = new
  /\ kevents' = [kevents EXCEPT ![new] =
       [parent |-> kq, ident |-> id, flag |-> flag, hooked |-> Exists(id)]]
  /\ Becomes([State EXCEPT !.triggered[new] =
       Exists(id) /\ flag = READABLE /\ start[id] # end[id]])
  /\ UNCHANGED <<fifoVars, end, next_kqueue_id, kq_pid, int_to_pid, devlist>>

Asleep(kq) ==
  [start |-> start, triggered |-> triggered,
   status |-> [status EXCEPT ![me] = WAITING],
   block |-> [kqueue_block EXCEPT ![me] = kq]]

\* kqueue_block() with nothing triggered: sleep on the kqueue and reschedule.
KqueueBlock(kq) ==
  /\ kq_pid[kq] = me
  /\ \A e \in OfKqueue(kq) : ~triggered[e]
  /\ BlockStep
  /\ Becomes(SendByteAfterSwitch(Asleep(kq)))
  /\ UNCHANGED <<fifoVars, end, kqueueVars, int_to_pid, devlist>>

\* A slip in the next one: untriggered events count against max as well.
KqueuePollCounting(kq, max) ==
  /\ ServeStep(Syscall)
  /\ kq_pid[kq] = me
  /\ Becomes([State EXCEPT !.triggered = [e \in EventIds |->
       /\ triggered[e]
       /\ ~ /\ e \in OfKqueue(kq)
            /\ \/ \A g \in OfKqueue(kq) : g <= e
               \/ Cardinality({g \in OfKqueue(kq) : g > e}) < max]])
  /\ UNCHANGED <<fifoVars, end, kqueueVars, int_to_pid, devlist>>

\* kqueue_poll(): the newest triggered events first, at most max of them; the
\* test against max comes after the first event has been looked at.
KqueuePoll(kq, max) ==
  LET newer(e) == {g \in OfKqueue(kq) : g > e} IN
  /\ ServeStep(Syscall)
  /\ kq_pid[kq] = me
  /\ Becomes([State EXCEPT !.triggered = [e \in EventIds |->
       /\ triggered[e]
       /\ ~ /\ e \in OfKqueue(kq)
            /\ \/ newer(e) = {}
               \/ Cardinality({g \in newer(e) : triggered[g]}) < max]])
  /\ UNCHANGED <<fifoVars, end, kqueueVars, int_to_pid, devlist>>

-----------------------------------------------------------------------------
\* Interrupts.

\* A slip in the next one: linking a FIFO to the timer's vector takes the place
\* of its handler.
TimerInterruptUnlinked ==
  /\ int_to_pid[Timer] = 0
  /\ TickStep
  /\ Becomes(State)
  /\ UNCHANGED <<fifoVars, end, kqueueVars, int_to_pid, devlist>>

TimerInterrupt ==
  /\ TickStep
  /\ Becomes(SendByteAfterSwitch(State))
  /\ UNCHANGED <<fifoVars, end, kqueueVars, int_to_pid, devlist>>

DeviceInterrupt(v) ==
  /\ ServeStep(v)
  /\ Becomes(SendByte(State, v))
  /\ UNCHANGED <<fifoVars, end, kqueueVars, int_to_pid, devlist>>

IdleInterrupt(v) ==
  /\ InterruptStep(v)
  /\ Becomes(SendByte(State, v))
  /\ UNCHANGED <<fifoVars, end, kqueueVars, int_to_pid, devlist>>

LeaveIdle ==
  /\ CliStep
  /\ Becomes(SendByteAfterSwitch(State))
  /\ UNCHANGED <<fifoVars, end, kqueueVars, int_to_pid, devlist>>

-----------------------------------------------------------------------------
Init ==
  /\ SchedInit
  /\ cur_fifo_id = 1
  /\ receiver = [id \in FifoIds |-> 0]
  /\ sender = [id \in FifoIds |-> 0]
  /\ start = [id \in FifoIds |-> 0]
  /\ end = [id \in FifoIds |-> 0]
  /\ next_kqueue_id = 1
  /\ kq_pid = [kq \in KqueueIds |-> 0]
  /\ nevents = 0
  /\ kevents = [e \in EventIds |->
       [parent |-> 0, ident |-> 0, flag |-> READABLE, hooked |-> FALSE]]
  /\ triggered = [e \in EventIds |-> FALSE]
  /\ kqueue_block = [p \in Pids |-> 0]
  /\ int_to_pid = [v \in Vectors |-> 0]
  /\ devlist = [d \in DevNames |-> [pid |-> 0, accept |-> 0]]

SystemCall ==
  \/ FifoPipe
  \/ \E v \in IrqLines : LinkIrq(v)
  \/ \E d \in DevNames : DevnodeRegister(d) \/ DevnodeConnect(d) \/ DevnodeAccept(d)
  \/ \E id \in FifoIds, len \in Lens : FifoWrite(id, len) \/ FifoRead(id, len)
  \/ \E id \in FifoIds : FifoClose(id)
  \/ KqueueCreate
  \/ \E kq \in KqueueIds :
       \/ \E id \in FifoIds, flag \in Flags : KqueueEvent(kq, id, flag)
       \/ KqueueBlock(kq)
       \/ \E max \in PollSizes : KqueuePoll(kq, max)

HardwareInterrupt ==
  \/ TimerInterrupt
  \/ \E v \in Devices : DeviceInterrupt(v)
  \/ \E v \in Devices \cup {Timer} : IdleInterrupt(v)

Next == SystemCall \/ HardwareInterrupt \/ LeaveIdle

Safety == Init /\ [][Next]_vars

\* As in module Sched: the timer never stops, cli follows hlt.
Fairness ==
  /\ WF_vars(TimerInterrupt \/ IdleInterrupt(Timer))
  /\ WF_vars(LeaveIdle)

Spec == Safety /\ Fairness
-----------------------------------------------------------------------------
EventType ==
  [parent : KqueueIds \cup {0}, ident : FifoIds \cup {0},
   flag : {READABLE, WRITABLE}, hooked : BOOLEAN]

\* The types of the IPC state; the indices of a kfifo stay inside its ring
\* (kfifo.c:214-217, 313-316).
IpcTypeOK ==
  /\ SchedTypeOK
  /\ cur_fifo_id \in 1 .. MaxFifo + 1
  /\ receiver \in [FifoIds -> Pids \cup {0}]
  /\ sender \in [FifoIds -> Pids \cup {Kernel}]
  /\ start \in [FifoIds -> Indices]
  /\ end \in [FifoIds -> Indices]
  /\ next_kqueue_id \in 1 .. MaxKqueue + 1
  /\ kq_pid \in [KqueueIds -> Pids \cup {0}]
  /\ nevents \in 0 .. MaxEvent
  /\ kevents \in [EventIds -> EventType]
  /\ triggered \in [EventIds -> BOOLEAN]
  /\ kqueue_block \in [Pids -> KqueueIds \cup {0}]
  /\ int_to_pid \in [Vectors -> FifoIds \cup {0}]
  /\ devlist \in [DevNames -> [pid : Pids \cup {0}, accept : 0 .. MaxFifo]]

\* No wake-up is lost: no process sleeps on a kqueue one of whose events has
\* been triggered and not untriggered or polled, whichever interrupt or
\* process sent the byte and whenever it came - before the block, during the
\* idle loop it ended in, or by way of the frame of another process
\* (kqueue.c:161-218).
NoLostWakeup ==
  \A p \in Waiting(status) : \A e \in OfKqueue(kqueue_block[p]) : ~triggered[e]

\* A sleeping process is woken only through an event of the kqueue it sleeps
\* on, and that event is triggered when it is (kqueue.c:165-171).
NoSpuriousWakeup ==
  [][\A p \in Waiting(status) : status'[p] = RUNNING =>
       \E e \in OfKqueue(kqueue_block[p]) : triggered'[e]]_vars

\* Bytes that arrive in a FIFO leave every READABLE event attached to it
\* triggered and nobody asleep on their kqueues (kfifo.c:221-230).
ArrivalReachesWaiters ==
  [][\A id \in FifoIds : start'[id] # start[id] =>
       \A e \in Hooked(id) : kevents[e].flag = READABLE =>
         /\ triggered'[e]
         /\ \A p \in Waiting(status') : kqueue_block'[p] # kevents[e].parent]_vars

\* The kernel with its FIFOs and kqueues still schedules as module Sched says,
\* so it shares the CPU fairly and idles only when nobody can run
\* (syscall.c:20-140, interrupt.c:28-51).
SchedulesFairly == SchedSpec

\* From the interrupt that brings a byte to the process that wants it: whoever
\* sleeps on a kqueue with a READABLE event of a FIFO gets the CPU once that
\* FIFO has been written (kfifo.c:214-230, kqueue.c:161-175, process.c:155-170).
DataWakesSleeper ==
  \A p \in Pids, id \in FifoIds, s \in Indices :
    LET Sleeps ==
          /\ status[p] = WAITING
          /\ start[id] = s
          /\ \E e \in Hooked(id) :
               kevents[e].flag = READABLE /\ kevents[e].parent = kqueue_block[p]
    IN [](Sleeps /\ <>(start[id] # s) => <>(cur_process = p /\ mode = USER))
=============================================================================
