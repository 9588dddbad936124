--------------------------- MODULE KbdServerProofs ---------------------------
(***************************************************************************)
(* Proofs about system calls, FIFOs and kqueues on top of the scheduler    *)
(* (module KernelIpc), for any number of processes, FIFOs, kqueues, events *)
(* and any ring size: the IPC types, the scheduler's invariants, and that  *)
(* no wake-up is lost; and about the keyboard's server and its clients     *)
(* (module KbdServer): no key is lost sight of, and the server never       *)
(* sleeps while one is in the port.                                        *)
(***************************************************************************)
EXTENDS KbdServer, InterruptPathProofs

FifosOK ==
  /\ cur_fifo_id \in 1 .. MaxFifo + 1
  /\ receiver \in [FifoIds -> Pids \cup {0}]
  /\ sender \in [FifoIds -> Pids \cup {Kernel}]

\* Kqueue ids are handed out in order: the next one belongs to nobody; a FIFO
\* knows of events that exist only.
KqueuesOK ==
  /\ next_kqueue_id \in 1 .. MaxKqueue + 1
  /\ kq_pid \in [KqueueIds -> Pids \cup {0}]
  /\ nevents \in 0 .. MaxEvent
  /\ kevents \in [EventIds -> EventType]
  /\ \A kq \in KqueueIds : kq >= next_kqueue_id => kq_pid[kq] = 0
  /\ \A e \in EventIds : kevents[e].hooked => e <= nevents

LinksOK ==
  /\ end \in [FifoIds -> Indices]
  /\ int_to_pid \in [Vectors -> FifoIds \cup {0}]
  /\ devlist \in [DevNames -> [pid : Pids \cup {0}, accept : 0 .. MaxFifo]]

\* Nobody sleeps on a kqueue of another process, or on one with a triggered
\* event.  The first half is what lets kqueue_trigger_event() find the sleeper
\* through the owner of the kqueue.
Quiet(k) ==
  \A p \in Waiting(k.status) :
    /\ k.block[p] \in KqueueIds
    /\ kq_pid[k.block[p]] = p
    /\ \A e \in OfKqueue(k.block[p]) : ~k.triggered[e]

States ==
  [start : [FifoIds -> Indices], triggered : [EventIds -> BOOLEAN],
   status : [Pids -> {RUNNING, WAITING, NONE}], block : [Pids -> KqueueIds \cup {0}]]

IpcInv ==
  /\ SchedInv
  /\ FifosOK
  /\ KqueuesOK
  /\ LinksOK
  /\ State \in States
  /\ Quiet(State)

-----------------------------------------------------------------------------
\* Ring arithmetic: an index advanced by less than the ring stays inside it.
LEMMA AdvanceInRing ==
  ASSUME NEW i \in Indices, NEW len \in Nat, len <= Size - 1
  PROVE  Advance(i, len) \in Indices
BY SizeAssumption DEF Advance, Indices

\* A write that is not refused is shorter than the ring ...
LEMMA WriteFits ==
  ASSUME NEW s, NEW e, NEW len \in Nat, WriteError(s, e, len) = SUCCESS
  PROVE  len <= Size - 1
BY SizeAssumption DEF WriteError, SUCCESS, BUFLEN, FULL

\* ... and so is a read.
LEMMA ReadFits ==
  ASSUME NEW s \in Indices, NEW e \in Indices, NEW len \in Nat,
         ReadError(s, e, len) = SUCCESS
  PROVE  len <= Size - 1
BY SizeAssumption DEF ReadError, CurSize, Indices, SUCCESS, BUFLEN

-----------------------------------------------------------------------------
\* Triggering events wakes everybody who sleeps on their kqueues.
LEMMA TriggerQuiet ==
  ASSUME NEW k \in States, NEW F \in SUBSET EventIds, Quiet(k)
  PROVE  Trigger(k, F) \in States /\ Quiet(Trigger(k, F))
<1> DEFINE W == Woken(k, F)
           t == Marked(k, F)
<1>1. Trigger(k, F) = [start |-> k.start, triggered |-> t,
                       status |-> Wake(k.status, W), block |-> k.block]
  BY DEF Trigger
<1>2. Wake(k.status, W) \in [Pids -> {RUNNING, WAITING, NONE}]
  BY WakeType DEF States, Woken
<1>3. t \in [EventIds -> BOOLEAN]
  BY DEF States, Marked
<1>4. Trigger(k, F) \in States
  <2> HIDE DEF W, t
  <2> QED BY <1>1, <1>2, <1>3 DEF States
<1>5. Waiting(Wake(k.status, W)) = Waiting(k.status) \ W
  BY DEF Waiting, Wake, RUNNING, WAITING
<1>6. ASSUME NEW p \in Waiting(k.status) \ W, NEW e \in OfKqueue(k.block[p])
      PROVE  ~t[e]
  <2>1. ~k.triggered[e] /\ kq_pid[k.block[p]] = p /\ kevents[e].parent = k.block[p]
        /\ e \in EventIds
    BY <1>6 DEF Quiet, OfKqueue
  <2>2. e \notin F
    BY <1>6, <2>1 DEF Woken
  <2> QED BY <2>1, <2>2 DEF Marked
<1>7. Quiet(Trigger(k, F))
  <2>1. ASSUME NEW p \in Waiting(k.status) \ W
        PROVE  /\ k.block[p] \in KqueueIds
               /\ kq_pid[k.block[p]] = p
               /\ \A e \in OfKqueue(k.block[p]) : ~t[e]
    BY <1>6 DEF Quiet
  <2> HIDE DEF W, t
  <2> QED BY <1>1, <1>5, <2>1 DEF Quiet
<1> QED BY <1>4, <1>7

\* So does a write, and a refused write changes nothing.
LEMMA SentQuiet ==
  ASSUME NEW k \in States, NEW id, NEW pid, NEW len \in Nat, Quiet(k)
  PROVE  Sent(k, id, pid, len) \in States /\ Quiet(Sent(k, id, pid, len))
<1> DEFINE F == {e \in Hooked(id) : kevents[e].flag = READABLE}
           k1 == [k EXCEPT !.start[id] = Advance(@, len)]
<1>1. CASE ~(Exists(id) /\ WriteError(k.start[id], end[id], len) = SUCCESS /\ sender[id] = pid)
  BY <1>1 DEF Sent
<1>2. CASE Exists(id) /\ WriteError(k.start[id], end[id], len) = SUCCESS /\ sender[id] = pid
  <2>1. id \in FifoIds /\ k.start[id] \in Indices /\ len <= Size - 1
    BY <1>2, WriteFits DEF Exists, States
  <2>2. Advance(k.start[id], len) \in Indices
    BY <2>1, AdvanceInRing
  <2>3. /\ k1 = [start |-> [k.start EXCEPT ![id] = Advance(k.start[id], len)],
                 triggered |-> k.triggered, status |-> k.status, block |-> k.block]
        /\ k1 \in States
    BY <2>1, <2>2 DEF States
  <2>4. Quiet(k1)
    BY <2>3 DEF Quiet
  <2>5. F \in SUBSET EventIds
    BY DEF Hooked
  <2>6. Sent(k, id, pid, len) = Trigger(k1, F)
    BY <1>2 DEF Sent
  <2> QED
    <3> HIDE DEF k1, F
    <3> QED BY <2>3, <2>4, <2>5, <2>6, TriggerQuiet
<1> QED BY <1>1, <1>2

LEMMA SendByteQuiet ==
  ASSUME NEW k \in States, NEW v, Quiet(k)
  PROVE  SendByte(k, v) \in States /\ Quiet(SendByte(k, v))
BY SentQuiet DEF SendByte

LEMMA SendByteAfterSwitchQuiet ==
  ASSUME NEW k \in States, Quiet(k)
  PROVE  SendByteAfterSwitch(k) \in States /\ Quiet(SendByteAfterSwitch(k))
BY SendByteQuiet DEF SendByteAfterSwitch

-----------------------------------------------------------------------------
\* What holds of the record holds of the variables that become it.
LEMMA BecomesQuiet ==
  ASSUME NEW k \in States, Quiet(k), Becomes(k), UNCHANGED <<kq_pid, nevents, kevents>>
  PROVE  State' \in States /\ Quiet(State)'
BY DEF Becomes, States, Quiet, State, OfKqueue, Waiting

LEMMA KqueuesKept == KqueuesOK /\ UNCHANGED kqueueVars => KqueuesOK'
BY DEF KqueuesOK, kqueueVars

LEMMA FifosKept == FifosOK /\ UNCHANGED fifoVars => FifosOK'
BY DEF FifosOK, fifoVars

-----------------------------------------------------------------------------
\* What sending owes to those who wait: from k to k2, FIFOs that get bytes mark
\* their READABLE events, and who is woken has such an event.
Delivered(k, k2) ==
  /\ \A id \in FifoIds : k2.start[id] # k.start[id] =>
       \A e \in Hooked(id) : kevents[e].flag = READABLE => k2.triggered[e]
  /\ \A p \in Waiting(k.status) : k2.status[p] = RUNNING =>
       \E e \in EventIds :
         kevents[e].hooked /\ kevents[e].parent = k.block[p] /\ k2.triggered[e]

\* kfifo_write_fifo() marks what is hooked to its FIFO and wakes by those marks.
LEMMA SentDelivers ==
  ASSUME NEW k \in States, NEW id, NEW pid, NEW len \in Nat
  PROVE  Delivered(k, Sent(k, id, pid, len))
<1> DEFINE F == {e \in Hooked(id) : kevents[e].flag = READABLE}
           s1 == [k.start EXCEPT ![id] = Advance(k.start[id], len)]
           k1 == [k EXCEPT !.start[id] = Advance(@, len)]
           k2 == Sent(k, id, pid, len)
<1>1. CASE ~(Exists(id) /\ WriteError(k.start[id], end[id], len) = SUCCESS /\ sender[id] = pid)
  BY <1>1 DEF Sent, Delivered, Waiting, RUNNING, WAITING
<1>2. CASE Exists(id) /\ WriteError(k.start[id], end[id], len) = SUCCESS /\ sender[id] = pid
  <2>1. k1 = [start |-> s1, triggered |-> k.triggered, status |-> k.status, block |-> k.block]
    BY DEF States
  <2>2. k2 = Trigger(k1, F)
    BY <1>2 DEF Sent
  <2>3. /\ k2.start = s1
        /\ k2.triggered = Marked(k, F)
        /\ k2.status = Wake(k.status, Woken(k, F))
    <3> HIDE DEF k1, k2, F, s1
    <3> QED BY <2>1, <2>2 DEF Trigger, Marked, Woken
  <2>4. \A e \in F : e \in EventIds /\ kevents[e].hooked
    BY DEF Hooked
  <2>5. \A q \in FifoIds : s1[q] # k.start[q] => q = id
    BY DEF States
  <2>6. \A e \in F : k2.triggered[e]
    <3> HIDE DEF k2, F
    <3> QED BY <2>3, <2>4 DEF Marked
  <2>7. ASSUME NEW q \in FifoIds, k2.start[q] # k.start[q],
               NEW e \in Hooked(q), kevents[e].flag = READABLE
        PROVE  k2.triggered[e]
    <3>1. q = id
      <4> HIDE DEF k2, s1
      <4> QED BY <2>3, <2>5, <2>7
    <3> HIDE DEF k2
    <3> QED BY <2>6, <2>7, <3>1
  <2>8. ASSUME NEW p \in Waiting(k.status), k2.status[p] = RUNNING
        PROVE  \E e \in EventIds :
                 kevents[e].hooked /\ kevents[e].parent = k.block[p] /\ k2.triggered[e]
    <3>1. p \in Woken(k, F)
      <4> HIDE DEF k2, F
      <4> QED BY <2>3, <2>8 DEF Wake, Waiting, RUNNING, WAITING
    <3>2. PICK e \in F : k.block[p] = kevents[e].parent
      BY <3>1 DEF Woken
    <3> HIDE DEF k2, F
    <3> QED BY <2>4, <2>6, <3>2
  <2>9. Delivered(k, k2)
    <3> HIDE DEF k2
    <3> QED BY <2>7, <2>8 DEF Delivered
  <2> QED BY <2>9
<1> QED BY <1>1, <1>2

\* So do interrupts, which send a byte or nothing.
LEMMA ByteDelivers ==
  ASSUME NEW k \in States, NEW v
  PROVE  Delivered(k, SendByte(k, v)) /\ Delivered(k, SendByteAfterSwitch(k))
<1>1. Delivered(k, k)
  BY DEF Delivered, Waiting, RUNNING, WAITING
<1>2. \A w : Delivered(k, SendByte(k, w))
  BY <1>1, SentDelivers DEF SendByte
<1> QED BY <1>1, <1>2 DEF SendByteAfterSwitch

LEMMA BecomesIs ==
  ASSUME NEW k \in States, Becomes(k)
  PROVE  State' = k
BY DEF Becomes, State, States

-----------------------------------------------------------------------------
\* New FIFOs get the ids behind those handed out.
LEMMA FifosCreated ==
  ASSUME FifosOK, NEW ends \in Seq(Pids \X (Pids \cup {Kernel})), CreateFifos(ends)
  PROVE  FifosOK' /\ (ends # <<>> => cur_fifo_id \in FifoIds)
<1> DEFINE new == cur_fifo_id .. cur_fifo_id + Len(ends) - 1
           pos(id) == id - cur_fifo_id + 1
<1>1. Len(ends) \in Nat /\ cur_fifo_id \in Nat /\ MaxFifo \in Nat
  BY IpcAssumption DEF FifosOK
<1>2. /\ new \subseteq FifoIds
      /\ cur_fifo_id' = cur_fifo_id + Len(ends)
      /\ receiver' = [id \in FifoIds |-> IF id \in new THEN ends[pos(id)][1] ELSE receiver[id]]
      /\ sender' = [id \in FifoIds |-> IF id \in new THEN ends[pos(id)][2] ELSE sender[id]]
  BY DEF CreateFifos
<1>3. Len(ends) # 0 => cur_fifo_id \in new /\ cur_fifo_id + Len(ends) - 1 \in new
  BY <1>1
<1>4. cur_fifo_id' \in 1 .. MaxFifo + 1
  <2> DEFINE n == Len(ends)
  <2>1. /\ n # 0 => cur_fifo_id + n - 1 \in FifoIds
        /\ cur_fifo_id' = cur_fifo_id + n
    BY <1>2, <1>3
  <2>2. n \in Nat /\ cur_fifo_id \in 1 .. MaxFifo + 1 /\ MaxFifo \in Nat
    BY <1>1 DEF FifosOK
  <2> HIDE DEF n
  <2> QED BY <2>1, <2>2 DEF FifoIds
<1>5. ASSUME NEW id \in new
      PROVE  ends[pos(id)][1] \in Pids /\ ends[pos(id)][2] \in Pids \cup {Kernel}
  <2>1. pos(id) \in 1 .. Len(ends)
    BY <1>1
  <2>2. ends[pos(id)] \in Pids \X (Pids \cup {Kernel})
    <3> HIDE DEF pos
    <3> QED BY <2>1
  <2> HIDE DEF pos
  <2> QED BY <2>2
<1>6. receiver' \in [FifoIds -> Pids \cup {0}] /\ sender' \in [FifoIds -> Pids \cup {Kernel}]
  <2> HIDE DEF pos, new
  <2> QED BY <1>2, <1>5 DEF FifosOK
<1>7. ends # <<>> => cur_fifo_id \in FifoIds
  BY <1>1, <1>2, <1>3
<1> QED BY <1>4, <1>6, <1>7 DEF FifosOK

LEMMA OneFifoCreated ==
  ASSUME FifosOK, NEW r \in Pids, NEW s \in Pids \cup {Kernel}, CreateFifos(<< <<r, s>> >>)
  PROVE  FifosOK' /\ cur_fifo_id \in FifoIds
<1> DEFINE ends == << <<r, s>> >>
<1>1. ends \in Seq(Pids \X (Pids \cup {Kernel})) /\ ends # <<>>
  OBVIOUS
<1>2. CreateFifos(ends)
  OBVIOUS
<1> QED
  <2> HIDE DEF ends
  <2> QED BY <1>1, <1>2, FifosCreated

LEMMA TwoFifosCreated ==
  ASSUME FifosOK, NEW p \in Pids, NEW q \in Pids,
         CreateFifos(<< <<p, q>>, <<q, p>> >>)
  PROVE  FifosOK'
<1> DEFINE ends == << <<p, q>>, <<q, p>> >>
<1>1. ends \in Seq(Pids \X (Pids \cup {Kernel}))
  OBVIOUS
<1>2. CreateFifos(ends)
  OBVIOUS
<1> QED
  <2> HIDE DEF ends
  <2> QED BY <1>1, <1>2, FifosCreated

\* Every step of the kernel is one of the scheduler.
LEMMA NextSchedules == [Next]_vars => [SchedNext]_schedVars
<1>1. Syscall \in Vectors /\ Timer \in Vectors /\ Devices \subseteq Vectors
  BY DEF Vectors
<1>2. SystemCall => SchedNext
  BY <1>1 DEF SystemCall, SchedNext, FifoPipe, LinkIrq, DevnodeRegister, DevnodeConnect,
     DevnodeAccept, FifoWrite, FifoRead, FifoClose, KqueueCreate, KqueueEvent, KqueueBlock, KqueuePoll
<1>3. HardwareInterrupt => SchedNext
  BY <1>1 DEF HardwareInterrupt, SchedNext, TimerInterrupt, DeviceInterrupt, IdleInterrupt
<1>4. LeaveIdle => SchedNext
  BY DEF LeaveIdle, SchedNext
<1> QED BY <1>2, <1>3, <1>4 DEF Next, vars

\* The running process is a process, and it does not sleep.
LEMMA Caller ==
  ASSUME SchedInv, mode = USER
  PROVE  me \in Pids /\ status[me] = RUNNING
BY DEF SchedInv, SchedTypeOK, CpuBelongsToCurrent, me

LEMMA Serves ==
  ASSUME NEW v, ServeStep(v)
  PROVE  mode = USER
BY DEF ServeStep, Serve

-----------------------------------------------------------------------------
\* One lemma for each handler; the scheduler's part is StepInv.

LEMMA FifoPipeInv ==
  ASSUME IpcInv, SchedInv', FifoPipe
  PROVE  IpcInv'
<1>1. me \in Pids
  BY Serves, Caller DEF FifoPipe, IpcInv
<1>2. FifosOK'
  BY <1>1, TwoFifosCreated DEF FifoPipe, IpcInv
<1>3. State' \in States /\ Quiet(State)'
  BY BecomesQuiet DEF FifoPipe, IpcInv, kqueueVars
<1>4. KqueuesOK' /\ LinksOK'
  BY KqueuesKept DEF FifoPipe, IpcInv, LinksOK
<1> QED BY <1>2, <1>3, <1>4 DEF IpcInv

LEMMA LinkIrqInv ==
  ASSUME IpcInv, SchedInv', NEW v \in IrqLines, LinkIrq(v)
  PROVE  IpcInv'
<1>1. me \in Pids
  BY Serves, Caller DEF LinkIrq, IpcInv
<1>2. FifosOK' /\ cur_fifo_id \in FifoIds
  BY <1>1, OneFifoCreated DEF LinkIrq, IpcInv
<1>3. State' \in States /\ Quiet(State)'
  BY BecomesQuiet DEF LinkIrq, IpcInv, kqueueVars
<1>4. KqueuesOK' /\ LinksOK'
  BY <1>2, KqueuesKept, IpcAssumption DEF LinkIrq, IpcInv, LinksOK
<1> QED BY <1>2, <1>3, <1>4 DEF IpcInv

LEMMA DevnodeRegisterInv ==
  ASSUME IpcInv, SchedInv', NEW d \in DevNames, DevnodeRegister(d)
  PROVE  IpcInv'
<1>1. me \in Pids
  BY Serves, Caller DEF DevnodeRegister, IpcInv
<1>2. State' \in States /\ Quiet(State)'
  BY BecomesQuiet DEF DevnodeRegister, IpcInv, kqueueVars
<1>3. FifosOK' /\ KqueuesOK' /\ LinksOK'
  BY <1>1, FifosKept, KqueuesKept, IpcAssumption DEF DevnodeRegister, IpcInv, LinksOK
<1> QED BY <1>2, <1>3 DEF IpcInv

LEMMA DevnodeConnectInv ==
  ASSUME IpcInv, SchedInv', NEW d \in DevNames, DevnodeConnect(d)
  PROVE  IpcInv'
<1>1. me \in Pids /\ devlist[d].pid \in Pids
  BY Serves, Caller DEF DevnodeConnect, IpcInv, LinksOK
<1>2. FifosOK'
  BY <1>1, TwoFifosCreated DEF DevnodeConnect, IpcInv
<1>3. State' \in States /\ Quiet(State)'
  BY BecomesQuiet, SentQuiet, IpcAssumption DEF DevnodeConnect, IpcInv, kqueueVars
<1>4. KqueuesOK' /\ LinksOK'
  BY KqueuesKept DEF DevnodeConnect, IpcInv, LinksOK
<1> QED BY <1>2, <1>3, <1>4 DEF IpcInv

LEMMA DevnodeAcceptInv ==
  ASSUME IpcInv, SchedInv', NEW d \in DevNames, DevnodeAccept(d)
  PROVE  IpcInv'
<1>1. me \in Pids
  BY Serves, Caller DEF DevnodeAccept, IpcInv
<1>2. FifosOK' /\ cur_fifo_id \in FifoIds
  BY <1>1, OneFifoCreated DEF DevnodeAccept, IpcInv
<1>3. State' \in States /\ Quiet(State)'
  BY BecomesQuiet DEF DevnodeAccept, IpcInv, kqueueVars
<1>4. LinksOK'
  <2> DEFINE x == devlist[d]
             y == [x EXCEPT !.accept = cur_fifo_id]
             R == [pid : Pids \cup {0}, accept : 0 .. MaxFifo]
  <2>1. x \in R /\ cur_fifo_id \in 0 .. MaxFifo
    BY <1>2, IpcAssumption DEF IpcInv, LinksOK, FifoIds
  <2>2. y \in R
    <3> HIDE DEF x
    <3> QED BY <2>1
  <2>3. devlist' = [devlist EXCEPT ![d] = y]
    BY DEF DevnodeAccept
  <2> HIDE DEF y
  <2> QED BY <2>2, <2>3 DEF DevnodeAccept, IpcInv, LinksOK
<1>5. KqueuesOK'
  BY KqueuesKept DEF DevnodeAccept, IpcInv
<1> QED BY <1>2, <1>3, <1>4, <1>5 DEF IpcInv

LEMMA FifoWriteInv ==
  ASSUME IpcInv, SchedInv', NEW id, NEW len \in Nat, FifoWrite(id, len)
  PROVE  IpcInv'
<1>1. State' \in States /\ Quiet(State)'
  BY BecomesQuiet, SentQuiet DEF FifoWrite, IpcInv, kqueueVars
<1>2. FifosOK' /\ KqueuesOK' /\ LinksOK'
  BY FifosKept, KqueuesKept DEF FifoWrite, IpcInv, LinksOK
<1> QED BY <1>1, <1>2 DEF IpcInv

LEMMA FifoReadInv ==
  ASSUME IpcInv, SchedInv', NEW id \in FifoIds, NEW len \in Nat, FifoRead(id, len)
  PROVE  IpcInv'
<1> DEFINE t == [e \in EventIds |->
                   triggered[e] /\ ~(start[id] = end'[id] /\ e \in Untriggered(id))]
           k == [start |-> start, triggered |-> t, status |-> status, block |-> kqueue_block]
<1>1. t \in [EventIds -> BOOLEAN] /\ \A e \in EventIds : t[e] => triggered[e]
  BY DEF IpcInv, States, State
<1>2. k \in States
  <2> HIDE DEF t
  <2> QED BY <1>1 DEF IpcInv, States, State
<1>3. Quiet(k)
  <2> HIDE DEF t
  <2> QED BY <1>1 DEF IpcInv, Quiet, State, OfKqueue
<1>4. Becomes(k) /\ UNCHANGED kqueueVars
  BY DEF FifoRead, State
<1>5. State' \in States /\ Quiet(State)'
  <2> HIDE DEF k
  <2> QED BY <1>2, <1>3, <1>4, BecomesQuiet DEF kqueueVars
<1>6. LinksOK'
  <2>1. start[id] \in Indices /\ end[id] \in Indices /\ len \in Nat
    BY DEF IpcInv, LinksOK, States, State
  <2>2. Advance(end[id], len) \in Indices
    BY <2>1, ReadFits, AdvanceInRing DEF FifoRead
  <2> QED BY <2>2 DEF FifoRead, IpcInv, LinksOK
<1>7. FifosOK' /\ KqueuesOK'
  BY FifosKept, KqueuesKept DEF FifoRead, IpcInv
<1> QED BY <1>5, <1>6, <1>7 DEF IpcInv

\* A closed FIFO leaves its events and marks alone.
LEMMA FifoCloseInv ==
  ASSUME IpcInv, SchedInv', NEW id \in FifoIds, FifoClose(id)
  PROVE  IpcInv'
<1>1. State' \in States /\ Quiet(State)'
  BY BecomesQuiet DEF FifoClose, IpcInv, kqueueVars
<1>2. FifosOK'
  BY DEF FifoClose, IpcInv, FifosOK
<1>3. KqueuesOK' /\ LinksOK'
  BY KqueuesKept DEF FifoClose, IpcInv, LinksOK
<1> QED BY <1>1, <1>2, <1>3 DEF IpcInv

\* A new kqueue takes an id that nobody sleeps on.
LEMMA KqueueCreateInv ==
  ASSUME IpcInv, SchedInv', KqueueCreate
  PROVE  IpcInv'
<1>1. me \in Pids
  BY Serves, Caller DEF KqueueCreate, IpcInv
<1>2. State' = State
  BY DEF KqueueCreate, Becomes, State
<1>3. /\ next_kqueue_id \in KqueueIds /\ kq_pid[next_kqueue_id] = 0
      /\ kq_pid \in [KqueueIds -> Pids \cup {0}] /\ KqueueIds \subseteq Nat
  BY DEF KqueueCreate, IpcInv, KqueuesOK, KqueueIds
<1>4. Quiet(State)'
  <2>1. ASSUME NEW p \in Pids, NEW kq \in KqueueIds, kq_pid[kq] = p
        PROVE  kq_pid'[kq] = p
    BY <1>3, <2>1 DEF KqueueCreate, Pids
  <2>2. \A kq \in KqueueIds : OfKqueue(kq)' = OfKqueue(kq)
    BY DEF KqueueCreate, OfKqueue
  <2> QED BY <1>2, <2>1, <2>2 DEF IpcInv, Quiet, Waiting
<1>5. KqueuesOK'
  BY <1>1, <1>3, IpcAssumption DEF KqueueCreate, IpcInv, KqueuesOK, KqueueIds
<1>6. FifosOK' /\ LinksOK'
  BY FifosKept DEF KqueueCreate, IpcInv, LinksOK
<1> QED BY <1>2, <1>4, <1>5, <1>6 DEF IpcInv

\* A new event belongs to a kqueue of the caller, on which nobody sleeps.
LEMMA KqueueEventInv ==
  ASSUME IpcInv, SchedInv', NEW kq \in KqueueIds, NEW id \in FifoIds \cup {0},
         NEW flag \in {READABLE, WRITABLE},
         KqueueEvent(kq, id, flag)
  PROVE  IpcInv'
<1> DEFINE new == nevents + 1
           ev == [parent |-> kq, ident |-> id, flag |-> flag, hooked |-> Exists(id)]
           t == [triggered EXCEPT ![new] =
                   Exists(id) /\ flag = READABLE /\ start[id] # end[id]]
           k == [start |-> start, triggered |-> t, status |-> status, block |-> kqueue_block]
<1>1. me \in Pids /\ status[me] = RUNNING /\ kq_pid[kq] = me
  BY Serves, Caller DEF KqueueEvent, IpcInv
<1>2. /\ new \in EventIds /\ nevents' = new /\ new \in 0 .. MaxEvent
      /\ kevents' = [kevents EXCEPT ![new] = ev]
      /\ UNCHANGED <<next_kqueue_id, kq_pid>>
  BY DEF KqueueEvent, EventIds
<1>3. /\ t \in [EventIds -> BOOLEAN]
      /\ \A e \in EventIds : e # new => t[e] = triggered[e]
  BY DEF IpcInv, States, State
<1>4. Becomes(k)
  BY DEF KqueueEvent, State
<1>5. State' = k
  BY <1>4 DEF Becomes, State
<1>6. k \in States
  <2> HIDE DEF t
  <2> QED BY <1>3 DEF IpcInv, States, State
<1>7. ASSUME NEW p \in Waiting(status)
      PROVE  /\ kqueue_block[p] \in KqueueIds
             /\ kq_pid'[kqueue_block[p]] = p
             /\ \A e \in EventIds :
                  e <= nevents' /\ kevents'[e].parent = kqueue_block[p] => ~t[e]
  <2>1. /\ kqueue_block[p] \in KqueueIds
        /\ kq_pid[kqueue_block[p]] = p
        /\ \A e \in OfKqueue(kqueue_block[p]) : ~triggered[e]
    BY DEF IpcInv, Quiet, State
  <2>2. kqueue_block[p] # kq
    BY <1>1, <2>1 DEF Waiting, RUNNING, WAITING
  <2>3. ASSUME NEW e \in EventIds, e <= new, kevents'[e].parent = kqueue_block[p]
        PROVE  e # new /\ e \in OfKqueue(kqueue_block[p])
    <3>1. kevents[new] \in EventType /\ kevents \in [EventIds -> EventType]
      BY <1>2 DEF IpcInv, KqueuesOK
    <3>2. e # new
      <4>1. kevents'[new] = ev
        BY <1>2, <3>1
      <4> QED BY <2>2, <2>3, <4>1
    <3>3. kevents'[e] = kevents[e]
      BY <1>2, <3>1, <3>2
    <3>4. e <= nevents
      BY <2>3, <3>2 DEF IpcInv, KqueuesOK, EventIds
    <3> QED BY <2>3, <3>2, <3>3, <3>4 DEF OfKqueue
  <2>4. \A e \in EventIds :
          e <= nevents' /\ kevents'[e].parent = kqueue_block[p] => ~t[e]
    <3> HIDE DEF t, new
    <3> QED BY <1>2, <1>3, <2>1, <2>3
  <2> QED BY <1>2, <2>1, <2>4
<1>8. Quiet(State)'
  <2>1. Waiting(State'.status) = Waiting(status) /\ State'.block = kqueue_block /\ State'.triggered = t
    <3> HIDE DEF t
    <3> QED BY <1>5
  <2> HIDE DEF t
  <2> QED BY <1>7, <2>1 DEF Quiet, OfKqueue
<1>9. KqueuesOK'
  <2>1. ev \in EventType
    <3>1. Exists(id) \in BOOLEAN
      BY DEF Exists
    <3> QED BY <3>1 DEF EventType
  <2>2. new >= nevents /\ \A e \in EventIds : e <= nevents => e <= new
    BY DEF IpcInv, KqueuesOK, EventIds
  <2>3. \A e \in EventIds : kevents'[e].hooked => e <= nevents'
    <3> HIDE DEF ev, new
    <3>1. ASSUME NEW e \in EventIds, e # new
          PROVE  kevents'[e] = kevents[e]
      BY <1>2, <3>1 DEF IpcInv, KqueuesOK
    <3>2. new <= nevents'
      BY <1>2 DEF EventIds
    <3> QED BY <1>2, <2>2, <3>1, <3>2 DEF IpcInv, KqueuesOK
  <2> HIDE DEF ev, new
  <2> QED BY <1>2, <2>1, <2>3 DEF IpcInv, KqueuesOK
<1>10. FifosOK' /\ LinksOK'
  BY FifosKept DEF KqueueEvent, IpcInv, LinksOK
<1> QED BY <1>5, <1>6, <1>8, <1>9, <1>10 DEF IpcInv

\* The caller goes to sleep on a kqueue of its own with nothing triggered.
LEMMA AsleepQuiet ==
  ASSUME IpcInv, NEW kq \in KqueueIds, me \in Pids, kq_pid[kq] = me,
         \A e \in OfKqueue(kq) : ~triggered[e]
  PROVE  Asleep(kq) \in States /\ Quiet(Asleep(kq))
<1> DEFINE st == [status EXCEPT ![me] = WAITING]
           bl == [kqueue_block EXCEPT ![me] = kq]
           k == [start |-> start, triggered |-> triggered, status |-> st, block |-> bl]
<1>1. /\ st \in [Pids -> {RUNNING, WAITING, NONE}]
      /\ bl \in [Pids -> KqueueIds \cup {0}]
      /\ \A p \in Waiting(st) \ {me} : p \in Waiting(status) /\ bl[p] = kqueue_block[p]
      /\ bl[me] = kq
  BY DEF IpcInv, States, State, Waiting
<1>2. k \in States
  <2> HIDE DEF st, bl
  <2> QED BY <1>1 DEF IpcInv, States, State
<1>3. Quiet(k)
  <2>1. ASSUME NEW p \in Waiting(st)
        PROVE  /\ bl[p] \in KqueueIds
               /\ kq_pid[bl[p]] = p
               /\ \A e \in OfKqueue(bl[p]) : ~triggered[e]
    <3> HIDE DEF st, bl
    <3> QED BY <1>1 DEF IpcInv, Quiet, State
  <2> HIDE DEF st, bl
  <2> QED BY <2>1 DEF Quiet
<1> QED BY <1>2, <1>3 DEF Asleep

LEMMA KqueueBlockInv ==
  ASSUME IpcInv, SchedInv', NEW kq \in KqueueIds, KqueueBlock(kq)
  PROVE  IpcInv'
<1>1. me \in Pids /\ kq_pid[kq] = me /\ \A e \in OfKqueue(kq) : ~triggered[e]
  BY Caller DEF KqueueBlock, BlockStep, Block, IpcInv
<1>2. Asleep(kq) \in States /\ Quiet(Asleep(kq))
  BY <1>1, AsleepQuiet
<1>3. Becomes(SendByteAfterSwitch(Asleep(kq))) /\ UNCHANGED kqueueVars
  BY DEF KqueueBlock
<1>4. State' \in States /\ Quiet(State)'
  BY <1>2, <1>3, SendByteAfterSwitchQuiet, BecomesQuiet DEF kqueueVars
<1>5. FifosOK' /\ KqueuesOK' /\ LinksOK'
  BY FifosKept, KqueuesKept DEF KqueueBlock, IpcInv, LinksOK
<1> QED BY <1>4, <1>5 DEF IpcInv

\* A poll only takes triggered marks away.
LEMMA KqueuePollInv ==
  ASSUME IpcInv, SchedInv', NEW kq \in KqueueIds, NEW max, KqueuePoll(kq, max)
  PROVE  IpcInv'
<1>1. PICK t : /\ t \in [EventIds -> BOOLEAN] /\ \A e \in EventIds : t[e] => triggered[e]
               /\ Becomes([State EXCEPT !.triggered = t])
  <2> DEFINE newer(e) == {g \in OfKqueue(kq) : g > e}
             t == [e \in EventIds |->
                     /\ triggered[e]
                     /\ ~ /\ e \in OfKqueue(kq)
                          /\ \/ newer(e) = {}
                             \/ Cardinality({g \in newer(e) : triggered[g]}) < max]
  <2>1. t \in [EventIds -> BOOLEAN] /\ \A e \in EventIds : t[e] => triggered[e]
    <3> HIDE DEF newer
    <3> QED BY DEF IpcInv, States, State
  <2>2. Becomes([State EXCEPT !.triggered = t])
    BY DEF KqueuePoll
  <2> QED BY <2>1, <2>2
<1> DEFINE k == [start |-> start, triggered |-> t, status |-> status, block |-> kqueue_block]
<1>2. k \in States /\ Quiet(k) /\ Becomes(k)
  BY <1>1 DEF IpcInv, States, State, Quiet, OfKqueue
<1>3. State' \in States /\ Quiet(State)'
  <2> HIDE DEF k
  <2> QED BY <1>2, BecomesQuiet DEF KqueuePoll, kqueueVars
<1>4. FifosOK' /\ KqueuesOK' /\ LinksOK'
  BY FifosKept, KqueuesKept DEF KqueuePoll, IpcInv, LinksOK
<1> QED BY <1>3, <1>4 DEF IpcInv

\* An interrupt, before or after a switch, sends at most one byte.
LEMMA InterruptsInv ==
  ASSUME IpcInv, SchedInv', NEW v,
         TimerInterrupt \/ DeviceInterrupt(v) \/ IdleInterrupt(v) \/ LeaveIdle
  PROVE  IpcInv'
<1>1. /\ Becomes(SendByteAfterSwitch(State)) \/ Becomes(SendByte(State, v))
      /\ UNCHANGED <<fifoVars, end, kqueueVars, int_to_pid, devlist>>
  BY DEF TimerInterrupt, DeviceInterrupt, IdleInterrupt, LeaveIdle
<1>2. State \in States /\ Quiet(State)
  BY DEF IpcInv
<1>3. State' \in States /\ Quiet(State)'
  <2>1. CASE Becomes(SendByteAfterSwitch(State))
    BY <1>1, <1>2, <2>1, SendByteAfterSwitchQuiet, BecomesQuiet DEF kqueueVars
  <2>2. CASE Becomes(SendByte(State, v))
    BY <1>1, <1>2, <2>2, SendByteQuiet, BecomesQuiet DEF kqueueVars
  <2> QED BY <1>1, <2>1, <2>2
<1>4. FifosOK' /\ KqueuesOK' /\ LinksOK'
  BY <1>1, FifosKept, KqueuesKept DEF IpcInv, LinksOK
<1> QED BY <1>3, <1>4 DEF IpcInv

-----------------------------------------------------------------------------
LEMMA IpcInit == Init => IpcInv
<1> SUFFICES ASSUME Init PROVE IpcInv
  OBVIOUS
<1>1. SchedInv
  BY InitInv DEF Init
<1>2. 0 \in Indices
  BY SizeAssumption DEF Indices
<1>3. FifosOK /\ LinksOK
  BY <1>2, IpcAssumption DEF Init, FifosOK, LinksOK, Kernel
<1>4. KqueuesOK
  BY IpcAssumption DEF Init, KqueuesOK, EventType
<1>5. State \in States
  BY <1>1, <1>2 DEF Init, State, States, SchedInv, SchedTypeOK
<1>6. Waiting(status) = {}
  BY DEF Init, SchedInit, Waiting, RUNNING, WAITING, NONE
<1>7. Quiet(State)
  BY <1>6 DEF Quiet, State
<1> QED BY <1>1, <1>3, <1>4, <1>5, <1>7 DEF IpcInv

LEMMA IpcStep == IpcInv /\ [Next]_vars => IpcInv'
<1> SUFFICES ASSUME IpcInv, [Next]_vars PROVE IpcInv'
  OBVIOUS
<1>1. SchedInv'
  BY NextSchedules, StepInv DEF IpcInv
<1>2. CASE SystemCall
  <2>1. Lens \subseteq Nat /\ Flags \subseteq {READABLE, WRITABLE}
    BY IpcAssumption
  <2> QED
    BY <1>1, <1>2, <2>1, FifoPipeInv, LinkIrqInv, DevnodeRegisterInv, DevnodeConnectInv,
       DevnodeAcceptInv, FifoWriteInv, FifoReadInv, FifoCloseInv, KqueueCreateInv,
       KqueueEventInv, KqueueBlockInv, KqueuePollInv
    DEF SystemCall
<1>3. CASE HardwareInterrupt \/ LeaveIdle
  BY <1>1, <1>3, InterruptsInv DEF HardwareInterrupt
<1>4. CASE UNCHANGED vars
  <2>1. State' = State /\ FifosOK' /\ KqueuesOK' /\ LinksOK'
    BY <1>4, FifosKept, KqueuesKept
    DEF vars, ipcVars, schedVars, State, IpcInv, LinksOK
  <2>2. UNCHANGED kqueueVars
    BY <1>4 DEF vars, ipcVars
  <2>3. Quiet(State)'
    BY <2>1, <2>2 DEF IpcInv, Quiet, OfKqueue, kqueueVars
  <2> QED BY <1>1, <2>1, <2>3 DEF IpcInv
<1> QED BY <1>2, <1>3, <1>4 DEF Next

\* The invariant holds in every state the kernel reaches.
THEOREM IpcInvariant == Safety => []IpcInv
<1> QED BY IpcInit, IpcStep, PTL DEF Safety

\* The types of the IPC state: an index of a kfifo never leaves its ring
\* (kfifo.c:214-217, 313-316), ids stay those handed out.
THEOREM IpcTypes == Safety => []IpcTypeOK
<1>1. IpcInv => IpcTypeOK
  BY DEF IpcInv, SchedInv, FifosOK, KqueuesOK, LinksOK, State, States, IpcTypeOK
<1> QED BY <1>1, IpcInvariant, PTL

\* No process sleeps on a kqueue with a triggered event, for any number of
\* processes, FIFOs, kqueues and events and any ring size (kqueue.c:161-218).
THEOREM WakeupsAreKept == Safety => []NoLostWakeup
<1>1. IpcInv => NoLostWakeup
  BY DEF IpcInv, Quiet, State, NoLostWakeup
<1> QED BY <1>1, IpcInvariant, PTL

\* Every step of the kernel delivers.
LEMMA StepDelivers ==
  ASSUME IpcInv, [Next]_vars
  PROVE  /\ Delivered(State, State')
         /\ start' = start \/ UNCHANGED <<nevents, kevents>>
<1>1. State \in States /\ \A l \in Lens : l \in Nat
  BY IpcAssumption DEF IpcInv
<1>2. ASSUME start' = start, \A p \in Waiting(status) : status'[p] = status[p]
      PROVE  Delivered(State, State')
  BY <1>2 DEF Delivered, State, Waiting, RUNNING, WAITING
<1>3. CASE start' = start /\ status' = status
  BY <1>2, <1>3
<1>4. ASSUME NEW k \in States, Quiet(k), Becomes(k), Delivered(State, k), UNCHANGED kqueueVars
      PROVE  Delivered(State, State') /\ UNCHANGED <<nevents, kevents>>
  BY <1>4, BecomesIs DEF kqueueVars
<1>5. CASE SystemCall
  <2>1. CASE \E d \in DevNames : DevnodeConnect(d)
    <3>1. PICK d \in DevNames : DevnodeConnect(d)
      BY <2>1
    <3> DEFINE k == Sent(State, devlist[d].accept, Kernel, MsgLen)
    <3>2. Becomes(k) /\ UNCHANGED kqueueVars
      BY <3>1 DEF DevnodeConnect
    <3>3. k \in States /\ Quiet(k) /\ Delivered(State, k)
      BY <1>1, SentQuiet, SentDelivers, IpcAssumption DEF IpcInv
    <3> HIDE DEF k
    <3> QED BY <1>4, <3>2, <3>3
  <2>2. CASE \E id \in FifoIds, len \in Lens : FifoWrite(id, len)
    <3>1. PICK id \in FifoIds, len \in Lens : FifoWrite(id, len)
      BY <2>2
    <3> DEFINE k == Sent(State, id, me, len)
    <3>2. Becomes(k) /\ UNCHANGED kqueueVars
      BY <3>1 DEF FifoWrite
    <3>3. k \in States /\ Quiet(k) /\ Delivered(State, k)
      BY <1>1, SentQuiet, SentDelivers DEF IpcInv
    <3> HIDE DEF k
    <3> QED BY <1>4, <3>2, <3>3
  <2>3. CASE \E kq \in KqueueIds : KqueueBlock(kq)
    <3>1. PICK kq \in KqueueIds : KqueueBlock(kq)
      BY <2>3
    <3> DEFINE a == Asleep(kq)
               k == SendByteAfterSwitch(a)
    <3>2. Becomes(k) /\ UNCHANGED kqueueVars
      BY <3>1 DEF KqueueBlock
    <3>3. me \in Pids /\ status[me] = RUNNING /\ kq_pid[kq] = me
          /\ \A e \in OfKqueue(kq) : ~triggered[e]
      BY <3>1, Caller DEF KqueueBlock, BlockStep, Block, IpcInv
    <3>4. a \in States /\ Quiet(a)
      BY <3>3, AsleepQuiet DEF IpcInv
    <3>5. k \in States /\ Quiet(k) /\ Delivered(a, k)
      <4> HIDE DEF a
      <4> QED BY <3>4, ByteDelivers, SendByteAfterSwitchQuiet
    <3>6. Delivered(State, k)
      <4>1. /\ a.start = State.start
            /\ \A p \in Waiting(State.status) :
                 p \in Waiting(a.status) /\ a.block[p] = State.block[p]
        BY <3>3 DEF Asleep, State, Waiting, RUNNING, WAITING, IpcInv, States
      <4> HIDE DEF a, k
      <4> QED BY <3>5, <4>1 DEF Delivered
    <3> HIDE DEF k
    <3> QED BY <1>4, <3>2, <3>5, <3>6
  <2> QED
    BY <1>3, <1>5, <2>1, <2>2, <2>3
    DEF SystemCall, FifoPipe, LinkIrq, DevnodeRegister, DevnodeAccept, FifoRead, FifoClose,
        KqueueCreate, KqueueEvent, KqueuePoll, Becomes, State
<1>6. CASE HardwareInterrupt \/ LeaveIdle
  <2>1. PICK v : TimerInterrupt \/ DeviceInterrupt(v) \/ IdleInterrupt(v) \/ LeaveIdle
    BY <1>6 DEF HardwareInterrupt
  <2>2. PICK k \in {SendByte(State, v), SendByteAfterSwitch(State)} :
          Becomes(k) /\ UNCHANGED kqueueVars
    BY <2>1 DEF TimerInterrupt, DeviceInterrupt, IdleInterrupt, LeaveIdle
  <2>3. k \in States /\ Quiet(k) /\ Delivered(State, k)
    BY <1>1, ByteDelivers, SendByteQuiet, SendByteAfterSwitchQuiet DEF IpcInv
  <2> QED BY <1>4, <2>2, <2>3
<1>7. CASE UNCHANGED vars
  BY <1>3, <1>7 DEF vars, ipcVars, schedVars
<1> QED BY <1>5, <1>6, <1>7 DEF Next

\* Who is woken has a triggered event on the kqueue it slept on, for any number
\* of processes, FIFOs, kqueues and events (kqueue.c:165-171).
THEOREM NobodyIsWokenInVain == Safety => NoSpuriousWakeup
<1>1. IpcInv /\ [Next]_vars =>
        [\A p \in Waiting(status) : status'[p] = RUNNING =>
           \E e \in OfKqueue(kqueue_block[p]) : triggered'[e]]_vars
  <2> SUFFICES ASSUME IpcInv, [Next]_vars, NEW p \in Waiting(status), status'[p] = RUNNING
               PROVE  \E e \in OfKqueue(kqueue_block[p]) : triggered'[e]
    OBVIOUS
  <2>1. PICK e \in EventIds :
          kevents[e].hooked /\ kevents[e].parent = kqueue_block[p] /\ triggered'[e]
    BY StepDelivers DEF Delivered, State
  <2> QED BY <2>1 DEF OfKqueue, IpcInv, KqueuesOK
<1> QED BY <1>1, IpcInvariant, PTL DEF Safety, NoSpuriousWakeup

\* Bytes that arrive reach every event that waits for them, and leave nobody
\* asleep on its kqueue (kfifo.c:221-230), whoever sent them.
THEOREM ArrivalsReachWaiters == Safety => ArrivalReachesWaiters
<1>1. IpcInv /\ IpcInv' /\ [Next]_vars =>
        [\A id \in FifoIds : start'[id] # start[id] =>
           \A e \in Hooked(id) : kevents[e].flag = READABLE =>
             /\ triggered'[e]
             /\ \A p \in Waiting(status') : kqueue_block'[p] # kevents[e].parent]_vars
  <2> SUFFICES ASSUME IpcInv, IpcInv', [Next]_vars,
                      NEW id \in FifoIds, start'[id] # start[id],
                      NEW e \in Hooked(id), kevents[e].flag = READABLE
               PROVE  /\ triggered'[e]
                      /\ \A p \in Waiting(status') : kqueue_block'[p] # kevents[e].parent
    OBVIOUS
  <2>1. triggered'[e] /\ UNCHANGED <<nevents, kevents>>
    BY StepDelivers DEF Delivered, State
  <2>2. e \in EventIds /\ e <= nevents
    BY DEF Hooked, IpcInv, KqueuesOK
  <2>3. \A p \in Waiting(status') : \A g \in EventIds :
          g <= nevents' /\ kevents'[g].parent = kqueue_block'[p] => ~triggered'[g]
    BY DEF IpcInv, Quiet, State, OfKqueue, Waiting
  <2>4. ASSUME NEW p \in Waiting(status'), kqueue_block'[p] = kevents[e].parent
        PROVE  FALSE
    BY <2>1, <2>2, <2>3, <2>4
  <2> QED BY <2>1, <2>4
<1> QED BY <1>1, IpcInvariant, PTL DEF Safety, ArrivalReachesWaiters

\* With FIFOs and kqueues deciding whom it wakes, the kernel is a behaviour of
\* the scheduler (syscall.c:20-140, interrupt.c:28-51), so everything proved of
\* the scheduler holds of it: here, that it shares the CPU.
THEOREM KernelSharesTheCpu == Safety => SchedSafety /\ CpuSafety
<1>1. Init => SchedInit
  BY DEF Init
<1>2. Safety => SchedSafety
  BY <1>1, NextSchedules, PTL DEF Safety, SchedSafety
<1> QED BY <1>2, SharesTheCpu, PTL

-----------------------------------------------------------------------------
ServerPcs ==
  {"link_irq", "register", "accept", "drain", "create", "wait", "hook",
   "block", "poll", "read", "inb", "send"}
ClientPcs == {"pipe", "connect", "create", "hook_kbd", "hook_pipe", "note", "block", "poll"}

\* A program is a record of its six variables.
IsProgram(r) ==
  r = [pc |-> r.pc, kid |-> r.kid, nevents |-> r.nevents, in |-> r.in, out |-> r.out,
       accept |-> r.accept]

ProgramsOK ==
  /\ prog = [p \in Pids |-> prog[p]]
  /\ \A p \in Pids : IsProgram(prog[p])
  /\ prog[Server].pc \in ServerPcs
  /\ \A p \in Clients :
       /\ prog[p].pc \in ClientPcs
       /\ prog[p].pc # "pipe" => prog[p].out \in FifoIds
       /\ prog[p].pc \notin {"pipe", "connect"} => prog[p].in \in FifoIds \cup {0}
       /\ prog[p].pc \notin {"pipe", "connect", "create"} => prog[p].kid \in KqueueIds

\* Every event belongs to a kqueue that somebody has created.
ParentsExist ==
  \A e \in EventIds : e <= nevents =>
    kevents[e].parent \in KqueueIds /\ kq_pid[kevents[e].parent] # 0

pc == prog[Server].pc
irq == prog[Server].in
kid == prog[Server].kid
Held == Used(start[irq], end[irq])

\* The FIFO of the interrupt, from the link_irq() on.
Linked ==
  pc # "link_irq" =>
    /\ irq \in FifoIds /\ irq < cur_fifo_id
    /\ receiver[irq] = Server /\ sender[irq] = Kernel
    /\ int_to_pid[Keyboard] = irq
    /\ pc \notin {"register", "accept"} => prog[Server].accept # irq

HasQueue == kid \in KqueueIds /\ kq_pid[kid] = Server

\* After the port has been drained, before the event is there.
Waits ==
  /\ pc \in {"create", "wait", "hook"} /\ port => Held > 0
  /\ pc \in {"wait", "hook"} => HasQueue /\ OfKqueue(kid) = {}

\* The server's only event, and what its mark says about the FIFO and the port.
ItsEvent(e) ==
  /\ HasQueue
  /\ OfKqueue(kid) = {e}
  /\ kevents[e] = [parent |-> kid, ident |-> irq, flag |-> READABLE, hooked |-> TRUE]

Signals(e) ==
  /\ triggered[e] => Held > 0
  /\ pc \in {"block", "poll", "send"} /\ (port \/ Held = Size - 1) => triggered[e]
  /\ pc = "inb" /\ Held = Size - 1 => triggered[e]
  /\ pc = "read" => Held > 0 /\ (triggered[e] => Held > 1)
  /\ pc = "poll" /\ status[Server] # WAITING => triggered[e]

Attends == Serving => \E e \in EventIds : ItsEvent(e) /\ Signals(e)

\* The server sleeps in its kqueue_block() only, on its kqueue.
SleepsInBlock ==
  status[Server] = WAITING => pc = "poll" /\ kqueue_block[Server] = kid

KbdInv ==
  IpcInv /\ ProgramsOK /\ ParentsExist /\ Linked /\ Waits /\ Attends /\ SleepsInBlock

-----------------------------------------------------------------------------
(* The ring of the interrupt's FIFO, byte by byte.                         *)

LEMMA UsedIs ==
  ASSUME NEW s \in Indices, NEW e \in Indices
  PROVE  Used(s, e) \in 0 .. Size - 1 /\ (Used(s, e) = 0 <=> s = e)
BY SizeAssumption DEF Used, Indices

\* A write that is not refused adds its length to the bytes in use.
LEMMA UsedGrows ==
  ASSUME NEW s \in Indices, NEW e \in Indices, NEW len \in Nat,
         WriteError(s, e, len) = SUCCESS
  PROVE  Used(Advance(s, len), e) = Used(s, e) + len
<1>1. len <= Size - 1 /\ CurFree(s, e) >= len
  BY SizeAssumption DEF WriteError, SUCCESS, BUFLEN, FULL, CurFree, Indices
<1> QED BY <1>1, SizeAssumption DEF Used, CurFree, Advance, Indices

\* A byte is refused by a full ring only.
LEMMA ByteFits ==
  ASSUME NEW s \in Indices, NEW e \in Indices, Used(s, e) # Size - 1
  PROVE  WriteError(s, e, 1) = SUCCESS
BY SizeAssumption DEF WriteError, SUCCESS, CurFree, Used, Indices

\* A byte can be read from any ring but an empty one.
LEMMA ByteLeaves ==
  ASSUME NEW s \in Indices, NEW e \in Indices, Used(s, e) > 0
  PROVE  /\ ReadError(s, e, 1) = SUCCESS
         /\ Used(s, Advance(e, 1)) = Used(s, e) - 1
         /\ Advance(e, 1) \in Indices
BY SizeAssumption DEF ReadError, CurSize, SUCCESS, Used, Advance, Indices

-----------------------------------------------------------------------------
(* What sending does for those who look at one FIFO: nothing, or it adds   *)
(* bytes and marks all of the FIFO's READABLE events.                      *)

Arrives(k, k2) ==
  /\ k2.block = k.block
  /\ \A p \in Pids \ Waiting(k.status) : k2.status[p] = k.status[p]
  /\ \A p \in Waiting(k.status) : k2.status[p] # WAITING =>
       \E e \in EventIds :
         e <= nevents /\ kevents[e].parent = k.block[p] /\ k2.triggered[e]
  /\ \A i \in FifoIds :
       \/ /\ k2.start[i] = k.start[i]
          /\ \A e \in EventIds : kevents[e].ident = i => k2.triggered[e] = k.triggered[e]
       \/ /\ Used(k2.start[i], end[i]) > Used(k.start[i], end[i])
          /\ \A e \in Hooked(i) : kevents[e].flag = READABLE => k2.triggered[e]

LEMMA NothingArrives ==
  ASSUME NEW k
  PROVE  Arrives(k, k)
BY DEF Arrives, Waiting

LEMMA SentArrives ==
  ASSUME IpcInv, NEW k \in States, Quiet(k), NEW id, NEW pid, NEW len \in Nat \ {0}
  PROVE  Arrives(k, Sent(k, id, pid, len))
<1> DEFINE F == {e \in Hooked(id) : kevents[e].flag = READABLE}
           s1 == [k.start EXCEPT ![id] = Advance(k.start[id], len)]
           k1 == [k EXCEPT !.start[id] = Advance(@, len)]
           k2 == Sent(k, id, pid, len)
<1>1. CASE ~(Exists(id) /\ WriteError(k.start[id], end[id], len) = SUCCESS /\ sender[id] = pid)
  BY <1>1, NothingArrives DEF Sent
<1>2. CASE Exists(id) /\ WriteError(k.start[id], end[id], len) = SUCCESS /\ sender[id] = pid
  <2>1. k1 = [start |-> s1, triggered |-> k.triggered, status |-> k.status, block |-> k.block]
    BY DEF States
  <2>2. k2 = Trigger(k1, F)
    BY <1>2 DEF Sent
  <2>3. /\ k2.start = s1
        /\ k2.triggered = Marked(k, F)
        /\ k2.status = Wake(k.status, Woken(k, F))
        /\ k2.block = k.block
    <3> HIDE DEF k1, k2, F, s1
    <3> QED BY <2>1, <2>2 DEF Trigger, Marked, Woken
  <2>4. \A e \in F : e \in EventIds /\ e <= nevents /\ k2.triggered[e] /\ kevents[e].ident = id
    <3>1. \A e \in F : e \in EventIds /\ e <= nevents /\ kevents[e].ident = id
      BY DEF Hooked, IpcInv, KqueuesOK
    <3> HIDE DEF k2, F
    <3> QED BY <2>3, <3>1 DEF Marked
  <2>5. \A e \in EventIds \ F : k2.triggered[e] = k.triggered[e]
    <3>1. \A e \in EventIds : k.triggered[e] \in BOOLEAN
      BY DEF States
    <3> HIDE DEF k2, F
    <3> QED BY <2>3, <3>1 DEF Marked
  <2>6. ASSUME NEW p \in Pids \ Waiting(k.status) PROVE k2.status[p] = k.status[p]
    <3> HIDE DEF k2, F
    <3> QED BY <2>3 DEF Wake, Woken
  <2>7. ASSUME NEW p \in Waiting(k.status), k2.status[p] # WAITING
        PROVE  \E e \in EventIds :
                 e <= nevents /\ kevents[e].parent = k.block[p] /\ k2.triggered[e]
    <3>1. p \in Woken(k, F)
      <4> HIDE DEF k2, F
      <4> QED BY <2>3, <2>7 DEF Wake, Waiting
    <3>2. PICK e \in F : k.block[p] = kevents[e].parent
      BY <3>1 DEF Woken
    <3> HIDE DEF k2, F
    <3> QED BY <2>4, <3>2
  <2>8. ASSUME NEW i \in FifoIds, i # id
        PROVE  /\ k2.start[i] = k.start[i]
               /\ \A e \in EventIds : kevents[e].ident = i => k2.triggered[e] = k.triggered[e]
    <3>1. s1[i] = k.start[i]
      BY <2>8 DEF States
    <3> HIDE DEF k2, F, s1
    <3> QED BY <2>3, <2>4, <2>5, <2>8, <3>1
  <2>9. /\ id \in FifoIds
        /\ Used(k2.start[id], end[id]) > Used(k.start[id], end[id])
        /\ \A e \in Hooked(id) : kevents[e].flag = READABLE => k2.triggered[e]
    <3>1. id \in FifoIds /\ k.start[id] \in Indices /\ end[id] \in Indices
      BY <1>2 DEF Exists, States, IpcInv, LinksOK
    <3>2. /\ Used(Advance(k.start[id], len), end[id]) = Used(k.start[id], end[id]) + len
          /\ Used(k.start[id], end[id]) \in 0 .. Size - 1
      BY <1>2, <3>1, UsedGrows, UsedIs
    <3>3. s1[id] = Advance(k.start[id], len)
      BY <3>1 DEF States
    <3>4. \A e \in Hooked(id) : kevents[e].flag = READABLE => k2.triggered[e]
      <4>1. \A e \in Hooked(id) : kevents[e].flag = READABLE => e \in F
        OBVIOUS
      <4> HIDE DEF k2, F
      <4> QED BY <2>4, <4>1
    <3>5. k2.start[id] = Advance(k.start[id], len)
      <4> HIDE DEF k2, s1
      <4> QED BY <2>3, <3>3
    <3>6. Used(k2.start[id], end[id]) > Used(k.start[id], end[id])
      <4> HIDE DEF k2
      <4> QED BY <3>2, <3>5, SizeAssumption
    <3> QED BY <3>1, <3>4, <3>6
  <2>10. Arrives(k, k2)
    <3> HIDE DEF k2
    <3> QED BY <2>3, <2>6, <2>7, <2>8, <2>9 DEF Arrives
  <2> QED BY <2>10
<1> QED BY <1>1, <1>2

LEMMA ByteArrives ==
  ASSUME IpcInv, NEW k \in States, Quiet(k), NEW v
  PROVE  Arrives(k, SendByte(k, v)) /\ Arrives(k, SendByteAfterSwitch(k))
<1>1. \A w : Arrives(k, SendByte(k, w))
  BY NothingArrives, SentArrives DEF SendByte
<1> QED BY <1>1, NothingArrives DEF SendByteAfterSwitch

-----------------------------------------------------------------------------
(* A step of somebody else, seen by the server: its FIFO, kqueue and event *)
(* stay, bytes may come, and it may be woken.                              *)

Kept ==
  /\ prog'[Server] = prog[Server]
  /\ pc # "link_irq" =>
       /\ irq < cur_fifo_id' /\ receiver'[irq] = receiver[irq] /\ sender'[irq] = sender[irq]
       /\ int_to_pid'[Keyboard] = int_to_pid[Keyboard]
       /\ end'[irq] = end[irq]
  /\ HasQueue =>
       /\ kq_pid'[kid] = Server
       /\ OfKqueue(kid)' = OfKqueue(kid)
       /\ \A e \in OfKqueue(kid) : kevents'[e] = kevents[e]

Quieter == start'[irq] = start[irq] /\ \A e \in EventIds : ItsEvent(e) => triggered'[e] = triggered[e]

Louder == Used(start'[irq], end[irq]) > Held /\ \A e \in EventIds : ItsEvent(e) => triggered'[e]

Came ==
  /\ pc # "link_irq" => Quieter \/ Louder
  /\ kqueue_block'[Server] = kqueue_block[Server]
  /\ status[Server] # WAITING => status'[Server] # WAITING
  /\ status[Server] = WAITING /\ status'[Server] # WAITING =>
       \A e \in EventIds : ItsEvent(e) => triggered'[e]

\* A key that is pressed finds room in the FIFO, or the FIFO is full.
Pressed == port' /\ ~port /\ pc # "link_irq" => Louder \/ Held = Size - 1

LEMMA OthersKeep ==
  ASSUME KbdInv, IpcInv', Kept, Came, Pressed
  PROVE  Linked' /\ Waits' /\ Attends' /\ SleepsInBlock'
<1>1. pc' = pc /\ irq' = irq /\ kid' = kid /\ prog'[Server].accept = prog[Server].accept
  BY DEF Kept, pc, irq, kid
<1>2. Linked'
  BY <1>1 DEF Kept, KbdInv, Linked
<1>3. SleepsInBlock'
  BY <1>1 DEF Came, KbdInv, SleepsInBlock
<1>4. pc # "link_irq" =>
        /\ Held' = Used(start'[irq], end[irq])
        /\ Held \in 0 .. Size - 1 /\ Held' \in 0 .. Size - 1
        /\ Held' = Held \/ Held' > Held
        /\ port' /\ ~port => Held' > 0
  <2> SUFFICES ASSUME pc # "link_irq"
               PROVE  /\ Held' = Used(start'[irq], end[irq])
                      /\ Held \in 0 .. Size - 1 /\ Held' \in 0 .. Size - 1
                      /\ Held' = Held \/ Held' > Held
                      /\ port' /\ ~port => Held' > 0
    OBVIOUS
  <2>1. Held' = Used(start'[irq], end[irq])
    BY <1>1 DEF Kept, Held
  <2>2. irq \in FifoIds /\ start[irq] \in Indices /\ end[irq] \in Indices
    BY DEF KbdInv, Linked, IpcInv, LinksOK, States, State
  <2>3. Held \in 0 .. Size - 1 /\ Held' \in 0 .. Size - 1
    <3>1. start'[irq] \in Indices
      BY <2>2 DEF IpcInv, States, State
    <3> QED BY <2>1, <2>2, <3>1, UsedIs DEF Held
  <2>4. Quieter => Held' = Held
    BY <2>1 DEF Quieter, Held
  <2>5. Louder => Held' > Held
    BY <2>1 DEF Louder
  <2>6. Quieter \/ Louder
    BY DEF Came
  <2>7. ASSUME port', ~port PROVE Held' > 0
    <3>1. Louder \/ Held = Size - 1
      BY <2>7 DEF Pressed
    <3> QED BY <2>3, <2>4, <2>5, <2>6, <3>1, SizeAssumption
  <2> QED BY <2>1, <2>3, <2>4, <2>5, <2>6, <2>7
<1>5. HasQueue => HasQueue'
  BY <1>1 DEF Kept, HasQueue
<1>6. HasQueue => OfKqueue(kid') = {} \/ OfKqueue(kid)' = OfKqueue(kid)
  BY DEF Kept
<1>7. Waits'
  <2>1. pc \in {"create", "wait", "hook"} /\ port' => Held' > 0
    <3> SUFFICES ASSUME pc \in {"create", "wait", "hook"}, port' PROVE Held' > 0
      OBVIOUS
    <3>1. CASE port
      <4>1. Held > 0
        BY <3>1 DEF KbdInv, Waits
      <4>2. Held \in Int /\ Held' \in Int /\ (Held' = Held \/ Held' > Held)
        BY <1>4
      <4>3. Held' = Held => Held' > 0
        BY <4>1
      <4> QED BY <4>1, <4>2, <4>3
    <3>2. CASE ~port
      BY <1>4, <3>2
    <3> QED BY <3>1, <3>2
  <2>2. pc \in {"wait", "hook"} => HasQueue' /\ OfKqueue(kid)' = {}
    BY <1>5 DEF Kept, KbdInv, Waits
  <2> QED BY <1>1, <2>1, <2>2 DEF Waits
<1>8. ASSUME NEW e \in EventIds, ItsEvent(e) PROVE ItsEvent(e)'
  <2>1. HasQueue /\ e \in OfKqueue(kid)
    BY <1>8 DEF ItsEvent
  <2> QED BY <1>1, <1>5, <1>8, <2>1 DEF ItsEvent, Kept
<1>9. ASSUME NEW e \in EventIds, ItsEvent(e), Signals(e), Serving PROVE Signals(e)'
  <2>1. pc # "link_irq"
    BY <1>9 DEF Serving, pc
  <2>2. Held \in 0 .. Size - 1 /\ Held' \in 0 .. Size - 1 /\ Size \in Nat
    BY <1>4, <2>1, SizeAssumption
  <2>3. CASE Louder
    <3>1. triggered'[e] /\ Held' > Held
      BY <1>4, <1>9, <2>1, <2>3 DEF Louder
    <3>2. Held' > 0 /\ (Held > 0 => Held' > 1)
      BY <2>2, <3>1
    <3> QED BY <1>1, <1>9, <3>1, <3>2 DEF Signals
  <2>4. CASE Quieter
    <3>1. triggered'[e] = triggered[e] /\ Held' = Held
      BY <1>4, <1>9, <2>1, <2>4 DEF Quieter, Held
    <3>2. ~Louder
      BY <1>4, <2>1, <2>2, <2>4 DEF Louder, Quieter, Held
    <3>3. port' => port \/ Held = Size - 1
      BY <2>1, <3>2 DEF Pressed
    <3>4. (port' \/ Held' = Size - 1) => (port \/ Held = Size - 1)
      BY <3>1, <3>3
    <3>5. status'[Server] # WAITING /\ status[Server] = WAITING => triggered'[e]
      BY <1>9 DEF Came
    <3> QED BY <1>1, <1>9, <3>1, <3>4, <3>5 DEF Signals
  <2> QED BY <2>1, <2>3, <2>4 DEF Came
<1>10. Attends'
  <2>1. Serving' = Serving
    BY <1>1 DEF Serving, pc
  <2> QED BY <1>8, <1>9, <2>1 DEF KbdInv, Attends
<1> QED BY <1>2, <1>3, <1>7, <1>10

-----------------------------------------------------------------------------
(* When a step is one of somebody else's.                                  *)

LEMMA FifosStay ==
  ASSUME NEW ends, Len(ends) \in Nat, CreateFifos(ends), cur_fifo_id \in Nat,
         NEW i \in FifoIds, i < cur_fifo_id
  PROVE  i < cur_fifo_id' /\ receiver'[i] = receiver[i] /\ sender'[i] = sender[i]
<1> DEFINE n == Len(ends)
           new == cur_fifo_id .. cur_fifo_id + n - 1
<1>1. i \notin new /\ i \in Nat
  BY DEF FifoIds
<1>2. cur_fifo_id' = cur_fifo_id + n /\ receiver'[i] = receiver[i] /\ sender'[i] = sender[i]
  BY <1>1 DEF CreateFifos
<1> HIDE DEF n, new
<1>3. n \in Nat
  BY DEF n
<1> QED BY <1>1, <1>2, <1>3

\* A new event of a kqueue that is not the server's.
EventElsewhere ==
  /\ nevents' = nevents + 1 /\ nevents' \in EventIds
  /\ \E kq \in KqueueIds : \E ev :
       /\ kq_pid[kq] # Server /\ kq_pid[kq] # 0 /\ ev.parent = kq
       /\ kevents' = [kevents EXCEPT ![nevents'] = ev]
  /\ UNCHANGED kq_pid

\* A new kqueue of a process that is not the server.
QueueElsewhere ==
  /\ next_kqueue_id \in KqueueIds
  /\ me \in Pids /\ me # Server
  /\ kq_pid' = [kq_pid EXCEPT ![next_kqueue_id] = me]
  /\ UNCHANGED <<nevents, kevents>>

LEMMA KeptBy ==
  ASSUME KbdInv, prog'[Server] = prog[Server],
         UNCHANGED fifoVars \/ \E ends : Len(ends) \in Nat /\ CreateFifos(ends),
         UNCHANGED <<end, int_to_pid>>,
         UNCHANGED kqueueVars \/ QueueElsewhere \/ EventElsewhere
  PROVE  Kept /\ ParentsExist'
<1>1. IpcInv /\ Linked /\ ParentsExist
  BY DEF KbdInv
<1>2. pc # "link_irq" =>
        irq < cur_fifo_id' /\ receiver'[irq] = receiver[irq] /\ sender'[irq] = sender[irq]
  <2>1. cur_fifo_id \in Nat
    BY <1>1 DEF IpcInv, FifosOK
  <2> QED BY <1>1, <2>1, FifosStay DEF Linked, fifoVars
<1>3. 0 \notin Pids /\ Server \in Pids
  BY ProgramAssumption DEF Pids
<1>4. CASE UNCHANGED kqueueVars
  <2>1. UNCHANGED <<kq_pid, nevents, kevents>>
    BY <1>4 DEF kqueueVars
  <2>2. kid' = kid
    BY DEF kid
  <2>3. ParentsExist'
    BY <1>1, <2>1 DEF ParentsExist
  <2>4. HasQueue => kq_pid'[kid] = Server /\ OfKqueue(kid)' = OfKqueue(kid)
    BY <2>1, <2>2 DEF HasQueue, OfKqueue
  <2> QED BY <1>2, <2>1, <2>3, <2>4 DEF Kept
<1>5. CASE QueueElsewhere
  <2>1. /\ kq_pid \in [KqueueIds -> Pids \cup {0}] /\ kq_pid[next_kqueue_id] = 0
        /\ next_kqueue_id \in KqueueIds
    BY <1>1, <1>5 DEF QueueElsewhere, IpcInv, KqueuesOK, KqueueIds
  <2>2. \A kq \in KqueueIds : kq_pid[kq] # 0 => kq_pid'[kq] = kq_pid[kq]
    BY <1>5, <2>1 DEF QueueElsewhere
  <2>3. ParentsExist'
    BY <1>1, <1>5, <2>2 DEF QueueElsewhere, ParentsExist
  <2>4. HasQueue => /\ kq_pid'[kid] = Server
                    /\ OfKqueue(kid)' = OfKqueue(kid)
                    /\ \A e \in OfKqueue(kid) : kevents'[e] = kevents[e]
    <3>1. kid' = kid
      BY DEF kid
    <3> QED BY <1>3, <1>5, <2>2, <3>1 DEF QueueElsewhere, HasQueue, OfKqueue
  <2> QED BY <1>2, <2>3, <2>4 DEF Kept
<1>6. CASE EventElsewhere
  <2>0. PICK kq \in KqueueIds : \E ev :
          /\ kq_pid[kq] # Server /\ kq_pid[kq] # 0 /\ ev.parent = kq
          /\ kevents' = [kevents EXCEPT ![nevents'] = ev]
    BY <1>6 DEF EventElsewhere
  <2>1. PICK ev :
          /\ kq_pid[kq] # Server /\ kq_pid[kq] # 0 /\ ev.parent = kq
          /\ kevents' = [kevents EXCEPT ![nevents'] = ev]
    BY <2>0
  <2>2. /\ nevents' = nevents + 1 /\ nevents' \in EventIds /\ nevents \in Nat
        /\ kevents \in [EventIds -> EventType] /\ kq_pid' = kq_pid /\ EventIds \subseteq Nat
    BY <1>1, <1>6 DEF EventElsewhere, IpcInv, KqueuesOK, EventIds
  <2>3. /\ kevents'[nevents'] = ev
        /\ \A e \in EventIds : e # nevents' => kevents'[e] = kevents[e]
    BY <2>1, <2>2
  <2>4. \A e \in EventIds : e <= nevents' => e <= nevents \/ e = nevents'
    BY <2>2
  <2>5. ParentsExist'
    BY <1>1, <2>1, <2>2, <2>3, <2>4 DEF ParentsExist
  <2>6. ASSUME HasQueue
        PROVE  /\ OfKqueue(kid)' = OfKqueue(kid)
               /\ \A e \in OfKqueue(kid) : kevents'[e] = kevents[e]
    <3>1. kid' = kid /\ kid # kq
      BY <2>1, <2>6 DEF kid, HasQueue
    <3>2. \A e \in EventIds : e <= nevents => e # nevents' /\ e <= nevents'
      BY <2>2
    <3>3. \A e \in EventIds : e <= nevents' /\ kevents'[e].parent = kid <=>
            e <= nevents /\ kevents[e].parent = kid
      BY <2>1, <2>3, <2>4, <3>1, <3>2
    <3> QED BY <2>3, <3>1, <3>2, <3>3 DEF OfKqueue
  <2>7. HasQueue => kq_pid'[kid] = Server
    BY <2>2 DEF HasQueue
  <2> QED BY <1>2, <2>5, <2>6, <2>7 DEF Kept
<1> QED BY <1>4, <1>5, <1>6

\* What the kernel state becomes when something is sent.
LEMMA CameBy ==
  ASSUME KbdInv, NEW k0, NEW k \in States, Arrives(k0, k), Becomes(k),
         k0.start = start, k0.triggered = triggered,
         k0.status[Server] = status[Server], k0.block[Server] = kqueue_block[Server]
  PROVE  Came
<1>1. Server \in Pids
  BY ProgramAssumption
<1>2. /\ start' = k.start /\ triggered' = k.triggered /\ status' = k.status
      /\ kqueue_block' = k.block
  BY DEF Becomes
<1>3. ASSUME pc # "link_irq" PROVE Quieter \/ Louder
  <2>1. irq \in FifoIds
    BY <1>3 DEF KbdInv, Linked
  <2>2. \A e \in EventIds : ItsEvent(e) =>
          kevents[e].ident = irq /\ e \in Hooked(irq) /\ kevents[e].flag = READABLE
    BY DEF ItsEvent, Hooked
  <2> QED BY <1>2, <2>1, <2>2 DEF Arrives, Quieter, Louder, Held
<1>4. kqueue_block'[Server] = kqueue_block[Server]
  BY <1>2 DEF Arrives
<1>5. status[Server] # WAITING => status'[Server] # WAITING
  BY <1>1, <1>2 DEF Arrives, Waiting
<1>6. ASSUME status[Server] = WAITING, status'[Server] # WAITING,
             NEW e \in EventIds, ItsEvent(e)
      PROVE  triggered'[e]
  <2>1. PICK g \in EventIds :
          g <= nevents /\ kevents[g].parent = k0.block[Server] /\ k.triggered[g]
    BY <1>1, <1>2, <1>6 DEF Arrives, Waiting
  <2>2. g \in OfKqueue(kid)
    BY <1>6, <2>1 DEF KbdInv, SleepsInBlock, OfKqueue
  <2> QED BY <1>2, <1>6, <2>1, <2>2 DEF ItsEvent
<1> QED BY <1>3, <1>4, <1>5, <1>6 DEF Came

\* When nothing is sent.
LEMMA CameNothing ==
  ASSUME start' = start, status' = status, kqueue_block' = kqueue_block,
         \A e \in EventIds : ItsEvent(e) => triggered'[e] = triggered[e]
  PROVE  Came
BY DEF Came, Quieter

\* The variables of the program that makes a call.
LEMMA CallerBecomes ==
  ASSUME ProgramsOK, me \in Pids, NEW r, Becoming(r), IsProgram(r),
         me = Server => r.pc \in ServerPcs,
         me # Server =>
           /\ r.pc \in ClientPcs
           /\ r.pc # "pipe" => r.out \in FifoIds
           /\ r.pc \notin {"pipe", "connect"} => r.in \in FifoIds \cup {0}
           /\ r.pc \notin {"pipe", "connect", "create"} => r.kid \in KqueueIds
  PROVE  /\ ProgramsOK'
         /\ prog'[me] = r
         /\ \A p \in Pids \ {me} : prog'[p] = prog[p]
<1>1. /\ prog' = [prog EXCEPT ![me] = r]
      /\ prog = [p \in Pids |-> prog[p]] /\ Server \in Pids
  BY ProgramAssumption DEF Becoming, ProgramsOK
<1>2. /\ prog' = [p \in Pids |-> prog'[p]] /\ prog'[me] = r
      /\ \A p \in Pids \ {me} : prog'[p] = prog[p]
  BY <1>1
<1>3. /\ \A p \in Pids : IsProgram(prog[p])
      /\ prog[Server].pc \in ServerPcs
      /\ \A p \in Clients :
           /\ prog[p].pc \in ClientPcs
           /\ prog[p].pc # "pipe" => prog[p].out \in FifoIds
           /\ prog[p].pc \notin {"pipe", "connect"} => prog[p].in \in FifoIds \cup {0}
           /\ prog[p].pc \notin {"pipe", "connect", "create"} => prog[p].kid \in KqueueIds
  BY DEF ProgramsOK
<1>4. \A p \in Pids : IsProgram(prog'[p])
  BY <1>2, <1>3
<1>5. prog'[Server].pc \in ServerPcs
  BY <1>1, <1>2, <1>3
<1>6. ASSUME NEW p \in Clients
      PROVE  /\ prog'[p].pc \in ClientPcs
             /\ prog'[p].pc # "pipe" => prog'[p].out \in FifoIds
             /\ prog'[p].pc \notin {"pipe", "connect"} => prog'[p].in \in FifoIds \cup {0}
             /\ prog'[p].pc \notin {"pipe", "connect", "create"} => prog'[p].kid \in KqueueIds
  <2>1. p \in Pids /\ p # Server
    BY DEF Clients
  <2> QED BY <1>2, <1>3, <2>1
<1>7. ProgramsOK'
  BY <1>2, <1>4, <1>5, <1>6 DEF ProgramsOK, IsProgram
<1> QED BY <1>2, <1>7

-----------------------------------------------------------------------------
(* The steps of others: clients' calls, ticks, the end of the idle loop.   *)

LEMMA OthersStep ==
  ASSUME KbdInv, IpcInv', ProgramsOK', ParentsExist', Kept, Came, UNCHANGED port
  PROVE  KbdInv'
BY OthersKeep DEF KbdInv, Pressed

\* The program that makes a call.
LEMMA Calls ==
  ASSUME KbdInv, mode = USER
  PROVE  me \in Pids /\ me # Kernel /\ my = prog[me] /\ IsProgram(my)
         /\ (me = Server => my.pc \in ServerPcs) /\ (me # Server => me \in Clients)
BY Caller DEF KbdInv, IpcInv, ProgramsOK, my, Clients, Pids, Kernel

LEMMA CallsOfClients ==
  ASSUME KbdInv, MakePipe \/ Connect \/ ConnectRefused \/ HookKeyboard \/ HookPipe \/ WriteNote
  PROVE  me \in Clients /\ me \in Pids /\ me # Server /\ mode = USER
<1>1. mode = USER /\ my.pc \in {"pipe", "connect", "hook_kbd", "hook_pipe", "note"}
  BY DEF MakePipe, Connect, ConnectRefused, HookKeyboard, HookPipe, WriteNote, At
<1> QED BY <1>1, Calls DEF ServerPcs

LEMMA TwoNew ==
  ASSUME NEW p, NEW q, CreateFifos(<<p, q>>), FifosOK
  PROVE  cur_fifo_id \in FifoIds /\ cur_fifo_id + 1 \in FifoIds
<1> DEFINE ends == <<p, q>>
<1>1. cur_fifo_id .. cur_fifo_id + Len(ends) - 1 \subseteq FifoIds
  BY DEF CreateFifos
<1>2. Len(ends) = 2 /\ cur_fifo_id \in Nat
  BY DEF FifosOK
<1>3. cur_fifo_id .. cur_fifo_id + 2 - 1 \subseteq FifoIds
  <2> HIDE DEF ends
  <2> QED BY <1>1, <1>2
<1> QED BY <1>2, <1>3

LEMMA MakePipeStep ==
  ASSUME KbdInv, SchedInv', MakePipe
  PROVE  KbdInv'
<1>1. me \in Pids /\ me # Server /\ mode = USER
  BY CallsOfClients
<1> DEFINE ends == << <<me, me>>, <<me, me>> >>
<1>2. IpcInv'
  BY FifoPipeInv DEF MakePipe, KbdInv
<1>3. PICK r : Becoming(r) /\ IsProgram(r) /\ r.pc = "connect" /\ r.out = cur_fifo_id
  <2>1. Becoming([my EXCEPT !.out = cur_fifo_id, !.pc = "connect"])
    BY DEF MakePipe
  <2>2. IsProgram(my)
    BY <1>1, Calls
  <2>3. PICK r : r = [my EXCEPT !.out = cur_fifo_id, !.pc = "connect"]
    OBVIOUS
  <2>4. Becoming(r)
    BY <2>1, <2>3, Zenon
  <2>5. IsProgram(r) /\ r.pc = "connect" /\ r.out = cur_fifo_id
    BY <2>2, <2>3 DEF IsProgram
  <2> QED BY <2>4, <2>5
<1>a. cur_fifo_id \in FifoIds
  BY TwoNew DEF MakePipe, FifoPipe, KbdInv, IpcInv
<1>4. ProgramsOK' /\ prog'[Server] = prog[Server]
  BY <1>1, <1>3, <1>a, CallerBecomes, ProgramAssumption DEF KbdInv, ClientPcs
<1>5. CreateFifos(ends) /\ Len(ends) \in Nat
  BY DEF MakePipe, FifoPipe
<1>6. Kept /\ ParentsExist'
  <2>1. \E x : Len(x) \in Nat /\ CreateFifos(x)
    <3> HIDE DEF ends
    <3> QED BY <1>5
  <2> QED BY <1>1, <1>4, <2>1, KeptBy DEF MakePipe, FifoPipe
<1>7. Came
  BY CameNothing DEF MakePipe, FifoPipe, Becomes, State
<1> QED BY <1>2, <1>4, <1>6, <1>7, OthersStep DEF MakePipe

LEMMA ConnectStep ==
  ASSUME KbdInv, SchedInv', Connect
  PROVE  KbdInv'
<1>1. me \in Pids /\ me # Server /\ mode = USER
  BY CallsOfClients
<1> DEFINE ends == << <<devlist[Dev].pid, me>>, <<me, devlist[Dev].pid>> >>
           k == Sent(State, devlist[Dev].accept, Kernel, MsgLen)
<1>2. DevnodeConnect(Dev) /\ Dev \in DevNames
  BY ProgramAssumption DEF Connect
<1>3. IpcInv'
  BY <1>2, DevnodeConnectInv DEF KbdInv
<1>4. CreateFifos(ends) /\ Len(ends) \in Nat /\ Len(ends) = 2
  BY <1>2 DEF DevnodeConnect
<1>5. cur_fifo_id + 1 \in FifoIds
  BY <1>2, TwoNew DEF DevnodeConnect, KbdInv, IpcInv
<1>b. IsProgram(my) /\ my.out \in FifoIds
  BY <1>1, CallsOfClients DEF Connect, At, KbdInv, ProgramsOK, my
<1>6. PICK r : /\ Becoming(r) /\ IsProgram(r) /\ r.pc = "create"
               /\ r.in = cur_fifo_id + 1 /\ r.out = my.out
  <2>1. Becoming([my EXCEPT !.in = cur_fifo_id + 1, !.pc = "create"])
    BY DEF Connect
  <2>2. PICK r : r = [my EXCEPT !.in = cur_fifo_id + 1, !.pc = "create"]
    OBVIOUS
  <2>3. Becoming(r)
    BY <2>1, <2>2, Zenon
  <2>4. IsProgram(r) /\ r.pc = "create" /\ r.in = cur_fifo_id + 1 /\ r.out = my.out
    BY <1>b, <2>2 DEF IsProgram
  <2> QED BY <2>3, <2>4
<1>7. ProgramsOK' /\ prog'[Server] = prog[Server]
  BY <1>1, <1>5, <1>b, <1>6, CallerBecomes, ProgramAssumption DEF KbdInv, ClientPcs
<1>8. Kept /\ ParentsExist'
  <2>1. \E x : Len(x) \in Nat /\ CreateFifos(x)
    <3> HIDE DEF ends
    <3> QED BY <1>4
  <2> QED BY <1>1, <1>2, <1>7, <2>1, KeptBy DEF DevnodeConnect
<1>9. Came
  <2>1. k \in States /\ Arrives(State, k)
    BY SentQuiet, SentArrives, IpcAssumption DEF KbdInv, IpcInv
  <2>2. Becomes(k)
    BY <1>2 DEF DevnodeConnect
  <2> HIDE DEF k
  <2> QED BY <2>1, <2>2, CameBy DEF State
<1> QED BY <1>3, <1>7, <1>8, <1>9, OthersStep DEF Connect

LEMMA ConnectRefusedStep ==
  ASSUME KbdInv, SchedInv', ConnectRefused
  PROVE  KbdInv'
<1>1. me \in Pids /\ me # Server /\ mode = USER
  BY CallsOfClients
<1>2. PICK w \in FreshWords : Becoming([my EXCEPT !.in = w, !.pc = "create"])
  BY DEF ConnectRefused
<1>3. UNCHANGED vars
  BY DEF ConnectRefused, Refused
<1>4. IpcInv'
  BY <1>3, IpcStep DEF KbdInv
<1>5. w \in FifoIds \cup {0}
  BY IpcAssumption DEF FifoIds
<1>b. IsProgram(my) /\ my.out \in FifoIds
  BY <1>1, CallsOfClients DEF ConnectRefused, At, KbdInv, ProgramsOK, my
<1>6. PICK r : Becoming(r) /\ IsProgram(r) /\ r.pc = "create" /\ r.in = w /\ r.out = my.out
  <2>2. PICK r : r = [my EXCEPT !.in = w, !.pc = "create"]
    OBVIOUS
  <2>3. Becoming(r)
    BY <1>2, <2>2, Zenon
  <2>4. IsProgram(r) /\ r.pc = "create" /\ r.in = w /\ r.out = my.out
    BY <1>b, <2>2 DEF IsProgram
  <2> QED BY <2>3, <2>4
<1>7. ProgramsOK' /\ prog'[Server] = prog[Server]
  BY <1>1, <1>5, <1>b, <1>6, CallerBecomes, ProgramAssumption DEF KbdInv, ClientPcs
<1>8. Kept /\ ParentsExist'
  BY <1>1, <1>3, <1>7, KeptBy DEF vars, ipcVars
<1>9. Came
  BY <1>3, CameNothing DEF vars, ipcVars, schedVars
<1> QED BY <1>4, <1>7, <1>8, <1>9, OthersStep DEF ConnectRefused

LEMMA WriteNoteStep ==
  ASSUME KbdInv, SchedInv', WriteNote
  PROVE  KbdInv'
<1>1. me \in Pids /\ me # Server /\ mode = USER /\ me \in Clients
  BY CallsOfClients
<1> DEFINE r == [my EXCEPT !.pc = "block"]
           k == Sent(State, my.out, me, NoteLen)
<1>2. FifoWrite(my.out, NoteLen) /\ NoteLen \in Nat \ {0} /\ my.pc = "note"
  BY ProgramAssumption, IpcAssumption DEF WriteNote, At
<1>3. IpcInv'
  BY <1>2, FifoWriteInv DEF KbdInv
<1>4. /\ IsProgram(r) /\ r.pc = "block" /\ r.in = my.in /\ r.out = my.out
      /\ r.kid = my.kid /\ Becoming(r)
  BY <1>1, Calls DEF IsProgram, WriteNote, Goto
<1>5. my.out \in FifoIds /\ my.in \in FifoIds \cup {0} /\ my.kid \in KqueueIds
  BY <1>1, <1>2 DEF KbdInv, ProgramsOK, my
<1>6. ProgramsOK' /\ prog'[Server] = prog[Server]
  <2> HIDE DEF r
  <2> QED BY <1>1, <1>4, <1>5, CallerBecomes, ProgramAssumption DEF KbdInv, ClientPcs
<1>7. Kept /\ ParentsExist'
  BY <1>1, <1>2, <1>6, KeptBy DEF FifoWrite
<1>8. Came
  <2>1. k \in States /\ Arrives(State, k)
    BY <1>2, SentQuiet, SentArrives DEF KbdInv, IpcInv
  <2>2. Becomes(k)
    BY <1>2 DEF FifoWrite
  <2> HIDE DEF k
  <2> QED BY <2>1, <2>2, CameBy DEF State
<1> QED BY <1>3, <1>6, <1>7, <1>8, OthersStep DEF WriteNote

\* A client asks for the events of the FIFO x.
LEMMA ClientHooks ==
  ASSUME KbdInv, SchedInv', me \in Clients, NEW x \in FifoIds \cup {0},
         my.pc \in {"hook_kbd", "hook_pipe"}, KqueueEvent(my.kid, x, READABLE),
         NEW next \in {"hook_pipe", "note"}, Goto(next), UNCHANGED port
  PROVE  KbdInv'
<1>1. me \in Pids /\ me # Server
  BY DEF Clients
<1> DEFINE r == [my EXCEPT !.pc = next]
           new == nevents + 1
<1>2. /\ my.kid \in KqueueIds /\ my.in \in FifoIds \cup {0} /\ my.out \in FifoIds
      /\ IsProgram(my)
  BY <1>1 DEF KbdInv, ProgramsOK, my
<1>3. IpcInv'
  BY <1>2, KqueueEventInv DEF KbdInv
<1>4. /\ IsProgram(r) /\ r.pc = next /\ r.in = my.in /\ r.out = my.out
      /\ r.kid = my.kid /\ Becoming(r)
  BY <1>2 DEF IsProgram, Goto
<1>5. ProgramsOK' /\ prog'[Server] = prog[Server]
  <2> HIDE DEF r
  <2> QED BY <1>1, <1>2, <1>4, CallerBecomes, ProgramAssumption DEF KbdInv, ClientPcs
<1>6. EventElsewhere
  <2> DEFINE ev == [parent |-> my.kid, ident |-> x, flag |-> READABLE, hooked |-> Exists(x)]
  <2>1. /\ nevents' = new /\ new \in EventIds /\ kq_pid[my.kid] = me
        /\ kevents' = [kevents EXCEPT ![new] = ev] /\ UNCHANGED kq_pid
    BY DEF KqueueEvent
  <2>2. me # 0
    BY <1>1 DEF Pids
  <2>3. ev.parent = my.kid
    OBVIOUS
  <2> HIDE DEF ev
  <2> QED BY <1>1, <1>2, <2>1, <2>2, <2>3 DEF EventElsewhere
<1>7. Kept /\ ParentsExist'
  BY <1>1, <1>5, <1>6, KeptBy DEF KqueueEvent
<1>8. Came
  <2> DEFINE t == [triggered EXCEPT ![new] = Exists(x) /\ READABLE = READABLE /\ start[x] # end[x]]
  <2>1. /\ start' = start /\ status' = status /\ kqueue_block' = kqueue_block
        /\ triggered' = t
    BY DEF KqueueEvent, Becomes, State
  <2>2. \A e \in EventIds : ItsEvent(e) => e # new
    <3>1. \A e \in EventIds : ItsEvent(e) => e <= nevents
      BY DEF ItsEvent, OfKqueue
    <3>2. nevents \in Nat
      BY DEF KbdInv, IpcInv, KqueuesOK
    <3> QED BY <3>1, <3>2 DEF EventIds
  <2>3. \A e \in EventIds : e # new => t[e] = triggered[e]
    BY DEF KbdInv, IpcInv, States, State
  <2> HIDE DEF t
  <2> QED BY <2>1, <2>2, <2>3, CameNothing
<1> QED BY <1>3, <1>5, <1>7, <1>8, OthersStep

LEMMA HookSteps ==
  ASSUME KbdInv, SchedInv', HookKeyboard \/ HookPipe
  PROVE  KbdInv'
<1>1. me \in Clients
  BY CallsOfClients
<1>2. CASE HookKeyboard
  <2>1. my.pc = "hook_kbd" /\ my.in \in FifoIds \cup {0}
    BY <1>1, <1>2 DEF HookKeyboard, At, KbdInv, ProgramsOK, my
  <2> QED BY <1>1, <1>2, <2>1, ClientHooks DEF HookKeyboard
<1>3. CASE HookPipe
  <2>1. my.pc = "hook_pipe" /\ my.out \in FifoIds
    BY <1>1, <1>3 DEF HookPipe, At, KbdInv, ProgramsOK, my
  <2> QED BY <1>1, <1>3, <2>1, ClientHooks DEF HookPipe
<1> QED BY <1>2, <1>3

-----------------------------------------------------------------------------
(* The calls of both programs, made by a client.                           *)

LEMMA ClientCreates ==
  ASSUME KbdInv, SchedInv', CreateKqueue, me # Server
  PROVE  KbdInv'
<1>1. me \in Pids /\ me \in Clients /\ mode = USER /\ IsProgram(my) /\ my.pc = "create"
  BY Calls DEF CreateKqueue, At
<1>2. KqueueCreate /\ next_kqueue_id \in KqueueIds
  BY DEF CreateKqueue, KqueueCreate
<1>3. IpcInv'
  BY <1>2, KqueueCreateInv DEF KbdInv
<1>4. PICK r : r = [my EXCEPT !.kid = next_kqueue_id,
                              !.pc = IF me = Server THEN "wait" ELSE "hook_kbd"]
  OBVIOUS
<1>5. Becoming(r)
  <2>1. Becoming([my EXCEPT !.kid = next_kqueue_id,
                            !.pc = IF me = Server THEN "wait" ELSE "hook_kbd"])
    BY DEF CreateKqueue
  <2> QED BY <1>4, <2>1, Zenon
<1>6. /\ IsProgram(r) /\ r.pc = "hook_kbd" /\ r.kid = next_kqueue_id
      /\ r.in = my.in /\ r.out = my.out
  BY <1>1, <1>4 DEF IsProgram
<1>7. my.in \in FifoIds \cup {0} /\ my.out \in FifoIds
  BY <1>1 DEF KbdInv, ProgramsOK, my
<1>8. ProgramsOK' /\ prog'[Server] = prog[Server]
  BY <1>1, <1>2, <1>5, <1>6, <1>7, CallerBecomes, ProgramAssumption DEF KbdInv, ClientPcs
<1>9. QueueElsewhere
  BY <1>1, <1>2 DEF KqueueCreate, QueueElsewhere
<1>10. Kept /\ ParentsExist'
  BY <1>2, <1>8, <1>9, KeptBy DEF KqueueCreate
<1>11. Came
  BY <1>2, CameNothing DEF KqueueCreate, Becomes, State
<1> QED BY <1>3, <1>8, <1>10, <1>11, OthersStep DEF CreateKqueue

\* A client that blocks, or that looks for its events, touches no other kqueue.
LEMMA ClientBlocks ==
  ASSUME KbdInv, SchedInv', BlockCall, me # Server
  PROVE  KbdInv'
<1>1. me \in Pids /\ me \in Clients /\ mode = USER /\ IsProgram(my) /\ my.pc = "block"
  BY Calls DEF BlockCall, At
<1> DEFINE r == [my EXCEPT !.pc = "poll"]
<1>2. IsProgram(r) /\ r.pc = "poll" /\ r.in = my.in /\ r.out = my.out /\ r.kid = my.kid
  BY <1>1 DEF IsProgram
<1>3. Becoming(r)
  BY DEF BlockCall, Goto
<1>4. my.in \in FifoIds \cup {0} /\ my.out \in FifoIds /\ my.kid \in KqueueIds
  BY <1>1 DEF KbdInv, ProgramsOK, my
<1>5. ProgramsOK' /\ prog'[Server] = prog[Server]
  <2> HIDE DEF r
  <2> QED BY <1>1, <1>2, <1>3, <1>4, CallerBecomes, ProgramAssumption DEF KbdInv, ClientPcs
<1>6. CASE Refused
  <2>1. UNCHANGED vars
    BY <1>6 DEF Refused
  <2>2. IpcInv'
    BY <2>1, IpcStep DEF KbdInv
  <2>3. Kept /\ ParentsExist'
    BY <1>5, <2>1, KeptBy DEF vars, ipcVars
  <2>4. Came
    BY <2>1, CameNothing DEF vars, ipcVars, schedVars
  <2> QED BY <1>5, <2>2, <2>3, <2>4, OthersStep DEF BlockCall
<1>7. CASE KqueueBlock(my.kid)
  <2>1. IpcInv'
    BY <1>4, <1>7, KqueueBlockInv DEF KbdInv
  <2>2. Kept /\ ParentsExist'
    BY <1>5, <1>7, KeptBy DEF KqueueBlock
  <2>3. Came
    <3> DEFINE k0 == Asleep(my.kid)
               k == SendByteAfterSwitch(k0)
    <3>1. k0 \in States /\ Quiet(k0)
      BY <1>1, <1>4, <1>7, AsleepQuiet DEF KqueueBlock, KbdInv
    <3>2. k \in States /\ Arrives(k0, k)
      <4> HIDE DEF k0
      <4> QED BY <3>1, SendByteAfterSwitchQuiet, ByteArrives DEF KbdInv
    <3>3. Becomes(k)
      BY <1>7 DEF KqueueBlock
    <3>4. /\ k0.start = start /\ k0.triggered = triggered
          /\ k0.status[Server] = status[Server] /\ k0.block[Server] = kqueue_block[Server]
      <4>1. Server \in Pids /\ State \in States
        BY ProgramAssumption DEF KbdInv, IpcInv
      <4> QED BY <4>1 DEF Asleep, States, State
    <3> HIDE DEF k, k0
    <3> QED BY <3>2, <3>3, <3>4, CameBy
  <2> QED BY <1>5, <2>1, <2>2, <2>3, OthersStep DEF BlockCall
<1> QED BY <1>6, <1>7 DEF BlockCall

LEMMA ClientPolls ==
  ASSUME KbdInv, SchedInv', PollCall, me # Server
  PROVE  KbdInv'
<1>1. me \in Pids /\ me \in Clients /\ mode = USER /\ IsProgram(my) /\ my.pc = "poll"
  BY Calls DEF PollCall, At
<1>2. my.in \in FifoIds \cup {0} /\ my.out \in FifoIds /\ my.kid \in KqueueIds
  BY <1>1 DEF KbdInv, ProgramsOK, my
<1>3. KqueuePoll(my.kid, my.nevents) /\ kq_pid[my.kid] = me
  BY DEF PollCall, KqueuePoll
<1>4. IpcInv'
  BY <1>2, <1>3, KqueuePollInv DEF KbdInv
<1>5. PICK n : n = Cardinality({e \in EventIds : triggered[e] /\ ~triggered'[e]})
  OBVIOUS
<1>6. PICK r : r = [my EXCEPT !.nevents = n, !.pc = IF me = Server THEN "read" ELSE "note"]
  OBVIOUS
<1>7. Becoming(r)
  <2>1. Becoming([my EXCEPT !.nevents = Cardinality({e \in EventIds : triggered[e] /\ ~triggered'[e]}),
                            !.pc = IF me = Server THEN "read" ELSE "note"])
    BY DEF PollCall
  <2> QED BY <1>5, <1>6, <2>1, Zenon
<1>8. /\ IsProgram(r) /\ r.pc = "note" /\ r.kid = my.kid /\ r.in = my.in /\ r.out = my.out
  BY <1>1, <1>6 DEF IsProgram
<1>9. ProgramsOK' /\ prog'[Server] = prog[Server]
  BY <1>1, <1>2, <1>7, <1>8, CallerBecomes, ProgramAssumption DEF KbdInv, ClientPcs
<1>10. Kept /\ ParentsExist'
  BY <1>3, <1>9, KeptBy DEF KqueuePoll
<1>11. Came
  <2>1. /\ start' = start /\ status' = status /\ kqueue_block' = kqueue_block
        /\ \A e \in EventIds \ OfKqueue(my.kid) : triggered'[e] = triggered[e]
    <3> DEFINE newer(e) == {g \in OfKqueue(my.kid) : g > e}
               t == [e \in EventIds |->
                 /\ triggered[e]
                 /\ ~ /\ e \in OfKqueue(my.kid)
                      /\ \/ newer(e) = {}
                         \/ Cardinality({g \in newer(e) : triggered[g]}) < my.nevents]
    <3>1. Becomes([State EXCEPT !.triggered = t])
      BY <1>3 DEF KqueuePoll
    <3>2. \A e \in EventIds \ OfKqueue(my.kid) : t[e] = triggered[e]
      <4>1. \A e \in EventIds : triggered[e] \in BOOLEAN
        BY DEF KbdInv, IpcInv, States, State
      <4> HIDE DEF newer
      <4> QED BY <4>1
    <3> HIDE DEF t
    <3> QED BY <3>1, <3>2 DEF Becomes, State
  <2>2. \A e \in EventIds : ItsEvent(e) => e \notin OfKqueue(my.kid)
    BY <1>3 DEF ItsEvent, HasQueue, OfKqueue
  <2> QED BY <2>1, <2>2, CameNothing
<1> QED BY <1>4, <1>9, <1>10, <1>11, OthersStep DEF PollCall

-----------------------------------------------------------------------------
(* Interrupts, and the end of the idle loop.                               *)

LEMMA TimeStep ==
  ASSUME KbdInv, SchedInv', TimerTick \/ LeaveLoop
  PROVE  KbdInv'
<1>1. /\ TimerInterrupt \/ IdleInterrupt(Timer) \/ LeaveIdle
      /\ UNCHANGED <<port, prog>>
  BY DEF TimerTick, LeaveLoop
<1>2. /\ UNCHANGED <<fifoVars, end, kqueueVars, int_to_pid>>
      /\ Becomes(SendByteAfterSwitch(State)) \/ Becomes(SendByte(State, Timer))
  BY <1>1 DEF TimerInterrupt, IdleInterrupt, LeaveIdle
<1>3. IpcInv'
  BY <1>1, InterruptsInv DEF KbdInv
<1>4. ProgramsOK'
  BY <1>1 DEF KbdInv, ProgramsOK
<1>5. Kept /\ ParentsExist'
  BY <1>1, <1>2, KeptBy
<1>6. Came
  <2>1. State \in States /\ Quiet(State)
    BY DEF KbdInv, IpcInv
  <2>2. ASSUME NEW k \in States, Arrives(State, k), Becomes(k) PROVE Came
    BY <2>2, CameBy DEF State
  <2> QED BY <1>2, <2>1, <2>2, SendByteAfterSwitchQuiet, SendByteQuiet, ByteArrives DEF KbdInv
<1> QED BY <1>1, <1>3, <1>4, <1>5, <1>6, OthersStep

LEMMA PressStep ==
  ASSUME KbdInv, SchedInv', Press
  PROVE  KbdInv'
<1> DEFINE k == SendByte(State, Keyboard)
<1>1. /\ DeviceInterrupt(Keyboard) \/ IdleInterrupt(Keyboard)
      /\ UNCHANGED prog /\ ~port /\ port'
  BY DEF Press
<1>2. UNCHANGED <<fifoVars, end, kqueueVars, int_to_pid>> /\ Becomes(k)
  BY <1>1 DEF DeviceInterrupt, IdleInterrupt
<1>3. IpcInv'
  BY <1>1, InterruptsInv DEF KbdInv
<1>4. ProgramsOK'
  BY <1>1 DEF KbdInv, ProgramsOK
<1>5. Kept /\ ParentsExist'
  BY <1>1, <1>2, KeptBy
<1>6. State \in States /\ Quiet(State)
  BY DEF KbdInv, IpcInv
<1>7. Came
  <2>1. k \in States /\ Arrives(State, k)
    BY <1>6, SendByteQuiet, ByteArrives DEF KbdInv
  <2> HIDE DEF k
  <2> QED BY <1>2, <2>1, CameBy DEF State
<1>8. ASSUME pc # "link_irq", Held # Size - 1 PROVE Louder
  <2>1. /\ irq \in FifoIds /\ receiver[irq] = Server /\ sender[irq] = Kernel
        /\ int_to_pid[Keyboard] = irq /\ Server \in Pids
    BY <1>8, ProgramAssumption DEF KbdInv, Linked
  <2>2. irq # 0 /\ Server # 0 /\ Exists(irq)
    BY <2>1 DEF FifoIds, Pids, Exists
  <2>3. start \in [FifoIds -> Indices] /\ start[irq] \in Indices /\ end[irq] \in Indices
    BY <2>1 DEF KbdInv, IpcInv, States, State, LinksOK
  <2>4. WriteError(start[irq], end[irq], 1) = SUCCESS
    BY <1>8, <2>3, ByteFits DEF Held
  <2>5. k = Sent(State, irq, Kernel, 1)
    BY <2>1, <2>2 DEF SendByte
  <2>6. start' = [start EXCEPT ![irq] = Advance(start[irq], 1)]
    <3> DEFINE F == {e \in Hooked(irq) : kevents[e].flag = READABLE}
               k1 == [State EXCEPT !.start[irq] = Advance(@, 1)]
    <3>1. k = Trigger(k1, F)
      BY <2>1, <2>2, <2>4, <2>5 DEF Sent, State
    <3>2. k1.start = [start EXCEPT ![irq] = Advance(start[irq], 1)]
      BY DEF State
    <3> HIDE DEF k, k1, F
    <3> QED BY <1>2, <3>1, <3>2 DEF Trigger, Becomes
  <2>7. Used(start'[irq], end[irq]) = Held + 1
    BY <2>1, <2>3, <2>4, <2>6, UsedGrows DEF Held
  <2>8. Held \in Int
    BY <2>3, UsedIs DEF Held
  <2>9. ~Quieter
    BY <2>7, <2>8 DEF Quieter, Held
  <2> QED BY <1>7, <1>8, <2>9 DEF Came
<1>9. Pressed
  BY <1>8 DEF Pressed
<1> QED BY <1>3, <1>4, <1>5, <1>7, <1>9, OthersKeep DEF KbdInv

-----------------------------------------------------------------------------
(* The calls of the server.                                                *)

LEMMA AtServer ==
  ASSUME KbdInv, mode = USER, me = Server
  PROVE  /\ Server \in Pids /\ status[Server] # WAITING
         /\ my = prog[Server] /\ IsProgram(my)
         /\ my.pc = pc /\ my.in = irq /\ my.kid = kid /\ my.accept = prog[Server].accept
         /\ my.nevents = prog[Server].nevents /\ my.out = prog[Server].out
BY Calls, Caller, ProgramAssumption
   DEF KbdInv, IpcInv, my, pc, irq, kid, RUNNING, WAITING

LEMMA ServerBecomes ==
  ASSUME KbdInv, mode = USER, me = Server, NEW r, Becoming(r), IsProgram(r), r.pc \in ServerPcs
  PROVE  /\ ProgramsOK'
         /\ pc' = r.pc /\ irq' = r.in /\ kid' = r.kid
         /\ prog'[Server].accept = r.accept
<1>1. ProgramsOK' /\ prog'[me] = r
  BY CallerBecomes, ProgramAssumption DEF KbdInv
<1> QED BY <1>1 DEF pc, irq, kid

\* A call after which the server only goes on to its next one.
LEMMA ServerGoes ==
  ASSUME KbdInv, mode = USER, me = Server, NEW next \in ServerPcs, Goto(next)
  PROVE  /\ ProgramsOK'
         /\ pc' = next /\ irq' = irq /\ kid' = kid
         /\ prog'[Server].accept = prog[Server].accept
<1>1. PICK r : r = [my EXCEPT !.pc = next]
  OBVIOUS
<1>2. Becoming(r)
  BY <1>1 DEF Goto
<1>3. IsProgram(my) /\ my.in = irq /\ my.kid = kid /\ my.accept = prog[Server].accept
  BY AtServer
<1>4. IsProgram(r) /\ r.pc = next /\ r.in = irq /\ r.kid = kid /\ r.accept = prog[Server].accept
  BY <1>1, <1>3 DEF IsProgram
<1> QED BY <1>2, <1>4, ServerBecomes

LEMMA StillLinked ==
  ASSUME KbdInv, pc # "link_irq", irq' = irq,
         prog'[Server].accept = prog[Server].accept,
         pc \in {"register", "accept"} => pc' \in {"register", "accept"},
         UNCHANGED fifoVars, UNCHANGED int_to_pid
  PROVE  Linked'
BY DEF KbdInv, Linked, fifoVars

LEMMA EventStays ==
  ASSUME NEW e, ItsEvent(e), irq' = irq, kid' = kid, UNCHANGED kqueueVars
  PROVE  ItsEvent(e)'
BY DEF ItsEvent, HasQueue, OfKqueue, kqueueVars

LEMMA ParentsStay ==
  ASSUME KbdInv, UNCHANGED kqueueVars
  PROVE  ParentsExist'
BY DEF KbdInv, ParentsExist, kqueueVars

LEMMA LinkKeyboardStep ==
  ASSUME KbdInv, SchedInv', LinkKeyboard
  PROVE  KbdInv'
<1>1. mode = USER /\ my.pc = "link_irq" /\ LinkIrq(Keyboard) /\ Keyboard \in IrqLines
  BY ProgramAssumption DEF LinkKeyboard, At
<1>2. me = Server
  BY <1>1, Calls DEF KbdInv, ProgramsOK, ClientPcs, my
<1>3. IpcInv' /\ cur_fifo_id \in FifoIds
  BY <1>1, <1>2, LinkIrqInv, OneFifoCreated, ProgramAssumption DEF KbdInv, IpcInv, LinkIrq
<1>4. PICK r : r = [my EXCEPT !.in = cur_fifo_id, !.pc = "register"]
  OBVIOUS
<1>5. Becoming(r)
  <2>1. Becoming([my EXCEPT !.in = cur_fifo_id, !.pc = "register"])
    BY DEF LinkKeyboard
  <2> QED BY <1>4, <2>1, Zenon
<1>6. IsProgram(r) /\ r.pc = "register" /\ r.in = cur_fifo_id
  <2>1. IsProgram(my)
    BY <1>1, <1>2, AtServer
  <2> QED BY <1>4, <2>1 DEF IsProgram
<1>7. ProgramsOK' /\ pc' = "register" /\ irq' = cur_fifo_id
  BY <1>1, <1>2, <1>5, <1>6, ServerBecomes DEF ServerPcs
<1>8. UNCHANGED kqueueVars /\ status' = status
  BY <1>1 DEF LinkIrq, Becomes, State
<1>9. Linked'
  <2> DEFINE ends == << <<me, Kernel>> >>
  <2>1. /\ CreateFifos(ends) /\ Len(ends) = 1 /\ ends[1][1] = Server /\ ends[1][2] = Kernel
        /\ int_to_pid' = [int_to_pid EXCEPT ![Keyboard] = cur_fifo_id]
    BY <1>1, <1>2 DEF LinkIrq
  <2>2. cur_fifo_id \in Nat
    BY DEF KbdInv, IpcInv, FifosOK
  <2>3. /\ cur_fifo_id' = cur_fifo_id + 1
        /\ receiver'[cur_fifo_id] = Server /\ sender'[cur_fifo_id] = Kernel
    <3> HIDE DEF ends
    <3> QED BY <1>3, <2>1, <2>2 DEF CreateFifos
  <2>4. int_to_pid'[Keyboard] = cur_fifo_id
    <3>1. Keyboard \in Vectors /\ int_to_pid \in [Vectors -> FifoIds \cup {0}]
      BY ProgramAssumption DEF Vectors, KbdInv, IpcInv, LinksOK
    <3> QED BY <2>1, <3>1
  <2> QED BY <1>3, <1>7, <2>2, <2>3, <2>4 DEF Linked
<1>10. Waits' /\ Attends'
  BY <1>7 DEF Waits, Attends, Serving, pc
<1>11. SleepsInBlock'
  BY <1>1, <1>2, <1>8, AtServer DEF SleepsInBlock
<1> QED BY <1>3, <1>7, <1>8, <1>9, <1>10, <1>11, ParentsStay DEF KbdInv

LEMMA RegisterStep ==
  ASSUME KbdInv, SchedInv', Register
  PROVE  KbdInv'
<1>1. mode = USER /\ my.pc = "register" /\ DevnodeRegister(Dev) /\ Goto("accept")
  BY DEF Register, At
<1>2. me = Server
  BY <1>1, Calls DEF KbdInv, ProgramsOK, ClientPcs, my
<1>3. IpcInv'
  BY <1>1, DevnodeRegisterInv, ProgramAssumption DEF KbdInv
<1>4. /\ ProgramsOK' /\ pc = "register" /\ pc' = "accept" /\ irq' = irq
      /\ prog'[Server].accept = prog[Server].accept
  BY <1>1, <1>2, ServerGoes, AtServer DEF ServerPcs
<1>5. UNCHANGED kqueueVars /\ UNCHANGED fifoVars /\ UNCHANGED int_to_pid /\ status' = status
  BY <1>1 DEF DevnodeRegister, Becomes, State
<1>6. Linked'
  BY <1>4, <1>5, StillLinked
<1>7. Waits' /\ Attends'
  BY <1>4 DEF Waits, Attends, Serving, pc
<1>8. SleepsInBlock'
  BY <1>1, <1>2, <1>5, AtServer DEF SleepsInBlock
<1> QED BY <1>3, <1>4, <1>5, <1>6, <1>7, <1>8, ParentsStay DEF KbdInv

LEMMA AcceptClientsStep ==
  ASSUME KbdInv, SchedInv', AcceptClients
  PROVE  KbdInv'
<1>1. mode = USER /\ my.pc = "accept" /\ DevnodeAccept(Dev) /\ Dev \in DevNames
  BY ProgramAssumption DEF AcceptClients, At
<1>2. me = Server
  BY <1>1, Calls DEF KbdInv, ProgramsOK, ClientPcs, my
<1>3. IpcInv'
  BY <1>1, DevnodeAcceptInv DEF KbdInv
<1>4. PICK r : r = [my EXCEPT !.accept = cur_fifo_id, !.pc = "drain"]
  OBVIOUS
<1>5. Becoming(r)
  <2>1. Becoming([my EXCEPT !.accept = cur_fifo_id, !.pc = "drain"])
    BY DEF AcceptClients
  <2> QED BY <1>4, <2>1, Zenon
<1>6. pc = "accept" /\ my.in = irq /\ IsProgram(my)
  BY <1>1, <1>2, AtServer
<1>7. IsProgram(r) /\ r.pc = "drain" /\ r.in = irq /\ r.accept = cur_fifo_id
  BY <1>4, <1>6 DEF IsProgram
<1>8. ProgramsOK' /\ pc' = "drain" /\ irq' = irq /\ prog'[Server].accept = cur_fifo_id
  BY <1>1, <1>2, <1>5, <1>7, ServerBecomes DEF ServerPcs
<1>9. UNCHANGED kqueueVars /\ UNCHANGED int_to_pid /\ status' = status
  BY <1>1 DEF DevnodeAccept, Becomes, State
<1>10. Linked'
  <2> DEFINE ends == << <<me, Kernel>> >>
  <2>1. CreateFifos(ends) /\ Len(ends) \in Nat
    BY <1>1 DEF DevnodeAccept
  <2>2. cur_fifo_id \in Nat
    BY DEF KbdInv, IpcInv, FifosOK
  <2>3. irq \in FifoIds /\ irq < cur_fifo_id
    BY <1>6 DEF KbdInv, Linked
  <2>4. irq < cur_fifo_id' /\ receiver'[irq] = receiver[irq] /\ sender'[irq] = sender[irq]
    <3> HIDE DEF ends
    <3> QED BY <2>1, <2>2, <2>3, FifosStay
  <2>5. irq # cur_fifo_id
    BY <2>2, <2>3 DEF FifoIds
  <2> QED BY <1>6, <1>8, <1>9, <2>3, <2>4, <2>5 DEF KbdInv, Linked
<1>11. Waits' /\ Attends'
  BY <1>8 DEF Waits, Attends, Serving, pc
<1>12. SleepsInBlock'
  BY <1>1, <1>2, <1>9, AtServer DEF SleepsInBlock
<1> QED BY <1>3, <1>8, <1>9, <1>10, <1>11, <1>12, ParentsStay DEF KbdInv

\* Reading the port empties it; whatever the interrupts have left stays.
LEMMA ReadPortStep ==
  ASSUME KbdInv, SchedInv', Drain \/ ReadScancode
  PROVE  KbdInv'
<1>1. /\ mode = USER /\ UNCHANGED vars /\ ~port'
      /\ \/ my.pc = "drain" /\ Goto("create")
         \/ my.pc = "inb" /\ Goto("send")
  BY DEF Drain, ReadScancode, ReadPort, At, Refused
<1>2. me = Server
  BY <1>1, Calls DEF KbdInv, ProgramsOK, ClientPcs, my
<1>3. IpcInv'
  BY <1>1, IpcStep DEF KbdInv
<1>4. /\ ProgramsOK' /\ irq' = irq /\ kid' = kid
      /\ prog'[Server].accept = prog[Server].accept
      /\ (pc = "drain" /\ pc' = "create") \/ (pc = "inb" /\ pc' = "send")
  BY <1>1, <1>2, ServerGoes, AtServer DEF ServerPcs
<1>5. /\ UNCHANGED kqueueVars /\ UNCHANGED fifoVars
      /\ UNCHANGED <<int_to_pid, start, end, triggered, status>>
  BY <1>1 DEF vars, ipcVars, schedVars
<1>6. Linked'
  BY <1>4, <1>5, StillLinked
<1>7. Waits'
  BY <1>1, <1>4 DEF Waits
<1>8. Attends'
  <2> SUFFICES ASSUME pc = "inb", pc' = "send" PROVE Attends'
    BY <1>4 DEF Attends, Serving, pc
  <2>1. PICK e \in EventIds : ItsEvent(e) /\ Signals(e)
    BY DEF KbdInv, Attends, Serving, pc
  <2>2. ItsEvent(e)'
    BY <1>4, <1>5, <2>1, EventStays
  <2>3. Held' = Held
    BY <1>4, <1>5 DEF Held
  <2>4. Signals(e)'
    BY <1>1, <1>5, <2>1, <2>3 DEF Signals
  <2> QED BY <2>2, <2>4 DEF Attends
<1>9. SleepsInBlock'
  BY <1>1, <1>2, <1>5, AtServer DEF SleepsInBlock
<1> QED BY <1>3, <1>4, <1>5, <1>6, <1>7, <1>8, <1>9, ParentsStay DEF KbdInv

\* The kqueue of the server is new, and so has no events.
LEMMA ServerCreates ==
  ASSUME KbdInv, SchedInv', CreateKqueue, me = Server
  PROVE  KbdInv'
<1>1. mode = USER /\ my.pc = "create" /\ KqueueCreate /\ UNCHANGED port
  BY DEF CreateKqueue, At
<1>2. IpcInv'
  BY <1>1, KqueueCreateInv DEF KbdInv
<1>3. PICK r : r = [my EXCEPT !.kid = next_kqueue_id,
                              !.pc = IF me = Server THEN "wait" ELSE "hook_kbd"]
  OBVIOUS
<1>4. Becoming(r)
  <2>1. Becoming([my EXCEPT !.kid = next_kqueue_id,
                            !.pc = IF me = Server THEN "wait" ELSE "hook_kbd"])
    BY DEF CreateKqueue
  <2> QED BY <1>3, <2>1, Zenon
<1>5. pc = "create" /\ my.in = irq /\ my.accept = prog[Server].accept /\ IsProgram(my)
  BY <1>1, AtServer
<1>6. /\ IsProgram(r) /\ r.pc = "wait" /\ r.kid = next_kqueue_id
      /\ r.in = irq /\ r.accept = prog[Server].accept
  BY <1>3, <1>5 DEF IsProgram
<1>7. /\ ProgramsOK' /\ pc' = "wait" /\ irq' = irq /\ kid' = next_kqueue_id
      /\ prog'[Server].accept = prog[Server].accept
  BY <1>1, <1>4, <1>6, ServerBecomes DEF ServerPcs
<1>8. /\ kq_pid' = [kq_pid EXCEPT ![next_kqueue_id] = Server] /\ UNCHANGED <<nevents, kevents>>
      /\ UNCHANGED fifoVars /\ UNCHANGED <<int_to_pid, end>>
      /\ start' = start /\ status' = status
  BY <1>1 DEF KqueueCreate, Becomes, State
<1>9. /\ next_kqueue_id \in KqueueIds /\ kq_pid[next_kqueue_id] = 0
      /\ kq_pid \in [KqueueIds -> Pids \cup {0}] /\ Server # 0
  BY <1>1, ProgramAssumption DEF KbdInv, IpcInv, KqueuesOK, KqueueIds, KqueueCreate, Pids
<1>10. Linked'
  BY <1>5, <1>7, <1>8, StillLinked
<1>11. ParentsExist'
  BY <1>8, <1>9 DEF KbdInv, ParentsExist
<1>12. HasQueue'
  BY <1>7, <1>8, <1>9 DEF HasQueue
<1>13. OfKqueue(kid)' = {}
  <2>1. \A e \in EventIds : e <= nevents => kevents[e].parent # next_kqueue_id
    BY <1>9 DEF KbdInv, ParentsExist
  <2> QED BY <1>7, <1>8, <2>1 DEF OfKqueue
<1>14. Held' = Held
  BY <1>7, <1>8 DEF Held
<1>15. Waits'
  BY <1>1, <1>5, <1>7, <1>12, <1>13, <1>14 DEF KbdInv, Waits
<1>16. Attends'
  BY <1>7 DEF Attends, Serving, pc
<1>17. SleepsInBlock'
  BY <1>1, <1>8, AtServer DEF SleepsInBlock
<1> QED BY <1>2, <1>7, <1>10, <1>11, <1>15, <1>16, <1>17 DEF KbdInv

\* The announcement is read from another FIFO than that of the interrupt.
LEMMA AwaitClientStep ==
  ASSUME KbdInv, SchedInv', AwaitClient
  PROVE  KbdInv'
<1>1. mode = USER /\ my.pc = "wait" /\ FifoRead(my.accept, MsgLen) /\ UNCHANGED port
  BY DEF AwaitClient, At
<1>2. me = Server
  BY <1>1, Calls DEF KbdInv, ProgramsOK, ClientPcs, my
<1>3. /\ pc = "wait" /\ my.in = irq /\ my.kid = kid /\ my.accept = prog[Server].accept
      /\ IsProgram(my)
  BY <1>1, <1>2, AtServer
<1>4. my.accept \in FifoIds /\ my.accept # irq /\ MsgLen \in Nat
  BY <1>1, <1>3, IpcAssumption DEF FifoRead, Exists, KbdInv, Linked
<1>5. IpcInv'
  BY <1>1, <1>4, FifoReadInv DEF KbdInv
<1>6. PICK x : x = Head(announced)
  OBVIOUS
<1>7. PICK r : r = [my EXCEPT !.out = x, !.pc = "hook"]
  OBVIOUS
<1>8. Becoming(r)
  <2>1. Becoming([my EXCEPT !.out = Head(announced), !.pc = "hook"])
    BY DEF AwaitClient
  <2> QED BY <1>6, <1>7, <2>1, Zenon
<1>9. /\ IsProgram(r) /\ r.pc = "hook" /\ r.in = irq /\ r.kid = kid
      /\ r.accept = prog[Server].accept
  BY <1>3, <1>7 DEF IsProgram
<1>10. /\ ProgramsOK' /\ pc' = "hook" /\ irq' = irq /\ kid' = kid
       /\ prog'[Server].accept = prog[Server].accept
  BY <1>1, <1>2, <1>8, <1>9, ServerBecomes DEF ServerPcs
<1>11. /\ UNCHANGED kqueueVars /\ UNCHANGED fifoVars /\ UNCHANGED int_to_pid
       /\ start' = start /\ status' = status
       /\ end' = [end EXCEPT ![my.accept] = Advance(@, MsgLen)]
  BY <1>1 DEF FifoRead, Becomes, State
<1>12. Linked'
  BY <1>3, <1>10, <1>11, StillLinked
<1>13. Held' = Held
  <2>1. irq \in FifoIds /\ end \in [FifoIds -> Indices]
    BY <1>3 DEF KbdInv, Linked, IpcInv, LinksOK
  <2>2. end'[irq] = end[irq]
    BY <1>4, <1>11, <2>1
  <2> QED BY <1>10, <1>11, <2>2 DEF Held
<1>14. Waits'
  <2>1. HasQueue' /\ OfKqueue(kid)' = {}
    BY <1>3, <1>10, <1>11 DEF KbdInv, Waits, HasQueue, OfKqueue, kqueueVars
  <2> QED BY <1>1, <1>3, <1>10, <1>13, <2>1 DEF KbdInv, Waits
<1>15. Attends'
  BY <1>10 DEF Attends, Serving, pc
<1>16. SleepsInBlock'
  BY <1>1, <1>2, <1>11, AtServer DEF SleepsInBlock
<1> QED BY <1>5, <1>10, <1>11, <1>12, <1>14, <1>15, <1>16, ParentsStay DEF KbdInv

\* The new event is marked at once when keys have come before it.
LEMMA HookIrqStep ==
  ASSUME KbdInv, SchedInv', HookIrq
  PROVE  KbdInv'
<1>0. PICK new : new = nevents + 1
  OBVIOUS
<1> DEFINE ev == [parent |-> kid, ident |-> irq, flag |-> READABLE, hooked |-> Exists(irq)]
<1>1. /\ mode = USER /\ my.pc = "hook" /\ KqueueEvent(my.kid, my.in, READABLE)
      /\ Goto("block") /\ UNCHANGED port
  BY DEF HookIrq, At
<1>2. me = Server
  BY <1>1, Calls DEF KbdInv, ProgramsOK, ClientPcs, my
<1>3. pc = "hook" /\ my.in = irq /\ my.kid = kid /\ Server \in Pids
  BY <1>1, <1>2, AtServer
<1>4. irq \in FifoIds /\ receiver[irq] = Server /\ Exists(irq)
  BY <1>3 DEF KbdInv, Linked, Exists, Pids
<1>5. HasQueue /\ OfKqueue(kid) = {} /\ kid \in KqueueIds
  BY <1>3 DEF KbdInv, Waits, HasQueue
<1>6. IpcInv'
  BY <1>1, <1>3, <1>4, <1>5, KqueueEventInv DEF KbdInv
<1>7. /\ ProgramsOK' /\ pc' = "block" /\ irq' = irq /\ kid' = kid
      /\ prog'[Server].accept = prog[Server].accept
  BY <1>1, <1>2, ServerGoes DEF ServerPcs
<1>8. /\ new \in EventIds /\ nevents' = new
      /\ kevents' = [kevents EXCEPT ![new] = ev]
      /\ UNCHANGED kq_pid /\ UNCHANGED fifoVars /\ UNCHANGED <<int_to_pid, end>>
      /\ start' = start /\ status' = status
      /\ triggered' = [triggered EXCEPT ![new] = start[irq] # end[irq]]
  BY <1>0, <1>1, <1>3, <1>4 DEF KqueueEvent, Becomes, State
<1>9. /\ nevents \in Nat /\ kevents \in [EventIds -> EventType] /\ EventIds \subseteq Nat
      /\ triggered \in [EventIds -> BOOLEAN]
  BY DEF KbdInv, IpcInv, KqueuesOK, EventIds, States, State
<1>10. /\ kevents'[new] = ev
       /\ \A e \in EventIds : e # new => kevents'[e] = kevents[e]
       /\ \A e \in EventIds : e <= nevents' <=> e <= nevents \/ e = new
  <2> HIDE DEF ev
  <2> QED BY <1>0, <1>8, <1>9
<1>11. ev.parent = kid /\ ev = [parent |-> kid, ident |-> irq, flag |-> READABLE, hooked |-> TRUE]
  BY <1>4
<1>12. Linked'
  BY <1>3, <1>7, <1>8, StillLinked
<1>13. ParentsExist'
  <2> HIDE DEF ev
  <2> QED BY <1>5, <1>8, <1>10, <1>11, ProgramAssumption
          DEF KbdInv, ParentsExist, HasQueue, Pids
<1>14. ItsEvent(new)'
  <2>1. OfKqueue(kid)' = {new}
    <3>1. \A e \in EventIds : e <= nevents => kevents[e].parent # kid
      BY <1>5 DEF OfKqueue
    <3> HIDE DEF ev
    <3> QED BY <1>7, <1>8, <1>10, <1>11, <3>1 DEF OfKqueue
  <2>2. HasQueue'
    BY <1>5, <1>7, <1>8 DEF HasQueue
  <2>3. kevents'[new] = [parent |-> kid', ident |-> irq', flag |-> READABLE, hooked |-> TRUE]
    BY <1>7, <1>10, <1>11
  <2> HIDE DEF ev
  <2> QED BY <2>1, <2>2, <2>3 DEF ItsEvent
<1>15. Held' = Held /\ Held \in 0 .. Size - 1 /\ (Held = 0 <=> start[irq] = end[irq])
  <2>1. start[irq] \in Indices /\ end[irq] \in Indices
    BY <1>4 DEF KbdInv, IpcInv, LinksOK, States, State
  <2> QED BY <1>7, <1>8, <2>1, UsedIs DEF Held
<1>16. Signals(new)'
  <2>1. port' => Held > 0
    BY <1>1, <1>3 DEF KbdInv, Waits
  <2>2. triggered'[new] <=> Held > 0
    <3>1. triggered'[new] <=> start[irq] # end[irq]
      BY <1>8, <1>9
    <3>2. Held > 0 <=> start[irq] # end[irq]
      BY <1>15, SizeAssumption
    <3> QED BY <3>1, <3>2
  <2>3. Held' = Size - 1 => triggered'[new]
    BY <1>15, <2>2, SizeAssumption
  <2> QED BY <1>7, <1>15, <2>1, <2>2, <2>3 DEF Signals
<1>17. Attends'
  BY <1>8, <1>14, <1>16 DEF Attends
<1>18. Waits'
  BY <1>7 DEF Waits
<1>19. SleepsInBlock'
  BY <1>1, <1>2, <1>8, AtServer DEF SleepsInBlock
<1> QED BY <1>6, <1>7, <1>12, <1>13, <1>17, <1>18, <1>19 DEF KbdInv

\* The server goes to sleep with nothing in the port; whoever wakes it has
\* marked its event.
LEMMA ServerBlocks ==
  ASSUME KbdInv, SchedInv', BlockCall, me = Server
  PROVE  KbdInv'
<1>1. /\ mode = USER /\ my.pc = "block" /\ Goto("poll") /\ UNCHANGED port
      /\ KqueueBlock(my.kid) \/ ((\E e \in OfKqueue(my.kid) : triggered[e]) /\ Refused)
  BY DEF BlockCall, At
<1>2. pc = "block" /\ my.in = irq /\ my.kid = kid /\ Server \in Pids /\ status[Server] # WAITING
  BY <1>1, AtServer
<1>3. /\ ProgramsOK' /\ pc' = "poll" /\ irq' = irq /\ kid' = kid
      /\ prog'[Server].accept = prog[Server].accept
  BY <1>1, ServerGoes DEF ServerPcs
<1>4. PICK e \in EventIds : ItsEvent(e) /\ Signals(e)
  BY <1>2 DEF KbdInv, Attends, Serving, pc
<1>5. HasQueue /\ OfKqueue(kid) = {e} /\ kid \in KqueueIds
  BY <1>4 DEF ItsEvent, HasQueue
<1>6. Waits'
  BY <1>3 DEF Waits
<1>7. CASE (\E g \in OfKqueue(my.kid) : triggered[g]) /\ Refused
  <2>1. /\ UNCHANGED kqueueVars /\ UNCHANGED fifoVars
        /\ UNCHANGED <<int_to_pid, start, end, triggered, status>> /\ UNCHANGED vars
    BY <1>7 DEF Refused, vars, ipcVars, schedVars
  <2>2. IpcInv'
    BY <2>1, IpcStep DEF KbdInv
  <2>3. triggered[e]
    BY <1>2, <1>5, <1>7
  <2>4. ItsEvent(e)'
    BY <1>3, <1>4, <2>1, EventStays
  <2>5. Held' = Held
    BY <1>3, <2>1 DEF Held
  <2>6. Signals(e)'
    BY <1>3, <1>4, <2>1, <2>3, <2>5 DEF Signals
  <2>7. Attends'
    BY <2>4, <2>6 DEF Attends
  <2>8. Linked'
    BY <1>2, <1>3, <2>1, StillLinked
  <2>9. SleepsInBlock'
    BY <1>2, <2>1 DEF SleepsInBlock
  <2> QED BY <1>3, <1>6, <2>1, <2>2, <2>7, <2>8, <2>9, ParentsStay DEF KbdInv
<1>8. CASE KqueueBlock(my.kid)
  <2> DEFINE k0 == Asleep(kid)
             k == SendByteAfterSwitch(k0)
  <2>1. KqueueBlock(kid)
    BY <1>2, <1>8
  <2>2. IpcInv'
    BY <1>5, <2>1, KqueueBlockInv DEF KbdInv
  <2>3. /\ UNCHANGED kqueueVars /\ UNCHANGED fifoVars /\ UNCHANGED <<int_to_pid, end>>
        /\ Becomes(k) /\ ~triggered[e]
    BY <1>5, <2>1 DEF KqueueBlock
  <2>4. /\ k0.start = start /\ k0.triggered = triggered
        /\ Server \in Waiting(k0.status) /\ k0.block[Server] = kid
    <3>1. State \in States
      BY DEF KbdInv, IpcInv
    <3> QED BY <1>2, <3>1 DEF Asleep, States, State, Waiting
  <2>5. Arrives(k0, k)
    <3>1. k0 \in States /\ Quiet(k0)
      BY <1>2, <1>5, <2>1, AsleepQuiet DEF KqueueBlock, KbdInv
    <3> HIDE DEF k0
    <3> QED BY <3>1, ByteArrives DEF KbdInv
  <2>6. /\ start' = k.start /\ triggered' = k.triggered /\ status' = k.status
        /\ kqueue_block' = k.block
    BY <2>3 DEF Becomes
  <2> HIDE DEF k, k0
  <2>7. kqueue_block'[Server] = kid
    BY <2>4, <2>5, <2>6 DEF Arrives
  <2>8. irq \in FifoIds /\ e \in Hooked(irq) /\ kevents[e].flag = READABLE /\ kevents[e].ident = irq
    BY <1>2, <1>4 DEF KbdInv, Linked, ItsEvent, Hooked
  <2>9. \/ start'[irq] = start[irq] /\ triggered'[e] = triggered[e]
        \/ Used(start'[irq], end[irq]) > Used(start[irq], end[irq]) /\ triggered'[e]
    BY <2>4, <2>5, <2>6, <2>8 DEF Arrives
  <2>10. /\ Held \in 0 .. Size - 1 /\ Held' = Used(start'[irq], end[irq])
         /\ Held' \in 0 .. Size - 1
    <3>1. start[irq] \in Indices /\ start'[irq] \in Indices /\ end[irq] \in Indices
      BY <2>2, <2>8 DEF KbdInv, IpcInv, LinksOK, States, State
    <3>2. Held' = Used(start'[irq], end[irq])
      BY <1>3, <2>3 DEF Held
    <3> QED BY <3>1, <3>2, UsedIs DEF Held
  <2>11. ASSUME status'[Server] # WAITING PROVE triggered'[e]
    <3>1. PICK g \in EventIds : g <= nevents /\ kevents[g].parent = kid /\ triggered'[g]
      BY <2>4, <2>5, <2>6, <2>11 DEF Arrives
    <3> QED BY <1>5, <3>1 DEF OfKqueue
  <2>12. ~port /\ Held # Size - 1
    BY <1>2, <1>4, <2>3 DEF Signals
  <2>13. ASSUME triggered'[e] PROVE Held' > 0
    <3>1. Held \in Nat /\ Held' \in Nat
      BY <2>10
    <3>2. Used(start'[irq], end[irq]) > Used(start[irq], end[irq])
      BY <2>3, <2>9, <2>13
    <3> QED BY <2>10, <3>1, <3>2 DEF Held
  <2>14. port' \/ Held' = Size - 1 => triggered'[e]
    BY <1>1, <2>9, <2>10, <2>12 DEF Held
  <2>15. Signals(e)'
    BY <1>3, <2>11, <2>13, <2>14 DEF Signals
  <2>16. ItsEvent(e)'
    BY <1>3, <1>4, <2>3, EventStays
  <2>17. Attends'
    BY <2>15, <2>16 DEF Attends
  <2>18. Linked'
    BY <1>2, <1>3, <2>3, StillLinked
  <2>19. SleepsInBlock'
    BY <1>3, <2>7 DEF SleepsInBlock
  <2> QED BY <1>3, <1>6, <2>2, <2>3, <2>17, <2>18, <2>19, ParentsStay DEF KbdInv
<1> QED BY <1>1, <1>7, <1>8

\* The server polls after it has been woken: its event is marked, and the poll
\* takes the mark.
LEMMA ServerPolls ==
  ASSUME KbdInv, SchedInv', PollCall, me = Server
  PROVE  KbdInv'
<1>1. /\ mode = USER /\ my.pc = "poll" /\ KqueuePoll(my.kid, my.nevents)
      /\ UNCHANGED port
  BY DEF PollCall, At
<1>2. /\ pc = "poll" /\ my.in = irq /\ my.kid = kid /\ my.accept = prog[Server].accept
      /\ status[Server] # WAITING /\ IsProgram(my)
  BY <1>1, AtServer
<1>3. PICK e \in EventIds : ItsEvent(e) /\ Signals(e)
  BY <1>2 DEF KbdInv, Attends, Serving, pc
<1>4. HasQueue /\ OfKqueue(kid) = {e} /\ kid \in KqueueIds /\ triggered[e] /\ Held > 0
  BY <1>2, <1>3 DEF ItsEvent, HasQueue, Signals
<1>5. IpcInv'
  BY <1>1, <1>2, <1>4, KqueuePollInv DEF KbdInv
<1>6. PICK n : n = Cardinality({g \in EventIds : triggered[g] /\ ~triggered'[g]})
  OBVIOUS
<1>7. PICK r : r = [my EXCEPT !.nevents = n, !.pc = IF me = Server THEN "read" ELSE "note"]
  OBVIOUS
<1>8. Becoming(r)
  <2>1. Becoming([my EXCEPT !.nevents = Cardinality({g \in EventIds : triggered[g] /\ ~triggered'[g]}),
                            !.pc = IF me = Server THEN "read" ELSE "note"])
    BY DEF PollCall
  <2> QED BY <1>6, <1>7, <2>1, Zenon
<1>9. /\ IsProgram(r) /\ r.pc = "read" /\ r.kid = kid /\ r.in = irq
      /\ r.accept = prog[Server].accept
  BY <1>2, <1>7 DEF IsProgram
<1>10. /\ ProgramsOK' /\ pc' = "read" /\ irq' = irq /\ kid' = kid
       /\ prog'[Server].accept = prog[Server].accept
  BY <1>1, <1>8, <1>9, ServerBecomes DEF ServerPcs
<1>11. /\ UNCHANGED kqueueVars /\ UNCHANGED fifoVars /\ UNCHANGED <<int_to_pid, end>>
       /\ start' = start /\ status' = status
  BY <1>1 DEF KqueuePoll, Becomes, State
<1>12. ~triggered'[e]
  <2> DEFINE newer(f) == {g \in OfKqueue(my.kid) : g > f}
             t == [f \in EventIds |->
                    /\ triggered[f]
                    /\ ~ /\ f \in OfKqueue(my.kid)
                         /\ \/ newer(f) = {}
                            \/ Cardinality({g \in newer(f) : triggered[g]}) < my.nevents]
  <2>1. Becomes([State EXCEPT !.triggered = t])
    BY <1>1 DEF KqueuePoll
  <2>2. newer(e) = {} /\ e \in OfKqueue(my.kid)
    BY <1>2, <1>4 DEF EventIds
  <2>3. ~t[e]
    <3> HIDE DEF newer
    <3> QED BY <2>2
  <2> HIDE DEF t
  <2> QED BY <2>1, <2>3 DEF Becomes, State
<1>13. ItsEvent(e)'
  BY <1>3, <1>10, <1>11, EventStays
<1>14. Held' = Held
  BY <1>10, <1>11 DEF Held
<1>15. Signals(e)'
  BY <1>4, <1>10, <1>12, <1>14 DEF Signals
<1>16. Attends'
  BY <1>13, <1>15 DEF Attends
<1>17. Linked'
  BY <1>2, <1>10, <1>11, StillLinked
<1>18. Waits' /\ SleepsInBlock'
  BY <1>2, <1>10, <1>11 DEF Waits, SleepsInBlock
<1> QED BY <1>5, <1>10, <1>11, <1>16, <1>17, <1>18, ParentsStay DEF KbdInv

\* What the server was woken for is there to be read.
LEMMA ReadIrqStep ==
  ASSUME KbdInv, SchedInv', ReadIrq
  PROVE  KbdInv'
<1>1. /\ mode = USER /\ my.pc = "read" /\ Goto("inb") /\ UNCHANGED port
      /\ FifoRead(my.in, 1) \/ ReadError(start[my.in], end[my.in], 1) # SUCCESS
  BY DEF ReadIrq, At
<1>2. me = Server
  BY <1>1, Calls DEF KbdInv, ProgramsOK, ClientPcs, my
<1>3. pc = "read" /\ my.in = irq /\ status[Server] # WAITING
  BY <1>1, <1>2, AtServer
<1>4. PICK e \in EventIds : ItsEvent(e) /\ Signals(e)
  BY <1>3 DEF KbdInv, Attends, Serving, pc
<1>5. irq \in FifoIds /\ start[irq] \in Indices /\ end[irq] \in Indices
  BY <1>3 DEF KbdInv, Linked, IpcInv, LinksOK, States, State
<1>6. Held > 0 /\ Held \in 0 .. Size - 1 /\ (triggered[e] => Held > 1)
  BY <1>3, <1>4, <1>5, UsedIs DEF Signals, Held
<1>7. /\ ReadError(start[irq], end[irq], 1) = SUCCESS
      /\ Used(start[irq], Advance(end[irq], 1)) = Held - 1
  BY <1>5, <1>6, ByteLeaves DEF Held
<1>8. FifoRead(irq, 1)
  BY <1>1, <1>3, <1>7
<1>9. IpcInv'
  BY <1>5, <1>8, FifoReadInv DEF KbdInv
<1>10. /\ ProgramsOK' /\ pc' = "inb" /\ irq' = irq /\ kid' = kid
       /\ prog'[Server].accept = prog[Server].accept
  BY <1>1, <1>2, ServerGoes DEF ServerPcs
<1>11. /\ UNCHANGED kqueueVars /\ UNCHANGED fifoVars /\ UNCHANGED int_to_pid
       /\ start' = start /\ status' = status
       /\ end' = [end EXCEPT ![irq] = Advance(@, 1)]
  BY <1>8 DEF FifoRead, Becomes, State
<1>12. triggered'[e] => triggered[e]
  <2> DEFINE t == [f \in EventIds |->
                     triggered[f] /\ ~(start[irq] = end'[irq] /\ f \in Untriggered(irq))]
  <2>1. Becomes([State EXCEPT !.triggered = t])
    BY <1>8 DEF FifoRead
  <2>2. t[e] => triggered[e]
    OBVIOUS
  <2> HIDE DEF t
  <2> QED BY <2>1, <2>2 DEF Becomes, State
<1>13. Held' = Held - 1
  <2>1. end'[irq] = Advance(end[irq], 1)
    BY <1>5, <1>11 DEF KbdInv, IpcInv, LinksOK
  <2> QED BY <1>7, <1>10, <1>11, <2>1 DEF Held
<1>14. ItsEvent(e)'
  BY <1>4, <1>10, <1>11, EventStays
<1>15. Signals(e)'
  <2>1. triggered'[e] => Held' > 0
    BY <1>6, <1>12, <1>13
  <2>2. Held' # Size - 1
    BY <1>6, <1>13, SizeAssumption
  <2> QED BY <1>10, <2>1, <2>2 DEF Signals
<1>16. Attends'
  BY <1>14, <1>15 DEF Attends
<1>17. Linked'
  BY <1>3, <1>10, <1>11, StillLinked
<1>18. Waits' /\ SleepsInBlock'
  BY <1>3, <1>10, <1>11 DEF Waits, SleepsInBlock
<1> QED BY <1>9, <1>10, <1>11, <1>16, <1>17, <1>18, ParentsStay DEF KbdInv

\* Whatever FIFO the server writes to, its own event tells the truth.
LEMMA SendKeyStep ==
  ASSUME KbdInv, SchedInv', SendKey
  PROVE  KbdInv'
<1>1. /\ mode = USER /\ my.pc = "send" /\ Goto("block") /\ UNCHANGED port
      /\ FifoWrite(my.out, 1)
  BY DEF SendKey, At
<1>2. me = Server
  BY <1>1, Calls DEF KbdInv, ProgramsOK, ClientPcs, my
<1>3. pc = "send" /\ my.in = irq /\ status[Server] # WAITING
  BY <1>1, <1>2, AtServer
<1>4. PICK e \in EventIds : ItsEvent(e) /\ Signals(e)
  BY <1>3 DEF KbdInv, Attends, Serving, pc
<1>5. IpcInv'
  BY <1>1, FifoWriteInv DEF KbdInv
<1>6. /\ ProgramsOK' /\ pc' = "block" /\ irq' = irq /\ kid' = kid
      /\ prog'[Server].accept = prog[Server].accept
  BY <1>1, <1>2, ServerGoes DEF ServerPcs
<1>7. UNCHANGED kqueueVars /\ UNCHANGED fifoVars /\ UNCHANGED <<int_to_pid, end>>
  BY <1>1 DEF FifoWrite
<1>8. Came
  <2> DEFINE k == Sent(State, my.out, me, 1)
  <2>1. k \in States /\ Arrives(State, k)
    BY SentQuiet, SentArrives DEF KbdInv, IpcInv
  <2>2. Becomes(k)
    BY <1>1 DEF FifoWrite
  <2> HIDE DEF k
  <2> QED BY <2>1, <2>2, CameBy DEF State
<1>9. /\ Held \in 0 .. Size - 1 /\ Held' = Used(start'[irq], end[irq])
      /\ Held' \in 0 .. Size - 1
  <2>1. start[irq] \in Indices /\ start'[irq] \in Indices /\ end[irq] \in Indices
    BY <1>3, <1>5 DEF KbdInv, Linked, IpcInv, LinksOK, States, State
  <2>2. Held' = Used(start'[irq], end[irq])
    BY <1>6, <1>7 DEF Held
  <2> QED BY <2>1, <2>2, UsedIs DEF Held
<1>10. ItsEvent(e)'
  BY <1>4, <1>6, <1>7, EventStays
<1>11. Signals(e)'
  <2>1. CASE Quieter
    <3>1. Held' = Held /\ triggered'[e] = triggered[e]
      BY <1>4, <1>9, <2>1 DEF Quieter, Held
    <3> QED BY <1>1, <1>3, <1>4, <1>6, <3>1 DEF Signals
  <2>2. CASE Louder
    <3>1. triggered'[e] /\ Held' > Held
      BY <1>4, <1>9, <2>2 DEF Louder
    <3>2. Held' > 0
      BY <1>9, <3>1
    <3> QED BY <1>6, <3>1, <3>2 DEF Signals
  <2> QED BY <1>3, <1>8, <2>1, <2>2 DEF Came
<1>12. Attends'
  BY <1>10, <1>11 DEF Attends
<1>13. Linked'
  BY <1>3, <1>6, <1>7, StillLinked
<1>14. Waits'
  BY <1>6 DEF Waits
<1>15. SleepsInBlock'
  BY <1>3, <1>8 DEF Came, SleepsInBlock
<1> QED BY <1>5, <1>6, <1>7, <1>12, <1>13, <1>14, <1>15, ParentsStay DEF KbdInv

-----------------------------------------------------------------------------
LEMMA KbdInitInv == KbdInit => KbdInv
<1> SUFFICES ASSUME KbdInit PROVE KbdInv
  OBVIOUS
<1>1. IpcInv
  BY IpcInit DEF KbdInit
<1>2. Server \in Pids
  BY ProgramAssumption
<1>3. prog = [p \in Pids |-> IF p = Server THEN Started("link_irq", 1) ELSE Started("pipe", 3)]
  BY DEF KbdInit
<1>4. /\ prog[Server] = Started("link_irq", 1)
      /\ \A p \in Clients : prog[p] = Started("pipe", 3)
  BY <1>2, <1>3 DEF Clients
<1>5. ProgramsOK
  <2>1. \A x, n : IsProgram(Started(x, n)) /\ Started(x, n).pc = x
    BY DEF IsProgram, Started
  <2>2. prog = [p \in Pids |-> prog[p]]
    BY <1>3
  <2>3. \A p \in Pids : IsProgram(prog[p])
    BY <1>4, <2>1 DEF Clients
  <2> QED BY <1>4, <2>1, <2>2, <2>3 DEF ProgramsOK, ServerPcs, ClientPcs
<1>6. pc = "link_irq"
  BY <1>4 DEF pc, Started
<1>7. nevents = 0 /\ EventIds \subseteq Nat \ {0}
  BY DEF KbdInit, Init, EventIds
<1>8. ParentsExist
  BY <1>7 DEF ParentsExist
<1>9. Linked /\ Waits /\ Attends
  BY <1>6 DEF Linked, Waits, Attends, Serving, pc
<1>10. status[Server] # WAITING
  BY <1>2 DEF KbdInit, Init, SchedInit, RUNNING, WAITING, NONE
<1> QED BY <1>1, <1>5, <1>8, <1>9, <1>10 DEF KbdInv, SleepsInBlock

\* Every step is a step of the scheduler.
LEMMA KbdSchedules == [KbdNext]_kbdVars => [SchedNext]_schedVars
<1>1. Syscall \in Vectors /\ Timer \in Vectors /\ Keyboard \in Vectors
  BY ProgramAssumption DEF Vectors
<1>2. ServerCall => SchedNext \/ UNCHANGED schedVars
  BY <1>1 DEF ServerCall, SchedNext, LinkKeyboard, Register, AcceptClients, Drain, AwaitClient,
     HookIrq, ReadIrq, ReadScancode, SendKey, ReadPort, Refused, vars, LinkIrq, DevnodeRegister,
     DevnodeAccept, FifoRead, FifoWrite, KqueueEvent
<1>3. ClientCall => SchedNext \/ UNCHANGED schedVars
  BY <1>1 DEF ClientCall, SchedNext, MakePipe, Connect, ConnectRefused, HookKeyboard, HookPipe,
     WriteNote, Refused, vars, FifoPipe, DevnodeConnect, FifoWrite, KqueueEvent
<1>4. CreateKqueue \/ BlockCall \/ PollCall => SchedNext \/ UNCHANGED schedVars
  BY <1>1 DEF SchedNext, CreateKqueue, BlockCall, PollCall, Refused, vars, KqueueCreate,
     KqueueBlock, KqueuePoll
<1>5. Press \/ TimerTick \/ LeaveLoop => SchedNext
  BY <1>1 DEF SchedNext, Press, TimerTick, LeaveLoop, TimerInterrupt, DeviceInterrupt,
     IdleInterrupt, LeaveIdle
<1> QED BY <1>2, <1>3, <1>4, <1>5 DEF KbdNext, Call, kbdVars, vars

LEMMA KbdStep == KbdInv /\ [KbdNext]_kbdVars => KbdInv'
<1> SUFFICES ASSUME KbdInv, [KbdNext]_kbdVars PROVE KbdInv'
  OBVIOUS
<1>1. SchedInv'
  BY KbdSchedules, StepInv DEF KbdInv, IpcInv
<1>2. CASE ServerCall
  BY <1>1, <1>2, LinkKeyboardStep, RegisterStep, AcceptClientsStep, ReadPortStep,
     AwaitClientStep, HookIrqStep, ReadIrqStep, SendKeyStep DEF ServerCall
<1>3. CASE ClientCall
  BY <1>1, <1>3, MakePipeStep, ConnectStep, ConnectRefusedStep, HookSteps, WriteNoteStep
     DEF ClientCall
<1>4. CASE CreateKqueue \/ BlockCall \/ PollCall
  BY <1>1, <1>4, ServerCreates, ServerBlocks, ServerPolls, ClientCreates, ClientBlocks,
     ClientPolls
<1>5. CASE Press \/ TimerTick \/ LeaveLoop
  BY <1>1, <1>5, PressStep, TimeStep
<1>6. CASE UNCHANGED kbdVars
  <2>1. UNCHANGED vars /\ UNCHANGED <<port, prog>>
    BY <1>6 DEF kbdVars
  <2>2. IpcInv'
    BY <2>1, IpcStep DEF KbdInv
  <2>3. ProgramsOK'
    BY <2>1 DEF KbdInv, ProgramsOK
  <2>4. Kept /\ ParentsExist'
    BY <2>1, KeptBy DEF vars, ipcVars
  <2>5. Came
    BY <2>1, CameNothing DEF vars, ipcVars, schedVars
  <2> QED BY <2>1, <2>2, <2>3, <2>4, <2>5, OthersStep
<1> QED BY <1>2, <1>3, <1>4, <1>5, <1>6 DEF KbdNext, Call

THEOREM KbdInvariant == KbdSafety => []KbdInv
<1> QED BY KbdInitInv, KbdStep, PTL DEF KbdSafety

\* A scancode that waits in the port of the keyboard has its byte in the FIFO of
\* the interrupt, or is about to be read, from the first reading of the port on:
\* for any number of clients, FIFOs, kqueues and events, any ring of two bytes or
\* more, and whatever the other programs do (kbd.c:17-37).
THEOREM EveryKeyIsAccounted == KbdSafety => []KeysAccounted
<1>1. KbdInv => KeysAccounted
  <2> SUFFICES ASSUME KbdInv PROVE KeysAccounted
    OBVIOUS
  <2>1. ASSUME pc # "link_irq" PROVE Keys = Held
    BY <2>1 DEF KbdInv, Linked, Keys, Held, FifoIds, irq
  <2>2. ASSUME port, pc \in {"create", "wait", "hook"} PROVE Keys > 0
    BY <2>1, <2>2 DEF KbdInv, Waits
  <2>3. ASSUME Serving
        PROVE  (port => Keys > 0 \/ pc = "inb") /\ (pc = "read" => Keys > 0)
    <3>1. Keys = Held
      BY <2>1, <2>3 DEF Serving, pc
    <3>2. PICK e \in EventIds : ItsEvent(e) /\ Signals(e)
      BY <2>3 DEF KbdInv, Attends
    <3> QED BY <2>3, <3>1, <3>2 DEF Signals, Serving, pc
  <2>4. pc = "read" => Serving
    BY DEF Serving, pc
  <2> QED BY <2>2, <2>3, <2>4 DEF KeysAccounted, pc
<1> QED BY <1>1, KbdInvariant, PTL

\* The server never sleeps while the keyboard holds a scancode, which would let
\* no further interrupt wake it (kbd.c:33-36).
THEOREM NeverSleepsOnAKey == KbdSafety => []SleepsWithPortEmpty
<1>1. KbdInv => SleepsWithPortEmpty
  <2> SUFFICES ASSUME KbdInv, status[Server] = WAITING, port PROVE FALSE
    BY DEF SleepsWithPortEmpty
  <2>1. pc = "poll" /\ kqueue_block[Server] = kid
    BY DEF KbdInv, SleepsInBlock
  <2>2. PICK e \in EventIds : ItsEvent(e) /\ Signals(e)
    BY <2>1 DEF KbdInv, Attends, Serving, pc
  <2>3. triggered[e] /\ e \in OfKqueue(kid)
    BY <2>1, <2>2 DEF Signals, ItsEvent
  <2>4. Server \in Waiting(status) /\ Quiet(State)
    BY ProgramAssumption DEF Waiting, KbdInv, IpcInv
  <2> QED BY <2>1, <2>3, <2>4 DEF Quiet, State
<1> QED BY <1>1, KbdInvariant, PTL
=============================================================================
