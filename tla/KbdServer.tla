----------------------------- MODULE KbdServer -----------------------------
(***************************************************************************)
(* The two programs that are built with the kernel (servers/kbd.c and      *)
(* servers/test3.c, with servers/libak/syscall.c) as processes of module   *)
(* KernelIpc: the keyboard's server and its clients.                       *)
(*                                                                         *)
(* Every action is a system call of the program that runs, or an interrupt;*)
(* a call that the kernel refuses moves the program on and nothing else.   *)
(* What the programs print and map is left out.                            *)
(***************************************************************************)
EXTENDS KernelIpc

CONSTANTS
  Server,    \* the pid of kbd.c; the other processes run test3.c
  Keyboard,  \* hardware vector 33
  Dev,       \* "os:dev:keyboard"
  NoteLen    \* what a client writes to itself

ASSUME ProgramAssumption ==
  /\ Server \in Pids
  /\ Keyboard \in Devices \cap IrqLines
  /\ Dev \in DevNames
  /\ {1, NoteLen} \subseteq Lens

Clients == Pids \ {Server}

VARIABLES
  port,       \* the keyboard's port 0x60 holds a scancode not read yet
  prog,       \* the next call of each program, and its variables
  announced   \* what the accept FIFO holds: the conn_fifos[1] of the clients

kbdVars == <<vars, port, prog, announced>>

-----------------------------------------------------------------------------
\* The variables of both programs: the kqueue and its nevents, the FIFO whose
\* event it waits for (irq_fifo, kbd_fifos[1]), the one it writes to
\* (conn_fifos[1], pipes[1]) and the server's devnode_fifo.
Started(pc, nevents0) ==
  [pc |-> pc, kid |-> 0, nevents |-> nevents0, in |-> 0, out |-> 0, accept |-> 0]

\* Until the first schedule() process 1, the server, runs in the address space
\* of the last module loaded (cmain.c:48); here it runs its own program at once.
KbdInit ==
  /\ Init
  /\ next_avail_pid = N + 1
  /\ port = FALSE
  /\ prog = [p \in Pids |-> IF p = Server THEN Started("link_irq", 1) ELSE Started("pipe", 3)]
  /\ announced = <<>>

my == prog[me]

At(pc) == mode = USER /\ my.pc = pc
Becoming(p) == prog' = [prog EXCEPT ![me] = p]
Goto(pc) == Becoming([my EXCEPT !.pc = pc])

Refused == UNCHANGED vars

-----------------------------------------------------------------------------
(* Calls of both programs.                                                 *)

CreateKqueue ==
  /\ At("create") /\ KqueueCreate
  /\ Becoming([my EXCEPT !.kid = next_kqueue_id,
                         !.pc = IF me = Server THEN "wait" ELSE "hook_kbd"])
  /\ UNCHANGED <<port, announced>>

BlockCall ==
  /\ At("block")
  /\ \/ KqueueBlock(my.kid)
     \/ (\E e \in OfKqueue(my.kid) : triggered[e]) /\ Refused
  /\ Goto("poll")
  /\ UNCHANGED <<port, announced>>

\* nevents goes in as the room for events and comes back as their number.
PollCall ==
  /\ At("poll") /\ KqueuePoll(my.kid, my.nevents)
  /\ Becoming([my EXCEPT !.nevents = Cardinality({e \in EventIds : triggered[e] /\ ~triggered'[e]}),
                         !.pc = IF me = Server THEN "read" ELSE "note"])
  /\ UNCHANGED <<port, announced>>

-----------------------------------------------------------------------------
(* kbd.c                                                                   *)

LinkKeyboard ==
  /\ At("link_irq") /\ LinkIrq(Keyboard)
  /\ Becoming([my EXCEPT !.in = cur_fifo_id, !.pc = "register"])
  /\ UNCHANGED <<port, announced>>

Register ==
  /\ At("register") /\ DevnodeRegister(Dev)
  /\ Goto("accept")
  /\ UNCHANGED <<port, announced>>

\* A slip in the next one: the port is not read before the first key.
AcceptClientsUndrained ==
  /\ At("accept") /\ DevnodeAccept(Dev)
  /\ Becoming([my EXCEPT !.accept = cur_fifo_id, !.pc = "create"])
  /\ UNCHANGED <<port, announced>>

AcceptClients ==
  /\ At("accept") /\ DevnodeAccept(Dev)
  /\ Becoming([my EXCEPT !.accept = cur_fifo_id, !.pc = "drain"])
  /\ UNCHANGED <<port, announced>>

\* REQUEST_IO: ak_inb(0x60) empties the port, whatever it held.
ReadPort(pc, next) ==
  /\ At(pc)
  /\ port' = FALSE
  /\ Goto(next)
  /\ Refused /\ UNCHANGED announced

Drain == ReadPort("drain", "create")

\* The loop around ak_read(devnode_fifo): only a read that succeeds ends it.
\* A slip in the next one: it waits at the FIFO of the interrupt.
AwaitClientElsewhere ==
  /\ At("wait") /\ FifoRead(my.in, MsgLen)
  /\ announced # <<>>
  /\ Becoming([my EXCEPT !.out = Head(announced), !.pc = "hook"])
  /\ announced' = Tail(announced)
  /\ UNCHANGED port

AwaitClient ==
  /\ At("wait") /\ FifoRead(my.accept, MsgLen)
  /\ Becoming([my EXCEPT !.out = Head(announced), !.pc = "hook"])
  /\ announced' = Tail(announced)
  /\ UNCHANGED port

HookIrq ==
  /\ At("hook") /\ KqueueEvent(my.kid, my.in, READABLE)
  /\ Goto("block")
  /\ UNCHANGED <<port, announced>>

\* Its result is not looked at.
ReadIrq ==
  /\ At("read")
  /\ \/ FifoRead(my.in, 1)
     \/ ReadError(start[my.in], end[my.in], 1) # SUCCESS /\ Refused
  /\ Goto("inb")
  /\ UNCHANGED <<port, announced>>

ReadScancode == ReadPort("inb", "send")

\* Nor is that of the write to a client that reads nothing.
SendKey ==
  /\ At("send") /\ FifoWrite(my.out, 1)
  /\ Goto("block")
  /\ UNCHANGED <<port, announced>>

-----------------------------------------------------------------------------
(* test3.c                                                                 *)

MakePipe ==
  /\ At("pipe") /\ FifoPipe
  /\ Becoming([my EXCEPT !.out = cur_fifo_id, !.pc = "connect"])
  /\ UNCHANGED <<port, announced>>

\* The announcement goes to whatever FIFO the device accepts connections with.
Connect ==
  /\ At("connect") /\ DevnodeConnect(Dev)
  /\ Becoming([my EXCEPT !.in = cur_fifo_id + 1, !.pc = "create"])
  /\ announced' = IF devlist[Dev].accept = prog[Server].accept
                     /\ \E id \in {prog[Server].accept} \ {0} : start'[id] # start[id]
                  THEN Append(announced, cur_fifo_id + 1) ELSE announced
  /\ UNCHANGED port

\* No server yet: the FIFOs are what the stack holds, and are used all the same.
ConnectRefused ==
  /\ At("connect") /\ devlist[Dev].pid = 0 /\ Refused
  /\ \E w \in FreshWords : Becoming([my EXCEPT !.in = w, !.pc = "create"])
  /\ UNCHANGED <<port, announced>>

HookKeyboard ==
  /\ At("hook_kbd") /\ KqueueEvent(my.kid, my.in, READABLE)
  /\ Goto("hook_pipe")
  /\ UNCHANGED <<port, announced>>

HookPipe ==
  /\ At("hook_pipe") /\ KqueueEvent(my.kid, my.out, READABLE)
  /\ Goto("note")
  /\ UNCHANGED <<port, announced>>

WriteNote ==
  /\ At("note") /\ FifoWrite(my.out, NoteLen)
  /\ Goto("block")
  /\ UNCHANGED <<port, announced>>

-----------------------------------------------------------------------------
(* Hardware.                                                               *)

\* A key is pressed: the keyboard's controller holds one scancode and raises
\* its interrupt; the next key waits in the keyboard until the port is read.
Press ==
  /\ ~port /\ port' = TRUE
  /\ DeviceInterrupt(Keyboard) \/ IdleInterrupt(Keyboard)
  /\ UNCHANGED <<prog, announced>>

TimerTick ==
  /\ TimerInterrupt \/ IdleInterrupt(Timer)
  /\ UNCHANGED <<port, prog, announced>>

LeaveLoop == LeaveIdle /\ UNCHANGED <<port, prog, announced>>

-----------------------------------------------------------------------------
ServerCall ==
  \/ LinkKeyboard \/ Register \/ AcceptClients \/ Drain \/ AwaitClient \/ HookIrq
  \/ ReadIrq \/ ReadScancode \/ SendKey

ClientCall ==
  \/ MakePipe \/ Connect \/ ConnectRefused \/ HookKeyboard \/ HookPipe \/ WriteNote

Call == CreateKqueue \/ BlockCall \/ PollCall \/ ServerCall \/ ClientCall

KbdNext == Call \/ Press \/ TimerTick \/ LeaveLoop

KbdSafety == KbdInit /\ [][KbdNext]_kbdVars

\* The timer never stops and cli follows hlt; a program that gets the CPU
\* again and again makes its next call, as no time slice ends for ever just
\* before it.
KbdFairness ==
  /\ WF_kbdVars(TimerTick)
  /\ WF_kbdVars(LeaveLoop)
  /\ \A p \in Pids : SF_kbdVars(me = p /\ Call)

KbdSpec == KbdSafety /\ KbdFairness
-----------------------------------------------------------------------------
Serving == prog[Server].pc \in {"block", "poll", "read", "inb", "send"}

\* The bytes that interrupts have left in irq_fifo.
Keys == LET i == prog[Server].in IN IF i = 0 THEN 0 ELSE Used(start[i], end[i])

\* From the reading of the port on, a scancode that waits in the port has its
\* byte in irq_fifo, or is about to be read: keys of the start-up, bytes left
\* behind by polls and stray announcements leave the count too high, never too
\* low, and a read after a poll finds its byte (kbd.c:17-37).
KeysAccounted ==
  /\ port /\ (Serving \/ prog[Server].pc \in {"create", "wait", "hook"}) =>
       Keys > 0 \/ prog[Server].pc = "inb"
  /\ prog[Server].pc = "read" => Keys > 0

\* The keyboard raises no interrupt while its port is full, so a server that
\* slept then would sleep for ever (kbd.c:33-36).
SleepsWithPortEmpty == status[Server] = WAITING => ~port

\* Once somebody is served no key is left in the port, and each makes the
\* server write to its client (kbd.c:32-40).
KeysAreTaken == (Serving /\ port) ~> (~port /\ prog[Server].pc = "send")

\* A connection that the server has been told of is served, whatever keys and
\* ticks come in between (kbd.c:30, device_interface.c:83).
FirstClientServed == (announced # <<>>) ~> Serving

\* The client that is served is told of its keys although it asks for no more
\* events than its last poll reported, and the notes to itself come first
\* (test3.c:33-36).
KeysAreNoticed ==
  LET Untold == \E e \in EventIds :
        /\ e <= nevents /\ triggered[e]
        /\ kevents[e].ident = prog[Server].out /\ kq_pid[kevents[e].parent] \in Clients
  IN Untold ~> ~Untold
=============================================================================
