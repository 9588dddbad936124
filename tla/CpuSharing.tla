----------------------------- MODULE CpuSharing -----------------------------
(***************************************************************************)
(* What AkARiS promises about its one processor, with no list, no frames   *)
(* and no interrupts: the CPU is given only to a ready process, a process  *)
(* leaves the ready set only by its own doing, the CPU rests only when     *)
(* nobody is ready, and whoever is ready gets the CPU eventually.          *)
(***************************************************************************)
CONSTANT Procs

VARIABLES
  cur,    \* the process that has the CPU, or had it before the CPU rested
  ready,  \* the processes that want the CPU
  idle    \* the CPU rests

vars == <<cur, ready, idle>>

Init ==
  /\ ready \in SUBSET Procs
  /\ cur \in ready
  /\ idle = FALSE

\* p gets the CPU, taken from whoever had it or from the idle loop; the
\* processes of W become ready on the way.
Run(p) ==
  /\ p \in ready
  /\ cur' = p
  /\ idle' = FALSE
  /\ \E W \in SUBSET Procs : ready' = ready \cup W

\* The running process waits for something and p runs in its place.
GiveUp(p) ==
  /\ ~idle
  /\ p \in ready \ {cur}
  /\ cur' = p
  /\ idle' = FALSE
  /\ \E W \in SUBSET Procs : ready' = (ready \ {cur}) \cup W

\* The last ready process waits for something: the CPU rests.
Rest ==
  /\ ~idle
  /\ ready = {cur}
  /\ ready' = {}
  /\ idle' = TRUE
  /\ UNCHANGED cur

\* A process is created or what it waited for has happened.
Admit ==
  /\ \E W \in SUBSET Procs : ready' = ready \cup W
  /\ UNCHANGED <<cur, idle>>

Next ==
  \/ \E p \in Procs : Run(p) \/ GiveUp(p)
  \/ Rest
  \/ Admit

Safety == Init /\ [][Next]_vars

\* Nobody who stays ready is passed over forever: a ready process without the
\* CPU gets it.
Fairness == \A p \in Procs : WF_<<cur, idle>>(Run(p) \/ GiveUp(p))

Spec == Safety /\ Fairness
=============================================================================
