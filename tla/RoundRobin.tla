----------------------------- MODULE RoundRobin -----------------------------
(***************************************************************************)
(* The order in which schedule() (common/process.c) looks at processes.    *)
(* context_list is kept in creation order and pids are handed out in the   *)
(* same order, so the list is 1, 2, ..., N; the walk starts behind the     *)
(* current process and wraps at the end of the list.  N may be larger than *)
(* the list: the positions past its end hold no runnable process.          *)
(***************************************************************************)
EXTENDS Naturals

CONSTANT N

ASSUME NAssumption == N \in Nat \ {0}

Pids == 1 .. N

\* How many steps of `cur_process = cur_process->next' (wrapping to
\* context_list) lead from `from' to p; the walk meets `from' itself last.
Ahead(from, p) == IF p > from THEN p - from ELSE p + N - from

\* A slip in the next one: every call starts at the head of context_list.
FollowingFromHead(S, from, p) ==
  /\ p \in S
  /\ \A q \in S : p <= q

\* The first process of S that the walk from `from' meets.
Following(S, from, p) ==
  /\ p \in S
  /\ \A q \in S : Ahead(from, p) <= Ahead(from, q)

\* When the halted kernel wakes up it tests the process it halted for before
\* it walks on: the walk now meets `from' first.
FromHere(from, p) == IF p = from THEN 0 ELSE Ahead(from, p)

FirstFrom(S, from, p) ==
  /\ p \in S
  /\ \A q \in S : FromHere(from, p) <= FromHere(from, q)
=============================================================================
