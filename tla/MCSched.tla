------------------------------ MODULE MCSched ------------------------------
(***************************************************************************)
(* Four pids, of which one to four exist at boot and the others come from  *)
(* fork(); the timer, one device and the system call vector.               *)
(***************************************************************************)
EXTENDS Sched
=============================================================================
