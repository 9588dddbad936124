---------------------------- MODULE MCKfifoRing ----------------------------
(***************************************************************************)
(* A ring of a few bytes.  Size is PAGE_SIZE in the kernel; what matters is*)
(* how the lengths relate to it: mixed lengths that wrap in the middle of  *)
(* a copy, and records that divide the ring.                               *)
(***************************************************************************)
EXTENDS KfifoRing
=============================================================================
