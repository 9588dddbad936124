------------------------------- MODULE MCSlab -------------------------------
(***************************************************************************)
(* A slab of few small pages.  Three cells to a page make a page pass      *)
(* through all three lists.                                                *)
(***************************************************************************)
EXTENDS Slab
=============================================================================
