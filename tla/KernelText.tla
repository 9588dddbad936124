----------------------------- MODULE KernelText -----------------------------
(***************************************************************************)
(* The users of i386/bootvideo.c together: what is printed and the devices *)
(* that are registered, accepted and looked up by name.                    *)
(***************************************************************************)
EXTENDS Bootvideo, DeviceNames

CONSTANT MaxBoth  \* a bound on what is printed while there are devices

ASSUME TextAssumption == MaxBoth \in Nat

TextInit == ScreenInit /\ NamesInit

TextNext ==
  \/ ScreenNext /\ UNCHANGED devnodes /\ (devnodes = <<>> \/ Len(text') <= MaxBoth)
  \/ NamesNext /\ UNCHANGED screenVars /\ Len(text) <= MaxBoth

TextSpec == TextInit /\ [][TextNext]_<<screenVars, devnodes>>
=============================================================================
