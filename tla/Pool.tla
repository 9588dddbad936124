-------------------------------- MODULE Pool --------------------------------
(***************************************************************************)
(* What a slab is for: objects are handed out, each to one holder at a     *)
(* time, and come back.                                                    *)
(***************************************************************************)
CONSTANT Objects

VARIABLE holders  \* how many callers hold each object

Init == holders = [o \in Objects |-> 0]

Take == \E o \in Objects : holders[o] = 0 /\ holders' = [holders EXCEPT ![o] = 1]

Give == \E o \in Objects : holders[o] = 1 /\ holders' = [holders EXCEPT ![o] = 0]

Spec == Init /\ [][Take \/ Give]_holders
=============================================================================
