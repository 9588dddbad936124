----------------------------- MODULE ByteQueue -----------------------------
(***************************************************************************)
(* What a kfifo is for: a bounded first-in first-out queue of bytes.  A    *)
(* write goes in whole or not at all, a read takes out exactly as many     *)
(* bytes as it asks for or none.                                           *)
(***************************************************************************)
EXTENDS Naturals, Sequences

CONSTANTS
  Capacity,  \* the most bytes the queue holds
  Bytes,     \* what a byte may be
  Lens       \* how many bytes one call writes or reads

VARIABLES
  queue,  \* the bytes written and not read
  out,    \* the bytes the last successful read returned
  err     \* the result of the last call

vars == <<queue, out, err>>

Init == queue = <<>> /\ out = <<>> /\ err = "SUCCESS"

Put(data) ==
  /\ IF Len(queue) + Len(data) <= Capacity
     THEN queue' = queue \o data /\ err' = "SUCCESS"
     ELSE UNCHANGED queue /\ err' = (IF Len(data) > Capacity THEN "BUFLEN" ELSE "FULL")
  /\ UNCHANGED out

Get(len) ==
  IF len <= Len(queue)
  THEN /\ out' = SubSeq(queue, 1, len)
       /\ queue' = SubSeq(queue, len + 1, Len(queue))
       /\ err' = "SUCCESS"
  ELSE UNCHANGED <<queue, out>> /\ err' = "BUFLEN"

Next == \E len \in Lens : Get(len) \/ \E data \in [1 .. len -> Bytes] : Put(data)

Spec == Init /\ [][Next]_vars
=============================================================================
