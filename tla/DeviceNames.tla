---------------------------- MODULE DeviceNames ----------------------------
(***************************************************************************)
(* How devices are found by name: strncmp(), strlen() and memcpy() of      *)
(* i386/bootvideo.c in common/device_interface.c.  Characters are numbers, *)
(* so that the bytes of a name can run into the number stored behind it.   *)
(***************************************************************************)
EXTENDS Integers, Sequences, SequencesExt

CONSTANTS
  NameSize,   \* the size of devnode_t.devname, 64
  Names,      \* the names that callers pass, without their terminator
  Junk,       \* the bytes that a fresh devnode may hold
  MaxDevnodes

NUL == 0

ASSUME NamesAssumption ==
  /\ NameSize \in Nat \ {0} /\ MaxDevnodes \in Nat
  /\ Names \subseteq Seq(Nat \ {NUL}) /\ Junk \subseteq Nat

VARIABLE devnodes  \* the list, with the name that each was registered under

-----------------------------------------------------------------------------
\* The memory at a name and at a devnode's devname: accept_fifo_id is next.
Caller(name) == name \o [i \in 1 .. NameSize + 1 |-> NUL]
Stored(node) == node.devname \o <<node.accept>>

\* strncmp() = 0.  When `size' characters are equal the loop ends and the next
\* ones are compared as well.
Same(n1, n2, size) ==
  \E i \in 1 .. size + 1 :
    /\ \A j \in 1 .. i - 1 : n1[j] = n2[j] /\ n1[j] # NUL
    /\ n1[i] = n2[i]
    /\ n1[i] = NUL \/ i = size + 1

\* A slip in the next one: the terminator is not counted.
StrlenC(n, len) ==
  IF \E i \in 1 .. len : n[i] = NUL
  THEN CHOOSE i \in 0 .. len - 1 : n[i + 1] = NUL /\ \A j \in 1 .. i : n[j] # NUL
  ELSE len

\* strlen() counts the terminator.
Strlen(n, len) ==
  IF \E i \in 1 .. len : n[i] = NUL
  THEN CHOOSE i \in 1 .. len : n[i] = NUL /\ \A j \in 1 .. i - 1 : n[j] # NUL
  ELSE len

Memcpy(dst, src, length) ==
  [i \in DOMAIN dst |-> IF i <= length THEN src[i] ELSE dst[i]]

\* The walk along devlist, from the newest node; 0 if it finds none.
Find(name) ==
  LET found == {i \in DOMAIN devnodes : Same(Stored(devnodes[i]), Caller(name), NameSize)}
  IN  IF found = {} THEN 0 ELSE CHOOSE i \in found : \A j \in found : i <= j

NamesInit == devnodes = <<>>

\* devnode_register()
Register(name) ==
  /\ Len(devnodes) < MaxDevnodes
  /\ Find(name) = 0
  /\ \E fresh \in [1 .. NameSize -> Junk], word \in Junk :
       devnodes' =
         <<[devname |-> Memcpy(fresh, Caller(name), Strlen(Caller(name), NameSize)),
            accept |-> word, name |-> name]>> \o devnodes

\* devnode_accept() with a FIFO id, the lowest byte of which may be 0
AcceptAs(name, id) ==
  /\ Find(name) # 0
  /\ devnodes' = [devnodes EXCEPT ![Find(name)].accept = id]

NamesNext == \E name \in Names : Register(name) \/ \E id \in 0 .. 1 : AcceptAs(name, id)

-----------------------------------------------------------------------------
\* A name shorter than the field finds the device that was registered under it
\* and no other, whatever the fields held before, whoever registered longer
\* names and whatever numbers stand behind the names (device_interface.c:36-50,
\* bootvideo.c:156-198).
FindsByName ==
  \A name \in Names : Len(name) < NameSize =>
    IF Find(name) = 0 THEN \A i \in DOMAIN devnodes : devnodes[i].name # name
    ELSE devnodes[Find(name)].name = name
=============================================================================
