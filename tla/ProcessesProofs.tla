-------------------------- MODULE ProcessesProofs --------------------------
(***************************************************************************)
(* Proofs about the memory of processes (module Processes), for any number *)
(* of processes and FIFOs, any memory and any programs that the loader     *)
(* passes: every call leaves the address spaces of all of them partitioned.*)
(***************************************************************************)
EXTENDS AddressSpacesProofs

\* Every process has a partitioned address space, and nobody else has one.
Partitioned(m) ==
  /\ Formed(m)
  /\ \A p \in 1 .. MaxPid : IF p <= m.npids THEN Tidy(m.spaces[p]) /\ HasStack(m.spaces[p])
                            ELSE m.spaces[p] = <<>>

\* From m an operation leads to n: if the kernel goes on, n is partitioned.
Keeping(m, n) ==
  /\ Formed(n)
  /\ n.stop = RUNNING => m.stop = RUNNING /\ Partitioned(n) /\ n.npids = m.npids

LEMMA QuietKeeping ==
  ASSUME NEW m, Partitioned(m), NEW n, Quiet(m, n) PROVE Keeping(m, n)
<1>1. Formed(n)
  BY QuietFormed DEF Partitioned
<1> QED BY <1>1 DEF Quiet, Partitioned, Keeping

LEMMA KeepingQuiet ==
  ASSUME NEW m, NEW n, Keeping(m, n), NEW o, Quiet(n, o) PROVE Keeping(m, o)
<1>1. Formed(o)
  BY QuietFormed DEF Keeping
<1> QED BY <1>1 DEF Quiet, Partitioned, Keeping

\* The next operation is done only if the kernel has not stopped.
LEMMA KeepingTwice ==
  ASSUME NEW m, NEW n, NEW o, Keeping(m, n), n.stop = RUNNING => Keeping(n, o),
         n.stop # RUNNING => o = n
  PROVE  Keeping(m, o)
BY DEF Keeping

LEMMA ReworkedKeeping ==
  ASSUME NEW m, Partitioned(m), NEW p \in 1 .. MaxPid, p <= m.npids, NEW n, Reworked(m, n, p),
         n.stop = RUNNING => Tidy(n.spaces[p]) /\ HasStack(n.spaces[p])
  PROVE  Keeping(m, n)
<1>1. /\ Formed(n) /\ n.npids = m.npids
      /\ n.spaces = [m.spaces EXCEPT ![p] = n.spaces[p]]
      /\ n.stop = RUNNING => m.stop = RUNNING
  BY DEF Reworked
<1>2. m.spaces \in [1 .. MaxPid -> Seq(Regions)]
  BY DEF Partitioned, Formed
<1>3. \A q \in 1 .. MaxPid : q # p => n.spaces[q] = m.spaces[q]
  BY <1>1, <1>2
<1> QED BY <1>1, <1>3 DEF Partitioned, Keeping

LEMMA CreateRegionKeeps ==
  ASSUME NEW m, Partitioned(m), NEW p \in 1 .. MaxPid, p <= m.npids,
         NEW len \in Nat \ {0}, NEW type \in Kinds \ {"STACK"}, NEW param \in Nat,
         NEW n, n = CreateRegion(m, p, len, type, param)
  PROVE  Keeping(m, n) /\ (n.stop = RUNNING => n.spaces[p][1] \in Regions)
<1>1. Formed(m) /\ Tidy(m.spaces[p]) /\ HasStack(m.spaces[p])
  BY DEF Partitioned
<1>2. /\ Reworked(m, n, p)
      /\ n.stop = RUNNING => \E r \in Regions, i \in Nat :
           /\ r.len = len /\ r.type = type /\ r.param = param
           /\ Taken(m.spaces[p], n.spaces[p], r, i)
  BY <1>1, CreateRegionTakes
<1>3. ASSUME n.stop = RUNNING
      PROVE  Tidy(n.spaces[p]) /\ HasStack(n.spaces[p]) /\ n.spaces[p][1] \in Regions
  <2>1. PICK r \in Regions, i \in Nat : Taken(m.spaces[p], n.spaces[p], r, i)
    BY <1>2, <1>3
  <2>2. HasStack(n.spaces[p])
    BY <1>1, <2>1, TakenStack
  <2> QED BY <2>1, <2>2 DEF Taken
<1> QED BY <1>2, <1>3, ReworkedKeeping

\* Where a FIFO's region is found, it is one, of a process.
LEMMA IpcRegionFinds ==
  ASSUME NEW m, Partitioned(m), NEW p, NEW id, NEW at, at = IpcRegion(m, p, id), at # 0
  PROVE  /\ p \in 1 .. MaxPid /\ p <= m.npids /\ at \in DOMAIN m.spaces[p]
         /\ m.spaces[p][at] \in Regions /\ m.spaces[p][at].len > 0
         /\ m.spaces[p][at].type = "IPC"
<1>1. m.spaces \in [1 .. MaxPid -> Seq(Regions)]
  BY DEF Partitioned, Formed
<1>2. p \in 1 .. MaxPid
  BY <1>1 DEF IpcRegion
<1>3. PICK list : list = m.spaces[p]
  OBVIOUS
<1>4. list \in Seq(Regions) /\ DOMAIN list = 1 .. Len(list) /\ Len(list) \in Nat
  <2>1. list \in Seq(Regions)
    BY <1>1, <1>2, <1>3
  <2> QED BY <2>1
<1> DEFINE I == {i \in 1 .. Len(list) : list[i].type = "IPC" /\ list[i].param = id}
<1>5. at = IF I # {} THEN Min(I) ELSE 0
  BY <1>1, <1>2, <1>3 DEF IpcRegion, SelectInSeq
<1>6. I \in SUBSET Nat
  OBVIOUS
<1>7. at \in I
  <2> HIDE DEF I
  <2> QED BY <1>5, <1>6, LeastIsIn
<1>8. at \in DOMAIN list /\ list[at].type = "IPC" /\ list[at] \in Regions
  BY <1>4, <1>7
<1>9. p <= m.npids
  <2> SUFFICES ASSUME ~(p <= m.npids) PROVE FALSE
    OBVIOUS
  <2>1. list = <<>>
    BY <1>2, <1>3 DEF Partitioned
  <2> QED BY <1>8, <2>1
<1>10. InPlace(list[at])
  BY <1>2, <1>3, <1>8, <1>9 DEF Partitioned, Tidy
<1>11. list[at].len > 0
  BY <1>8, <1>10 DEF InPlace, Regions
<1> QED BY <1>2, <1>3, <1>8, <1>9, <1>11

-----------------------------------------------------------------------------
LEMMA NewListQuiet ==
  ASSUME NEW m, Shape(m), NEW pids, NEW S, pids \in Seq(S), pids # <<>>
  PROVE  Quiet(m, NewList(m, pids))
<1>1. PICK first : first = NewEntry(m, Head(pids))
  OBVIOUS
<1>2. Quiet(m, first)
  BY <1>1, NewEntryQuiet
<1>3. PICK rest : rest = Tail(pids)
  OBVIOUS
<1>4. Len(rest) \in Nat /\ DOMAIN rest = 1 .. Len(rest)
  <2>1. rest \in Seq(S)
    BY <1>3
  <2> QED BY <2>1
<1>5. PICK linked : linked = LinkAll(first, rest)
  OBVIOUS
<1>6. Quiet(first, linked)
  BY <1>2, <1>4, <1>5, LinkingFold DEF Quiet
<1>7. NewList(m, pids) = [linked EXCEPT !.ret = first.ret]
  BY <1>1, <1>3, <1>5 DEF NewList, LinkAll
<1>8. Quiet(linked, NewList(m, pids))
  <2>1. PICK x : x = first.ret
    OBVIOUS
  <2>2. ASSUME NEW n, n = [linked EXCEPT !.ret = x] PROVE Quiet(linked, n)
    BY <1>6, <2>2 DEF Quiet, Shape
  <2> QED BY <1>7, <2>1, <2>2
<1> QED BY <1>2, <1>6, <1>8, QuietTwice

LEMMA ListedPrepended ==
  ASSUME NEW s, Listed(s), NEW x PROVE Listed(<<x>> \o s)
<1>1. PICK n \in Nat : s = [i \in 1 .. n |-> s[i]]
  BY DEF Listed
<1> DEFINE S == {s[i] : i \in 1 .. n} \cup {x}
<1>2. s \in Seq(S) /\ x \in S
  <2>1. [i \in 1 .. n |-> s[i]] \in Seq(S)
    OBVIOUS
  <2> QED BY <1>1, <2>1
<1> HIDE DEF S
<1>3. PICK t : t = <<x>> \o s
  OBVIOUS
<1>4. t \in Seq(S)
  BY <1>2, <1>3, PrependFacts
<1>5. Len(t) \in Nat /\ t = [i \in 1 .. Len(t) |-> t[i]]
  BY <1>4
<1> QED BY <1>3, <1>5 DEF Listed

LEMMA ListedRemoved ==
  ASSUME NEW s, Listed(s), NEW i \in Int PROVE Listed(RemoveAt(s, i))
<1> DEFINE S == {s[j] : j \in Int}
<1>1. PICK n : n \in Nat /\ s = [j \in 1 .. n |-> s[j]]
  BY DEF Listed
<1>2. Len(s) \in Int
  <2>1. [j \in 1 .. n |-> s[j]] \in Seq(S)
    BY <1>1
  <2> HIDE DEF S
  <2>2. s \in Seq(S)
    BY <1>1, <2>1
  <2> QED BY <2>2
<1>3. \A j \in Int : s[j] \in S
  OBVIOUS
<1> HIDE DEF S
<1>4. SubSeq(s, 1, i - 1) \in Seq(S)
  BY <1>3, SubSeqProperties
<1>5. SubSeq(s, i + 1, Len(s)) \in Seq(S)
  BY <1>2, <1>3, SubSeqProperties
<1>6. PICK t : t = RemoveAt(s, i)
  OBVIOUS
<1>7. t \in Seq(S)
  BY <1>4, <1>5, <1>6, ConcatProperties DEF RemoveAt
<1>8. Len(t) \in Nat /\ t = [j \in 1 .. Len(t) |-> t[j]]
  BY <1>7
<1> QED BY <1>6, <1>8 DEF Listed

LEMMA CreateFifoKeeps ==
  ASSUME NEW m, Partitioned(m),
         NEW S, NEW recv \in Seq(S), NEW T, NEW send \in Seq(T), recv # <<>>, send # <<>>,
         recv[1] \in 1 .. MaxPid, recv[1] <= m.npids
  PROVE  Keeping(m, CreateFifo(m, recv, send))
<1>1. PICK id : id = m.next_fifo
  OBVIOUS
<1>2. PICK p : p = recv[1]
  OBVIOUS
<1>3. PICK r : r = NewList(m, recv)
  OBVIOUS
<1>4. PICK s : s = NewList(r, send)
  OBVIOUS
<1>5. Quiet(m, s) /\ Keeping(m, s)
  <2>1. Quiet(m, r)
    BY <1>3, NewListQuiet DEF Partitioned, Formed
  <2>2. Quiet(r, s)
    BY <1>4, <2>1, NewListQuiet DEF Quiet
  <2>3. Quiet(m, s)
    BY <2>1, <2>2, QuietTwice
  <2> QED BY <2>3, QuietKeeping
<1>a. id \in Nat
  BY <1>1 DEF Partitioned, Formed
<1>6. Partitioned(s) /\ p \in 1 .. MaxPid /\ p <= s.npids
  BY <1>2, <1>5 DEF Keeping, Quiet, Partitioned
<1>7. PICK c : c = CreateRegion(s, p, 2, "IPC", id)
  OBVIOUS
<1>8. Keeping(s, c) /\ (c.stop = RUNNING => c.spaces[p][1] \in Regions)
  BY <1>a, <1>6, <1>7, CreateRegionKeeps DEF Kinds
<1>9. PICK mapped : mapped = IF c.stop # RUNNING THEN c ELSE MapRegion(c, p, c.spaces[p][1])
  OBVIOUS
<1>10. Keeping(s, mapped)
  <2>1. CASE c.stop # RUNNING
    BY <1>8, <1>9, <2>1
  <2>2. CASE c.stop = RUNNING
    <3>1. PICK mr : mr = c.spaces[p][1]
      OBVIOUS
    <3>2. mr.len \in Nat /\ Shape(c)
      BY <1>8, <2>2, <3>1 DEF Regions, Keeping, Formed
    <3>3. Quiet(c, mapped)
      BY <1>9, <2>2, <3>1, <3>2, MappingFold
    <3> QED BY <1>8, <3>3, KeepingQuiet
  <2> QED BY <2>1, <2>2
<1>11. PICK f : f = [id |-> id, recvlist |-> r.ret, sendlist |-> s.ret]
  OBVIOUS
<1>12. PICK n : n = [mapped EXCEPT !.fifos = <<f>> \o @, !.next_fifo = @ + 1]
  OBVIOUS
<1>13. Quiet(mapped, n)
  <2>1. Shape(mapped) /\ Listed(mapped.fifos)
    BY <1>10 DEF Keeping, Formed
  <2>2. PICK l : l = <<f>> \o mapped.fifos
    OBVIOUS
  <2>3. Listed(l)
    BY <2>1, <2>2, ListedPrepended
  <2>4. PICK k : k = mapped.next_fifo + 1
    OBVIOUS
  <2>5. n = [mapped EXCEPT !.fifos = l, !.next_fifo = k]
    BY <1>12, <2>2, <2>4
  <2>6. /\ Shape(n) /\ n.spaces = mapped.spaces /\ n.npids = mapped.npids /\ n.fifos = l
        /\ n.stop = mapped.stop /\ n.next_fifo = k
    BY <2>1, <2>5 DEF Shape
  <2>7. mapped.next_fifo \in Nat => k \in Nat
    BY <2>4
  <2> QED BY <2>3, <2>6, <2>7 DEF Quiet
<1>14. Keeping(s, n)
  BY <1>10, <1>13, KeepingQuiet
<1>15. Keeping(m, n)
  BY <1>5, <1>14 DEF Keeping
<1> QED BY <1>1, <1>2, <1>3, <1>4, <1>7, <1>9, <1>11, <1>12, <1>15 DEF CreateFifo

LEMMA DeleteRegionKeeps ==
  ASSUME NEW m, Partitioned(m), NEW p \in 1 .. MaxPid, p <= m.npids, NEW at,
         Mergeable(m.spaces[p], at)
  PROVE  Keeping(m, DeleteRegion(m, p, at))
<1>1. Formed(m) /\ HasStack(m.spaces[p])
  BY DEF Partitioned
<1>2. PICK n : n = DeleteRegion(m, p, at)
  OBVIOUS
<1>3. Reworked(m, n, p) /\ Tidy(n.spaces[p]) /\ HasStack(n.spaces[p])
  BY <1>1, <1>2, DeleteRegionMerges
<1> QED BY <1>2, <1>3, ReworkedKeeping

LEMMA WriteFifoKeeps ==
  ASSUME NEW m, Partitioned(m), NEW id, NEW p \in 1 .. MaxPid, p <= m.npids
  PROVE  Keeping(m, WriteFifo(m, id, p))
<1>1. PICK owner : owner = m.acl[m.fifos[FifoAt(m, id)].recvlist].pid
  OBVIOUS
<1>2. PICK at : at = IpcRegion(m, owner, id)
  OBVIOUS
<1>3. PICK n : n = WriteFifo(m, id, p)
  OBVIOUS
<1>4. CASE at = 0
  <2>1. n = Stop(m, "receiver without region")
    BY <1>1, <1>2, <1>3, <1>4 DEF WriteFifo
  <2>2. Quiet(m, n)
    BY <2>1, StopQuiet DEF Partitioned, Formed
  <2> QED BY <1>3, <2>2, QuietKeeping
<1>5. CASE at # 0
  <2>1. PICK r : r = m.spaces[owner][at]
    OBVIOUS
  <2>2. r \in Regions /\ r.len > 0 /\ r.type = "IPC"
    BY <1>2, <1>5, <2>1, IpcRegionFinds
  <2>3. PICK c : c = CloneRegion(m, p, owner, r)
    OBVIOUS
  <2>4. n = IF c.stop # RUNNING THEN c ELSE DeleteRegion(c, p, 1)
    BY <1>1, <1>2, <1>3, <1>5, <2>1, <2>3 DEF WriteFifo
  <2>5. Formed(m) /\ Tidy(m.spaces[p]) /\ HasStack(m.spaces[p])
    BY DEF Partitioned
  <2>6. /\ Reworked(m, c, p)
        /\ c.stop = RUNNING => \E s \in Regions, i \in Nat :
             /\ s.len = r.len /\ s.type = r.type /\ s.param = r.param
             /\ Taken(m.spaces[p], c.spaces[p], s, i)
    BY <2>2, <2>3, <2>5, CloneRegionTakes
  <2>7. c.stop = RUNNING => /\ Tidy(c.spaces[p]) /\ HasStack(c.spaces[p])
                            /\ Mergeable(c.spaces[p], 1)
    <3> SUFFICES ASSUME c.stop = RUNNING
                 PROVE  Tidy(c.spaces[p]) /\ HasStack(c.spaces[p]) /\ Mergeable(c.spaces[p], 1)
      OBVIOUS
    <3>1. PICK s \in Regions, i \in Nat :
            /\ s.len = r.len /\ s.type = r.type /\ s.param = r.param
            /\ Taken(m.spaces[p], c.spaces[p], s, i)
      BY <2>6
    <3>2. HasStack(c.spaces[p])
      BY <2>5, <3>1, TakenStack
    <3>3. PICK t : t = c.spaces[p]
      OBVIOUS
    <3>4. Tidy(t) /\ t[1] = s /\ Len(t) = Len(m.spaces[p]) + 1
      BY <3>1, <3>3 DEF Taken
    <3>5. 1 \in DOMAIN t
      <4>1. t \in Seq(Regions) /\ Len(m.spaces[p]) \in Nat
        BY <2>5, <3>4 DEF Tidy
      <4> QED BY <3>4, <4>1
    <3> QED BY <2>2, <3>1, <3>2, <3>3, <3>4, <3>5 DEF Mergeable
  <2>8. Keeping(m, c)
    BY <2>6, <2>7, ReworkedKeeping
  <2>9. CASE c.stop # RUNNING
    BY <1>3, <2>4, <2>8, <2>9
  <2>10. CASE c.stop = RUNNING
    <3>1. Partitioned(c) /\ p <= c.npids
      BY <2>8, <2>10 DEF Keeping
    <3>2. Keeping(c, n)
      BY <2>4, <2>7, <2>10, <3>1, DeleteRegionKeeps
    <3> QED BY <1>3, <2>8, <2>10, <3>2, KeepingTwice
  <2> QED BY <2>9, <2>10
<1> QED BY <1>4, <1>5

-----------------------------------------------------------------------------
LEMMA FifoAtNumber ==
  ASSUME NEW m, Listed(m.fifos), NEW id
  PROVE  FifoAt(m, id) \in Int
<1>0. PICK k : k = FifoAt(m, id)
  OBVIOUS
<1>1. PICK s : s = m.fifos
  OBVIOUS
<1> DEFINE I == {i \in 1 .. Len(s) : s[i].id = id}
<1>2. k = IF I # {} THEN Min(I) ELSE 0
  BY <1>0, <1>1 DEF FifoAt, SelectInSeq
<1>3. I \in SUBSET Nat
  OBVIOUS
<1> HIDE DEF I
<1>4. I # {} => Min(I) \in I
  BY <1>3, LeastIsIn
<1>5. ASSUME I # {} PROVE k \in Int
  <2>1. k \in I
    BY <1>2, <1>4, <1>5
  <2>2. I \subseteq Int
    BY <1>3
  <2> QED BY <2>1, <2>2
<1>6. I = {} => k \in Int
  BY <1>2
<1> QED BY <1>0, <1>5, <1>6

\* With other list heads in a FIFO.
LEMMA HeadsQuiet ==
  ASSUME NEW m, Shape(m), NEW i, NEW a, NEW b,
         NEW n, n = [m EXCEPT !.fifos[i].sendlist = a, !.fifos[i].recvlist = b]
  PROVE  Quiet(m, n)
<1>1. PICK x : x = [[m.fifos EXCEPT ![i].sendlist = a] EXCEPT ![i].recvlist = b]
  OBVIOUS
<1>2. PICK y : y = [m.fifos EXCEPT ![i].sendlist = a]
  OBVIOUS
<1>3. PICK f : f = [m.fifos[i] EXCEPT !.sendlist = a]
  OBVIOUS
<1>4. PICK g : g = [y[i] EXCEPT !.recvlist = b]
  OBVIOUS
<1>5. y = [m.fifos EXCEPT ![i] = f] /\ x = [y EXCEPT ![i] = g]
  BY <1>1, <1>2, <1>3, <1>4
<1>6. /\ n.fifos = x /\ Shape(n) /\ n.spaces = m.spaces /\ n.npids = m.npids
      /\ n.stop = m.stop
  BY <1>1 DEF Shape
<1>7. Listed(m.fifos) => Listed(x)
  BY <1>5, ListedExcept
<1> QED BY <1>6, <1>7 DEF Quiet

LEMMA CloseFifoKeeps ==
  ASSUME NEW m, Partitioned(m), NEW id, NEW p
  PROVE  Keeping(m, CloseFifo(m, id, p))
<1>2. PICK i : i = FifoAt(m, id)
  OBVIOUS
<1>3. i \in Int
  BY <1>2, FifoAtNumber DEF Partitioned, Formed
<1>4. PICK g : g = m.fifos[i]
  OBVIOUS
<1>5. PICK sender : sender = Entry(m, g.sendlist, p)
  OBVIOUS
<1>6. PICK s : s = Unlinked(m, g.sendlist, p)
  OBVIOUS
<1>7. PICK s1 : s1 = IF sender = 0 THEN s ELSE ReturnEntry(s, sender)
  OBVIOUS
<1>8. PICK receiver : receiver = Entry(s1, g.recvlist, p)
  OBVIOUS
<1>9. PICK r : r = Unlinked(s1, g.recvlist, p)
  OBVIOUS
<1>10. PICK at : at = IpcRegion(r, p, id)
  OBVIOUS
<1>11. PICK d : d = IF at = 0 THEN r ELSE DeleteRegion(r, p, at)
  OBVIOUS
<1>12. PICK a : a = s.ret
  OBVIOUS
<1>13. PICK b : b = r.ret
  OBVIOUS
<1>14. PICK left : left = [d EXCEPT !.fifos[i].sendlist = a, !.fifos[i].recvlist = b]
  OBVIOUS
<1>15. PICK back : back = ReturnEntry(left, receiver)
  OBVIOUS
<1>16. PICK gone : gone = [back EXCEPT !.fifos = RemoveAt(@, i)]
  OBVIOUS
<1>17. PICK n : n = CloseFifo(m, id, p)
  OBVIOUS
<1>18. \/ n = Stop(m, "null FIFO used")
       \/ n = Stop(left, "null cell returned")
       \/ n = back
       \/ n = Stop(left, "sentinel deleted")
       \/ n = gone
  <2>1. n = CASE i = 0 -> Stop(m, "null FIFO used")
              [] i # 0 /\ receiver = 0 -> Stop(left, "null cell returned")
              [] i # 0 /\ receiver # 0 /\ b # 0 /\ a # 0 -> back
              [] i # 0 /\ receiver # 0 /\ b # 0 /\ a = 0 -> Stop(left, "sentinel deleted")
              [] OTHER -> gone
    BY <1>2, <1>4, <1>5, <1>6, <1>7, <1>8, <1>9, <1>10, <1>11, <1>12, <1>13, <1>14, <1>15,
       <1>16, <1>17 DEF CloseFifo
  <2> QED BY <2>1
<1>19. Quiet(m, r)
  <2>1. Quiet(m, s)
    BY <1>6, UnlinkedQuiet DEF Partitioned, Formed
  <2>2. Quiet(s, s1)
    BY <1>7, <2>1, ReturnEntryQuiet, QuietSelf DEF Quiet
  <2>3. Quiet(s1, r)
    BY <1>9, <2>2, UnlinkedQuiet DEF Quiet
  <2> QED BY <2>1, <2>2, <2>3, QuietTwice
<1>20. Keeping(m, r)
  BY <1>19, QuietKeeping
<1>21. Partitioned(r)
  BY <1>19, QuietFormed DEF Quiet, Partitioned
<1>22. Keeping(m, d)
  <2>1. CASE at = 0
    BY <1>11, <1>20, <2>1
  <2>2. CASE at # 0
    <3>1. /\ p \in 1 .. MaxPid /\ p <= r.npids /\ at \in DOMAIN r.spaces[p]
          /\ r.spaces[p][at].len > 0 /\ r.spaces[p][at].type = "IPC"
      BY <1>10, <1>21, <2>2, IpcRegionFinds
    <3>2. Mergeable(r.spaces[p], at)
      BY <1>21, <3>1 DEF Partitioned, Mergeable
    <3>3. Keeping(r, d)
      BY <1>11, <1>21, <2>2, <3>1, <3>2, DeleteRegionKeeps
    <3> QED BY <1>20, <3>3 DEF Keeping
  <2> QED BY <2>1, <2>2
<1>23. Keeping(m, left) /\ Shape(left)
  <2>1. Quiet(d, left)
    BY <1>14, <1>22, HeadsQuiet DEF Keeping, Formed
  <2> QED BY <1>22, <2>1, KeepingQuiet DEF Quiet
<1>24. Keeping(m, back) /\ Formed(back)
  <2>1. Quiet(left, back)
    BY <1>15, <1>23, ReturnEntryQuiet
  <2> QED BY <1>23, <2>1, KeepingQuiet DEF Keeping
<1>25. Keeping(m, gone)
  <2>1. PICK l : l = RemoveAt(back.fifos, i)
    OBVIOUS
  <2>2. Listed(l)
    BY <1>3, <1>24, <2>1, ListedRemoved DEF Formed
  <2>3. gone = [back EXCEPT !.fifos = l]
    BY <1>16, <2>1
  <2>4. Shape(gone) /\ gone.spaces = back.spaces /\ gone.npids = back.npids /\ gone.fifos = l
        /\ gone.stop = back.stop /\ gone.next_fifo = back.next_fifo
    BY <1>24, <2>3 DEF Shape, Formed
  <2>5. Quiet(back, gone)
    BY <2>2, <2>4 DEF Quiet
  <2> QED BY <1>24, <2>5, KeepingQuiet
<1>26. \A why : Keeping(m, Stop(left, why))
  BY <1>23, StopQuiet, KeepingQuiet
<1>27. Keeping(m, Stop(m, "null FIFO used"))
  BY StopQuiet, QuietKeeping DEF Partitioned, Formed
<1> QED BY <1>17, <1>18, <1>24, <1>25, <1>26, <1>27

-----------------------------------------------------------------------------
LEMMA MaxPidNumber == MaxPid \in Nat \ {0} /\ Residues \subseteq Seq(Nat \ {0})
BY ProcessesAssumption

\* With a running kernel all address spaces are partitioned; once it has
\* stopped there are none.
Spaces == IF mem.stop = RUNNING THEN Partitioned(mem) ELSE mem.npids = 0

LEMMA SpacesPartition == Spaces => SpacePartitioned
<1> SUFFICES ASSUME Spaces, NEW p \in PidsUpTo(mem) PROVE Partitions(mem.spaces[p])
  BY DEF SpacePartitioned, Partitions
<1>1. CASE mem.stop = RUNNING
  <2>1. Partitioned(mem)
    BY <1>1 DEF Spaces
  <2>2. p \in 1 .. MaxPid /\ p <= mem.npids
    <3>1. mem.npids \in 0 .. MaxPid /\ p \in 1 .. mem.npids
      BY <2>1 DEF PidsUpTo, Partitioned, Formed
    <3> QED BY <3>1, MaxPidNumber
  <2>3. Tidy(mem.spaces[p]) /\ HasStack(mem.spaces[p])
    BY <2>1, <2>2 DEF Partitioned
  <2> QED BY <2>3, TidyPartitions
<1>2. CASE mem.stop # RUNNING
  BY <1>2 DEF Spaces, PidsUpTo
<1> QED BY <1>1, <1>2

\* A state of the memory system is cleared after a call.
LEMMA LeftSpaces ==
  ASSUME NEW n, Shape(n), n.stop = RUNNING => Partitioned(n), NEW o, o = Left(n)
  PROVE  IF o.stop = RUNNING THEN Partitioned(o) ELSE o.npids = 0
<1>1. CASE n.stop = RUNNING
  <2>1. o = [n EXCEPT !.ret = 0]
    BY <1>1 DEF Left
  <2>2. /\ Shape(o) /\ o.spaces = n.spaces /\ o.npids = n.npids /\ o.fifos = n.fifos
        /\ o.next_fifo = n.next_fifo /\ o.stop = RUNNING
    BY <1>1, <2>1 DEF Shape
  <2> QED BY <1>1, <2>2 DEF Partitioned, Formed
<1>2. CASE n.stop # RUNNING
  <2>1. PICK w : w = n.stop
    OBVIOUS
  <2>2. o = [Blank EXCEPT !.stop = w]
    BY <1>2, <2>1 DEF Left
  <2>3. o.stop = w /\ o.npids = 0
    BY <2>2 DEF Blank
  <2> QED BY <1>2, <2>1, <2>3
<1> QED BY <1>1, <1>2

LEMMA ReturnSpaces ==
  ASSUME NEW n, Keeping(mem, n), Return(n) PROVE Spaces'
<1>1. Shape(n) /\ (n.stop = RUNNING => Partitioned(n))
  BY DEF Keeping, Formed
<1>2. mem' = Left(n)
  BY DEF Return
<1>3. IF mem'.stop = RUNNING THEN Partitioned(mem') ELSE mem'.npids = 0
  BY <1>1, <1>2, LeftSpaces
<1> QED BY <1>3 DEF Spaces

LEMMA RunsIn ==
  ASSUME Spaces, NEW p \in 1 .. MaxPid, Runs(p) PROVE Partitioned(mem) /\ p <= mem.npids
BY DEF Spaces, Runs

LEMMA MmapAnonSpaces ==
  ASSUME Spaces, NEW p \in 1 .. MaxPid, MmapAnon(p) PROVE Spaces'
<1>1. PICK len \in MmapSizes :
        /\ Runs(p)
        /\ LET c == CreateRegion(mem, p, len, "ANON", 0)
           IN  Return(IF c.stop # RUNNING THEN c ELSE MapRegion(c, p, c.spaces[p][1]))
  BY DEF MmapAnon
<1>2. Partitioned(mem) /\ p <= mem.npids /\ len \in Nat \ {0}
  BY <1>1, RunsIn, ProcessesAssumption
<1>3. PICK c : c = CreateRegion(mem, p, len, "ANON", 0)
  OBVIOUS
<1>4. PICK n : n = IF c.stop # RUNNING THEN c ELSE MapRegion(c, p, c.spaces[p][1])
  OBVIOUS
<1>5. Return(n)
  BY <1>1, <1>3, <1>4
<1>6. Keeping(mem, c) /\ (c.stop = RUNNING => c.spaces[p][1] \in Regions)
  BY <1>2, <1>3, CreateRegionKeeps DEF Kinds
<1>7. Keeping(mem, n)
  <2>1. CASE c.stop # RUNNING
    BY <1>4, <1>6, <2>1
  <2>2. CASE c.stop = RUNNING
    <3>1. PICK r : r = c.spaces[p][1]
      OBVIOUS
    <3>2. r.len \in Nat /\ Shape(c)
      BY <1>6, <2>2, <3>1 DEF Regions, Keeping, Formed
    <3>3. Quiet(c, n)
      BY <1>4, <2>2, <3>1, <3>2, MappingFold
    <3> QED BY <1>6, <3>3, KeepingQuiet
  <2> QED BY <2>1, <2>2
<1> QED BY <1>5, <1>7, ReturnSpaces

LEMMA MmapDirectedSpaces ==
  ASSUME Spaces, NEW p \in 1 .. MaxPid, MmapDirected(p) PROVE Spaces'
<1>1. PICK len \in MmapSizes :
        /\ Runs(p)
        /\ LET c == CreateRegion(mem, p, len, "CORE", 0)
           IN  Return(IF c.stop # RUNNING THEN c ELSE MapDirected(c, p, c.spaces[p][1], Device))
  BY DEF MmapDirected
<1>2. Partitioned(mem) /\ p <= mem.npids /\ len \in Nat \ {0}
  BY <1>1, RunsIn, ProcessesAssumption
<1>3. PICK c : c = CreateRegion(mem, p, len, "CORE", 0)
  OBVIOUS
<1>4. PICK n : n = IF c.stop # RUNNING THEN c ELSE MapDirected(c, p, c.spaces[p][1], Device)
  OBVIOUS
<1>5. Return(n)
  BY <1>1, <1>3, <1>4
<1>6. Keeping(mem, c) /\ (c.stop = RUNNING => c.spaces[p][1] \in Regions)
  BY <1>2, <1>3, CreateRegionKeeps DEF Kinds
<1>7. Keeping(mem, n)
  <2>1. CASE c.stop # RUNNING
    BY <1>4, <1>6, <2>1
  <2>2. CASE c.stop = RUNNING
    <3>1. PICK r : r = c.spaces[p][1]
      OBVIOUS
    <3>2. r.len \in Nat /\ Shape(c)
      BY <1>6, <2>2, <3>1 DEF Regions, Keeping, Formed
    <3>3. Quiet(c, n)
      BY <1>4, <2>2, <3>1, <3>2, DirectingFold
    <3> QED BY <1>6, <3>3, KeepingQuiet
  <2> QED BY <2>1, <2>2
<1> QED BY <1>5, <1>7, ReturnSpaces

LEMMA PidArray ==
  ASSUME NEW p \in Nat, NEW s, s = <<p>>
  PROVE  s \in Seq(Nat) /\ s # <<>> /\ s[1] = p
OBVIOUS

LEMMA PipeSpaces ==
  ASSUME Spaces, NEW p \in 1 .. MaxPid, Pipe(p) PROVE Spaces'
<1>1. PICK s : s = <<p>>
  OBVIOUS
<1>2. p \in Nat /\ s \in Seq(Nat) /\ s # <<>> /\ s[1] = p
  <2>1. p \in Nat
    BY MaxPidNumber
  <2> QED BY <1>1, <2>1, PidArray
<1>3. PICK first : first = CreateFifo(mem, s, s)
  OBVIOUS
<1>4. PICK n : n = IF first.stop # RUNNING THEN first ELSE CreateFifo(first, s, s)
  OBVIOUS
<1>5. Runs(p) /\ Return(n)
  BY <1>1, <1>3, <1>4 DEF Pipe
<1>6. Partitioned(mem) /\ p <= mem.npids
  BY <1>5, RunsIn
<1>7. Keeping(mem, first)
  BY <1>2, <1>3, <1>6, CreateFifoKeeps
<1>8. first.stop = RUNNING => Keeping(first, n)
  <2> SUFFICES ASSUME first.stop = RUNNING PROVE Keeping(first, n)
    OBVIOUS
  <2>1. Partitioned(first) /\ p <= first.npids
    BY <1>6, <1>7 DEF Keeping
  <2> QED BY <1>2, <1>4, <2>1, CreateFifoKeeps
<1>9. Keeping(mem, n)
  BY <1>4, <1>7, <1>8, KeepingTwice
<1> QED BY <1>5, <1>9, ReturnSpaces

LEMMA AcceptSpaces ==
  ASSUME Spaces, NEW p \in 1 .. MaxPid, Accept(p) PROVE Spaces'
<1>1. PICK s : s = <<p>>
  OBVIOUS
<1>2. PICK k : k = <<Kernel>>
  OBVIOUS
<1>3. /\ p \in Nat /\ s \in Seq(Nat) /\ s # <<>> /\ s[1] = p
      /\ k \in Seq(Nat) /\ k # <<>>
  <2>1. p \in Nat /\ Kernel \in Nat
    BY MaxPidNumber DEF Kernel
  <2> QED BY <1>1, <1>2, <2>1, PidArray
<1>4. PICK n : n = CreateFifo(mem, s, k)
  OBVIOUS
<1>5. Runs(p) /\ Return(n)
  BY <1>1, <1>2, <1>4 DEF Accept
<1>6. Partitioned(mem) /\ p <= mem.npids
  BY <1>5, RunsIn
<1>7. Keeping(mem, n)
  BY <1>3, <1>4, <1>6, CreateFifoKeeps
<1> QED BY <1>5, <1>7, ReturnSpaces

LEMMA ConnectSpaces ==
  ASSUME Spaces, NEW p \in 1 .. MaxPid, NEW q \in 1 .. MaxPid, Connect(p, q) PROVE Spaces'
<1>1. PICK accept \in {0} \cup FromKernel(q), behind_q \in Residues, behind_p \in Residues :
        /\ Runs(p) /\ q <= mem.npids
        /\ LET receivers == <<q>> \o behind_q
               senders == <<p>> \o behind_p
               first == CreateFifo(mem, receivers, senders)
               second == IF first.stop # RUNNING THEN first
                         ELSE CreateFifo(first, senders, receivers)
           IN  Return(IF accept = 0 \/ second.stop # RUNNING THEN second
                      ELSE WriteFifo(second, accept, p))
  BY DEF Connect
<1>2. Partitioned(mem) /\ p <= mem.npids /\ q <= mem.npids
  BY <1>1, RunsIn
<1>3. PICK receivers : receivers = <<q>> \o behind_q
  OBVIOUS
<1>4. PICK senders : senders = <<p>> \o behind_p
  OBVIOUS
<1>5. ASSUME NEW x \in 1 .. MaxPid, NEW b \in Residues, NEW t, t = <<x>> \o b
      PROVE  t \in Seq(Nat) /\ t # <<>> /\ t[1] = x
  <2>1. b \in Seq(Nat) /\ x \in Nat
    <3>1. b \in Seq(Nat \ {0})
      BY MaxPidNumber
    <3>2. b \in Seq(Nat)
      BY <3>1
    <3> QED BY <3>2, MaxPidNumber
  <2>2. t \in Seq(Nat) /\ Len(t) = Len(b) + 1 /\ t[1] = x
    BY <1>5, <2>1, PrependFacts
  <2>3. Len(t) # 0
    BY <2>1, <2>2
  <2> QED BY <2>2, <2>3
<1>6. /\ receivers \in Seq(Nat) /\ receivers # <<>> /\ receivers[1] = q
      /\ senders \in Seq(Nat) /\ senders # <<>> /\ senders[1] = p
  BY <1>3, <1>4, <1>5
<1>7. PICK first : first = CreateFifo(mem, receivers, senders)
  OBVIOUS
<1>8. PICK second : second = IF first.stop # RUNNING THEN first
                             ELSE CreateFifo(first, senders, receivers)
  OBVIOUS
<1>9. PICK n : n = IF accept = 0 \/ second.stop # RUNNING THEN second
                   ELSE WriteFifo(second, accept, p)
  OBVIOUS
<1>10. Return(n)
  BY <1>1, <1>3, <1>4, <1>7, <1>8, <1>9
<1>11. Keeping(mem, first)
  BY <1>2, <1>6, <1>7, CreateFifoKeeps
<1>12. first.stop = RUNNING => Keeping(first, second)
  <2> SUFFICES ASSUME first.stop = RUNNING PROVE Keeping(first, second)
    OBVIOUS
  <2>1. Partitioned(first) /\ p <= first.npids
    BY <1>2, <1>11 DEF Keeping
  <2> QED BY <1>6, <1>8, <2>1, CreateFifoKeeps
<1>13. Keeping(mem, second)
  BY <1>8, <1>11, <1>12, KeepingTwice
<1>14. CASE accept = 0 \/ second.stop # RUNNING
  BY <1>9, <1>10, <1>13, <1>14, ReturnSpaces
<1>15. CASE ~(accept = 0 \/ second.stop # RUNNING)
  <2>1. Partitioned(second) /\ p <= second.npids
    BY <1>2, <1>13, <1>15 DEF Keeping
  <2>2. Keeping(second, n)
    BY <1>9, <1>15, <2>1, WriteFifoKeeps
  <2>3. Keeping(mem, n)
    BY <1>13, <1>15, <2>2, KeepingTwice
  <2> QED BY <1>10, <2>3, ReturnSpaces
<1> QED BY <1>14, <1>15

LEMMA WriteSpaces ==
  ASSUME Spaces, NEW p \in 1 .. MaxPid, Write(p) \/ InterruptWrite(p) PROVE Spaces'
<1>1. PICK f \in ToSet(mem.fifos) : Runs(p) /\ Return(WriteFifo(mem, f.id, p))
  BY DEF Write, InterruptWrite
<1> QED BY <1>1, RunsIn, WriteFifoKeeps, ReturnSpaces

LEMMA ReadSpaces ==
  ASSUME Spaces, NEW p \in 1 .. MaxPid, Read(p) PROVE Spaces'
<1>1. PICK f \in ToSet(mem.fifos) :
        /\ Runs(p)
        /\ Return(IF IpcRegion(mem, p, f.id) = 0 THEN Stop(mem, "receiver without region") ELSE mem)
  BY DEF Read
<1>2. Shape(mem) /\ Partitioned(mem)
  BY <1>1, RunsIn DEF Partitioned, Formed
<1>3. Keeping(mem, mem) /\ Keeping(mem, Stop(mem, "receiver without region"))
  BY <1>2, QuietSelf, StopQuiet, QuietKeeping
<1> QED BY <1>1, <1>3, ReturnSpaces

LEMMA CloseSpaces ==
  ASSUME Spaces, NEW p \in 1 .. MaxPid, Close(p) PROVE Spaces'
<1>1. PICK id \in 1 .. MaxFifo : Runs(p) /\ Return(CloseFifo(mem, id, p))
  BY DEF Close
<1> QED BY <1>1, RunsIn, CloseFifoKeeps, ReturnSpaces

LEMMA TouchSpaces ==
  ASSUME Spaces, NEW p \in 1 .. MaxPid, Touch(p) PROVE Spaces'
<1>1. PICK page \in Top .. Top + StackPages - 1 : Runs(p) /\ Return(PageFault(mem, p, page))
  BY DEF Touch
<1>2. Shape(mem) /\ Partitioned(mem)
  BY <1>1, RunsIn DEF Partitioned, Formed
<1>3. Keeping(mem, PageFault(mem, p, page))
  BY <1>2, PageFaultQuiet, QuietKeeping
<1> QED BY <1>1, <1>3, ReturnSpaces

-----------------------------------------------------------------------------
LEMMA NewSpaceTidy ==
  ASSUME NEW f, f = Region(Low, Top - Low, "FREE", 0),
         NEW s, s = Region(Top, StackPages, "STACK", 0)
  PROVE  /\ f \in Regions /\ s \in Regions
         /\ f.va = Low /\ f.len = Top - Low /\ f.type = "FREE"
         /\ s.va = Top /\ s.len = StackPages /\ s.type = "STACK"
         /\ \A list : list = <<f>> => Tidy(list) /\ Len(list) = 1
         /\ \A list : list = <<f, s>> => Tidy(list) /\ HasStack(list) /\ Len(list) = 2
<1>1. Low \in Nat /\ Top \in Nat /\ StackPages \in Nat /\ Low < Top
  BY AddressSpacesAssumption
<1>2. /\ f \in Regions /\ f.va = Low /\ f.len = Top - Low /\ f.type = "FREE"
  <2>1. PICK len : len = Top - Low
    OBVIOUS
  <2>2. len \in Nat
    BY <1>1, <2>1
  <2>3. f = Region(Low, len, "FREE", 0) /\ "FREE" \in Kinds /\ 0 \in Nat
    BY <2>1 DEF Kinds
  <2> QED BY <1>1, <2>1, <2>2, <2>3, RegionFields
<1>3. /\ s \in Regions /\ s.va = Top /\ s.len = StackPages /\ s.type = "STACK"
  <2>1. "STACK" \in Kinds /\ 0 \in Nat
    BY DEF Kinds
  <2> QED BY <1>1, <2>1, RegionFields
<1>4. InPlace(f) /\ InPlace(s) /\ OffEachOther(f, s) /\ OffEachOther(s, f)
  BY <1>1, <1>2, <1>3 DEF InPlace, OffEachOther
<1>5. \A a \in Low .. Top - 1 : On(f, a)
  BY <1>1, <1>2 DEF On
<1>6. ASSUME NEW list, list = <<f>> PROVE Tidy(list) /\ Len(list) = 1
  <2>1. list \in Seq(Regions) /\ Len(list) = 1 /\ DOMAIN list = {1} /\ list[1] = f
    BY <1>2, <1>6
  <2> QED BY <1>4, <1>5, <2>1 DEF Tidy, Apart
<1>7. ASSUME NEW list, list = <<f, s>> PROVE Tidy(list) /\ HasStack(list) /\ Len(list) = 2
  <2>1. list \in Seq(Regions) /\ Len(list) = 2 /\ DOMAIN list = {1, 2} /\ list[1] = f /\ list[2] = s
    BY <1>2, <1>3, <1>7
  <2> QED BY <1>3, <1>4, <1>5, <2>1 DEF Tidy, Apart, HasStack
<1> QED BY <1>2, <1>3, <1>6, <1>7

\* n is m with one more process, which has a new address space.
Joined(m, n, list) ==
  /\ Formed(n) /\ n.npids = m.npids + 1
  /\ n.spaces = [m.spaces EXCEPT ![n.npids] = list]
  /\ n.stop = RUNNING => m.stop = RUNNING

LEMMA CreateProcessJoins ==
  ASSUME NEW m, Formed(m), m.npids < MaxPid, NEW n, n = CreateProcess(m)
  PROVE  Joined(m, n, <<Region(Low, Top - Low, "FREE", 0), Region(Top, StackPages, "STACK", 0)>>)
<1>1. PICK f : f = Region(Low, Top - Low, "FREE", 0)
  OBVIOUS
<1>2. PICK s : s = Region(Top, StackPages, "STACK", 0)
  OBVIOUS
<1>3. PICK list : list = <<f, s>>
  OBVIOUS
<1>4. list \in Seq(Regions)
  BY <1>1, <1>2, <1>3, NewSpaceTidy DEF Tidy
<1>5. PICK c : c = m.npids + 1
  OBVIOUS
<1>6. c \in 1 .. MaxPid /\ m.npids \in Nat
  BY <1>5, MaxPidNumber DEF Formed
<1>7. PICK b : b = [m EXCEPT !.npids = c]
  OBVIOUS
<1>8. /\ Formed(b) /\ b.npids = c /\ b.spaces = m.spaces /\ b.stop = m.stop
  <2>1. /\ Shape(b) /\ b.npids = c /\ b.spaces = m.spaces /\ b.stop = m.stop
        /\ b.fifos = m.fifos /\ b.next_fifo = m.next_fifo
    BY <1>7 DEF Shape, Formed
  <2> QED BY <1>6, <2>1, MaxPidNumber DEF Formed
<1>9. PICK u : u = UsableKernelPage(b)
  OBVIOUS
<1>10. Quiet(b, u)
  BY <1>8, <1>9, UsableKernelPageQuiet DEF Formed
<1>11. Formed(u) /\ u.npids = c /\ u.spaces = m.spaces /\ (u.stop = RUNNING => m.stop = RUNNING)
  BY <1>8, <1>10, QuietFormed DEF Quiet
<1>12. n = WithSpace(u, c, list)
  BY <1>1, <1>2, <1>3, <1>5, <1>7, <1>9 DEF CreateProcess, CreateAddressSpace, WithSpace
<1>13. Reworked(u, n, c) /\ n.spaces[c] = list
  BY <1>4, <1>6, <1>11, <1>12, SpaceReworked
<1>14. Joined(m, n, list)
  BY <1>5, <1>11, <1>13 DEF Reworked, Joined
<1> QED BY <1>1, <1>2, <1>3, <1>14

LEMMA JoinedPartitioned ==
  ASSUME NEW m, Partitioned(m), m.npids < MaxPid, NEW n, NEW list, Joined(m, n, list),
         Tidy(list), HasStack(list)
  PROVE  Partitioned(n)
<1>1. /\ Formed(n) /\ n.npids = m.npids + 1 /\ m.npids \in Nat
      /\ n.spaces = [m.spaces EXCEPT ![n.npids] = list]
      /\ m.spaces \in [1 .. MaxPid -> Seq(Regions)]
  BY DEF Joined, Partitioned, Formed
<1>2. n.npids \in 1 .. MaxPid
  BY <1>1, MaxPidNumber
<1>3. n.spaces[n.npids] = list /\ \A p \in 1 .. MaxPid : p # n.npids => n.spaces[p] = m.spaces[p]
  BY <1>1, <1>2
<1>4. \A p \in 1 .. MaxPid : p = n.npids \/ (p <= n.npids <=> p <= m.npids)
  BY <1>1, MaxPidNumber
<1> QED BY <1>1, <1>2, <1>3, <1>4 DEF Partitioned

-----------------------------------------------------------------------------
\* create_region() with an address in a kernel that has stopped.
CarveHalted(q, k, s) == s = [m |-> q[1], at |-> 1]

Halts == INSTANCE Recursion WITH Step <- CarveStep, Keeps <- CarveHalted

LEMMA HaltedCarve ==
  ASSUME NEW m, Formed(m), m.stop # RUNNING, NEW p \in 1 .. MaxPid, NEW va, NEW stop
  PROVE  Carve(m, p, va, stop) = m
<1> DEFINE q == <<m, p, va, stop>>
           base == [m |-> m, at |-> 1]
<1>1. PICK list : list = m.spaces[p]
  OBVIOUS
<1>2. list \in Seq(Regions)
  BY <1>1 DEF Formed
<1>3. PICK n : n = Len(list)
  OBVIOUS
<1>4. n \in Nat /\ DOMAIN list = 1 .. n
  BY <1>2, <1>3
<1>5. PICK f : Rounds!IsIter(f, q, base, list, n) /\ Carve(m, p, va, stop) = f[1 .. n].m
  BY <1>1, <1>4, CarveIter
<1>6. Halts!IsIter(f, q, base, list, n)
  BY <1>5 DEF Rounds!IsIter, Halts!IsIter, Rounds!Max, Halts!Max
<1>7. \A i \in 1 .. n : \A s : CarveHalted(q, i - 1, s) => CarveHalted(q, i, CarveStep(q, s, list[i]))
  <2> SUFFICES ASSUME NEW s, s = base, NEW r PROVE CarveStep(q, s, r) = base
    BY DEF CarveHalted
  <2> QED BY DEF CarveStep, CarveAt
<1>8. CarveHalted(q, 0, base)
  BY DEF CarveHalted
<1>9. CarveHalted(q, n, f[1 .. n])
  <2> HIDE DEF q, base
  <2> QED BY <1>4, <1>6, <1>7, <1>8, Halts!IterKeeps
<1> QED BY <1>5, <1>9 DEF CarveHalted

LEMMA HaltedCreateRegionAt ==
  ASSUME NEW m, Formed(m), m.stop # RUNNING, NEW p \in 1 .. MaxPid, NEW r \in Regions,
         NEW n, n = CreateRegionAt(m, p, r.va, r.len, r.type, r.param)
  PROVE  Reworked(m, n, p) /\ n.stop # RUNNING
<1>1. Carve(m, p, r.va, r.va + r.len) = m
  BY HaltedCarve
<1>2. PICK l : l = <<r>> \o m.spaces[p]
  OBVIOUS
<1>3. r = Region(r.va, r.len, r.type, r.param)
  BY DEF Regions, Region
<1>4. n = WithSpace(m, p, l)
  BY <1>1, <1>2, <1>3 DEF CreateRegionAt, WithSpace
<1>5. l \in Seq(Regions)
  <2>1. m.spaces[p] \in Seq(Regions)
    BY DEF Formed
  <2> QED BY <1>2, <2>1, PrependFacts
<1> QED BY <1>4, <1>5, SpaceReworked

-----------------------------------------------------------------------------
\* The address space of a program of which k segments are loaded: what is
\* not free up to the stack ends with the last segment.
Loaded(list, segments, k) ==
  /\ Tidy(list) /\ HasStack(list)
  /\ \A i \in DOMAIN list :
       \/ list[i].type = "STACK"
       \/ list[i].type = "FREE" /\ list[i].va + list[i].len = Top
       \/ /\ k > 0 /\ list[i].va <= segments[k].va
          /\ list[i].va + list[i].len <= segments[k].va + segments[k].len

Image(segments) ==
  /\ Len(segments) \in Nat /\ DOMAIN segments = 1 .. Len(segments) /\ Loadable(segments)

LEMMA SegmentFits ==
  ASSUME NEW segments, Image(segments), NEW k \in 1 .. Len(segments),
         NEW list, Loaded(list, segments, k - 1),
         NEW r, r = Region(segments[k].va, segments[k].len, "CORE", 0)
  PROVE  /\ r \in Regions /\ r.va = segments[k].va /\ r.len = segments[k].len /\ r.type = "CORE"
         /\ r.len > 0 /\ InPlace(r)
         /\ \A i \in DOMAIN list : Survives(list[i], r.va, r.va + r.len)
         /\ \A t : Made(list, t, r) => Loaded(t, segments, k)
<1>1. PICK va : va = segments[k].va
  OBVIOUS
<1>2. PICK len : len = segments[k].len
  OBVIOUS
<1>3. /\ va \in Nat /\ len \in Nat /\ Low <= va /\ len > 0 /\ va + len < Top
      /\ k > 1 => /\ segments[k - 1].va \in Nat /\ segments[k - 1].len \in Nat
                  /\ segments[k - 1].va < va
                  /\ segments[k - 1].va + segments[k - 1].len <= va + 1
  <2>1. k \in DOMAIN segments /\ (k > 1 => k - 1 \in DOMAIN segments)
    BY DEF Image
  <2>2. {segments[k].va, segments[k].len} \subseteq Nat
    BY <2>1 DEF Image, Loadable
  <2>3. k > 1 => {segments[k - 1].va, segments[k - 1].len} \subseteq Nat
    BY <2>1 DEF Image, Loadable
  <2>4. /\ Low <= segments[k].va /\ segments[k].len > 0
        /\ segments[k].va + segments[k].len < Top
        /\ k > 1 => /\ segments[k - 1].va < segments[k].va
                    /\ segments[k - 1].va + segments[k - 1].len <= segments[k].va + 1
    BY <2>1 DEF Image, Loadable
  <2> QED BY <1>1, <1>2, <2>2, <2>3, <2>4
<1>4. Low \in Nat /\ Top \in Nat /\ StackPages \in Nat /\ StackPages > 0 /\ Low < Top
  BY AddressSpacesAssumption
<1>5. r \in Regions /\ r.va = va /\ r.len = len /\ r.type = "CORE"
  <2>1. "CORE" \in Kinds /\ 0 \in Nat
    BY DEF Kinds
  <2> QED BY <1>1, <1>2, <1>3, <2>1, RegionFields
<1>6. InPlace(r)
  BY <1>3, <1>4, <1>5 DEF InPlace
<1>7. PICK stop : stop = va + len
  OBVIOUS
<1>8. stop \in Nat /\ va < stop /\ stop < Top
  BY <1>3, <1>7
<1>9. ASSUME NEW i \in DOMAIN list
      PROVE  /\ list[i] \in Regions /\ InPlace(list[i])
             /\ \/ list[i].type = "STACK"
                \/ list[i].type = "FREE" /\ list[i].va + list[i].len = Top
                \/ list[i].va < va /\ list[i].va + list[i].len <= stop
  <2>1. list[i] \in Regions /\ InPlace(list[i])
    BY DEF Loaded, Tidy
  <2>2. list[i].va \in Nat /\ list[i].len \in Nat
    BY <2>1 DEF Regions
  <2>3. CASE list[i].type = "STACK" \/ (list[i].type = "FREE" /\ list[i].va + list[i].len = Top)
    BY <2>1, <2>3
  <2>4. CASE /\ k - 1 > 0 /\ list[i].va <= segments[k - 1].va
             /\ list[i].va + list[i].len <= segments[k - 1].va + segments[k - 1].len
    <3>1. k > 1
      BY <2>4
    <3>2. list[i].va < va /\ list[i].va + list[i].len <= va + 1
      BY <1>3, <2>2, <2>4, <3>1
    <3> QED BY <1>3, <1>7, <2>1, <2>2, <3>2
  <2> QED BY <2>3, <2>4 DEF Loaded
<1>10. ASSUME NEW i \in DOMAIN list PROVE Survives(list[i], va, stop)
  <2>1. list[i].va \in Nat /\ list[i].len \in Nat
    BY <1>9 DEF Regions
  <2>2. list[i].va < va \/ list[i].va + list[i].len > stop
    <3>1. CASE list[i].type = "STACK"
      <4>1. list[i].va = Top /\ list[i].len = StackPages
        BY <1>9, <3>1 DEF InPlace
      <4> QED BY <1>4, <1>8, <4>1
    <3>2. CASE list[i].type # "STACK"
      BY <1>8, <1>9, <2>1, <3>2
    <3> QED BY <3>1, <3>2
  <2> QED BY <1>3, <1>8, <2>1, <2>2 DEF Survives
<1>11. ASSUME NEW t, Made(list, t, r) PROVE Loaded(t, segments, k)
  <2>1. /\ Tidy(t) /\ HasStack(t) /\ t[1] = r
        /\ \A j \in DOMAIN t \ {1} : \E i \in DOMAIN list : Piece(t[j], list[i], va, stop)
    BY <1>5, <1>7, <1>11 DEF Made, Loaded
  <2>2. ASSUME NEW j \in DOMAIN t
        PROVE  \/ t[j].type = "STACK"
               \/ t[j].type = "FREE" /\ t[j].va + t[j].len = Top
               \/ t[j].va <= va /\ t[j].va + t[j].len <= stop
    <3>1. CASE j = 1
      BY <1>3, <1>5, <1>7, <2>1, <3>1
    <3>2. CASE j # 1
      <4>1. PICK i \in DOMAIN list : Piece(t[j], list[i], va, stop)
        BY <2>1, <3>2
      <4>2. PICK x : x = t[j]
        OBVIOUS
      <4>3. PICK s : s = list[i]
        OBVIOUS
      <4>4. /\ s \in Regions /\ s.va \in Nat /\ s.len \in Nat /\ x.va \in Nat /\ x.len \in Nat
            /\ x.type = s.type
            /\ \/ s.type = "STACK"
               \/ s.type = "FREE" /\ s.va + s.len = Top
               \/ s.va < va /\ s.va + s.len <= stop
            /\ \/ x.va = s.va /\ x.len = s.len
               \/ x.va = s.va /\ x.len = va - s.va /\ s.va < va /\ va < s.va + s.len
               \/ x.va = stop /\ x.len = (s.va + s.len) - stop /\ s.va < stop /\ stop < s.va + s.len
        BY <1>9, <4>1, <4>2, <4>3 DEF Piece, Regions
      <4>5. CASE s.type = "STACK"
        BY <4>2, <4>4, <4>5
      <4>6. CASE s.type = "FREE" /\ s.va + s.len = Top
        <5>1. x.va + x.len = Top \/ (x.va <= va /\ x.va + x.len <= stop)
          BY <1>3, <1>4, <1>8, <4>4, <4>6
        <5> QED BY <4>2, <4>4, <4>6, <5>1
      <4>7. CASE s.va < va /\ s.va + s.len <= stop
        <5>1. x.va <= va /\ x.va + x.len <= stop
          BY <1>3, <1>8, <4>4, <4>7
        <5> QED BY <4>2, <5>1
      <4> QED BY <4>4, <4>5, <4>6, <4>7
    <3> QED BY <3>1, <3>2
  <2> QED BY <1>1, <1>2, <1>7, <2>1, <2>2 DEF Loaded
<1> QED BY <1>1, <1>2, <1>3, <1>5, <1>6, <1>7, <1>10, <1>11

-----------------------------------------------------------------------------
\* Segments are loaded into the address space of process p.
SegmentStep(q, s, segment) == LoadSegment(s, q[2], segment)
SegmentKept(q, k, s) ==
  /\ Reworked(q[1], s, q[2])
  /\ s.stop = RUNNING => Loaded(s.spaces[q[2]], q[3], k)

Loading == INSTANCE Recursion WITH Step <- SegmentStep, Keeps <- SegmentKept

LEMMA ReworkedTwice ==
  ASSUME NEW m, NEW n, NEW o, NEW p \in 1 .. MaxPid, Formed(m), Reworked(m, n, p),
         Reworked(n, o, p)
  PROVE  Reworked(m, o, p)
<1>1. o.spaces = [m.spaces EXCEPT ![p] = o.spaces[p]]
  <2>1. /\ n.spaces = [m.spaces EXCEPT ![p] = n.spaces[p]]
        /\ o.spaces = [n.spaces EXCEPT ![p] = o.spaces[p]]
        /\ m.spaces \in [1 .. MaxPid -> Seq(Regions)]
    BY DEF Reworked, Formed
  <2>2. PICK a : a = n.spaces[p]
    OBVIOUS
  <2>3. PICK b : b = o.spaces[p]
    OBVIOUS
  <2> QED BY <2>1, <2>2, <2>3
<1> QED BY <1>1 DEF Reworked

LEMMA LoadSegmentKeeps ==
  ASSUME NEW m, Formed(m), NEW p \in 1 .. MaxPid, NEW segments, Image(segments),
         NEW k \in 1 .. Len(segments), NEW s, SegmentKept(<<m, p, segments>>, k - 1, s)
  PROVE  SegmentKept(<<m, p, segments>>, k, LoadSegment(s, p, segments[k]))
<1>1. Reworked(m, s, p) /\ Formed(s) /\ (s.stop = RUNNING => Loaded(s.spaces[p], segments, k - 1))
  BY DEF SegmentKept, Reworked
<1>2. PICK g : g = segments[k]
  OBVIOUS
<1>3. PICK r : r = Region(g.va, g.len, "CORE", 0)
  OBVIOUS
<1>4. PICK c : c = CreateRegionAt(s, p, g.va, g.len, "CORE", 0)
  OBVIOUS
<1>5. PICK n : n = LoadSegment(s, p, g)
  OBVIOUS
<1>6. n = IF c.stop # RUNNING THEN c ELSE MapRegion(c, p, c.spaces[p][1])
  BY <1>4, <1>5 DEF LoadSegment
<1>7. r.va = g.va /\ r.len = g.len /\ r.type = "CORE" /\ r.param = 0
  BY <1>3 DEF Region
<1>8. c = CreateRegionAt(s, p, r.va, r.len, r.type, r.param)
  BY <1>4, <1>7
<1>a. r \in Regions
  <2>1. k \in DOMAIN segments
    BY DEF Image
  <2>2. {g.va, g.len} \subseteq Nat
    BY <1>2, <2>1 DEF Image, Loadable
  <2>3. "CORE" \in Kinds /\ 0 \in Nat
    BY DEF Kinds
  <2> QED BY <1>3, <2>2, <2>3, RegionFields
<1>9. CASE s.stop # RUNNING
  <2>1. Reworked(s, c, p) /\ c.stop # RUNNING
    BY <1>1, <1>a, <1>8, <1>9, HaltedCreateRegionAt
  <2>2. n = c /\ Reworked(m, n, p)
    BY <1>1, <1>6, <2>1, ReworkedTwice
  <2> QED BY <1>2, <1>5, <2>1, <2>2 DEF SegmentKept
<1>10. CASE s.stop = RUNNING
  <2>1. Loaded(s.spaces[p], segments, k - 1) /\ r = Region(segments[k].va, segments[k].len, "CORE", 0)
    BY <1>1, <1>2, <1>3, <1>10
  <2>2. /\ r \in Regions /\ r.len > 0 /\ InPlace(r)
        /\ \A i \in DOMAIN s.spaces[p] : Survives(s.spaces[p][i], r.va, r.va + r.len)
        /\ \A t : Made(s.spaces[p], t, r) => Loaded(t, segments, k)
    BY <2>1, SegmentFits
  <2>3. RoomIn(s, p, r)
    BY <1>7, <1>10, <2>1, <2>2 DEF RoomIn, Loaded
  <2>4. Reworked(s, c, p) /\ c.stop = RUNNING /\ Made(s.spaces[p], c.spaces[p], r)
    BY <1>1, <1>8, <2>3, CreateRegionAtMakes
  <2>5. c.spaces[p][1] = r /\ Shape(c)
    BY <2>4 DEF Made, Reworked, Formed
  <2>6. n = MapRegion(c, p, r)
    BY <1>6, <2>4, <2>5
  <2>7. Quiet(c, n)
    BY <2>2, <2>5, <2>6, MappingFold DEF Regions
  <2>8. Reworked(s, n, p) /\ n.spaces[p] = c.spaces[p]
    BY <1>1, <2>4, <2>7, ReworkedQuiet
  <2>9. Reworked(m, n, p)
    BY <1>1, <2>8, ReworkedTwice
  <2>10. Loaded(n.spaces[p], segments, k)
    BY <2>2, <2>4, <2>8
  <2> QED BY <1>2, <1>5, <2>9, <2>10 DEF SegmentKept
<1> QED BY <1>9, <1>10

LoadSegments(m, p, segments) == FoldLeft(LAMBDA s, segment : LoadSegment(s, p, segment), m, segments)

LEMMA LoadingFold ==
  ASSUME NEW m, Formed(m), NEW p \in 1 .. MaxPid, NEW segments, Image(segments),
         m.stop = RUNNING => Loaded(m.spaces[p], segments, 0)
  PROVE  SegmentKept(<<m, p, segments>>, Len(segments), LoadSegments(m, p, segments))
<1> DEFINE base == m
           seq == segments
           n == Len(segments)
           q == <<m, p, segments>>
           F(f) == [ss \in SUBSET (1 .. n) |->
                      IF ss = {} THEN base
                      ELSE LoadSegment(f[ss \ {Max(ss)}], p, seq[Max(ss)])]
           it == CHOOSE f : f = F(f)
<1>3. n \in Nat /\ DOMAIN segments = 1 .. n
  BY DEF Image
<1>1. LoadSegments(m, p, segments) = it[1 .. n]
  BY <1>3 DEF LoadSegments, FoldLeft, MapThenFoldSet
<1>2. ASSUME NEW f PROVE Loading!IsIter(f, q, base, seq, n) <=> f = F(f)
  BY DEF Loading!IsIter, Loading!Max, Max, SegmentStep
<1>4. \E f : Loading!IsIter(f, q, base, seq, n)
  BY <1>3, Loading!IterExists
<1>5. it = F(it)
  <2> HIDE DEF F
  <2> QED BY <1>2, <1>4
<1> HIDE DEF F, it
<1>6. Loading!IsIter(it, q, base, seq, n)
  BY <1>2, <1>5
<1>7. \A i \in 1 .. n : \A s : SegmentKept(q, i - 1, s) => SegmentKept(q, i, SegmentStep(q, s, seq[i]))
  BY LoadSegmentKeeps DEF SegmentStep
<1>8. SegmentKept(q, 0, base)
  <2>1. Reworked(m, m, p)
    BY QuietSelf, QuietFormed DEF Formed
  <2> QED BY <2>1 DEF SegmentKept
<1>9. SegmentKept(q, n, it[1 .. n])
  <2> HIDE DEF q, base, seq, n
  <2> QED BY <1>3, <1>6, <1>7, <1>8, Loading!IterKeeps
<1> QED BY <1>1, <1>9

-----------------------------------------------------------------------------
ModuleStep(q, s, segments) == ExecveElf(CreateProcess(s), s.npids + 1, segments)
ModuleKept(q, k, s) ==
  /\ Formed(s) /\ s.npids = k
  /\ s.stop = RUNNING => Partitioned(s)

Booting == INSTANCE Recursion WITH Step <- ModuleStep, Keeps <- ModuleKept

LEMMA ModuleKeeps ==
  ASSUME NEW q, NEW k \in 1 .. MaxPid, NEW s, ModuleKept(q, k - 1, s),
         NEW segments, Image(segments)
  PROVE  ModuleKept(q, k, ModuleStep(q, s, segments))
<1>1. Formed(s) /\ s.npids = k - 1 /\ (s.stop = RUNNING => Partitioned(s))
  BY DEF ModuleKept
<1>2. k - 1 < MaxPid /\ k - 1 + 1 = k
  BY MaxPidNumber
<1>3. PICK f : f = Region(Low, Top - Low, "FREE", 0)
  OBVIOUS
<1>4. PICK t : t = Region(Top, StackPages, "STACK", 0)
  OBVIOUS
<1>5. PICK list : list = <<f, t>>
  OBVIOUS
<1>6. PICK c : c = CreateProcess(s)
  OBVIOUS
<1>7. Joined(s, c, list)
  BY <1>1, <1>2, <1>3, <1>4, <1>5, <1>6, CreateProcessJoins
<1>8. Formed(c) /\ c.npids = k /\ c.spaces[k] = list /\ (c.stop = RUNNING => s.stop = RUNNING)
  <2>1. s.spaces \in [1 .. MaxPid -> Seq(Regions)]
    BY <1>1 DEF Formed
  <2> QED BY <1>1, <1>2, <1>7, <2>1 DEF Joined
<1>9. Tidy(list) /\ HasStack(list)
  BY <1>3, <1>4, <1>5, NewSpaceTidy
<1>10. c.stop = RUNNING => Partitioned(c)
  BY <1>1, <1>2, <1>7, <1>8, <1>9, JoinedPartitioned
<1>11. Loaded(list, segments, 0)
  <2>1. /\ f.va = Low /\ f.len = Top - Low /\ f.type = "FREE" /\ t.type = "STACK"
        /\ Len(list) = 2
    BY <1>3, <1>4, <1>5, NewSpaceTidy
  <2>2. DOMAIN list = {1, 2} /\ list[1] = f /\ list[2] = t
    BY <1>5
  <2>3. f.va + f.len = Top
    BY <2>1, AddressSpacesAssumption
  <2> QED BY <1>9, <2>1, <2>2, <2>3 DEF Loaded
<1>12. PICK m : m = MapRegion(c, k, Region(Temp, 1, "CORE", 0))
  OBVIOUS
<1>13. Quiet(c, m)
  <2>1. Region(Temp, 1, "CORE", 0).len \in Nat
    BY DEF Region
  <2> QED BY <1>8, <1>12, <2>1, MappingFold DEF Formed
<1>14. Formed(m) /\ m.npids = k /\ m.spaces[k] = list
  BY <1>8, <1>13, QuietFormed DEF Quiet
<1>15. PICK n : n = LoadSegments(m, k, segments)
  OBVIOUS
<1>16. n = ModuleStep(q, s, segments)
  <2>1. ModuleStep(q, s, segments)
          = LoadSegments(MapRegion(CreateProcess(s), s.npids + 1, Region(Temp, 1, "CORE", 0)),
                         s.npids + 1, segments)
    BY DEF ModuleStep, ExecveElf, LoadSegments
  <2>2. s.npids + 1 = k
    BY <1>1, <1>2
  <2> QED BY <1>6, <1>12, <1>15, <2>1, <2>2
<1>17. SegmentKept(<<m, k, segments>>, Len(segments), n)
  BY <1>11, <1>14, <1>15, LoadingFold
<1>18. Reworked(m, n, k) /\ (n.stop = RUNNING => Loaded(n.spaces[k], segments, Len(segments)))
  BY <1>17 DEF SegmentKept
<1>19. n.stop = RUNNING => Partitioned(n)
  <2> SUFFICES ASSUME n.stop = RUNNING PROVE Partitioned(n)
    OBVIOUS
  <2>1. m.stop = RUNNING /\ c.stop = RUNNING
    BY <1>13, <1>18 DEF Reworked, Quiet
  <2>2. Partitioned(m) /\ k <= m.npids
    <3>1. Keeping(c, m)
      BY <1>10, <1>13, <2>1, QuietKeeping
    <3> QED BY <1>14, <2>1, <3>1 DEF Keeping
  <2>3. Keeping(m, n)
    BY <1>18, <2>2, ReworkedKeeping DEF Loaded
  <2> QED BY <2>3 DEF Keeping
<1> QED BY <1>14, <1>16, <1>18, <1>19 DEF ModuleKept, Reworked

LEMMA BootingFold ==
  ASSUME NEW m, ModuleKept(<<>>, 0, m), NEW modules, NEW n \in 0 .. MaxPid, DOMAIN modules = 1 .. n,
         \A i \in 1 .. n : Image(modules[i])
  PROVE  ModuleKept(<<>>, n, LoadModules(m, modules))
<1> DEFINE base == m
           seq == modules
           q == <<>>
           F(f) == [ss \in SUBSET (1 .. n) |->
                      IF ss = {} THEN base
                      ELSE ExecveElf(CreateProcess(f[ss \ {Max(ss)}]), f[ss \ {Max(ss)}].npids + 1,
                                     seq[Max(ss)])]
           it == CHOOSE f : f = F(f)
<1>3. n \in Nat
  BY MaxPidNumber
<1>1. LoadModules(m, modules) = it[1 .. n]
  BY DEF LoadModules, FoldLeft, MapThenFoldSet
<1>2. ASSUME NEW f PROVE Booting!IsIter(f, q, base, seq, n) <=> f = F(f)
  BY DEF Booting!IsIter, Booting!Max, Max, ModuleStep
<1>4. \E f : Booting!IsIter(f, q, base, seq, n)
  BY <1>3, Booting!IterExists
<1>5. it = F(it)
  <2> HIDE DEF F
  <2> QED BY <1>2, <1>4
<1> HIDE DEF F, it
<1>6. Booting!IsIter(it, q, base, seq, n)
  BY <1>2, <1>5
<1>7. \A i \in 1 .. n : \A s : ModuleKept(q, i - 1, s) => ModuleKept(q, i, ModuleStep(q, s, seq[i]))
  <2> SUFFICES ASSUME NEW i \in 1 .. n, NEW s, ModuleKept(q, i - 1, s)
               PROVE  ModuleKept(q, i, ModuleStep(q, s, seq[i]))
    OBVIOUS
  <2>1. i \in 1 .. MaxPid /\ Image(seq[i])
    BY MaxPidNumber
  <2> HIDE DEF q, seq
  <2> QED BY <2>1, ModuleKeeps
<1>9. ModuleKept(q, n, it[1 .. n])
  <2>1. ModuleKept(q, 0, base)
    OBVIOUS
  <2> HIDE DEF q, base, seq
  <2> QED BY <1>3, <1>6, <1>7, <2>1, Booting!IterKeeps
<1> QED BY <1>1, <1>9

-----------------------------------------------------------------------------
AreaStep(q, s, area) == AddArea(s, area)
Areas == INSTANCE Recursion WITH Step <- AreaStep, Keeps <- QuietKept

LEMMA AddAreaQuiet == ASSUME NEW m, Shape(m), NEW area PROVE Quiet(m, AddArea(m, area))
<1>1. ASSUME NEW a, NEW b, NEW c, NEW n, n = [m EXCEPT !.total = a, !.free = b, !.bitmap = c]
      PROVE  Quiet(m, n)
  BY <1>1 DEF Quiet, Shape
<1>2. ASSUME NEW a, NEW c, NEW n, n = [m EXCEPT !.total = a, !.bitmap = c]
      PROVE  Quiet(m, n)
  BY <1>2 DEF Quiet, Shape
<1> QED BY <1>1, <1>2 DEF AddArea

LEMMA AreasFold ==
  ASSUME NEW m, Shape(m), NEW map, NEW n \in Nat, DOMAIN map = 1 .. n
  PROVE  Quiet(m, FoldLeft(AddArea, m, map))
<1> DEFINE base == m
           seq == map
           q == <<m>>
           F(f) == [ss \in SUBSET (1 .. n) |->
                      IF ss = {} THEN base ELSE AddArea(f[ss \ {Max(ss)}], seq[Max(ss)])]
           it == CHOOSE f : f = F(f)
<1>1. FoldLeft(AddArea, m, map) = it[1 .. n]
  BY DEF FoldLeft, MapThenFoldSet
<1>2. ASSUME NEW f PROVE Areas!IsIter(f, q, base, seq, n) <=> f = F(f)
  BY DEF Areas!IsIter, Areas!Max, Max, AreaStep
<1>4. \E f : Areas!IsIter(f, q, base, seq, n)
  BY Areas!IterExists
<1>5. it = F(it)
  <2> HIDE DEF F
  <2> QED BY <1>2, <1>4
<1> HIDE DEF F, it
<1>6. Areas!IsIter(it, q, base, seq, n)
  BY <1>2, <1>5
<1>7. \A i \in 1 .. n : \A s : QuietKept(q, i - 1, s) => QuietKept(q, i, AreaStep(q, s, seq[i]))
  <2> SUFFICES ASSUME NEW s, Quiet(m, s), NEW a PROVE Quiet(m, AreaStep(q, s, a))
    BY DEF QuietKept
  <2>1. Quiet(s, AddArea(s, a))
    BY AddAreaQuiet DEF Quiet
  <2> QED BY <2>1, QuietTwice DEF AreaStep
<1>8. QuietKept(q, 0, base)
  BY QuietSelf DEF QuietKept
<1>9. QuietKept(q, n, it[1 .. n])
  <2> HIDE DEF q, base, seq
  <2> QED BY <1>6, <1>7, <1>8, Areas!IterKeeps
<1> QED BY <1>1, <1>9 DEF QuietKept

LEMMA InitializeMemoryQuiet ==
  ASSUME NEW m, Shape(m), NEW map, NEW n \in Nat, DOMAIN map = 1 .. n, NEW ram
  PROVE  Quiet(m, InitializeMemory(m, map, ram))
<1>1. PICK b : b = [m EXCEPT !.bitmap = ram, !.free = 0, !.total = 0]
  OBVIOUS
<1>2. Quiet(m, b)
  BY <1>1 DEF Quiet, Shape
<1>3. PICK f : f = FoldLeft(AddArea, b, map)
  OBVIOUS
<1>4. Quiet(b, f)
  BY <1>2, <1>3, AreasFold DEF Quiet
<1>5. PICK o : o = [f EXCEPT !.bitmap = @ \cup (0 .. KernelPages0 - 1), !.free = @ - KernelPages0]
  OBVIOUS
<1>6. Quiet(f, o)
  BY <1>4, <1>5 DEF Quiet, Shape
<1>7. o = InitializeMemory(m, map, ram)
  BY <1>1, <1>3, <1>5 DEF InitializeMemory
<1> QED BY <1>2, <1>4, <1>6, <1>7, QuietTwice

LEMMA BlankPartitioned == Partitioned(Blank)
<1>1. PICK b : b = Blank
  OBVIOUS
<1>2. /\ Shape(b) /\ b.npids = 0 /\ b.fifos = <<>> /\ b.next_fifo = 1
      /\ b.spaces = [p \in 1 .. MaxPid |-> <<>>]
  BY <1>1 DEF Blank, Shape
<1>3. Listed(b.fifos)
  <2>1. b.fifos = [i \in 1 .. 0 |-> b.fifos[i]]
    BY <1>2
  <2> QED BY <2>1 DEF Listed
<1>4. b.spaces \in [1 .. MaxPid -> Seq(Regions)] /\ \A p \in 1 .. MaxPid : b.spaces[p] = <<>>
  BY <1>2
<1>5. Formed(b)
  BY <1>2, <1>3, <1>4, MaxPidNumber DEF Formed
<1>6. \A p \in 1 .. MaxPid : ~(p <= b.npids)
  BY <1>2, MaxPidNumber
<1> QED BY <1>1, <1>4, <1>5, <1>6 DEF Partitioned

LEMMA InitSpaces == Init => Spaces
<1> SUFFICES ASSUME NEW map \in MemoryMaps, NEW ram, NEW modules \in BootModules,
                    mem = Left(Boot(map, ram, modules))
             PROVE  Spaces
  BY DEF Init
<1>1. PICK i : i = InitializeMemory(Blank, map, ram)
  OBVIOUS
<1>2. PICK f : f = Frame(i)
  OBVIOUS
<1>3. PICK n : n = LoadModules(f, modules)
  OBVIOUS
<1>4. mem = Left(n)
  BY <1>1, <1>2, <1>3 DEF Boot
<1>5. Len(map) \in Nat /\ DOMAIN map = 1 .. Len(map)
  BY ProcessesAssumption
<1>6. Quiet(Blank, i)
  BY <1>1, <1>5, BlankPartitioned, InitializeMemoryQuiet DEF Partitioned, Formed
<1>7. Quiet(Blank, f)
  BY <1>2, <1>6, FrameQuiet, QuietTwice DEF Quiet
<1>8. ModuleKept(<<>>, 0, f)
  <2>1. Keeping(Blank, f)
    BY <1>7, BlankPartitioned, QuietKeeping
  <2>2. f.npids = 0
    BY <1>7 DEF Quiet, Blank
  <2> QED BY <2>1, <2>2 DEF Keeping, ModuleKept
<1>9. PICK k : k = Len(modules)
  OBVIOUS
<1>10. /\ k \in 0 .. MaxPid /\ DOMAIN modules = 1 .. k
       /\ \A j \in 1 .. k : Image(modules[j])
  <2>1. /\ modules = [j \in 1 .. k |-> modules[j]] /\ k \in 0 .. MaxPid
        /\ \A j \in 1 .. k :
             /\ modules[j] = [h \in 1 .. Len(modules[j]) |-> modules[j][h]]
             /\ Len(modules[j]) \in Nat
             /\ Loadable(modules[j])
    BY <1>9, BootModulesAssumption
  <2> QED BY <2>1 DEF Image
<1>11. ModuleKept(<<>>, k, n)
  BY <1>3, <1>8, <1>10, BootingFold
<1>12. Shape(n) /\ (n.stop = RUNNING => Partitioned(n))
  BY <1>11 DEF ModuleKept, Formed
<1> QED BY <1>4, <1>12, LeftSpaces DEF Spaces

-----------------------------------------------------------------------------
IsPrivate(r) == r.type \in {"ANON", "CORE"}

NoIpc(list) == \A i \in DOMAIN list : list[i].type # "IPC"

\* The address space of a process that MayFork() lets fork.
Forkable(P) ==
  /\ Tidy(P) /\ HasStack(P)
  /\ NoIpc(P) \/ \A i \in DOMAIN P : IsPrivate(P[i]) => P[i].va = Low
  /\ \A i, j \in DOMAIN P : IsPrivate(P[i]) /\ IsPrivate(P[j]) /\ P[i].va < P[j].va
                              => P[i].va + P[i].len < P[j].va
  /\ \E i \in DOMAIN P : P[i].type = "FREE" /\ P[i].len > 0

PrivateUpTo(P, k) == {i \in 1 .. k : IsPrivate(P[i])}

IpcPages(P, k) == UNION {Pages(P[i]) : i \in {j \in 1 .. k : P[j].type = "IPC"}}

\* Region r lies where one of the first k of P does, and is of its type.
Copied(r, P, k) == \E i \in 1 .. k : r.va = P[i].va /\ r.len = P[i].len /\ r.type = P[i].type

\* A free region goes from a copy to a copy.
Gap(r, P, k) ==
  /\ r.len > 0
  /\ r.va = Low \/ \E i \in PrivateUpTo(P, k) : r.va = P[i].va + P[i].len
  /\ r.va + r.len = Top \/ \E i \in PrivateUpTo(P, k) : r.va + r.len = P[i].va

Unforked(r, N) ==
  /\ r.type = "FREE" => r.va = Low /\ r.va + r.len = Top - N
  /\ r.type = "IPC" => r.va >= Top - N

\* The child's list when k regions of the parent's have been copied.
ForkList(L, P, k) ==
  /\ Tidy(L)
  /\ \A j \in DOMAIN L : L[j].type \notin {"FREE", "IPC"} => Copied(L[j], P, k)
  /\ (\E i \in 1 .. k : P[i].type = "STACK") => HasStack(L)
  /\ NoIpc(P) => \A j \in DOMAIN L : L[j].type # "IPC" /\ (L[j].type = "FREE" => Gap(L[j], P, k))
  /\ ~NoIpc(P) /\ PrivateUpTo(P, k) = {} =>
       \A j \in DOMAIN L : Unforked(L[j], Cardinality(IpcPages(P, k)))

\* What P and its regions are.
LEMMA ForkableFacts ==
  ASSUME NEW P, Forkable(P)
  PROVE  /\ P \in Seq(Regions) /\ Len(P) \in Nat /\ DOMAIN P = 1 .. Len(P)
         /\ \A i \in DOMAIN P : /\ P[i] \in Regions /\ InPlace(P[i])
                                /\ P[i].va \in Nat /\ P[i].len \in Nat
                                /\ IsPrivate(P[i]) => /\ P[i].len > 0 /\ Low <= P[i].va
                                                      /\ P[i].va + P[i].len <= Top
         /\ \A i, j \in DOMAIN P : i # j => OffEachOther(P[i], P[j])
<1>1. /\ P \in Seq(Regions)
      /\ \A i, j \in DOMAIN P : i # j => OffEachOther(P[i], P[j])
      /\ \A i \in DOMAIN P : InPlace(P[i])
  BY DEF Forkable, Tidy, Apart
<1>2. Len(P) \in Nat /\ DOMAIN P = 1 .. Len(P) /\ \A i \in DOMAIN P : P[i] \in Regions
  BY <1>1
<1>3. ASSUME NEW i \in DOMAIN P
      PROVE  /\ P[i].va \in Nat /\ P[i].len \in Nat
             /\ IsPrivate(P[i]) => /\ P[i].len > 0 /\ Low <= P[i].va
                                   /\ P[i].va + P[i].len <= Top
  <2>1. P[i].va \in Nat /\ P[i].len \in Nat /\ InPlace(P[i])
    BY <1>1, <1>2 DEF Regions
  <2>2. IsPrivate(P[i]) => P[i].type # "STACK" /\ P[i].type # "FREE"
    BY DEF IsPrivate
  <2>3. IsPrivate(P[i]) => P[i].len # 0 /\ Low <= P[i].va /\ P[i].va + P[i].len <= Top
    BY <2>1, <2>2 DEF InPlace
  <2> QED BY <2>1, <2>3
<1> QED BY <1>1, <1>2, <1>3

\* Two regions of different positions, of which one is private, in numbers.
LEMMA PrivateApart ==
  ASSUME NEW P, Forkable(P), NEW i \in DOMAIN P, NEW j \in DOMAIN P, i # j, IsPrivate(P[i]),
         P[j].len > 0
  PROVE  P[i].va + P[i].len <= P[j].va \/ P[j].va + P[j].len <= P[i].va
<1>1. OffEachOther(P[i], P[j]) /\ P[i].len > 0 /\ P[i].len \in Nat /\ P[j].len \in Nat
  BY ForkableFacts
<1> QED BY <1>1 DEF OffEachOther

\* A copy of another region is not touched by the target of a private one.
LEMMA CopySurvives ==
  ASSUME NEW P, Forkable(P), NEW k \in DOMAIN P, IsPrivate(P[k]),
         NEW s \in Regions, s.type \notin {"FREE", "IPC"}, Copied(s, P, k - 1)
  PROVE  LET stop == P[k].va + P[k].len
         IN  /\ Survives(s, P[k].va, stop)
             /\ \A x : Piece(x, s, P[k].va, stop) => x.va = s.va /\ x.len = s.len /\ x.type = s.type
<1>1. PICK i \in 1 .. k - 1 : s.va = P[i].va /\ s.len = P[i].len /\ s.type = P[i].type
  BY DEF Copied
<1>2. i \in DOMAIN P /\ i # k
  BY ForkableFacts
<1>3. P[i].len > 0
  <2>1. InPlace(P[i]) /\ P[i].len \in Nat /\ P[i].type # "FREE"
    BY <1>1, <1>2, ForkableFacts
  <2> QED BY <2>1, AddressSpacesAssumption DEF InPlace
<1>4. P[k].va + P[k].len <= P[i].va \/ P[i].va + P[i].len <= P[k].va
  BY <1>2, <1>3, PrivateApart
<1>5. /\ P[k].va \in Nat /\ P[k].len \in Nat /\ P[k].len > 0 /\ s.va \in Nat /\ s.len \in Nat
      /\ s.len > 0
      /\ P[k].va + P[k].len <= s.va \/ s.va + s.len <= P[k].va
  BY <1>1, <1>2, <1>3, <1>4, ForkableFacts DEF Regions
<1>6. PICK va : va = P[k].va
  OBVIOUS
<1>7. PICK stop : stop = P[k].va + P[k].len
  OBVIOUS
<1>8. va \in Nat /\ stop \in Nat /\ va < stop /\ (stop <= s.va \/ s.va + s.len <= va)
  BY <1>5, <1>6, <1>7
<1>9. Survives(s, va, stop)
  BY <1>5, <1>8 DEF Survives
<1>10. ASSUME NEW x, Piece(x, s, va, stop) PROVE x.va = s.va /\ x.len = s.len /\ x.type = s.type
  BY <1>5, <1>8, <1>10 DEF Piece
<1> QED BY <1>6, <1>7, <1>9, <1>10

LEMMA GapGrows ==
  ASSUME NEW r, NEW P, NEW k \in Nat, Gap(r, P, k - 1) PROVE Gap(r, P, k)
BY DEF Gap, PrivateUpTo

LEMMA CopiedGrows ==
  ASSUME NEW r, NEW P, NEW k \in Nat, Copied(r, P, k - 1) PROVE Copied(r, P, k)
BY DEF Copied

\* A gap is not filled by a private region, and what is left of it is one.
LEMMA GapSurvives ==
  ASSUME NEW P, Forkable(P), NEW k \in DOMAIN P, IsPrivate(P[k]),
         NEW s \in Regions, InPlace(s), s.type = "FREE", Gap(s, P, k - 1)
  PROVE  LET stop == P[k].va + P[k].len
         IN  /\ Survives(s, P[k].va, stop)
             /\ \A x : Piece(x, s, P[k].va, stop) => Gap(x, P, k)
<1>1. PICK va : va = P[k].va
  OBVIOUS
<1>2. PICK stop : stop = P[k].va + P[k].len
  OBVIOUS
<1>3. /\ va \in Nat /\ stop \in Nat /\ va < stop /\ Low <= va /\ stop <= Top
      /\ Low \in Nat /\ Top \in Nat /\ Low < Top
      /\ s.va \in Nat /\ s.len \in Nat /\ s.len > 0
      /\ k \in 1 .. Len(P) /\ Len(P) \in Nat
  <2>1. /\ P[k].va \in Nat /\ P[k].len \in Nat /\ P[k].len > 0 /\ Low <= P[k].va
        /\ P[k].va + P[k].len <= Top /\ k \in 1 .. Len(P) /\ Len(P) \in Nat
    BY ForkableFacts
  <2>2. Low \in Nat /\ Top \in Nat /\ Low < Top
    BY AddressSpacesAssumption
  <2>3. s.va \in Nat /\ s.len \in Nat /\ s.len > 0
    BY DEF Regions, Gap
  <2> QED BY <1>1, <1>2, <2>1, <2>2, <2>3
<1>4. ASSUME va <= s.va, s.va + s.len <= stop PROVE FALSE
  <2>1. CASE s.va = Low /\ s.va + s.len = Top
    <3>1. va = Low /\ stop = Top
      BY <1>3, <1>4, <2>1
    <3>2. PICK i \in DOMAIN P : P[i].type = "FREE" /\ P[i].len > 0
      BY DEF Forkable
    <3>3. i # k
      BY <3>2 DEF IsPrivate
    <3>4. stop <= P[i].va \/ P[i].va + P[i].len <= va
      BY <1>1, <1>2, <3>2, <3>3, PrivateApart
    <3>5. P[i].va \in Nat /\ P[i].len \in Nat /\ Low <= P[i].va /\ P[i].va + P[i].len <= Top
      <4>1. P[i].va \in Nat /\ P[i].len \in Nat /\ InPlace(P[i])
        BY ForkableFacts
      <4> QED BY <3>2, <4>1 DEF InPlace
    <3>6. ASSUME NEW x \in Int, NEW y \in Int, Low <= x, x + y <= Top, y > 0,
                 Top <= x \/ x + y <= Low, Low \in Int, Top \in Int
          PROVE  FALSE
      BY ONLY <3>6
    <3> QED BY <1>3, <3>1, <3>2, <3>4, <3>5, <3>6
  <2>2. ASSUME NEW i \in PrivateUpTo(P, k - 1), s.va + s.len = P[i].va, s.va = Low PROVE FALSE
    <3>1. i \in DOMAIN P /\ IsPrivate(P[i])
      BY <1>3 DEF PrivateUpTo
    <3>2. va < P[i].va => stop < P[i].va
      BY <1>1, <1>2, <3>1 DEF Forkable
    <3>3. P[i].va \in Nat
      BY <3>1, ForkableFacts
    <3>4. PICK x \in Nat : x = P[i].va
      BY <3>3
    <3>5. (va < x => stop < x) /\ s.va + s.len = x /\ s.va + s.len <= stop /\ x > s.va
          /\ va <= s.va
      BY <1>3, <1>4, <2>2, <3>2, <3>4
    <3>6. PICK y \in Nat : y = s.va
      BY <1>3
    <3>7. (va < x => stop < x) /\ x <= stop /\ x > y /\ va <= y
      BY <3>5, <3>6
    <3>8. va \in Int /\ stop \in Int /\ x \in Int /\ y \in Int
      BY <1>3
    <3> QED BY ONLY <3>7, <3>8
  <2>3. ASSUME NEW i \in PrivateUpTo(P, k - 1), s.va = P[i].va + P[i].len PROVE FALSE
    <3>1. i \in DOMAIN P /\ IsPrivate(P[i]) /\ i # k
      BY <1>3 DEF PrivateUpTo
    <3>2. P[i].va < va => P[i].va + P[i].len < va
      BY <1>1, <3>1 DEF Forkable
    <3>3. P[i].va \in Nat /\ P[i].len \in Nat /\ P[i].len > 0
      BY <3>1, ForkableFacts
    <3>4. stop <= P[i].va \/ P[i].va + P[i].len <= va
      BY <1>1, <1>2, <3>1, <3>3, PrivateApart
    <3>5. PICK x \in Nat : x = P[i].va
      BY <3>3
    <3>6. PICK e \in Nat : e = P[i].va + P[i].len
      BY <3>3
    <3>7. PICK z \in Nat : z = s.va + s.len
      BY <1>3
    <3>8. z > e /\ e > x
      BY <1>3, <2>3, <3>3, <3>5, <3>6, <3>7
    <3>9. va <= e /\ z <= stop /\ (x < va => e < va) /\ (stop <= x \/ e <= va)
      BY <1>4, <2>3, <3>2, <3>4, <3>5, <3>6, <3>7
    <3>10. va \in Int /\ stop \in Int /\ x \in Int /\ e \in Int /\ z \in Int
      BY <1>3
    <3> QED BY ONLY <3>8, <3>9, <3>10
  <2> QED BY <2>1, <2>2, <2>3 DEF Gap
<1>5. Survives(s, va, stop)
  BY <1>4 DEF Survives
<1>6. ASSUME NEW x, Piece(x, s, va, stop) PROVE Gap(x, P, k)
  <2>1. k \in PrivateUpTo(P, k) /\ PrivateUpTo(P, k - 1) \subseteq PrivateUpTo(P, k)
    BY <1>3 DEF PrivateUpTo
  <2>2. /\ s.va = Low \/ \E i \in PrivateUpTo(P, k) : s.va = P[i].va + P[i].len
        /\ s.va + s.len = Top \/ \E i \in PrivateUpTo(P, k) : s.va + s.len = P[i].va
    BY <2>1 DEF Gap
  <2>3. x.va \in Nat /\ x.len \in Nat
    BY <1>6 DEF Piece, Regions
  <2>4. CASE x.va = s.va /\ x.len = s.len
    BY <1>3, <2>2, <2>4 DEF Gap
  <2>5. CASE x.va = s.va /\ x.len = va - s.va /\ s.va < va
    <3>1. x.len > 0 /\ x.va + x.len = va
      BY <1>3, <2>3, <2>5
    <3> QED BY <1>1, <2>1, <2>2, <2>5, <3>1 DEF Gap
  <2>6. CASE x.va = stop /\ x.len = (s.va + s.len) - stop /\ stop < s.va + s.len
    <3>1. x.len > 0 /\ x.va + x.len = s.va + s.len
      BY <1>3, <2>3, <2>6
    <3> QED BY <1>2, <2>1, <2>2, <2>6, <3>1 DEF Gap
  <2> QED BY <1>6, <2>4, <2>5, <2>6 DEF Piece
<1> QED BY <1>1, <1>2, <1>5, <1>6

-----------------------------------------------------------------------------
\* The pages of the parent's FIFOs lie behind its private region, if that is at
\* Low, and do not fill the space there.
LEMMA IpcPagesFit ==
  ASSUME NEW P, Forkable(P), NEW k \in DOMAIN P, IsPrivate(P[k]), P[k].va = Low,
         NEW N, N = Cardinality(IpcPages(P, k - 1))
  PROVE  N \in Nat /\ P[k].va + P[k].len < Top - N
<1>1. PICK stop : stop = P[k].va + P[k].len
  OBVIOUS
<1>2. PICK A : A = IpcPages(P, k - 1)
  OBVIOUS
<1>3. /\ Low \in Nat /\ Top \in Nat /\ stop \in Nat /\ Low < stop /\ stop <= Top
      /\ k \in 1 .. Len(P) /\ Len(P) \in Nat
  <2>1. Low \in Nat /\ Top \in Nat
    BY AddressSpacesAssumption
  <2> QED BY <1>1, <2>1, ForkableFacts
<1>4. PICK f \in DOMAIN P : P[f].type = "FREE" /\ P[f].len > 0
  BY DEF Forkable
<1>5. PICK x : x = P[f].va
  OBVIOUS
<1>6. x \in stop .. Top - 1
  <2>1. f # k
    BY <1>4 DEF IsPrivate
  <2>2. stop <= P[f].va \/ P[f].va + P[f].len <= Low
    BY <1>1, <1>4, <2>1, PrivateApart
  <2>3. /\ P[f].va \in Nat /\ P[f].len \in Nat /\ Low <= P[f].va
        /\ P[f].va + P[f].len <= Top
    <3>1. P[f].va \in Nat /\ P[f].len \in Nat /\ InPlace(P[f])
      BY ForkableFacts
    <3> QED BY <1>4, <3>1 DEF InPlace
  <2> QED BY <1>3, <1>4, <1>5, <2>2, <2>3
<1>7. A \subseteq (stop .. Top - 1) \ {x}
  <2> SUFFICES ASSUME NEW a \in A PROVE a \in (stop .. Top - 1) \ {x}
    OBVIOUS
  <2>1. PICK i \in 1 .. k - 1 : P[i].type = "IPC" /\ a \in Pages(P[i])
    BY <1>2 DEF IpcPages
  <2>2. i \in DOMAIN P /\ i # k /\ i # f
    BY <1>3, <1>4, <2>1, ForkableFacts
  <2>3. P[i].va \in Nat /\ P[i].len \in Nat /\ InPlace(P[i])
    BY <2>2, ForkableFacts
  <2>4. a \in Int /\ P[i].va <= a /\ a < P[i].va + P[i].len /\ P[i].len > 0
    BY <2>1, <2>3 DEF Pages
  <2>5. Low <= P[i].va /\ P[i].va + P[i].len <= Top
    BY <2>1, <2>3 DEF InPlace
  <2>6. stop <= P[i].va \/ P[i].va + P[i].len <= Low
    BY <1>1, <2>2, <2>4, PrivateApart
  <2>7. OffEachOther(P[i], P[f]) /\ P[f].va \in Nat /\ P[f].len \in Nat
    BY <2>2, ForkableFacts
  <2>8. a # x
    BY <1>4, <1>5, <2>3, <2>4, <2>7 DEF OffEachOther
  <2> QED BY <1>3, <2>3, <2>4, <2>5, <2>6, <2>8
<1>8. PICK B : B = stop .. Top - 1
  OBVIOUS
<1>9. IsFiniteSet(B) /\ Cardinality(B) = Top - stop
  <2>1. PICK b : b = Top - 1
    OBVIOUS
  <2>2. b \in Int /\ (IF stop > b THEN 0 ELSE b - stop + 1) = Top - stop
    BY <1>3, <2>1
  <2>3. IsFiniteSet(stop .. b) /\ Cardinality(stop .. b) = IF stop > b THEN 0 ELSE b - stop + 1
    <3>1. stop \in Int /\ b \in Int
      BY <1>3, <2>2
    <3> QED BY ONLY <3>1, FS_Interval
  <2> QED BY <1>8, <2>1, <2>2, <2>3
<1>10. PICK C : C = B \ {x}
  OBVIOUS
<1>11. IsFiniteSet(C) /\ Cardinality(C) = Cardinality(B) - 1
  BY <1>6, <1>8, <1>9, <1>10, FS_RemoveElement
<1>12. IsFiniteSet(A) /\ Cardinality(A) <= Cardinality(C)
  BY <1>7, <1>8, <1>10, <1>11, FS_Subset
<1>13. N \in Nat /\ N = Cardinality(A)
  BY <1>2, <1>12, FS_CardinalityType
<1> QED BY <1>1, <1>3, <1>9, <1>11, <1>12, <1>13

\* In the child a private region is created beside everything else.
LEMMA PrivateSurvives ==
  ASSUME NEW P, Forkable(P), NEW k \in DOMAIN P, IsPrivate(P[k]),
         NEW L, ForkList(L, P, k - 1), NEW j \in DOMAIN L
  PROVE  LET stop == P[k].va + P[k].len
         IN  /\ Survives(L[j], P[k].va, stop)
             /\ \A x : Piece(x, L[j], P[k].va, stop) =>
                  /\ x.type = L[j].type
                  /\ x.type \notin {"FREE", "IPC"} => Copied(x, P, k)
                  /\ NoIpc(P) => x.type # "IPC" /\ (x.type = "FREE" => Gap(x, P, k))
<1>1. PICK s : s = L[j]
  OBVIOUS
<1>2. s \in Regions /\ InPlace(s) /\ s.va \in Nat /\ s.len \in Nat
  <2>1. Tidy(L)
    BY DEF ForkList
  <2>2. s \in Regions /\ InPlace(s)
    BY <1>1, <2>1 DEF Tidy
  <2> QED BY <2>2 DEF Regions
<1>3. PICK va : va = P[k].va
  OBVIOUS
<1>4. PICK stop : stop = P[k].va + P[k].len
  OBVIOUS
<1>5. /\ va \in Nat /\ stop \in Nat /\ va < stop /\ stop <= Top /\ Low <= va
      /\ k \in 1 .. Len(P) /\ Len(P) \in Nat /\ k \in Nat
      /\ Low \in Nat /\ Top \in Nat /\ StackPages \in Nat
  BY <1>3, <1>4, ForkableFacts, AddressSpacesAssumption
<1>6. \A x : Piece(x, s, va, stop) => x.type = s.type
  BY DEF Piece
<1>7. CASE s.type \notin {"FREE", "IPC"}
  <2>1. Copied(s, P, k - 1)
    BY <1>1, <1>7 DEF ForkList
  <2>2. /\ Survives(s, va, stop)
        /\ \A x : Piece(x, s, va, stop) => x.va = s.va /\ x.len = s.len /\ x.type = s.type
    BY <1>2, <1>3, <1>4, <1>7, <2>1, CopySurvives
  <2>3. Copied(s, P, k)
    BY <1>5, <2>1, CopiedGrows
  <2>4. \A x : Piece(x, s, va, stop) => Copied(x, P, k)
    BY <2>2, <2>3 DEF Copied
  <2> QED BY <1>1, <1>3, <1>4, <1>6, <1>7, <2>2, <2>4
<1>8. CASE s.type \in {"FREE", "IPC"} /\ NoIpc(P)
  <2>1. s.type = "FREE" /\ Gap(s, P, k - 1)
    BY <1>1, <1>8 DEF ForkList
  <2>2. Survives(s, va, stop) /\ \A x : Piece(x, s, va, stop) => Gap(x, P, k)
    BY <1>2, <1>3, <1>4, <2>1, GapSurvives
  <2> QED BY <1>1, <1>3, <1>4, <1>6, <2>1, <2>2
<1>9. CASE s.type \in {"FREE", "IPC"} /\ ~NoIpc(P)
  <2>1. va = Low
    BY <1>3, <1>9 DEF Forkable
  <2>2. PrivateUpTo(P, k - 1) = {}
    <3> SUFFICES ASSUME NEW i \in PrivateUpTo(P, k - 1) PROVE FALSE
      OBVIOUS
    <3>1. i \in DOMAIN P /\ i # k /\ IsPrivate(P[i])
      BY <1>5, ForkableFacts DEF PrivateUpTo
    <3>2. P[i].va = Low /\ P[i].len > 0 /\ P[i].len \in Nat
      BY <1>9, <3>1, ForkableFacts DEF Forkable
    <3>3. stop <= P[i].va \/ P[i].va + P[i].len <= va
      BY <1>3, <1>4, <3>1, <3>2, PrivateApart
    <3> QED BY <1>5, <2>1, <3>2, <3>3
  <2>3. PICK N : N = Cardinality(IpcPages(P, k - 1))
    OBVIOUS
  <2>4. N \in Nat /\ stop < Top - N
    BY <1>3, <1>4, <2>1, <2>3, IpcPagesFit
  <2>5. Unforked(s, N)
    BY <1>1, <1>9, <2>2, <2>3 DEF ForkList
  <2>6. Survives(s, va, stop)
    BY <1>2, <1>5, <1>9, <2>4, <2>5 DEF Unforked, Survives
  <2> QED BY <1>1, <1>3, <1>4, <1>6, <1>9, <2>6
<1> QED BY <1>7, <1>8, <1>9

LEMMA ForkPrivate ==
  ASSUME NEW P, Forkable(P), NEW k \in DOMAIN P, IsPrivate(P[k]),
         NEW L, ForkList(L, P, k - 1), NEW t, Made(L, t, P[k])
  PROVE  ForkList(t, P, k)
<1>1. PICK r : r = P[k]
  OBVIOUS
<1>2. k \in 1 .. Len(P) /\ Len(P) \in Nat /\ IsPrivate(r)
  BY <1>1, ForkableFacts
<1>3. /\ Tidy(t) /\ 1 \in DOMAIN t /\ t[1] = r
      /\ HasStack(L) => HasStack(t)
      /\ \A j \in DOMAIN t \ {1} : \E i \in DOMAIN L : Piece(t[j], L[i], r.va, r.va + r.len)
  BY <1>1 DEF Made
<1>4. Copied(r, P, k)
  BY <1>1, <1>2 DEF Copied
<1>5. ASSUME NEW j \in DOMAIN t
      PROVE  /\ t[j].type \notin {"FREE", "IPC"} => Copied(t[j], P, k)
             /\ NoIpc(P) => t[j].type # "IPC" /\ (t[j].type = "FREE" => Gap(t[j], P, k))
  <2>1. CASE j = 1
    BY <1>2, <1>3, <1>4, <2>1 DEF IsPrivate
  <2>2. CASE j # 1
    <3>1. PICK i \in DOMAIN L : Piece(t[j], L[i], r.va, r.va + r.len)
      BY <1>3, <2>2
    <3> QED BY <1>1, <3>1, PrivateSurvives
  <2> QED BY <2>1, <2>2
<1>6. (\E i \in 1 .. k : P[i].type = "STACK") => HasStack(t)
  <2> SUFFICES ASSUME NEW i \in 1 .. k, P[i].type = "STACK" PROVE HasStack(t)
    OBVIOUS
  <2>1. i # k
    BY <1>1, <1>2 DEF IsPrivate
  <2>2. i \in 1 .. k - 1
    BY <1>2, <2>1
  <2> QED BY <1>3, <2>2 DEF ForkList
<1>7. PrivateUpTo(P, k) # {}
  BY <1>1, <1>2 DEF PrivateUpTo
<1> QED BY <1>3, <1>5, <1>6, <1>7 DEF ForkList

LEMMA ForkStack ==
  ASSUME NEW P, Forkable(P), NEW k \in DOMAIN P, P[k].type = "STACK",
         NEW L, ForkList(L, P, k - 1)
  PROVE  /\ P[k].va = Top /\ P[k].len = StackPages /\ ~HasStack(L)
         /\ \A i \in DOMAIN L : Survives(L[i], P[k].va, P[k].va + P[k].len)
         /\ \A t : Made(L, t, P[k]) => ForkList(t, P, k)
<1>1. PICK r : r = P[k]
  OBVIOUS
<1>2. /\ k \in 1 .. Len(P) /\ Len(P) \in Nat /\ k \in Nat /\ r \in Regions
      /\ r.va = Top /\ r.len = StackPages /\ r.type = "STACK"
      /\ Top \in Nat /\ StackPages \in Nat /\ StackPages > 0 /\ Low \in Nat
  <2>1. InPlace(P[k]) /\ P[k] \in Regions /\ k \in 1 .. Len(P) /\ Len(P) \in Nat
    BY ForkableFacts
  <2>2. P[k].va = Top /\ P[k].len = StackPages
    BY <2>1 DEF InPlace
  <2> QED BY <1>1, <2>1, <2>2, AddressSpacesAssumption
<1>3. Tidy(L)
  BY DEF ForkList
<1>4. ~HasStack(L)
  <2> SUFFICES ASSUME NEW j \in DOMAIN L, L[j].type = "STACK" PROVE FALSE
    BY DEF HasStack
  <2>1. Copied(L[j], P, k - 1)
    BY DEF ForkList
  <2>2. PICK i \in 1 .. k - 1 : P[i].type = "STACK"
    BY <2>1 DEF Copied
  <2>3. i \in DOMAIN P /\ i # k
    BY <1>2, ForkableFacts
  <2>4. P[i].va = Top /\ P[i].len = StackPages
    <3>1. InPlace(P[i])
      BY <2>3, ForkableFacts
    <3> QED BY <2>2, <3>1 DEF InPlace
  <2>5. OffEachOther(P[i], P[k])
    BY <2>3, ForkableFacts
  <2> QED BY <1>1, <1>2, <2>4, <2>5 DEF OffEachOther
<1>5. ASSUME NEW j \in DOMAIN L
      PROVE  /\ L[j] \in Regions /\ L[j].va \in Nat /\ L[j].len \in Nat
             /\ L[j].va < Top /\ L[j].va + L[j].len <= Top
  <2>1. L[j] \in Regions /\ InPlace(L[j]) /\ L[j].type # "STACK"
    BY <1>3, <1>4 DEF Tidy, HasStack
  <2> QED BY <2>1 DEF InPlace, Regions
<1>6. PICK stop : stop = Top + StackPages
  OBVIOUS
<1>7. stop \in Nat /\ Top < stop
  BY <1>2, <1>6
<1>8. \A i \in DOMAIN L : Survives(L[i], Top, stop)
  BY <1>2, <1>5, <1>7 DEF Survives
<1>9. ASSUME NEW i \in DOMAIN L, NEW x, Piece(x, L[i], Top, stop)
      PROVE  x.va = L[i].va /\ x.len = L[i].len /\ x.type = L[i].type
  BY <1>2, <1>5, <1>7, <1>9 DEF Piece
<1>10. ASSUME NEW t, Made(L, t, r) PROVE ForkList(t, P, k)
  <2>1. /\ Tidy(t) /\ 1 \in DOMAIN t /\ t[1] = r /\ HasStack(t)
        /\ \A j \in DOMAIN t \ {1} : \E i \in DOMAIN L : Piece(t[j], L[i], Top, stop)
    BY <1>2, <1>6, <1>10 DEF Made
  <2>2. ASSUME NEW j \in DOMAIN t
        PROVE  \/ t[j] = r
               \/ \E i \in DOMAIN L : t[j].va = L[i].va /\ t[j].len = L[i].len /\ t[j].type = L[i].type
    BY <1>9, <2>1
  <2>3. IpcPages(P, k) = IpcPages(P, k - 1) /\ PrivateUpTo(P, k) = PrivateUpTo(P, k - 1)
    <3>1. {j \in 1 .. k : P[j].type = "IPC"} = {j \in 1 .. k - 1 : P[j].type = "IPC"}
      BY <1>1, <1>2
    <3>2. ~IsPrivate(P[k])
      BY <1>1, <1>2 DEF IsPrivate
    <3>3. PrivateUpTo(P, k) = PrivateUpTo(P, k - 1)
      BY <1>2, <3>2 DEF PrivateUpTo
    <3> QED BY <3>1, <3>3 DEF IpcPages
  <2>4. Copied(r, P, k)
    BY <1>1, <1>2 DEF Copied
  <2>5. ASSUME NEW j \in DOMAIN t
        PROVE  /\ t[j].type \notin {"FREE", "IPC"} => Copied(t[j], P, k)
               /\ NoIpc(P) => t[j].type # "IPC" /\ (t[j].type = "FREE" => Gap(t[j], P, k))
               /\ ~NoIpc(P) /\ PrivateUpTo(P, k) = {} => Unforked(t[j], Cardinality(IpcPages(P, k)))
    <3>1. CASE t[j] = r
      BY <1>2, <2>4, <3>1 DEF Unforked
    <3>2. CASE t[j] # r
      <4>1. PICK i \in DOMAIN L : t[j].va = L[i].va /\ t[j].len = L[i].len /\ t[j].type = L[i].type
        BY <2>2, <3>2
      <4>2. t[j].type \notin {"FREE", "IPC"} => Copied(t[j], P, k)
        <5>1. L[i].type \notin {"FREE", "IPC"} => Copied(L[i], P, k)
          BY <1>2, CopiedGrows DEF ForkList
        <5> QED BY <4>1, <5>1 DEF Copied
      <4>3. NoIpc(P) => t[j].type # "IPC" /\ (t[j].type = "FREE" => Gap(t[j], P, k))
        <5>1. NoIpc(P) => L[i].type # "IPC" /\ (L[i].type = "FREE" => Gap(L[i], P, k))
          BY <1>2, GapGrows DEF ForkList
        <5> QED BY <4>1, <5>1 DEF Gap
      <4>4. ~NoIpc(P) /\ PrivateUpTo(P, k) = {} => Unforked(t[j], Cardinality(IpcPages(P, k)))
        <5>1. ~NoIpc(P) /\ PrivateUpTo(P, k - 1) = {} =>
                Unforked(L[i], Cardinality(IpcPages(P, k - 1)))
          BY DEF ForkList
        <5> QED BY <2>3, <4>1, <5>1 DEF Unforked
      <4> QED BY <4>2, <4>3, <4>4
    <3> QED BY <3>1, <3>2
  <2> QED BY <2>1, <2>5 DEF ForkList
<1> QED BY <1>1, <1>2, <1>4, <1>6, <1>8, <1>10

LEMMA ForkFree ==
  ASSUME NEW P, Forkable(P), NEW k \in DOMAIN P, P[k].type = "FREE",
         NEW L, ForkList(L, P, k - 1)
  PROVE  ForkList(L, P, k)
<1>1. k \in 1 .. Len(P) /\ Len(P) \in Nat /\ k \in Nat
  BY ForkableFacts
<1>2. {j \in 1 .. k : P[j].type = "IPC"} = {j \in 1 .. k - 1 : P[j].type = "IPC"}
  BY <1>1
<1>3. PrivateUpTo(P, k) = PrivateUpTo(P, k - 1)
  BY <1>1 DEF PrivateUpTo, IsPrivate
<1>4. IpcPages(P, k) = IpcPages(P, k - 1)
  BY <1>2 DEF IpcPages
<1>5. (\E i \in 1 .. k : P[i].type = "STACK") => HasStack(L)
  BY <1>1 DEF ForkList
<1>6. \A j \in DOMAIN L : L[j].type \notin {"FREE", "IPC"} => Copied(L[j], P, k)
  BY <1>1, CopiedGrows DEF ForkList
<1>7. NoIpc(P) => \A j \in DOMAIN L : L[j].type # "IPC" /\ (L[j].type = "FREE" => Gap(L[j], P, k))
  BY <1>1, GapGrows DEF ForkList
<1> QED BY <1>3, <1>4, <1>5, <1>6, <1>7 DEF ForkList

LEMMA ForkIpc ==
  ASSUME NEW P, Forkable(P), NEW k \in DOMAIN P, P[k].type = "IPC",
         NEW L, ForkList(L, P, k - 1), NEW t, NEW x \in Regions, NEW i, Taken(L, t, x, i),
         x.type = "IPC", x.len = P[k].len
  PROVE  ForkList(t, P, k)
<1>1. PICK len : len = P[k].len
  OBVIOUS
<1>2. /\ k \in 1 .. Len(P) /\ Len(P) \in Nat /\ k \in Nat /\ len \in Nat /\ len > 0
      /\ Low \in Nat /\ Top \in Nat /\ P[k].va \in Nat
  <2>1. /\ k \in 1 .. Len(P) /\ Len(P) \in Nat /\ P[k].len \in Nat /\ InPlace(P[k])
        /\ P[k].va \in Nat
    BY ForkableFacts
  <2>2. P[k].len > 0
    BY <2>1 DEF InPlace
  <2> QED BY <1>1, <2>1, <2>2, AddressSpacesAssumption
<1>3. /\ Tidy(t) /\ Len(t) = Len(L) + 1 /\ t[1] = x
      /\ i \in DOMAIN L /\ L[i].type = "FREE" /\ len <= L[i].len
      /\ x.va = L[i].va + (L[i].len - len)
      /\ \A j \in DOMAIN L :
           /\ j # i => t[j + 1] = L[j]
           /\ t[j + 1].type = L[j].type /\ t[j + 1].va = L[j].va
           /\ j = i => t[j + 1].len = L[i].len - len
  BY <1>1 DEF Taken
<1>4. Tidy(L) /\ L \in Seq(Regions) /\ DOMAIN L = 1 .. Len(L) /\ Len(L) \in Nat
  <2>1. Tidy(L)
    BY DEF ForkList
  <2> QED BY <2>1 DEF Tidy
<1>5. DOMAIN t = 1 .. Len(L) + 1
  <2>1. t \in Seq(Regions)
    BY <1>3 DEF Tidy
  <2> QED BY <1>3, <2>1
<1>6. ASSUME NEW j \in DOMAIN t, j # 1 PROVE j - 1 \in DOMAIN L /\ (j - 1) + 1 = j
  BY <1>4, <1>5, <1>6
<1>7. \A j \in DOMAIN t : t[j].type \notin {"FREE", "IPC"} => Copied(t[j], P, k)
  <2> SUFFICES ASSUME NEW j \in DOMAIN t, t[j].type \notin {"FREE", "IPC"} PROVE Copied(t[j], P, k)
    OBVIOUS
  <2>1. j # 1
    BY <1>3
  <2>2. PICK h : h = j - 1
    OBVIOUS
  <2>3. h \in DOMAIN L /\ h + 1 = j
    BY <1>6, <2>1, <2>2
  <2>4. h # i /\ t[j] = L[h]
    BY <1>3, <2>3
  <2>5. Copied(L[h], P, k - 1)
    BY <2>3, <2>4 DEF ForkList
  <2> QED BY <1>2, <2>4, <2>5, CopiedGrows
<1>8. (\E h \in 1 .. k : P[h].type = "STACK") => HasStack(t)
  <2> SUFFICES ASSUME NEW h \in 1 .. k, P[h].type = "STACK" PROVE HasStack(t)
    OBVIOUS
  <2>1. h \in 1 .. k - 1
    <3>1. h # k
      OBVIOUS
    <3> QED BY <1>2, <3>1
  <2>2. HasStack(L)
    BY <2>1 DEF ForkList
  <2> QED BY <1>4, <2>2, TakenStack
<1>9. ~NoIpc(P)
  BY DEF NoIpc
<1>10. ASSUME PrivateUpTo(P, k) = {}, NEW j \in DOMAIN t
       PROVE  Unforked(t[j], Cardinality(IpcPages(P, k)))
  <2>1. PrivateUpTo(P, k - 1) = {}
    BY <1>2, <1>10 DEF PrivateUpTo
  <2>2. PICK A : A = IpcPages(P, k - 1)
    OBVIOUS
  <2>3. PICK N : N = Cardinality(A)
    OBVIOUS
  <2>4. \A h \in DOMAIN L : Unforked(L[h], N)
    BY <1>9, <2>1, <2>2, <2>3 DEF ForkList
  <2>5. L[i].va = Low /\ L[i].va + L[i].len = Top - N /\ L[i].va \in Nat /\ L[i].len \in Nat
    <3>1. L[i] \in Regions
      BY <1>3, <1>4
    <3> QED BY <1>3, <2>4, <3>1 DEF Unforked, Regions
  <2>6. N \in Int
    <3>1. A \subseteq Low .. Top - 1
      <4> SUFFICES ASSUME NEW a \in A PROVE a \in Low .. Top - 1
        OBVIOUS
      <4>1. PICK h \in 1 .. k - 1 : P[h].type = "IPC" /\ a \in Pages(P[h])
        BY <2>2 DEF IpcPages
      <4>2. P[h].va \in Nat /\ P[h].len \in Nat /\ InPlace(P[h])
        BY <1>2, ForkableFacts
      <4> QED BY <1>2, <4>1, <4>2 DEF Pages, InPlace
    <3>2. IsFiniteSet(A)
      <4>1. Low \in Int /\ Top - 1 \in Int
        BY <1>2
      <4>2. IsFiniteSet(Low .. Top - 1)
        BY ONLY <4>1, FS_Interval
      <4> QED BY <3>1, <4>2, FS_Subset
    <3> QED BY <2>3, <3>2, FS_CardinalityType
  <2>7. Cardinality(IpcPages(P, k)) = N + len
    <3>1. PICK Q : Q = Pages(P[k])
      OBVIOUS
    <3>2. IpcPages(P, k) = A \cup Q
      <4>1. {j_1 \in 1 .. k : P[j_1].type = "IPC"} = {j_1 \in 1 .. k - 1 : P[j_1].type = "IPC"} \cup {k}
        BY <1>2
      <4> QED BY <2>2, <3>1, <4>1 DEF IpcPages
    <3>3. A \cap Q = {}
      <4> SUFFICES ASSUME NEW a \in A, a \in Q PROVE FALSE
        OBVIOUS
      <4>1. PICK h \in 1 .. k - 1 : P[h].type = "IPC" /\ a \in Pages(P[h])
        BY <2>2 DEF IpcPages
      <4>2. h \in DOMAIN P /\ h # k /\ P[h].va \in Nat /\ P[h].len \in Nat
        BY <1>2, ForkableFacts
      <4>3. OffEachOther(P[h], P[k])
        BY <4>2, ForkableFacts
      <4>4. /\ a \in Int /\ P[h].va <= a /\ a < P[h].va + P[h].len
            /\ P[k].va <= a /\ a < P[k].va + P[k].len
        <5>1. P[h].va \in Int /\ P[h].len \in Int /\ P[k].va \in Int /\ P[k].len \in Int
          BY <1>1, <1>2, <4>2
        <5>2. a \in P[h].va .. P[h].va + P[h].len - 1
          BY <4>1 DEF Pages
        <5>3. a \in P[k].va .. P[k].va + P[k].len - 1
          BY <3>1 DEF Pages
        <5> QED BY <5>1, <5>2, <5>3
      <4>5. /\ P[h].len > 0 /\ P[k].len > 0
            /\ P[h].va + P[h].len <= P[k].va \/ P[k].va + P[k].len <= P[h].va
        BY <1>1, <1>2, <4>2, <4>3, <4>4 DEF OffEachOther
      <4> QED BY <1>1, <1>2, <4>2, <4>4, <4>5
    <3>4. IsFiniteSet(Q) /\ Cardinality(Q) = len
      <4>1. PICK b : b = P[k].va + P[k].len - 1
        OBVIOUS
      <4>2. PICK a : a = P[k].va
        OBVIOUS
      <4>3. Q = a .. b /\ a \in Int /\ b \in Int /\ ~(a > b) /\ b - a + 1 = len
        BY <1>1, <1>2, <3>1, <4>1, <4>2 DEF Pages
      <4>4. IsFiniteSet(a .. b) /\ Cardinality(a .. b) = IF a > b THEN 0 ELSE b - a + 1
        BY ONLY <4>3, FS_Interval
      <4> QED BY <4>3, <4>4
    <3>5. IsFiniteSet(A)
      <4>1. A \subseteq Low .. Top - 1
        <5> SUFFICES ASSUME NEW a \in A PROVE a \in Low .. Top - 1
          OBVIOUS
        <5>1. PICK h \in 1 .. k - 1 : P[h].type = "IPC" /\ a \in Pages(P[h])
          BY <2>2 DEF IpcPages
        <5>2. P[h].va \in Nat /\ P[h].len \in Nat /\ InPlace(P[h])
          BY <1>2, ForkableFacts
        <5> QED BY <1>2, <5>1, <5>2 DEF Pages, InPlace
      <4>2. Low \in Int /\ Top - 1 \in Int
        BY <1>2
      <4>3. IsFiniteSet(Low .. Top - 1)
        BY ONLY <4>2, FS_Interval
      <4> QED BY <4>1, <4>3, FS_Subset
    <3>6. Cardinality(A \cup Q) = Cardinality(A) + Cardinality(Q) - Cardinality(A \cap Q)
      BY <3>4, <3>5, FS_Union
    <3>7. Cardinality(A \cap Q) = 0
      BY <3>3, FS_EmptySet
    <3> QED BY <1>2, <2>3, <2>6, <3>2, <3>4, <3>6, <3>7
  <2>8. PICK M : M = N + len
    OBVIOUS
  <2>9. CASE j = 1
    <3>1. x.va >= Top - M
      BY <1>2, <1>3, <2>5, <2>6, <2>8
    <3> QED BY <1>3, <2>7, <2>8, <2>9, <3>1 DEF Unforked
  <2>10. CASE j # 1
    <3>1. PICK h : h = j - 1
      OBVIOUS
    <3>2. h \in DOMAIN L /\ h + 1 = j
      BY <1>6, <2>10, <3>1
    <3>3. CASE h = i
      <4>1. t[j].type = "FREE" /\ t[j].va = Low /\ t[j].len = L[i].len - len
        BY <1>3, <2>5, <3>2, <3>3
      <4>2. t[j].va + t[j].len = Top - M
        <5>1. PICK old : old = L[i].len
          OBVIOUS
        <5>2. old \in Nat /\ Low + old = Top - N
          BY <2>5, <5>1
        <5>3. Low + (old - len) = Top - (N + len)
          BY <1>2, <2>6, <5>2
        <5> QED BY <2>8, <4>1, <5>1, <5>3
      <4> QED BY <2>7, <2>8, <4>1, <4>2 DEF Unforked
    <3>4. CASE h # i
      <4>1. t[j] = L[h] /\ Unforked(L[h], N) /\ L[h] \in Regions
        BY <1>3, <1>4, <2>4, <3>2, <3>4
      <4>2. L[h].type # "FREE"
        <5> SUFFICES ASSUME L[h].type = "FREE" PROVE FALSE
          OBVIOUS
        <5>1. /\ L[h].va = Low /\ L[h].va + L[h].len = Top - N
              /\ L[h].va \in Nat /\ L[h].len \in Nat
          BY <4>1 DEF Unforked, Regions
        <5>2. OffEachOther(L[h], L[i])
          BY <1>3, <1>4, <3>2, <3>4 DEF Tidy, Apart
        <5> QED BY <1>2, <1>3, <2>5, <2>6, <5>1, <5>2 DEF OffEachOther
      <4>3. L[h].type = "IPC" => L[h].va >= Top - M
        <5>1. L[h].va \in Nat /\ (L[h].type = "IPC" => L[h].va >= Top - N)
          BY <4>1 DEF Unforked, Regions
        <5> QED BY <1>2, <2>6, <2>8, <5>1
      <4> QED BY <2>7, <2>8, <4>1, <4>2, <4>3 DEF Unforked
    <3> QED BY <3>3, <3>4
  <2> QED BY <2>9, <2>10
<1> QED BY <1>3, <1>7, <1>8, <1>9, <1>10 DEF ForkList

-----------------------------------------------------------------------------
\* The child's regions after those before k are copied, in state s.
Forking(s, P, c, k) ==
  /\ Formed(s) /\ s.stop = RUNNING /\ Forkable(P) /\ k \in DOMAIN P
  /\ ForkList(s.spaces[c], P, k - 1)

\* One region more is copied.
Forked(s, n, P, c, k) ==
  /\ Reworked(s, n, c)
  /\ n.stop = RUNNING => ForkList(n.spaces[c], P, k)

LEMMA CopyPrivateForks ==
  ASSUME NEW s, NEW P, NEW c \in 1 .. MaxPid, NEW k, Forking(s, P, c, k), IsPrivate(P[k]),
         NEW n, n = CopyPrivate(s, c, P[k])
  PROVE  Forked(s, n, P, c, k)
<1>1. PICK r : r = P[k]
  OBVIOUS
<1>2. /\ Formed(s) /\ s.stop = RUNNING /\ Forkable(P) /\ k \in DOMAIN P
      /\ ForkList(s.spaces[c], P, k - 1) /\ Tidy(s.spaces[c])
  BY DEF Forking, ForkList
<1>3. r \in Regions /\ r.len > 0 /\ r.len \in Nat /\ InPlace(r) /\ r.type # "STACK"
  BY <1>1, <1>2, ForkableFacts DEF IsPrivate
<1>4. \A j \in DOMAIN s.spaces[c] : Survives(s.spaces[c][j], r.va, r.va + r.len)
  BY <1>1, <1>2, PrivateSurvives
<1>5. RoomIn(s, c, r)
  BY <1>2, <1>3, <1>4 DEF RoomIn
<1>6. PICK created : created = CreateRegionAt(s, c, r.va, r.len, r.type, r.param)
  OBVIOUS
<1>7. /\ Reworked(s, created, c) /\ created.stop = RUNNING
      /\ Made(s.spaces[c], created.spaces[c], r)
  BY <1>2, <1>5, <1>6, CreateRegionAtMakes
<1>8. PICK mapped : mapped = MapRegion(created, c, created.spaces[c][1])
  OBVIOUS
<1>9. created.spaces[c][1] = r /\ Formed(created)
  BY <1>7 DEF Made, Reworked
<1>10. Quiet(created, mapped)
  BY <1>3, <1>8, <1>9, MappingFold DEF Formed
<1>11. n = CopyPages(mapped, r)
  BY <1>1, <1>6, <1>7, <1>8 DEF CopyPrivate, CopyPages
<1>12. Quiet(mapped, n)
  BY <1>3, <1>10, <1>11, CopyingFold DEF Quiet
<1>13. Quiet(created, n)
  BY <1>10, <1>12, QuietTwice
<1>14. Reworked(s, n, c) /\ n.spaces[c] = created.spaces[c]
  BY <1>2, <1>7, <1>13, ReworkedQuiet
<1>15. ForkList(created.spaces[c], P, k)
  BY <1>1, <1>2, <1>7, ForkPrivate
<1> QED BY <1>14, <1>15 DEF Forked

LEMMA CopyStackForks ==
  ASSUME NEW s, NEW P, NEW p, NEW c \in 1 .. MaxPid, NEW k, Forking(s, P, c, k),
         P[k].type = "STACK", NEW n, n = CopyStack(s, p, c, P[k])
  PROVE  Forked(s, n, P, c, k)
<1>1. PICK r : r = P[k]
  OBVIOUS
<1>2. /\ Formed(s) /\ s.stop = RUNNING /\ Forkable(P) /\ k \in DOMAIN P
      /\ ForkList(s.spaces[c], P, k - 1) /\ Tidy(s.spaces[c])
  BY DEF Forking, ForkList
<1>3. /\ r.va = Top /\ r.len = StackPages /\ ~HasStack(s.spaces[c])
      /\ \A i \in DOMAIN s.spaces[c] : Survives(s.spaces[c][i], r.va, r.va + r.len)
      /\ \A t : Made(s.spaces[c], t, r) => ForkList(t, P, k)
  BY <1>1, <1>2, ForkStack
<1>4. r \in Regions /\ r.len > 0 /\ r.len \in Nat /\ InPlace(r)
  <2>1. r \in Regions /\ InPlace(r) /\ r.len \in Nat
    BY <1>1, <1>2, ForkableFacts
  <2> QED BY <1>3, <2>1, AddressSpacesAssumption
<1>5. RoomIn(s, c, r)
  BY <1>2, <1>3, <1>4 DEF RoomIn
<1>6. PICK created : created = CreateRegionAt(s, c, r.va, r.len, r.type, r.param)
  OBVIOUS
<1>7. /\ Reworked(s, created, c) /\ created.stop = RUNNING
      /\ Made(s.spaces[c], created.spaces[c], r)
  BY <1>2, <1>5, <1>6, CreateRegionAtMakes
<1>8. n = StackPagesOf(created, p, c, r)
  BY <1>1, <1>6, <1>7 DEF CopyStack, StackPagesOf
<1>9. Quiet(created, n)
  BY <1>4, <1>7, <1>8, StackingFold DEF Reworked, Formed
<1>10. Reworked(s, n, c) /\ n.spaces[c] = created.spaces[c]
  BY <1>2, <1>7, <1>9, ReworkedQuiet
<1> QED BY <1>3, <1>7, <1>10 DEF Forked

LEMMA CloneIpcForks ==
  ASSUME NEW s, NEW P, NEW p, NEW c \in 1 .. MaxPid, NEW k, Forking(s, P, c, k),
         P[k].type = "IPC", NEW n, n = CloneFifo(CloneRegion(s, c, p, P[k]), P[k].param, c)
  PROVE  Forked(s, n, P, c, k)
<1>1. PICK r : r = P[k]
  OBVIOUS
<1>2. /\ Formed(s) /\ s.stop = RUNNING /\ Forkable(P) /\ k \in DOMAIN P
      /\ ForkList(s.spaces[c], P, k - 1) /\ Tidy(s.spaces[c])
  BY DEF Forking, ForkList
<1>3. r \in Regions /\ r.len > 0 /\ r.type # "STACK"
  <2>1. r \in Regions /\ InPlace(r) /\ r.len \in Nat
    BY <1>1, <1>2, ForkableFacts
  <2> QED BY <1>1, <2>1 DEF InPlace
<1>4. PICK o : o = CloneRegion(s, c, p, r)
  OBVIOUS
<1>5. /\ Reworked(s, o, c)
      /\ o.stop = RUNNING =>
           \E x \in Regions, i \in Nat :
             /\ x.len = r.len /\ x.type = r.type /\ x.param = r.param
             /\ Taken(s.spaces[c], o.spaces[c], x, i)
  BY <1>2, <1>3, <1>4, CloneRegionTakes
<1>6. Quiet(o, n)
  BY <1>1, <1>4, <1>5, CloneFifoQuiet DEF Reworked, Formed
<1>7. Reworked(s, n, c) /\ n.spaces[c] = o.spaces[c]
  BY <1>2, <1>5, <1>6, ReworkedQuiet
<1>8. ASSUME n.stop = RUNNING PROVE ForkList(n.spaces[c], P, k)
  <2>1. o.stop = RUNNING
    BY <1>6, <1>8 DEF Quiet
  <2>2. PICK x \in Regions, i \in Nat :
          /\ x.len = r.len /\ x.type = r.type
          /\ Taken(s.spaces[c], o.spaces[c], x, i)
    BY <1>5, <2>1
  <2> QED BY <1>1, <1>2, <1>7, <2>2, ForkIpc
<1> QED BY <1>7, <1>8 DEF Forked

LEMMA CopyRegionForks ==
  ASSUME NEW s, NEW P, NEW p, NEW c \in 1 .. MaxPid, NEW k, Forking(s, P, c, k),
         NEW n, n = CopyRegion(s, p, c, P[k])
  PROVE  Forked(s, n, P, c, k)
<1>1. P[k].type \in Kinds /\ Forkable(P) /\ k \in DOMAIN P /\ Formed(s)
      /\ ForkList(s.spaces[c], P, k - 1)
  <2>1. Forkable(P) /\ k \in DOMAIN P /\ Formed(s) /\ ForkList(s.spaces[c], P, k - 1)
    BY DEF Forking
  <2>2. P[k] \in Regions
    BY <2>1, ForkableFacts
  <2> QED BY <2>1, <2>2 DEF Regions
<1>2. CASE P[k].type \in {"ANON", "CORE"}
  <2>1. n = CopyPrivate(s, c, P[k])
    BY <1>2 DEF CopyRegion
  <2> QED BY <1>2, <2>1, CopyPrivateForks DEF IsPrivate
<1>3. CASE P[k].type = "STACK"
  <2>1. n = CopyStack(s, p, c, P[k])
    BY <1>3 DEF CopyRegion
  <2> QED BY <1>3, <2>1, CopyStackForks
<1>4. CASE P[k].type = "IPC"
  <2>1. n = CloneFifo(CloneRegion(s, c, p, P[k]), P[k].param, c)
    BY <1>4 DEF CopyRegion
  <2> QED BY <1>4, <2>1, CloneIpcForks
<1>5. CASE P[k].type = "FREE"
  <2>1. n = s
    BY <1>5 DEF CopyRegion
  <2>2. Quiet(s, s)
    BY <1>1, QuietSelf DEF Formed
  <2>3. Reworked(s, n, c)
    BY <1>1, <2>1, <2>2, QuietFormed
  <2> QED BY <1>1, <1>5, <2>1, <2>3, ForkFree DEF Forked
<1> QED BY <1>1, <1>2, <1>3, <1>4, <1>5 DEF Kinds

-----------------------------------------------------------------------------
ForkRound(s, r, p, c) ==
  IF s.stop # RUNNING THEN s ELSE UpdateSenders(CopyRegion(s, p, c, r), p, c)

ForkStep(q, s, r) == ForkRound(s, r, q[2], q[3])
ForkKept(q, k, s) ==
  /\ Reworked(q[1], s, q[3])
  /\ s.stop = RUNNING => ForkList(s.spaces[q[3]], q[4], k)

Copies == INSTANCE Recursion WITH Step <- ForkStep, Keeps <- ForkKept

LEMMA ForkRoundKeeps ==
  ASSUME NEW b, Formed(b), NEW P, Forkable(P), NEW p, NEW c \in 1 .. MaxPid,
         NEW k \in DOMAIN P, NEW s, ForkKept(<<b, p, c, P>>, k - 1, s)
  PROVE  ForkKept(<<b, p, c, P>>, k, ForkRound(s, P[k], p, c))
<1>1. Reworked(b, s, c) /\ Formed(s) /\ (s.stop = RUNNING => ForkList(s.spaces[c], P, k - 1))
  BY DEF ForkKept, Reworked
<1>2. PICK n : n = ForkRound(s, P[k], p, c)
  OBVIOUS
<1>3. CASE s.stop # RUNNING
  <2>1. n = s
    BY <1>2, <1>3 DEF ForkRound
  <2> QED BY <1>1, <1>2, <1>3, <2>1 DEF ForkKept
<1>4. CASE s.stop = RUNNING
  <2>1. PICK o : o = CopyRegion(s, p, c, P[k])
    OBVIOUS
  <2>2. Forked(s, o, P, c, k)
    BY <1>1, <1>4, <2>1, CopyRegionForks DEF Forking
  <2>3. Reworked(s, o, c) /\ (o.stop = RUNNING => ForkList(o.spaces[c], P, k))
    BY <2>2 DEF Forked
  <2>4. n = UpdateSenders(o, p, c)
    BY <1>2, <1>4, <2>1 DEF ForkRound
  <2>5. PICK l \in Nat : DOMAIN o.fifos = 1 .. l
    BY <2>3 DEF Reworked, Formed, Listed
  <2>6. Quiet(o, n)
    BY <2>3, <2>4, <2>5, UpdatingFold DEF Reworked, Formed
  <2>7. Reworked(s, n, c) /\ n.spaces[c] = o.spaces[c] /\ (n.stop = RUNNING => o.stop = RUNNING)
    BY <1>1, <2>3, <2>6, ReworkedQuiet DEF Quiet
  <2>8. Reworked(b, n, c)
    BY <1>1, <2>7, ReworkedTwice
  <2> QED BY <1>2, <2>3, <2>7, <2>8 DEF ForkKept
<1> QED BY <1>3, <1>4

ForkRegions(b, P, p, c) ==
  FoldLeft(LAMBDA s, r : IF s.stop # RUNNING THEN s
                         ELSE UpdateSenders(CopyRegion(s, p, c, r), p, c), b, P)

LEMMA ForkingFold ==
  ASSUME NEW b, Formed(b), NEW P, Forkable(P), NEW p, NEW c \in 1 .. MaxPid,
         b.stop = RUNNING => ForkList(b.spaces[c], P, 0)
  PROVE  ForkKept(<<b, p, c, P>>, Len(P), ForkRegions(b, P, p, c))
<1> DEFINE base == b
           seq == P
           n == Len(P)
           q == <<b, p, c, P>>
           F(f) == [ss \in SUBSET (1 .. n) |->
                      IF ss = {} THEN base
                      ELSE ForkRound(f[ss \ {Max(ss)}], seq[Max(ss)], p, c)]
           it == CHOOSE f : f = F(f)
<1>3. n \in Nat /\ DOMAIN P = 1 .. n
  BY ForkableFacts
<1>1. ForkRegions(b, P, p, c) = it[1 .. n]
  BY <1>3 DEF ForkRegions, ForkRound, FoldLeft, MapThenFoldSet
<1>2. ASSUME NEW f PROVE Copies!IsIter(f, q, base, seq, n) <=> f = F(f)
  BY DEF Copies!IsIter, Copies!Max, Max, ForkStep
<1>4. \E f : Copies!IsIter(f, q, base, seq, n)
  BY <1>3, Copies!IterExists
<1>5. it = F(it)
  <2> HIDE DEF F
  <2> QED BY <1>2, <1>4
<1> HIDE DEF F, it
<1>6. Copies!IsIter(it, q, base, seq, n)
  BY <1>2, <1>5
<1>7. \A i \in 1 .. n : \A s : ForkKept(q, i - 1, s) => ForkKept(q, i, ForkStep(q, s, seq[i]))
  BY <1>3, ForkRoundKeeps DEF ForkStep
<1>8. ForkKept(q, 0, base)
  <2>1. Reworked(b, b, c)
    BY QuietSelf, QuietFormed DEF Formed
  <2> QED BY <2>1 DEF ForkKept
<1>9. ForkKept(q, n, it[1 .. n])
  <2> HIDE DEF q, base, seq, n
  <2> QED BY <1>3, <1>6, <1>7, <1>8, Copies!IterKeeps
<1> QED BY <1>1, <1>9

-----------------------------------------------------------------------------
LEMMA ForkedSpaceJoins ==
  ASSUME NEW m, Formed(m), m.npids < MaxPid, NEW n, n = ForkedSpace(m),
         NEW f, f = Region(Low, Top - Low, "FREE", 0)
  PROVE  Joined(m, n, <<f>>)
<1>1. PICK s : s = Region(Top, StackPages, "STACK", 0)
  OBVIOUS
<1>2. PICK c : c = CreateProcess(m)
  OBVIOUS
<1>3. Joined(m, c, <<f, s>>)
  BY <1>1, <1>2, CreateProcessJoins
<1>4. PICK k : k = m.npids + 1
  OBVIOUS
<1>5. k \in 1 .. MaxPid
  BY <1>4, MaxPidNumber DEF Formed
<1>6. /\ Formed(c) /\ c.npids = k /\ c.spaces = [m.spaces EXCEPT ![k] = <<f, s>>]
      /\ (c.stop = RUNNING => m.stop = RUNNING)
      /\ m.spaces \in [1 .. MaxPid -> Seq(Regions)]
  BY <1>3, <1>4 DEF Joined, Formed
<1>7. c.spaces[k] = <<f, s>> /\ Head(<<f, s>>) = f
  <2>1. PICK x : x = <<f, s>>
    OBVIOUS
  <2>2. c.spaces[k] = x
    BY <1>5, <1>6, <2>1
  <2>3. Head(x) = f
    BY <2>1
  <2> QED BY <2>1, <2>2, <2>3
<1>8. PICK l : l = <<f>>
  OBVIOUS
<1>9. n = WithSpace(c, k, l)
  BY <1>2, <1>6, <1>7, <1>8 DEF ForkedSpace, WithSpace
<1>10. l \in Seq(Regions)
  BY <1>8, NewSpaceTidy, <1>1
<1>11. Reworked(c, n, k) /\ n.spaces[k] = l
  BY <1>5, <1>6, <1>9, <1>10, SpaceReworked
<1>12. n.spaces = [c.spaces EXCEPT ![k] = l] /\ Formed(n) /\ n.npids = k
       /\ (n.stop = RUNNING => c.stop = RUNNING)
  BY <1>6, <1>11 DEF Reworked
<1>13. n.spaces = [m.spaces EXCEPT ![k] = l]
  <2>1. PICK x : x = <<f, s>>
    OBVIOUS
  <2> QED BY <1>6, <1>12, <2>1
<1> QED BY <1>4, <1>6, <1>8, <1>12, <1>13 DEF Joined

\* With nothing copied, all up to the stack is free.
LEMMA ForkListBegins ==
  ASSUME NEW P, NEW f, f = Region(Low, Top - Low, "FREE", 0)
  PROVE  ForkList(<<f>>, P, 0)
<1>1. PICK s : s = Region(Top, StackPages, "STACK", 0)
  OBVIOUS
<1>2. PICK l : l = <<f>>
  OBVIOUS
<1>3. f.va = Low /\ f.len = Top - Low /\ f.type = "FREE" /\ Tidy(l)
  BY <1>1, <1>2, NewSpaceTidy
<1>4. \A j \in DOMAIN l : l[j] = f
  BY <1>2
<1>5. Low \in Nat /\ Top \in Nat /\ Low < Top
  BY AddressSpacesAssumption
<1>6. f.va + f.len = Top /\ f.len > 0
  BY <1>3, <1>5
<1>7. Gap(f, P, 0)
  BY <1>3, <1>6 DEF Gap
<1>8. Cardinality(IpcPages(P, 0)) = 0
  <2>1. IpcPages(P, 0) = {}
    BY DEF IpcPages
  <2> QED BY <2>1, FS_EmptySet
<1>9. Unforked(f, 0)
  BY <1>3, <1>5, <1>6 DEF Unforked
<1> QED BY <1>2, <1>3, <1>4, <1>7, <1>8, <1>9 DEF ForkList

LEMMA RegionNumbers ==
  ASSUME NEW P \in Seq(Regions)
  PROVE  /\ DOMAIN P = 1 .. Len(P)
         /\ \A i \in DOMAIN P : P[i].va \in Nat /\ P[i].len \in Nat
<1>1. DOMAIN P = 1 .. Len(P) /\ \A i \in DOMAIN P : P[i] \in Regions
  OBVIOUS
<1> QED BY <1>1 DEF Regions

LEMMA MayForkable ==
  ASSUME "mmap and fork" \notin Uses, "fork touching regions" \notin Uses,
         NEW p, Tidy(mem.spaces[p]), HasStack(mem.spaces[p]), MayFork(p)
  PROVE  Forkable(mem.spaces[p])
<1>1. PICK P : P = mem.spaces[p]
  OBVIOUS
<1>2. /\ P \in Seq(Regions) /\ DOMAIN P = 1 .. Len(P)
      /\ \A i \in DOMAIN P : P[i].va \in Nat /\ P[i].len \in Nat
  <2>1. P \in Seq(Regions)
    BY <1>1 DEF Tidy
  <2> QED BY ONLY <2>1, RegionNumbers
<1>3. /\ ~(Has(p, {"IPC"}) /\ \E r \in Private(mem, p) : r.va # Low)
      /\ ~Touching(p) /\ ~Full(p)
  BY DEF MayFork
<1>4. \A r : r \in ToSet(P) <=> \E i \in DOMAIN P : r = P[i]
  BY <1>2 DEF ToSet
<1>5. \A r : r \in Private(mem, p) <=> \E i \in DOMAIN P : r = P[i] /\ IsPrivate(P[i])
  BY <1>1, <1>4 DEF Private, IsPrivate
<1>6. NoIpc(P) \/ \A i \in DOMAIN P : IsPrivate(P[i]) => P[i].va = Low
  BY <1>1, <1>3, <1>5 DEF NoIpc, Has
<1>7. ASSUME NEW i \in DOMAIN P, NEW j \in DOMAIN P, IsPrivate(P[i]), IsPrivate(P[j]),
             P[i].va < P[j].va
      PROVE  P[i].va + P[i].len < P[j].va
  <2>1. P[i] \in Private(mem, p) /\ P[j] \in Private(mem, p)
    BY <1>5, <1>7
  <2>2. ~(P[j].va <= P[i].va + P[i].len)
    BY <1>3, <1>7, <2>1 DEF Touching
  <2>3. P[i].va \in Nat /\ P[i].len \in Nat /\ P[j].va \in Nat
    BY <1>2
  <2> QED BY ONLY <2>2, <2>3
<1>8. \E i \in DOMAIN P : P[i].type = "FREE" /\ P[i].len > 0
  <2>1. PICK r \in ToSet(P) : r.type = "FREE" /\ r.len # 0
    BY <1>1, <1>3 DEF Full
  <2>2. PICK i \in DOMAIN P : r = P[i]
    BY <1>4, <2>1
  <2>3. P[i].len \in Nat /\ P[i].len # 0
    BY <1>2, <2>1, <2>2
  <2>4. P[i].len > 0
    BY ONLY <2>3
  <2> QED BY <2>1, <2>2, <2>4
<1> QED BY <1>1, <1>6, <1>7, <1>8 DEF Forkable

LEMMA ForkSpaces ==
  ASSUME "mmap and fork" \notin Uses, "fork touching regions" \notin Uses,
         Spaces, NEW p \in 1 .. MaxPid, ForkCall(p)
  PROVE  Spaces'
<1>1. Runs(p) /\ MayFork(p) /\ mem.npids < MaxPid /\ Return(Fork(mem, p))
  BY DEF ForkCall
<1>2. Partitioned(mem) /\ p <= mem.npids
  BY <1>1, RunsIn
<1>3. PICK P : P = mem.spaces[p]
  OBVIOUS
<1>4. Tidy(P) /\ HasStack(P) /\ Formed(mem)
  BY <1>2, <1>3 DEF Partitioned
<1>5. Forkable(P)
  BY <1>1, <1>3, <1>4, MayForkable
<1>6. PICK c : c = mem.npids + 1
  OBVIOUS
<1>7. c \in 1 .. MaxPid
  <2>1. mem.npids \in 0 .. MaxPid /\ mem.npids < MaxPid /\ MaxPid \in Nat
    BY <1>1, <1>4, MaxPidNumber DEF Formed
  <2> QED BY ONLY <1>6, <2>1
<1>8. PICK f : f = Region(Low, Top - Low, "FREE", 0)
  OBVIOUS
<1>9. PICK b : b = ForkedSpace(mem)
  OBVIOUS
<1>10. Joined(mem, b, <<f>>)
  BY <1>1, <1>4, <1>8, <1>9, ForkedSpaceJoins
<1>11. /\ Formed(b) /\ b.npids = c /\ b.spaces = [mem.spaces EXCEPT ![c] = <<f>>]
       /\ (b.stop = RUNNING => mem.stop = RUNNING)
       /\ mem.spaces \in [1 .. MaxPid -> Seq(Regions)]
  BY <1>4, <1>6, <1>10 DEF Joined, Formed
<1>12. b.spaces[c] = <<f>>
  BY <1>7, <1>11
<1>13. ForkList(b.spaces[c], P, 0)
  BY <1>8, <1>12, ForkListBegins
<1>14. PICK n : n = Fork(mem, p)
  OBVIOUS
<1>15. n = ForkRegions(b, P, p, c)
  <2>1. Fork(mem, p) = ForkRegions(ForkedSpace(mem), mem.spaces[p], p, mem.npids + 1)
    BY DEF Fork, ForkRegions
  <2> QED BY <1>3, <1>6, <1>9, <1>14, <2>1
<1>16. ForkKept(<<b, p, c, P>>, Len(P), n)
  BY <1>5, <1>7, <1>11, <1>13, <1>15, ForkingFold
<1>17. Reworked(b, n, c) /\ (n.stop = RUNNING => ForkList(n.spaces[c], P, Len(P)))
  BY <1>16 DEF ForkKept
<1>18. PICK l : l = n.spaces[c]
  OBVIOUS
<1>19. Joined(mem, n, l)
  <2>1. n.spaces = [b.spaces EXCEPT ![c] = l] /\ Formed(n) /\ n.npids = c
        /\ (n.stop = RUNNING => mem.stop = RUNNING)
    BY <1>11, <1>17, <1>18 DEF Reworked
  <2>2. PICK x : x = <<f>>
    OBVIOUS
  <2>3. n.spaces = [mem.spaces EXCEPT ![c] = l]
    BY <1>11, <2>1, <2>2
  <2> QED BY <1>6, <2>1, <2>3 DEF Joined
<1>20. ASSUME n.stop = RUNNING PROVE Partitioned(n)
  <2>1. ForkList(l, P, Len(P))
    BY <1>17, <1>18, <1>20
  <2>2. \E i \in 1 .. Len(P) : P[i].type = "STACK"
    BY <1>4, <1>5, ForkableFacts DEF HasStack
  <2>3. Tidy(l) /\ HasStack(l)
    BY <2>1, <2>2 DEF ForkList
  <2> QED BY <1>1, <1>2, <1>19, <2>3, JoinedPartitioned
<1>21. Shape(n)
  BY <1>17 DEF Reworked, Formed
<1>22. mem' = Left(n)
  BY <1>1, <1>14 DEF Return
<1> QED BY <1>20, <1>21, <1>22, LeftSpaces DEF Spaces

-----------------------------------------------------------------------------
LEMMA NextSpaces ==
  ASSUME "mmap and fork" \notin Uses, "fork touching regions" \notin Uses,
         Spaces, [Next]_mem
  PROVE  Spaces'
<1>1. CASE UNCHANGED mem
  BY <1>1 DEF Spaces
<1>2. CASE Next
  <2> SUFFICES ASSUME NEW p \in 1 .. MaxPid,
                      \/ MmapAnon(p) \/ MmapDirected(p)
                      \/ Pipe(p) \/ Accept(p) \/ \E q \in 1 .. MaxPid : Connect(p, q)
                      \/ Write(p) \/ InterruptWrite(p) \/ Read(p) \/ Close(p)
                      \/ Touch(p) \/ ForkCall(p)
               PROVE  Spaces'
    BY <1>2 DEF Next
  <2>1. CASE MmapAnon(p) \/ MmapDirected(p)
    BY <2>1, MmapAnonSpaces, MmapDirectedSpaces
  <2>2. CASE Pipe(p) \/ Accept(p)
    BY <2>2, PipeSpaces, AcceptSpaces
  <2>3. CASE \E q \in 1 .. MaxPid : Connect(p, q)
    BY <2>3, ConnectSpaces
  <2>4. CASE Write(p) \/ InterruptWrite(p)
    BY <2>4, WriteSpaces
  <2>5. CASE Read(p)
    BY <2>5, ReadSpaces
  <2>6. CASE Close(p)
    BY <2>6, CloseSpaces
  <2>7. CASE Touch(p)
    BY <2>7, TouchSpaces
  <2>8. CASE ForkCall(p)
    BY <2>8, ForkSpaces
  <2> QED BY <2>1, <2>2, <2>3, <2>4, <2>5, <2>6, <2>7, <2>8
<1> QED BY <1>1, <1>2

\* Whatever processes create, map, write, read, close and fork, the regions of
\* an address space neither overlap nor leave gaps (create_region(),
\* clone_region(), delete_region(), fork()), as long as no process forks whose
\* regions' copies collide: touching ones, or mappings and FIFOs together.
THEOREM SpacesPartitioned ==
  ASSUME "mmap and fork" \notin Uses, "fork touching regions" \notin Uses
  PROVE  Spec => []SpacePartitioned
<1>1. Init => Spaces
  BY InitSpaces
<1>2. Spaces /\ [Next]_mem => Spaces'
  BY NextSpaces
<1>3. Spaces => SpacePartitioned
  BY SpacesPartition
<1> QED BY <1>1, <1>2, <1>3, PTL DEF Spec
=============================================================================
