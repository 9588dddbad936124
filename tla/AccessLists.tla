---------------------------- MODULE AccessLists ----------------------------
(***************************************************************************)
(* Who may read and who may write a FIFO (common/kfifo.c).  m.acl is the   *)
(* slab of access list entries, m.acl_free its returned cells, the last    *)
(* one first; a cell keeps its `next' while it is free, and 0 is the null  *)
(* pointer.  m.fifos is fifo_list, the newest FIFO first.                  *)
(***************************************************************************)
EXTENDS AddressSpaces

\* The cell behind those seen of the list at head, and the cells seen with it.
Behind(acl, head, seen) == IF seen = <<>> THEN head ELSE acl[Last(seen)].next

Longer(acl, head, seen) ==
  LET cell == Behind(acl, head, seen)
  IN  IF cell = 0 \/ cell \in ToSet(seen) THEN seen ELSE Append(seen, cell)

\* The cells of a list, in order; a list that runs into itself ends there.
Chain(m, head) ==
  LET seen[n \in 0 .. Len(m.acl)] ==
        IF n = 0 THEN <<>> ELSE Longer(m.acl, head, seen[n - 1])
  IN  seen[Len(m.acl)]

PidsOf(m, head) == {m.acl[c].pid : c \in ToSet(Chain(m, head))}

\* The position in fifo_list of a FIFO, 0 if it is not there.
FifoAt(m, id) == SelectInSeq(m.fifos, LAMBDA f : f.id = id)

-----------------------------------------------------------------------------
\* allocate_from_slab (acl_slab), and the pid that every caller stores.
NewEntry(m, pid) ==
  IF m.acl_free # <<>>
  THEN [m EXCEPT !.acl[Head(m.acl_free)].pid = pid,
                 !.acl_free = Tail(@), !.ret = Head(m.acl_free)]
  ELSE [m EXCEPT !.acl = Append(@, [pid |-> pid, next |-> 0]), !.ret = Len(m.acl) + 1]

\* deallocate_from_slab() stores the number of the next free cell in the
\* cell's first word, which is its pid.
ReturnEntry(m, cell) ==
  LET next == IF m.acl_free = <<>> THEN Len(m.acl) ELSE Head(m.acl_free) - 1
  IN  [m EXCEPT !.acl[cell].pid = next, !.acl_free = <<cell>> \o @]

\* The two loops of kfifo_create_fifo(): a list of the pids, its head in ret.
\* The last entry's next is not set.
NewList(m, pids) ==
  LET first == NewEntry(m, Head(pids))
      Linked(s, pid) == LET e == NewEntry(s, pid) IN [e EXCEPT !.acl[s.ret].next = e.ret]
  IN  [FoldLeft(Linked, first, Tail(pids)) EXCEPT !.ret = first.ret]

\* kfifo_create_fifo(): only the first receiver gets the ring.
CreateFifo(m, recv, send) ==
  LET id == m.next_fifo
      r == NewList(m, recv)
      s == NewList(r, send)
      c == CreateRegion(s, recv[1], 2, "IPC", id)
      mapped == IF c.stop # RUNNING THEN c ELSE MapRegion(c, recv[1], c.spaces[recv[1]][1])
  IN  [mapped EXCEPT !.fifos = <<[id |-> id, recvlist |-> r.ret, sendlist |-> s.ret]>> \o @,
                     !.next_fifo = @ + 1]

\* A slip in the next one: the new entry is not linked.
CloneFifoUnlisted(m, id, newpid) == IF FifoAt(m, id) = 0 THEN m ELSE NewEntry(m, newpid)

\* kfifo_clone_fifo()
CloneFifo(m, id, newpid) ==
  LET i == FifoAt(m, id)
      e == NewEntry(m, newpid)
  IN  IF i = 0 THEN m
      ELSE [e EXCEPT !.acl[e.ret].next = m.fifos[i].recvlist, !.fifos[i].recvlist = e.ret]

\* A slip in the next one: the entry goes in front of oldpid's.
UpdateListBefore(m, head, oldpid, newpid) ==
  LET e == NewEntry(m, newpid)
      chain == Chain(m, head)
      k == SelectInSeq(chain, LAMBDA c : m.acl[c].pid = oldpid)
  IN  IF k < 2 THEN e
      ELSE [e EXCEPT !.acl[e.ret].next = chain[k], !.acl[chain[k - 1]].next = chain[k]]

\* The loop over one list of senders in kfifo_update_senders(): its one new
\* entry goes behind each entry of oldpid in turn, so that it ends up behind
\* the first and in front of what follows the last.
UpdateList(m, head, oldpid, newpid) ==
  LET e == NewEntry(m, newpid)
      chain == Chain(m, head)
      olds == {c \in ToSet(chain) : m.acl[c].pid = oldpid}
      last == chain[SelectLastInSeq(chain, LAMBDA c : c \in olds)]
  IN  IF olds = {} THEN e
      ELSE [e EXCEPT !.acl = [c \in DOMAIN e.acl |->
              IF c \in olds THEN [e.acl[c] EXCEPT !.next = e.ret]
              ELSE IF c = e.ret THEN [e.acl[c] EXCEPT !.next = m.acl[last].next]
              ELSE e.acl[c]]]

UpdateSenders(m, oldpid, newpid) ==
  FoldLeft(LAMBDA s, f : UpdateList(s, f.sendlist, oldpid, newpid), m, m.fifos)

-----------------------------------------------------------------------------
\* A slip in the next one: the first entry stays the head.
UnlinkedLater(m, head, pid) ==
  LET chain == Chain(m, head)
      k == SelectInSeq(chain, LAMBDA c : m.acl[c].pid = pid)
  IN  IF k < 2 THEN [m EXCEPT !.ret = head]
      ELSE [m EXCEPT !.acl[chain[k - 1]].next = m.acl[chain[k]].next, !.ret = head]

\* Take the first entry of pid out of the list at head: the list's new head
\* in ret, and the memory with the entry unlinked.
Unlinked(m, head, pid) ==
  LET chain == Chain(m, head)
      k == SelectInSeq(chain, LAMBDA c : m.acl[c].pid = pid)
  IN  IF k = 0 THEN [m EXCEPT !.ret = head]
      ELSE IF k = 1 THEN [m EXCEPT !.ret = m.acl[head].next]
      ELSE [m EXCEPT !.acl[chain[k - 1]].next = m.acl[chain[k]].next, !.ret = head]

Entry(m, head, pid) ==
  LET chain == Chain(m, head)
      k == SelectInSeq(chain, LAMBDA c : m.acl[c].pid = pid)
  IN  IF k = 0 THEN 0 ELSE chain[k]

\* kfifo_close_fifo(), which looks for the FIFO and for the caller's entries,
\* and goes on with null pointers where there are none.
CloseFifo(m, id, mypid) ==
  LET i == FifoAt(m, id)
      f == m.fifos[i]
      sender == Entry(m, f.sendlist, mypid)
      s == Unlinked(m, f.sendlist, mypid)
      s1 == IF sender = 0 THEN s ELSE ReturnEntry(s, sender)
      receiver == Entry(s1, f.recvlist, mypid)
      r == Unlinked(s1, f.recvlist, mypid)
      at == IpcRegion(r, mypid, id)
      d == IF at = 0 THEN r ELSE DeleteRegion(r, mypid, at)
      left == [d EXCEPT !.fifos[i].sendlist = s.ret, !.fifos[i].recvlist = r.ret]
  IN  CASE i = 0 -> Stop(m, "null FIFO used")
        [] i # 0 /\ receiver = 0 -> Stop(left, "null cell returned")
        [] i # 0 /\ receiver # 0 /\ r.ret # 0 /\ s.ret # 0 -> ReturnEntry(left, receiver)
        [] i # 0 /\ receiver # 0 /\ r.ret # 0 /\ s.ret = 0 -> Stop(left, "sentinel deleted")
        [] OTHER -> [ReturnEntry(left, receiver) EXCEPT !.fifos = RemoveAt(@, i)]

-----------------------------------------------------------------------------
\* What kfifo_write_fifo() does to the address space it runs in: the first
\* receiver's region is cloned into it and deleted again.
WriteFifo(m, id, current) ==
  LET f == m.fifos[FifoAt(m, id)]
      owner == m.acl[f.recvlist].pid
      at == IpcRegion(m, owner, id)
      c == CloneRegion(m, current, owner, m.spaces[owner][at])
  IN  IF at = 0 THEN Stop(m, "receiver without region")
      ELSE IF c.stop # RUNNING THEN c
      ELSE DeleteRegion(c, current, 1)
=============================================================================
