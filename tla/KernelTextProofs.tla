-------------------------- MODULE KernelTextProofs --------------------------
(***************************************************************************)
(* Proofs about i386/bootvideo.c and its users, for every size of screen,  *)
(* message that fits its format, int, and name of a device: the screen     *)
(* shows what was printed, numbers are printed as what they are, what      *)
(* programs put stays as it is, and a device is found by its name.         *)
(***************************************************************************)
EXTENDS KernelText, SequenceTheorems, TLAPS

\* A character put on the screen, as a step of module Recursion.
PutcStep(q, s, c) == Putc(s, c)

\* No invariant of the repetitions below is needed.
Nothing(q, i, s) == TRUE

ScreenFold == INSTANCE Recursion WITH Step <- PutcStep, Keeps <- Nothing

-----------------------------------------------------------------------------
(* The strings                                                             *)

\* What a name is in memory: its characters and, if there is room, NUL.
IsName(name) ==
  /\ name \in Names
  /\ Len(name) \in Nat
  /\ DOMAIN name = 1 .. Len(name)
  /\ \A j \in 1 .. Len(name) : name[j] \in Nat \ {NUL}

LEMMA NameOf == ASSUME NEW name \in Names PROVE IsName(name)
<1>1. name \in Seq(Nat \ {NUL})
  BY NamesAssumption
<1>2. \A j \in 1 .. Len(name) : name[j] \in Nat \ {NUL}
  BY <1>1, ElementOfSeq
<1> QED BY <1>1, <1>2, LenProperties DEF IsName

IsCaller(c, name) ==
  /\ \A j \in 1 .. Len(name) : c[j] = name[j]
  /\ \A j \in 1 .. NameSize + 1 : c[Len(name) + j] = NUL

LEMMA CallerOf ==
  ASSUME NEW name \in Names
  PROVE  IsCaller(Caller(name), name)
<1> DEFINE rest == [i \in 1 .. NameSize + 1 |-> NUL]
           c == name \o rest
<1>1. NameSize \in Nat \ {0}
  BY NamesAssumption
<1>2. name \in Seq(Nat) /\ rest \in Seq(Nat) /\ Len(rest) = NameSize + 1
  <2>1. name \in Seq(Nat \ {NUL})
    BY NamesAssumption
  <2>2. rest \in [1 .. NameSize + 1 -> Nat] /\ NameSize + 1 \in Nat
    BY <1>1 DEF NUL
  <2>3. rest \in Seq(Nat)
    BY <2>2, SeqDef
  <2>4. name \in Seq(Nat)
    BY <2>1, SeqMonotonic
  <2> QED BY <2>2, <2>3, <2>4
<1>3. \A i \in 1 .. NameSize + 1 : rest[i] = NUL
  OBVIOUS
<1> HIDE DEF rest
<1>4. \A i \in 1 .. Len(name) + Len(rest) : c[i] = IF i <= Len(name) THEN name[i] ELSE rest[i - Len(name)]
  BY <1>2, ConcatProperties
<1>5. Caller(name) = c
  BY DEF Caller, rest
<1> HIDE DEF c
<1>6. Len(name) \in Nat
  BY NameOf DEF IsName
<1>7. ASSUME NEW j \in 1 .. NameSize + 1 PROVE c[Len(name) + j] = NUL
  <2>1. /\ Len(name) + j \in 1 .. Len(name) + Len(rest)
        /\ ~(Len(name) + j <= Len(name)) /\ (Len(name) + j) - Len(name) = j
    BY <1>1, <1>2, <1>6
  <2> QED BY <1>3, <1>4, <2>1
<1>8. ASSUME NEW j \in 1 .. Len(name) PROVE c[j] = name[j]
  BY <1>1, <1>2, <1>4, <1>6
<1> QED BY <1>5, <1>7, <1>8 DEF IsCaller

\* strlen() of a name: up to its terminator, if that is within the field.
LEMMA StrlenOf ==
  ASSUME NEW name \in Names
  PROVE  Strlen(Caller(name), NameSize) =
           IF Len(name) < NameSize THEN Len(name) + 1 ELSE NameSize
<1> DEFINE c == Caller(name)
           l == Len(name)
           First == CHOOSE i \in 1 .. NameSize : c[i] = NUL /\ \A j \in 1 .. i - 1 : c[j] # NUL
<1>1. /\ l \in Nat /\ NameSize \in Nat \ {0}
      /\ \A j \in 1 .. l : c[j] # NUL
      /\ \A j \in 1 .. NameSize + 1 : c[l + j] = NUL
  BY NameOf, CallerOf, NamesAssumption DEF IsName, IsCaller
<1>2. Strlen(c, NameSize) = IF \E i \in 1 .. NameSize : c[i] = NUL THEN First ELSE NameSize
  BY DEF Strlen
<1> HIDE DEF c, l
<1>3. CASE l < NameSize
  <2>1. l + 1 \in 1 .. NameSize /\ c[l + 1] = NUL /\ \A j \in 1 .. (l + 1) - 1 : c[j] # NUL
    BY <1>1, <1>3
  <2>2. First \in 1 .. NameSize /\ c[First] = NUL /\ \A j \in 1 .. First - 1 : c[j] # NUL
    BY <2>1
  <2> HIDE DEF First
  <2>3. First = l + 1
    <3>1. First >= l + 1
      BY <1>1, <2>2
    <3>2. First <= l + 1
      BY <1>1, <2>1, <2>2
    <3> QED BY <1>1, <2>2, <3>1, <3>2
  <2>4. Strlen(c, NameSize) = First
    BY <1>2, <2>1
  <2> QED BY <1>3, <2>3, <2>4 DEF c, l
<1>4. CASE ~(l < NameSize)
  <2>1. ~\E i \in 1 .. NameSize : c[i] = NUL
    BY <1>1, <1>4
  <2> QED BY <1>2, <1>4, <2>1 DEF c, l
<1> QED BY <1>3, <1>4

-----------------------------------------------------------------------------
(* The list of devices                                                     *)

\* A device's field holds the name that it was registered under, cut off at
\* the field's end.
IsDevnode(node) ==
  /\ node = [devname |-> node.devname, accept |-> node.accept, name |-> node.name]
  /\ node.name \in Names
  /\ node.devname \in [1 .. NameSize -> Nat]
  /\ \A j \in 1 .. NameSize : j <= Len(node.name) => node.devname[j] = node.name[j]
  /\ Len(node.name) < NameSize => node.devname[Len(node.name) + 1] = NUL

DevnodesOK ==
  /\ Len(devnodes) \in Nat /\ DOMAIN devnodes = 1 .. Len(devnodes)
  /\ devnodes = [i \in 1 .. Len(devnodes) |-> devnodes[i]]
  /\ \A i \in 1 .. Len(devnodes) : IsDevnode(devnodes[i])

LEMMA StoredOf ==
  ASSUME NEW node, IsDevnode(node)
  PROVE  \A j \in 1 .. NameSize : Stored(node)[j] = node.devname[j]
<1> DEFINE S == Nat \cup {node.accept}
           last == <<node.accept>>
<1>1. node.devname \in Seq(S) /\ last \in Seq(S)
  <2>1. node.devname \in [1 .. NameSize -> S] /\ NameSize \in Nat
    BY NamesAssumption DEF IsDevnode
  <2>2. last \in Seq(S)
    OBVIOUS
  <2> HIDE DEF S, last
  <2> QED BY <2>1, <2>2, SeqDef
<1>2. Len(node.devname) = NameSize /\ Len(last) = 1
  BY NamesAssumption DEF IsDevnode
<1> HIDE DEF S, last
<1> DEFINE both == node.devname \o last
<1>3. \A i \in 1 .. Len(node.devname) + Len(last) :
        both[i] = IF i <= Len(node.devname) THEN node.devname[i] ELSE last[i - Len(node.devname)]
  BY <1>1, ConcatProperties
<1>4. Stored(node) = both
  BY DEF Stored, last
<1> HIDE DEF both
<1>5. ASSUME NEW j \in 1 .. NameSize PROVE both[j] = node.devname[j]
  <2>1. j \in 1 .. Len(node.devname) + Len(last) /\ j <= Len(node.devname)
    BY <1>2, NamesAssumption
  <2> QED BY <1>3, <2>1
<1> QED BY <1>4, <1>5

\* strncmp() of a device's field and a name that is shorter.
LEMMA SameName ==
  ASSUME NEW node, IsDevnode(node), NEW name \in Names, Len(name) < NameSize
  PROVE  Same(Stored(node), Caller(name), NameSize) <=> node.name = name
<1> DEFINE s == Stored(node)
           c == Caller(name)
           l == Len(name)
           m == node.name
<1>1. /\ l \in Nat /\ l < NameSize /\ NameSize \in Nat \ {0}
      /\ DOMAIN name = 1 .. l /\ name = [j \in 1 .. l |-> name[j]]
      /\ \A j \in 1 .. l : c[j] = name[j] /\ name[j] # NUL
      /\ c[l + 1] = NUL
  <2>1. /\ Len(name) \in Nat /\ DOMAIN name = 1 .. Len(name)
        /\ \A j \in 1 .. Len(name) : c[j] = name[j] /\ name[j] # NUL
    BY NameOf, CallerOf DEF IsName, IsCaller
  <2>2. c[l + 1] = NUL
    BY CallerOf, NamesAssumption DEF IsCaller
  <2>3. name = [j \in 1 .. l |-> name[j]]
    BY NamesAssumption, <2>1
  <2> QED BY <2>1, <2>2, <2>3, NamesAssumption
<1>2. /\ Len(m) \in Nat /\ DOMAIN m = 1 .. Len(m) /\ m = [j \in 1 .. Len(m) |-> m[j]]
      /\ \A j \in 1 .. Len(m) : m[j] # NUL
  <2>1. m \in Names
    BY DEF IsDevnode
  <2>2. m \in Seq(Nat \ {NUL})
    BY <2>1, NamesAssumption
  <2> QED BY <2>1, <2>2, NameOf DEF IsName
<1>3. /\ \A j \in 1 .. NameSize : j <= Len(m) => s[j] = m[j]
      /\ Len(m) < NameSize => s[Len(m) + 1] = NUL
  <2>1. \A j \in 1 .. NameSize : s[j] = node.devname[j]
    BY StoredOf
  <2>2. Len(m) < NameSize => Len(m) + 1 \in 1 .. NameSize
    BY <1>1, <1>2
  <2> HIDE DEF s
  <2> QED BY <2>1, <2>2 DEF IsDevnode
<1> HIDE DEF s, c, l, m
<1>4. ASSUME Same(s, c, NameSize) PROVE m = name
  <2>1. PICK i \in 1 .. NameSize + 1 :
          /\ \A j \in 1 .. i - 1 : s[j] = c[j] /\ s[j] # NUL
          /\ s[i] = c[i]
          /\ s[i] = NUL \/ i = NameSize + 1
    BY <1>4 DEF Same
  <2>2. i <= l + 1
    <3>1. SUFFICES ASSUME i > l + 1 PROVE FALSE
      BY <1>1
    <3>2. l + 1 \in 1 .. i - 1
      BY <1>1, <3>1
    <3> QED BY <1>1, <2>1, <3>2
  <2>3. s[i] = NUL
    BY <1>1, <2>1, <2>2
  <2>4. i = l + 1
    <3>1. i \notin 1 .. l
      BY <1>1, <2>1, <2>3
    <3> QED BY <1>1, <2>2, <3>1
  <2>5. \A j \in 1 .. l : s[j] = name[j] /\ s[j] # NUL
    BY <1>1, <2>1, <2>4
  <2>6. Len(m) = l
    <3>1. Len(m) <= l
      <4>1. SUFFICES ASSUME Len(m) > l PROVE FALSE
        BY <1>1, <1>2
      <4>2. l + 1 \in 1 .. NameSize /\ l + 1 \in 1 .. Len(m)
        BY <1>1, <1>2, <4>1
      <4> QED BY <1>2, <1>3, <2>3, <2>4, <4>2
    <3>2. Len(m) >= l
      <4>1. SUFFICES ASSUME Len(m) < l PROVE FALSE
        BY <1>1, <1>2
      <4>2. Len(m) + 1 \in 1 .. l /\ Len(m) < NameSize
        BY <1>1, <1>2, <4>1
      <4> QED BY <1>3, <2>5, <4>2
    <3> QED BY <1>1, <1>2, <3>1, <3>2
  <2>7. ASSUME NEW j \in 1 .. l PROVE m[j] = name[j]
    <3>1. j \in 1 .. NameSize /\ j <= Len(m)
      BY <1>1, <2>6
    <3> QED BY <1>3, <2>5, <3>1
  <2> QED BY <1>1, <1>2, <2>6, <2>7
<1>5. ASSUME m = name PROVE Same(s, c, NameSize)
  <2>1. Len(m) = l
    BY <1>5 DEF l
  <2>2. \A j \in 1 .. (l + 1) - 1 : s[j] = c[j] /\ s[j] # NUL
    BY <1>1, <1>3, <1>5, <2>1
  <2>3. l + 1 \in 1 .. NameSize + 1 /\ s[l + 1] = NUL
    BY <1>1, <1>3, <2>1
  <2> QED BY <1>1, <2>2, <2>3 DEF Same
<1> QED BY <1>4, <1>5 DEF s, c, m

\* The walk returns a node that strncmp() finds equal, if there is one.
LEMMA FindOf ==
  ASSUME DevnodesOK, NEW name
  PROVE  \/ /\ Find(name) = 0
            /\ \A i \in DOMAIN devnodes : ~Same(Stored(devnodes[i]), Caller(name), NameSize)
         \/ /\ Find(name) \in DOMAIN devnodes
            /\ Same(Stored(devnodes[Find(name)]), Caller(name), NameSize)
<1> DEFINE found == {i \in DOMAIN devnodes : Same(Stored(devnodes[i]), Caller(name), NameSize)}
<1>1. Find(name) = IF found = {} THEN 0 ELSE CHOOSE i \in found : \A j \in found : i <= j
  BY DEF Find
<1>2. CASE found = {}
  BY <1>1, <1>2
<1>3. CASE found # {}
  <2>1. found \in SUBSET Nat
    BY DEF DevnodesOK
  <2>2. Find(name) = CHOOSE i \in found : \A j \in found : i <= j
    BY <1>1, <1>3
  <2>3. Find(name) \in found
    <3> HIDE DEF found
    <3>1. \E i \in found : \A j \in found : i <= j
      BY <1>3, <2>1, ScreenFold!LeastNumber
    <3> QED BY <2>2, <3>1
  <2> QED BY <2>3
<1> QED BY <1>2, <1>3

\* devnode_register() writes the name into a field of any contents.
LEMMA RegisterOK ==
  ASSUME DevnodesOK, NEW name \in Names, Register(name)
  PROVE  DevnodesOK'
<1>1. PICK fresh \in [1 .. NameSize -> Junk], word \in Junk :
        devnodes' =
          <<[devname |-> Memcpy(fresh, Caller(name), Strlen(Caller(name), NameSize)),
             accept |-> word, name |-> name]>> \o devnodes
  BY DEF Register
<1> DEFINE copied == Memcpy(fresh, Caller(name), Strlen(Caller(name), NameSize))
           node == [devname |-> copied, accept |-> word, name |-> name]
           l == Len(name)
           c == Caller(name)
<1>2. /\ l \in Nat /\ NameSize \in Nat \ {0} /\ Junk \subseteq Nat
      /\ \A j \in 1 .. l : c[j] = name[j] /\ name[j] \in Nat
      /\ \A j \in 1 .. NameSize + 1 : c[l + j] = NUL
  BY NameOf, CallerOf, NamesAssumption DEF IsName, IsCaller
<1>3. copied = [i \in 1 .. NameSize |->
                  IF i <= (IF l < NameSize THEN l + 1 ELSE NameSize) THEN c[i] ELSE fresh[i]]
  BY StrlenOf DEF Memcpy
<1> HIDE DEF copied, c, l
<1>4. IsDevnode(node)
  <2>1. copied \in [1 .. NameSize -> Nat]
    <3>1. ASSUME NEW i \in 1 .. NameSize PROVE copied[i] \in Nat
      <4>1. fresh[i] \in Nat
        BY <1>2
      <4>2. CASE i <= l
        BY <1>2, <1>3, <4>2
      <4>3. CASE i > l
        <5>1. i - l \in 1 .. NameSize + 1 /\ l + (i - l) = i
          BY <1>2, <4>3
        <5>2. c[i] = NUL
          BY <1>2, <5>1
        <5> QED BY <1>3, <4>1, <5>2 DEF NUL
      <4> QED BY <1>2, <4>2, <4>3
    <3> QED BY <1>3, <3>1
  <2>2. \A j \in 1 .. NameSize : j <= l => copied[j] = name[j]
    BY <1>2, <1>3
  <2>3. l < NameSize => copied[l + 1] = NUL
    <3>1. HAVE l < NameSize
    <3>2. l + 1 \in 1 .. NameSize /\ 1 \in 1 .. NameSize + 1
      BY <1>2, <3>1
    <3> QED BY <1>2, <1>3, <3>1, <3>2
  <2> QED BY <2>1, <2>2, <2>3 DEF IsDevnode, l
<1> HIDE DEF node
<1> DEFINE first == <<node>>
           S == {node} \cup {devnodes[i] : i \in 1 .. Len(devnodes)}
           n == Len(devnodes)
<1>5. n \in Nat /\ devnodes \in Seq(S) /\ first \in Seq(S) /\ Len(first) = 1 /\ first[1] = node
  <2>1. n \in Nat /\ devnodes \in [1 .. n -> S]
    BY DEF DevnodesOK
  <2>2. first \in Seq(S) /\ Len(first) = 1 /\ first[1] = node
    OBVIOUS
  <2> HIDE DEF n, S, first
  <2> QED BY <2>1, <2>2, SeqDef
<1>6. devnodes' = first \o devnodes
  BY <1>1 DEF node, copied
<1> HIDE DEF first, S
<1>7. /\ devnodes' \in Seq(S) /\ Len(devnodes') = 1 + n
      /\ \A i \in 1 .. 1 + n : devnodes'[i] = IF i <= 1 THEN first[i] ELSE devnodes[i - 1]
  BY <1>5, <1>6, ConcatProperties
<1>8. \A i \in 1 .. 1 + n : IsDevnode(devnodes'[i])
  <2>1. ASSUME NEW i \in 1 .. 1 + n PROVE IsDevnode(devnodes'[i])
    <3>1. CASE i = 1
      BY <1>4, <1>5, <1>7, <3>1
    <3>2. CASE i # 1
      <4>1. i - 1 \in 1 .. n /\ ~(i <= 1)
        BY <1>5, <3>2
      <4> QED BY <1>7, <4>1 DEF DevnodesOK
    <3> QED BY <3>1, <3>2
  <2> QED BY <2>1
<1>9. /\ Len(devnodes') \in Nat /\ DOMAIN devnodes' = 1 .. Len(devnodes')
      /\ devnodes' = [i \in 1 .. Len(devnodes') |-> devnodes'[i]]
  BY <1>7, LenProperties
<1> QED BY <1>7, <1>8, <1>9 DEF DevnodesOK

\* devnode_accept() writes only behind the name.
LEMMA AcceptOK ==
  ASSUME DevnodesOK, NEW name, NEW id, AcceptAs(name, id)
  PROVE  DevnodesOK'
<1>1. PICK k : k = Find(name)
  OBVIOUS
<1>2. k \in 1 .. Len(devnodes)
  BY <1>1, FindOf DEF AcceptAs, DevnodesOK
<1> DEFINE node == [devnodes[k] EXCEPT !.accept = id]
<1>3. devnodes' = [devnodes EXCEPT ![k] = node]
  BY <1>1 DEF AcceptAs
<1>4. IsDevnode(node)
  <2>1. IsDevnode(devnodes[k])
    BY <1>2 DEF DevnodesOK
  <2>2. PICK old : old = devnodes[k]
    OBVIOUS
  <2>3. old = [devname |-> old.devname, accept |-> old.accept, name |-> old.name]
    BY <2>1, <2>2 DEF IsDevnode
  <2>4. [old EXCEPT !.accept = id] = [devname |-> old.devname, accept |-> id, name |-> old.name]
    BY <2>3
  <2> DEFINE new == [old EXCEPT !.accept = id]
  <2>5. /\ new.devname = old.devname /\ new.name = old.name
        /\ new = [devname |-> new.devname, accept |-> new.accept, name |-> new.name]
    BY <2>4
  <2>6. node = new
    BY <2>2
  <2> HIDE DEF new, node
  <2> QED BY <2>1, <2>2, <2>5, <2>6 DEF IsDevnode
<1> HIDE DEF node
<1>5. /\ DOMAIN devnodes' = DOMAIN devnodes /\ Len(devnodes') = Len(devnodes)
      /\ devnodes' = [i \in 1 .. Len(devnodes) |-> devnodes'[i]]
      /\ \A i \in 1 .. Len(devnodes) : devnodes'[i] = IF i = k THEN node ELSE devnodes[i]
  <2>1. PICK n : n = Len(devnodes)
    OBVIOUS
  <2>2. n \in Nat /\ DOMAIN devnodes = 1 .. n /\ k \in 1 .. n
    BY <1>2, <2>1 DEF DevnodesOK
  <2>3. /\ devnodes' = [i \in 1 .. n |-> devnodes'[i]]
        /\ \A i \in 1 .. n : devnodes'[i] = IF i = k THEN node ELSE devnodes[i]
    BY <1>3, <2>2
  <2>4. DOMAIN devnodes' = 1 .. n
    BY <1>3, <2>2
  <2>5. Len(devnodes') = n
    BY <2>2, <2>3
  <2> QED BY <2>1, <2>2, <2>3, <2>4, <2>5
<1> QED BY <1>4, <1>5 DEF DevnodesOK

\* A name shorter than the field finds the device registered under it and no
\* other, for names of any number, length and characters, whatever the fields
\* held before and whatever numbers stand behind them
\* (device_interface.c:36-50, bootvideo.c:156-198).
THEOREM NamesFindTheirDevices == TextSpec => []FindsByName
<1>1. TextInit => DevnodesOK
  BY DEF TextInit, NamesInit, DevnodesOK
<1>2. DevnodesOK /\ [TextNext]_<<screenVars, devnodes>> => DevnodesOK'
  <2> SUFFICES ASSUME DevnodesOK, [TextNext]_<<screenVars, devnodes>> PROVE DevnodesOK'
    OBVIOUS
  <2>1. CASE UNCHANGED devnodes
    BY <2>1 DEF DevnodesOK
  <2>2. CASE NamesNext
    BY <2>2, RegisterOK, AcceptOK DEF NamesNext
  <2> QED BY <2>1, <2>2 DEF TextNext
<1>3. DevnodesOK => FindsByName
  <2> SUFFICES ASSUME DevnodesOK, NEW name \in Names, Len(name) < NameSize
               PROVE  IF Find(name) = 0 THEN \A i \in DOMAIN devnodes : devnodes[i].name # name
                      ELSE devnodes[Find(name)].name = name
    BY DEF FindsByName
  <2>1. \A i \in DOMAIN devnodes :
          Same(Stored(devnodes[i]), Caller(name), NameSize) <=> devnodes[i].name = name
    BY SameName DEF DevnodesOK
  <2>2. 0 \notin DOMAIN devnodes
    BY DEF DevnodesOK
  <2>3. CASE Find(name) = 0
    BY <2>1, <2>2, <2>3, FindOf
  <2>4. CASE Find(name) # 0
    BY <2>1, <2>4, FindOf
  <2> QED BY <2>3, <2>4
<1> QED BY <1>1, <1>2, <1>3, PTL DEF TextSpec

-----------------------------------------------------------------------------
(* What is printed                                                         *)

\* A sequence with one element more.
LEMMA AppendOf ==
  ASSUME NEW S, NEW s \in Seq(S), NEW e \in S
  PROVE  /\ Append(s, e) \in Seq(S) /\ Len(Append(s, e)) = Len(s) + 1
         /\ \A n \in 1 .. Len(s) : Append(s, e)[n] = s[n]
         /\ Append(s, e)[Len(s) + 1] = e
<1>1. Len(s) \in Nat /\ s \in [1 .. Len(s) -> S]
  BY LenProperties
<1> QED BY <1>1

LEMMA DigitIsChar == ASSUME NEW i \in 1 .. 16 PROVE Digits[i] \in ToSet(Digits) /\ Digits[i] \in Char
<1>1. DOMAIN Digits = 1 .. 16
  BY DEF Digits
<1>2. Digits[i] \in ToSet(Digits)
  BY <1>1 DEF ToSet
<1> QED BY <1>2, CharAssumption
\* One more digit, as Value folds it in.
ValueStep(q, n, c) == n * Divisor(q) + Position(c)

ValueFold == INSTANCE Recursion WITH Step <- ValueStep, Keeps <- Nothing

LEMMA ValueIs ==
  ASSUME NEW base, NEW chars
  PROVE  Value(base, chars) = ValueFold!Folded(base, 0, chars)
BY DEF Value, ValueFold!Folded, ValueFold!FoldLeft, ValueFold!MapThenFoldSet, ValueFold!Max,
   FoldLeft, MapThenFoldSet, Max, ValueStep

LEMMA DigitsDiffer == ASSUME NEW i \in 1 .. 16, NEW j \in 1 .. 16, Digits[i] = Digits[j] PROVE i = j
BY DEF Digits

LEMMA PositionOf == ASSUME NEW i \in 1 .. 16 PROVE Position(Digits[i]) = i - 1
<1> PICK j : j = CHOOSE k \in 1 .. 16 : Digits[k] = Digits[i]
  OBVIOUS
<1>1. j \in 1 .. 16 /\ Digits[j] = Digits[i]
  OBVIOUS
<1>2. j = i
  BY <1>1, DigitsDiffer
<1> QED BY <1>2 DEF Position

\* The shortest digits for n.
IsNumeral(chars, n, base) ==
  /\ chars \in Seq(Char) /\ Len(chars) \in Nat \ {0}
  /\ \A i \in 1 .. Len(chars) : chars[i] \in ToSet(Digits)
  /\ Value(base, chars) = n
  /\ n = 0 => Len(chars) = 1
  /\ n # 0 => chars[1] # "0"

LEMMA OneNumeral ==
  ASSUME NEW base, NEW n \in 0 .. Divisor(base) - 1
  PROVE  IsNumeral(<<Digits[n + 1]>>, n, base)
<1> PICK i : i = n + 1
  OBVIOUS
<1> PICK c : c = Digits[i]
  OBVIOUS
<1>1. Divisor(base) \in {10, 16} /\ n \in Nat /\ i \in 1 .. 16
  BY DEF Divisor
<1>2. c \in Char /\ c \in ToSet(Digits) /\ Position(c) = n
  BY <1>1, DigitIsChar, PositionOf
<1>3. PICK s : s = <<c>>
  OBVIOUS
<1>4. s \in Seq(Char) /\ Len(s) = 1 /\ s[1] = c /\ DOMAIN s = 1 .. 1
  BY <1>2, <1>3
<1>5. Value(base, s) = n
  <2>1. PICK one : one = 1
    OBVIOUS
  <2>2. one \in Nat /\ DOMAIN s = 1 .. one
    BY <1>4, <2>1
  <2>3. PICK h : ValueFold!IsFold(h, base, 0, s, one) /\ ValueFold!Folded(base, 0, s) = h[one]
    BY <2>2, ValueFold!FoldSteps
  <2>4. h[0] = 0 /\ h[1] = ValueStep(base, h[1 - 1], s[1])
    BY <2>1, <2>3 DEF ValueFold!IsFold
  <2>5. h[1] = n
    BY <1>1, <1>2, <1>4, <2>4 DEF ValueStep
  <2> QED BY <2>1, <2>3, <2>5, ValueIs
<1>6. n # 0 => c # "0"
  <2>1. Digits[1] = "0"
    BY DEF Digits
  <2>2. n # 0 => i # 1
    BY <1>1
  <2>3. 1 \in 1 .. 16
    OBVIOUS
  <2> QED BY <1>1, <2>1, <2>2, <2>3, DigitsDiffer
<1>7. IsNumeral(s, n, base)
  BY <1>2, <1>4, <1>5, <1>6 DEF IsNumeral
<1> QED BY <1>3, <1>7

LEMMA LongerNumeral ==
  ASSUME NEW base, NEW m \in Nat \ {0}, NEW chars, IsNumeral(chars, m, base),
         NEW k \in 0 .. Divisor(base) - 1
  PROVE  IsNumeral(Append(chars, Digits[k + 1]), m * Divisor(base) + k, base)
<1> PICK i : i = k + 1
  OBVIOUS
<1> PICK c : c = Digits[i]
  OBVIOUS
<1> PICK n : n = Len(chars)
  OBVIOUS
<1>1. Divisor(base) \in {10, 16} /\ k \in Nat /\ i \in 1 .. 16 /\ n \in Nat \ {0}
  BY DEF Divisor, IsNumeral
<1>2. c \in Char /\ c \in ToSet(Digits) /\ Position(c) = k
  <2>1. Position(c) = i - 1
    BY <1>1, PositionOf
  <2>2. c \in Char /\ c \in ToSet(Digits)
    BY <1>1, DigitIsChar
  <2> QED BY <1>1, <2>1, <2>2
<1>3. PICK s : s = Append(chars, c)
  OBVIOUS
<1>4. /\ s \in Seq(Char) /\ Len(s) = n + 1 /\ s[n + 1] = c
      /\ \A j \in 1 .. n : s[j] = chars[j]
  BY <1>2, <1>3, AppendOf DEF IsNumeral
<1>5. Value(base, s) = m * Divisor(base) + k
  <2>1. PICK l : l = n + 1
    OBVIOUS
  <2>2. /\ l \in Nat \ {0} /\ DOMAIN s = 1 .. l /\ DOMAIN chars = 1 .. l - 1
        /\ \A j \in 1 .. l - 1 : chars[j] = s[j]
    <3>1. DOMAIN s = 1 .. n + 1 /\ DOMAIN chars = 1 .. n
      BY <1>4, LenProperties DEF IsNumeral
    <3> QED BY <1>1, <1>4, <2>1, <3>1
  <2>3. ValueFold!Folded(base, 0, s) = ValueStep(base, ValueFold!Folded(base, 0, chars), s[l])
    BY <2>2, ValueFold!FoldLast
  <2>4. Value(base, s) = ValueStep(base, m, c)
    BY <1>4, <2>1, <2>3, ValueIs DEF IsNumeral
  <2> QED BY <1>2, <2>4 DEF ValueStep
<1>6. m * Divisor(base) + k # 0
  BY <1>1
<1>7. \A j \in 1 .. n + 1 : s[j] \in ToSet(Digits)
  <2>1. \A j \in 1 .. n + 1 : j \in 1 .. n \/ j = n + 1
    BY <1>1
  <2> QED BY <1>2, <1>4, <2>1 DEF IsNumeral
<1>8. s[1] # "0"
  BY <1>1, <1>4 DEF IsNumeral
<1>9. IsNumeral(s, m * Divisor(base) + k, base)
  BY <1>1, <1>4, <1>5, <1>6, <1>7, <1>8 DEF IsNumeral
<1> QED BY <1>3, <1>9

LEMMA ReverseOf ==
  ASSUME NEW s \in Seq(Char)
  PROVE  /\ Reverse(s) \in Seq(Char) /\ Len(Reverse(s)) = Len(s)
         /\ \A i \in 1 .. Len(s) : Reverse(s)[i] = s[(Len(s) - i) + 1]
<1> PICK n : n = Len(s)
  OBVIOUS
<1>1. n \in Nat
  OBVIOUS
<1>2. ASSUME NEW i \in 1 .. n PROVE s[(n - i) + 1] \in Char
  <2>1. (n - i) + 1 \in 1 .. n
    BY <1>1
  <2> QED BY <2>1, ElementOfSeq
<1>3. PICK r : r = [i \in 1 .. n |-> s[(n - i) + 1]]
  OBVIOUS
<1>4. r \in [1 .. n -> Char]
  BY <1>2, <1>3
<1>5. r \in Seq(Char)
  BY <1>1, <1>4, SeqDef
<1>6. Len(r) = n
  BY <1>1, <1>3
<1> QED BY <1>3, <1>5, <1>6 DEF Reverse

\* What comes first comes last.
LEMMA ReverseJoin ==
  ASSUME NEW s \in Seq(Char), NEW c \in Char
  PROVE  /\ <<c>> \o s \in Seq(Char) /\ Len(<<c>> \o s) = Len(s) + 1
         /\ Reverse(<<c>> \o s) = Append(Reverse(s), c)
<1> PICK n : n = Len(s)
  OBVIOUS
<1>1. PICK one : one = <<c>>
  OBVIOUS
<1>2. PICK t : t = one \o s
  OBVIOUS
<1>3. n \in Nat /\ one \in Seq(Char) /\ Len(one) = 1 /\ one[1] = c
  BY <1>1
<1>4. /\ t \in Seq(Char) /\ Len(t) = 1 + n
      /\ \A i \in 1 .. 1 + n : t[i] = IF i <= 1 THEN one[i] ELSE s[i - 1]
  <2>1. /\ one \o s \in Seq(Char) /\ Len(one \o s) = Len(one) + Len(s)
        /\ \A i \in 1 .. Len(one) + Len(s) :
             (one \o s)[i] = IF i <= Len(one) THEN one[i] ELSE s[i - Len(one)]
    BY <1>3, ConcatProperties
  <2> QED BY <1>2, <1>3, <2>1
<1>5. PICK r, a : r = Reverse(t) /\ a = Append(Reverse(s), c)
  OBVIOUS
<1>6. /\ r \in Seq(Char) /\ Len(r) = n + 1
      /\ \A i \in 1 .. n + 1 : r[i] = t[((n + 1) - i) + 1]
  <2>1. Len(t) = n + 1
    BY <1>3, <1>4
  <2> QED BY <1>4, <1>5, <2>1, ReverseOf
<1>7. /\ Reverse(s) \in Seq(Char) /\ Len(Reverse(s)) = n
      /\ \A i \in 1 .. n : Reverse(s)[i] = s[(n - i) + 1]
  BY ReverseOf
<1>8. /\ a \in Seq(Char) /\ Len(a) = n + 1 /\ a[n + 1] = c
      /\ \A i \in 1 .. n : a[i] = s[(n - i) + 1]
  <2>1. /\ a \in Seq(Char) /\ Len(a) = Len(Reverse(s)) + 1 /\ a[Len(Reverse(s)) + 1] = c
        /\ \A i \in 1 .. Len(Reverse(s)) : a[i] = Reverse(s)[i]
    BY <1>5, <1>7, AppendOf
  <2> QED BY <1>7, <2>1
<1>9. ASSUME NEW i \in 1 .. n + 1 PROVE r[i] = a[i]
  <2> PICK j : j = ((n + 1) - i) + 1
    OBVIOUS
  <2>1. j \in 1 .. 1 + n /\ r[i] = t[j]
    BY <1>3, <1>6
  <2>2. CASE i = n + 1
    <3>1. j = 1
      BY <1>3, <2>2
    <3>2. t[1] = one[1]
      BY <1>3, <1>4
    <3> QED BY <1>3, <1>8, <2>1, <2>2, <3>1, <3>2
  <2>3. CASE i # n + 1
    <3>1. i \in 1 .. n /\ ~(j <= 1) /\ j - 1 = (n - i) + 1
      BY <1>3, <2>3
    <3>2. t[j] = s[(n - i) + 1]
      BY <1>4, <2>1, <3>1
    <3> QED BY <1>8, <2>1, <3>1, <3>2
  <2> QED BY <2>2, <2>3
<1>10. r = a
  BY <1>6, <1>8, <1>9, SeqEqual
<1> QED BY <1>1, <1>2, <1>3, <1>4, <1>5, <1>10

LEMMA DivisionOf ==
  ASSUME NEW n \in Nat, NEW divisor \in {10, 16}
  PROVE  /\ n % divisor \in 0 .. divisor - 1 /\ n \div divisor \in Nat
         /\ n = (n \div divisor) * divisor + (n % divisor)
         /\ n >= divisor => n \div divisor < n /\ n \div divisor # 0
         /\ \A b \in Nat : n < 10 * b => n \div divisor < b
OBVIOUS

\* One round of itoa()'s loop, with what the later ones give.
Round(f, n, divisor) ==
  IF n < divisor THEN <<Digits[n + 1]>> ELSE <<Digits[(n % divisor) + 1]>> \o f[n \div divisor]

Rounds(f, ud, divisor) == f = [n \in 0 .. ud |-> Round(f, n, divisor)]

LEMMA RoundsExist ==
  ASSUME NEW ud \in Nat, NEW divisor \in {10, 16}
  PROVE  \E f : Rounds(f, ud, divisor)
<1> DEFINE Have == {k \in 0 .. ud : \E f : Rounds(f, k, divisor)}
<1>1. 0 \in Have
  <2> PICK f : f = [n \in 0 .. 0 |-> <<Digits[1]>>]
    OBVIOUS
  <2>1. \A n \in 0 .. 0 : Round(f, n, divisor) = <<Digits[1]>>
    BY DEF Round
  <2>2. Rounds(f, 0, divisor)
    BY <2>1 DEF Rounds
  <2> QED BY <2>2
<1>2. ASSUME NEW k \in 1 .. ud, k - 1 \in Have PROVE k \in Have
  <2>1. PICK g : Rounds(g, k - 1, divisor)
    BY <1>2
  <2> PICK f : f = [n \in 0 .. k |-> IF n = k THEN Round(g, k, divisor) ELSE g[n]]
    OBVIOUS
  <2>2. ASSUME NEW n \in 0 .. k PROVE Round(f, n, divisor) = Round(g, n, divisor)
    <3>1. CASE n < divisor
      BY <3>1 DEF Round
    <3>2. CASE n >= divisor
      <4>1. n \div divisor \in 0 .. k - 1
        BY <3>2, DivisionOf
      <4>2. f[n \div divisor] = g[n \div divisor]
        BY <4>1
      <4> QED BY <4>2 DEF Round
    <3> QED BY <3>1, <3>2
  <2>3. ASSUME NEW n \in 0 .. k PROVE f[n] = Round(f, n, divisor)
    <3>1. CASE n = k
      BY <2>2, <3>1
    <3>2. CASE n # k
      <4>1. n \in 0 .. k - 1
        BY <3>2
      <4>2. g[n] = Round(g, n, divisor)
        BY <2>1, <4>1 DEF Rounds
      <4> QED BY <2>2, <3>2, <4>2
    <3> QED BY <3>1, <3>2
  <2>4. f = [n \in 0 .. k |-> f[n]]
    OBVIOUS
  <2>5. Rounds(f, k, divisor)
    BY <2>3, <2>4 DEF Rounds
  <2> QED BY <2>5
<1> HIDE DEF Have
<1>3. 0 .. ud \subseteq Have
  BY <1>1, <1>2, ScreenFold!UpTo
<1> QED BY <1>3 DEF Have

LEMMA NumeralsOf ==
  ASSUME NEW base, NEW ud \in Nat, NEW f, Rounds(f, ud, Divisor(base))
  PROVE  \A n \in 0 .. ud : f[n] \in Seq(Char) /\ IsNumeral(Reverse(f[n]), n, base)
<1> PICK d : d = Divisor(base)
  OBVIOUS
<1>1. d \in {10, 16}
  BY DEF Divisor
<1> DEFINE Ok(n) == f[n] \in Seq(Char) /\ IsNumeral(Reverse(f[n]), n, base)
           Have == {k \in 0 .. ud : \A n \in 0 .. k : Ok(n)}
<1>2. ASSUME NEW k \in 0 .. ud, \A n \in 0 .. k - 1 : Ok(n) PROVE Ok(k)
  <2>0. \A n \in 0 .. k - 1 : Ok(n)
    BY <1>2
  <2>1. f[k] = Round(f, k, d)
    BY DEF Rounds
  <2>2. CASE k < d
    <3> PICK i : i = k + 1
      OBVIOUS
    <3>1. PICK c : c = Digits[i]
      OBVIOUS
    <3>2. i \in 1 .. 16 /\ k \in 0 .. d - 1
      BY <1>1, <2>2
    <3>3. c \in Char
      BY <3>1, <3>2, DigitIsChar
    <3>4. PICK s : s = <<c>>
      OBVIOUS
    <3>5. s \in Seq(Char) /\ Len(s) = 1 /\ s[1] = c
      BY <3>3, <3>4
    <3>6. Reverse(s) = s
      <4>1. PICK r : r = Reverse(s)
        OBVIOUS
      <4>2. r \in Seq(Char) /\ Len(r) = 1 /\ r[1] = s[1]
        BY <3>5, <4>1, ReverseOf
      <4>3. \A j \in 1 .. Len(r) : r[j] = s[j]
        BY <4>2
      <4> QED BY <3>5, <4>1, <4>2, <4>3, SeqEqual
    <3>7. IsNumeral(s, k, base)
      BY <3>1, <3>2, <3>4, OneNumeral
    <3>8. f[k] = s
      BY <2>1, <2>2, <3>1, <3>4 DEF Round
    <3> QED BY <3>5, <3>6, <3>7, <3>8
  <2>3. CASE ~(k < d)
    <3> PICK m, j : m = k \div d /\ j = k % d
      OBVIOUS
    <3>1. /\ m \in Nat /\ m < k /\ m # 0 /\ j \in 0 .. d - 1 /\ k = m * d + j
      <4>1. k \in Nat /\ k >= d
        BY <1>1, <2>3
      <4> QED BY <1>1, <4>1, DivisionOf
    <3>7. m \in 0 .. k - 1 /\ m \in 0 .. ud /\ m \in Nat \ {0}
      BY <3>1
    <3> PICK c : c = Digits[j + 1]
      OBVIOUS
    <3>2. c \in Char
      <4>1. j + 1 \in 1 .. 16
        <5>1. d \in 0 .. 16
          BY <1>1
        <5>2. j \in 0 .. d - 1
          BY <3>1
        <5>3. \A e \in 0 .. 16 : \A i \in 0 .. e - 1 : i + 1 \in 1 .. 16
          OBVIOUS
        <5> QED BY <5>1, <5>2, <5>3
      <4> QED BY <4>1, DigitIsChar
    <3>3. f[k] = <<c>> \o f[m]
      BY <2>1, <2>3 DEF Round
    <3>4. f[m] \in Seq(Char) /\ IsNumeral(Reverse(f[m]), m, base)
      BY <1>2, <2>0, <3>7
    <3>5. f[k] \in Seq(Char) /\ Reverse(f[k]) = Append(Reverse(f[m]), c)
      BY <3>2, <3>3, <3>4, ReverseJoin
    <3>6. IsNumeral(Append(Reverse(f[m]), c), m * Divisor(base) + j, base)
      BY <3>1, <3>4, <3>7, LongerNumeral
    <3> QED BY <3>1, <3>5, <3>6
  <2> QED BY <2>2, <2>3
<1> HIDE DEF Ok
<1>3. 0 \in Have
  <2> PICK z \in 0 .. ud : z = 0
    OBVIOUS
  <2>1. \A n \in 0 .. z - 1 : Ok(n)
    OBVIOUS
  <2>2. \A n \in 0 .. z : n = z
    OBVIOUS
  <2>3. \A n \in 0 .. z : Ok(n)
    BY <1>2, <2>1, <2>2
  <2>4. z \in Have
    BY <2>3
  <2> QED BY <2>4
<1>4. ASSUME NEW k \in 1 .. ud, k - 1 \in Have PROVE k \in Have
  <2>1. \A n \in 0 .. k - 1 : Ok(n)
    BY <1>4
  <2>2. k \in 0 .. ud /\ \A n \in 0 .. k : n \in 0 .. k - 1 \/ n = k
    OBVIOUS
  <2>3. \A n \in 0 .. k : Ok(n)
    BY <1>2, <2>1, <2>2
  <2> QED BY <2>2, <2>3
<1> HIDE DEF Have
<1>5. 0 .. ud \subseteq Have
  BY <1>3, <1>4, ScreenFold!UpTo
<1>6. \A n \in 0 .. ud : Ok(n)
  BY <1>5 DEF Have
<1> QED BY <1>6 DEF Ok

\* Ten rounds are enough.
Within(f, ud, k, b) == \A n \in 0 .. ud : n < b => Len(f[n]) <= k

LEMMA OneRound ==
  ASSUME NEW ud \in Nat, NEW divisor \in {10, 16}, NEW f, Rounds(f, ud, divisor),
         NEW k \in Nat, NEW b \in Nat, Within(f, ud, k, b),
         \A n \in 0 .. ud : f[n] \in Seq(Char)
  PROVE  Within(f, ud, k + 1, 10 * b)
<1> SUFFICES ASSUME NEW n \in 0 .. ud, n < 10 * b PROVE Len(f[n]) <= k + 1
  BY DEF Within
<1>1. f[n] = Round(f, n, divisor)
  BY DEF Rounds
<1>2. CASE n < divisor
  <2>1. \A c : Len(<<c>>) = 1
    OBVIOUS
  <2>2. f[n] = <<Digits[n + 1]>>
    BY <1>1, <1>2 DEF Round
  <2> QED BY <2>1, <2>2
<1>3. CASE ~(n < divisor)
  <2> PICK m, j : m = n \div divisor /\ j = n % divisor
    OBVIOUS
  <2>1. /\ n \in Nat /\ n >= divisor
        /\ \A e \in Nat : n < 10 * e => m < e
        /\ m \in Nat /\ m < n /\ j \in 0 .. divisor - 1
    <3>1. n \in Nat /\ n >= divisor
      BY <1>3
    <3> QED BY <3>1, DivisionOf
  <2>6. m \in 0 .. ud /\ m < b
    BY <2>1
  <2> PICK c : c = Digits[j + 1]
    OBVIOUS
  <2>2. c \in Char
    <3>1. j + 1 \in 1 .. 16
      BY <2>1
    <3> QED BY <3>1, DigitIsChar
  <2>3. f[n] = <<c>> \o f[m]
    BY <1>1, <1>3 DEF Round
  <2>4. f[m] \in Seq(Char) /\ Len(f[m]) <= k /\ Len(f[m]) \in Nat
    BY <2>6 DEF Within
  <2>5. Len(f[n]) = Len(f[m]) + 1
    BY <2>2, <2>3, <2>4, ReverseJoin
  <2> QED BY <2>4, <2>5
<1> QED BY <1>2, <1>3

OfTenDigits(ud) == ud \in Nat /\ ud \div 1000000000 < 10

LEMMA TenRounds ==
  ASSUME NEW ud \in Nat, OfTenDigits(ud), NEW divisor \in {10, 16},
         NEW f, Rounds(f, ud, divisor), \A n \in 0 .. ud : f[n] \in Seq(Char)
  PROVE  Len(f[ud]) <= 10
<1>1. ASSUME NEW k \in Nat, NEW b \in Nat, Within(f, ud, k, b),
             NEW k1 \in Nat, k1 = k + 1, NEW b1 \in Nat, b1 = 10 * b
      PROVE  Within(f, ud, k1, b1)
  BY <1>1, OneRound
<1>2. Within(f, ud, 1, 10)
  <2>1. ASSUME NEW n \in 0 .. ud, n < 10 PROVE Len(f[n]) <= 1
    <3>1. f[n] = <<Digits[n + 1]>>
      BY <2>1 DEF Rounds, Round
    <3>2. \A c : Len(<<c>>) = 1
      OBVIOUS
    <3>3. Len(f[n]) = 1
      BY <3>1, <3>2
    <3> QED BY <3>3
  <2> QED BY <2>1 DEF Within
<1>3. Within(f, ud, 2, 100)
  BY <1>1, <1>2, SMT
<1>4. Within(f, ud, 3, 1000)
  BY <1>1, <1>3, SMT
<1>5. Within(f, ud, 4, 10000)
  BY <1>1, <1>4, SMT
<1>6. Within(f, ud, 5, 100000)
  BY <1>1, <1>5, SMT
<1>7. Within(f, ud, 6, 1000000)
  BY <1>1, <1>6, SMT
<1>8. Within(f, ud, 7, 10000000)
  BY <1>1, <1>7, SMT
<1>9. Within(f, ud, 8, 100000000)
  BY <1>1, <1>8, SMT
<1>10. Within(f, ud, 9, 1000000000)
  BY <1>1, <1>9, SMT
<1>11. Within(f, ud, 10, 10000000000)
  BY <1>1, <1>10, SMT
<1>12. ud < 10000000000 /\ ud \in 0 .. ud
  BY SMT DEF OfTenDigits
<1> QED BY <1>11, <1>12, SMT DEF Within
\* The loop of itoa(), turned round, leaves the numeral of what it began with.
LEMMA ReversedIsNumeral ==
  ASSUME NEW base, NEW ud \in Nat
  PROVE  /\ IsNumeral(Reverse(Reversed(ud, Divisor(base))), ud, base)
         /\ OfTenDigits(ud) => Len(Reverse(Reversed(ud, Divisor(base)))) <= 10
<1> PICK divisor : divisor = Divisor(base)
  OBVIOUS
<1>1. divisor \in {10, 16} /\ ud \in 0 .. ud
  BY DEF Divisor
<1> PICK f : f = CHOOSE g : Rounds(g, ud, divisor)
  OBVIOUS
<1>2. Rounds(f, ud, divisor)
  BY <1>1, RoundsExist
<1>3. Reversed(ud, divisor) = f[ud]
  BY DEF Reversed, Rounds, Round
<1>4. \A n \in 0 .. ud : f[n] \in Seq(Char) /\ IsNumeral(Reverse(f[n]), n, base)
  BY <1>2, NumeralsOf
<1>5. OfTenDigits(ud) => Len(f[ud]) <= 10
  BY <1>1, <1>2, <1>4, TenRounds
<1>6. Len(Reverse(f[ud])) = Len(f[ud])
  BY <1>1, <1>4, ReverseOf
<1> QED BY <1>1, <1>3, <1>4, <1>5, <1>6

\* A sign is put before, and taken off again.
LEMMA SignOf ==
  ASSUME NEW m \in Seq(Char), NEW c \in Char
  PROVE  /\ <<c>> \o m \in Seq(Char) /\ Len(<<c>> \o m) = Len(m) + 1
         /\ Head(<<c>> \o m) = c /\ Tail(<<c>> \o m) = m
<1>1. PICK one : one = <<c>>
  OBVIOUS
<1>2. PICK t : t = one \o m
  OBVIOUS
<1>3. one \in Seq(Char) /\ Len(one) = 1 /\ one[1] = c /\ Len(m) \in Nat
  BY <1>1
<1>4. /\ t \in Seq(Char) /\ Len(t) = Len(m) + 1 /\ t[1] = c
      /\ \A i \in 1 .. Len(m) : t[i + 1] = m[i]
  <2>1. /\ one \o m \in Seq(Char) /\ Len(one \o m) = Len(one) + Len(m)
        /\ \A i \in 1 .. Len(one) + Len(m) :
             (one \o m)[i] = IF i <= Len(one) THEN one[i] ELSE m[i - Len(one)]
    BY <1>3, ConcatProperties
  <2>2. \A i \in 1 .. Len(m) : i + 1 \in 1 .. 1 + Len(m) /\ ~(i + 1 <= 1) /\ (i + 1) - 1 = i
    BY <1>3
  <2> QED BY <1>2, <1>3, <2>1, <2>2
<1>5. t # <<>>
  BY <1>3, <1>4
<1>6. PICK r : r = Tail(t)
  OBVIOUS
<1>7. /\ Head(t) = t[1] /\ r \in Seq(Char) /\ Len(r) = Len(t) - 1
      /\ \A i \in 1 .. Len(r) : r[i] = t[i + 1]
  BY <1>4, <1>5, <1>6, HeadTailProperties
<1>8. r = m
  <2>1. Len(r) = Len(m)
    BY <1>3, <1>4, <1>7
  <2> QED BY <1>4, <1>7, <2>1, SeqEqual
<1> QED BY <1>1, <1>2, <1>4, <1>6, <1>7, <1>8

LEMMA IntsAre ==
  ASSUME NEW d \in Ints
  PROVE  /\ d \in Int /\ d % IntValues \in Nat /\ OfTenDigits(d % IntValues)
         /\ d < 0 => -d \in Nat /\ (-d) % IntValues = -d /\ OfTenDigits(-d)
<1>1. ASSUME NEW n \in Nat, n < IntValues PROVE OfTenDigits(n)
  BY <1>1, IntAssumption, SMT DEF OfTenDigits
<1> PICK v : v = IntValues
  OBVIOUS
<1>2. v \in Nat \ {0}
  BY IntAssumption, SMT
<1>3. d \in Int /\ d >= -(v \div 2)
  BY <1>2 DEF Ints
<1>4. d % v \in Nat /\ d % v < v
  BY <1>2, <1>3
<1>5. ASSUME d < 0 PROVE -d \in Nat /\ -d < v
  BY <1>2, <1>3, <1>5
<1>6. \A n \in Nat : n < v => n % v = n
  BY <1>2
<1> QED BY <1>1, <1>3, <1>4, <1>5, <1>6

LEMMA ItoaIsSeq ==
  ASSUME NEW base, NEW d \in Ints
  PROVE  Itoa(base, d) \in Seq(Char)
<1>1. CASE base = "d" /\ d < 0
  <2>1. Itoa(base, d) = <<"-">> \o Reverse(Reversed((-d) % IntValues, Divisor(base)))
    BY <1>1 DEF Itoa
  <2>2. Reverse(Reversed((-d) % IntValues, Divisor(base))) \in Seq(Char)
    BY <1>1, IntsAre, ReversedIsNumeral DEF IsNumeral
  <2> QED BY <2>1, <2>2, CharAssumption, SignOf
<1>2. CASE ~(base = "d" /\ d < 0)
  BY <1>2, IntsAre, ReversedIsNumeral DEF Itoa, IsNumeral
<1> QED BY <1>1, <1>2

LEMMA NumeralSet ==
  ASSUME NEW chars, NEW n, NEW base, IsNumeral(chars, n, base)
  PROVE  ToSet(chars) \subseteq ToSet(Digits)
<1>1. chars \in Seq(Char) /\ DOMAIN chars = 1 .. Len(chars)
  BY LenProperties DEF IsNumeral
<1> PICK digits : digits = ToSet(Digits)
  OBVIOUS
<1>2. \A i \in 1 .. Len(chars) : chars[i] \in digits
  BY DEF IsNumeral
<1>3. ToSet(chars) \subseteq digits
  BY <1>1, <1>2 DEF ToSet
<1> QED BY <1>3

\* What itoa() writes denotes the number, for every base and every int.
LEMMA ItoaDenotes ==
  ASSUME NEW base, NEW d \in Ints
  PROVE  Denotes(base, d, Itoa(base, d))
<1>1. ASSUME NEW chars, NEW n \in Nat, IsNumeral(chars, n, base), Len(chars) <= 10
      PROVE  /\ Len(chars) \in Nat /\ ToSet(chars) \subseteq ToSet(Digits)
             /\ Value(base, chars) = n /\ (Len(chars) > 1 => Head(chars) # "0")
  <2>1. /\ chars \in Seq(Char) /\ Len(chars) \in Nat \ {0} /\ Value(base, chars) = n
        /\ Len(chars) > 1 => chars[1] # "0"
    BY <1>1 DEF IsNumeral
  <2>2. Head(chars) = chars[1]
    BY <2>1, HeadTailProperties
  <2> QED BY <1>1, <2>1, <2>2, NumeralSet
<1>2. CASE base = "d" /\ d < 0
  <2>1. PICK m : m = Reverse(Reversed((-d) % IntValues, Divisor(base)))
    OBVIOUS
  <2>2. IsNumeral(m, -d, base) /\ Len(m) <= 10 /\ -d \in Nat
    BY <1>2, <2>1, IntsAre, ReversedIsNumeral
  <2>3. PICK s : s = <<"-">> \o m
    OBVIOUS
  <2>4. Len(s) = Len(m) + 1 /\ Head(s) = "-" /\ Tail(s) = m
    BY <2>2, <2>3, CharAssumption, SignOf DEF IsNumeral
  <2>5. /\ Len(m) \in Nat /\ ToSet(m) \subseteq ToSet(Digits)
        /\ Value(base, m) = -d /\ (Len(m) > 1 => Head(m) # "0")
    BY <1>1, <2>2
  <2>6. Denotes(base, d, s)
    <3>1. Len(s) < 20
      BY <2>2, <2>4, <2>5
    <3> QED BY <1>2, <2>4, <2>5, <3>1 DEF Denotes
  <2>7. Itoa(base, d) = s
    BY <1>2, <2>1, <2>3 DEF Itoa
  <2> QED BY <2>6, <2>7
<1>3. CASE ~(base = "d" /\ d < 0)
  <2>1. PICK m : m = Reverse(Reversed(d % IntValues, Divisor(base)))
    OBVIOUS
  <2>2. IsNumeral(m, d % IntValues, base) /\ Len(m) <= 10 /\ d % IntValues \in Nat
    BY <2>1, IntsAre, ReversedIsNumeral
  <2>3. /\ Len(m) \in Nat /\ ToSet(m) \subseteq ToSet(Digits)
        /\ Value(base, m) = d % IntValues /\ (Len(m) > 1 => Head(m) # "0")
    BY <1>1, <2>2
  <2>4. Denotes(base, d, m)
    <3>1. Len(m) < 20
      BY <2>2, <2>3
    <3> QED BY <1>3, <2>3, <3>1 DEF Denotes
  <2>5. Itoa(base, d) = m
    BY <1>3, <2>1 DEF Itoa
  <2> QED BY <2>4, <2>5
<1> QED BY <1>2, <1>3

LEMMA StringIsSeq == ASSUME NEW p \in Seq(Char) \cup {NoString} PROVE String(p) \in Seq(Char)
<1>1. <<"(", "n", "u", "l", "l", ")">> \in Seq(Char)
  BY CharAssumption
<1> QED BY <1>1 DEF String

LEMMA ConvertedIsSeq ==
  ASSUME NEW c \in Char, NEW a, a \in Kind(c, {"d", "u", "x", "l"})
  PROVE  Converted(c, a) \in Seq(Char)
<1>1. CASE c \in {"d", "u", "x", "l"}
  BY <1>1, ItoaIsSeq DEF Kind, Converted
<1>2. CASE c \notin {"d", "u", "x", "l"} /\ c = "s"
  BY <1>2, StringIsSeq DEF Kind, Converted
<1>3. CASE c \notin {"d", "u", "x", "l"} /\ c # "s"
  <2>1. a \in Char /\ Converted(c, a) = <<a>>
    BY <1>3 DEF Kind, Converted
  <2> QED BY <2>1
<1> QED BY <1>1, <1>2, <1>3

LEMMA LibConvertedIsSeq ==
  ASSUME NEW c \in Char, NEW a, a \in Kind(c, {"d", "u", "x"})
  PROVE  LibConverted(c, a) \in Seq(Char)
<1>1. CASE c \in {"d", "u", "x"}
  BY <1>1, ItoaIsSeq DEF Kind, LibConverted, LibItoa
<1>2. CASE c \notin {"d", "u", "x"} /\ c = "s"
  BY <1>2, StringIsSeq DEF Kind, LibConverted
<1>3. CASE c \notin {"d", "u", "x"} /\ c # "s"
  <2>1. a \in Char /\ LibConverted(c, a) = <<a>>
    BY <1>3 DEF Kind, LibConverted
  <2> QED BY <2>1
<1> QED BY <1>1, <1>2, <1>3
-----------------------------------------------------------------------------
(* The folds of the model: formats, lines and the screen                   *)

FormatStep(q, s, c) ==
  IF ~s.percent THEN Plain(s, c) ELSE Written(s, Converted(c, q[s.arg]))

LibFormatStep(q, s, c) ==
  IF ~s.percent THEN Plain(s, c) ELSE Written(s, LibConverted(c, q[s.arg]))

KernelFold == INSTANCE Recursion WITH Step <- FormatStep, Keeps <- Nothing
LibFold == INSTANCE Recursion WITH Step <- LibFormatStep, Keeps <- Nothing

Start == [out |-> <<>>, arg |-> 1, percent |-> FALSE]

LEMMA FormattedIs ==
  ASSUME NEW format, NEW args
  PROVE  Formatted(format, args, Converted) = KernelFold!Folded(args, Start, format)
BY DEF Formatted, KernelFold!Folded, KernelFold!FoldLeft, KernelFold!MapThenFoldSet, KernelFold!Max,
   FoldLeft, MapThenFoldSet, Max, FormatStep, Start

LEMMA LibFormattedIs ==
  ASSUME NEW format, NEW args
  PROVE  Formatted(format, args, LibConverted) = LibFold!Folded(args, Start, format)
BY DEF Formatted, LibFold!Folded, LibFold!FoldLeft, LibFold!MapThenFoldSet, LibFold!Max,
   FoldLeft, MapThenFoldSet, Max, LibFormatStep, Start

LEMMA PrefixOf ==
  ASSUME NEW S, NEW seq \in Seq(S), NEW i \in 0 .. Len(seq)
  PROVE  /\ SubSeq(seq, 1, i) \in Seq(S) /\ Len(SubSeq(seq, 1, i)) = i
         /\ DOMAIN SubSeq(seq, 1, i) = 1 .. i
         /\ \A j \in 1 .. i : SubSeq(seq, 1, i)[j] = seq[j]
<1> PICK p : p = SubSeq(seq, 1, i)
  OBVIOUS
<1>1. i \in Nat /\ \A j \in 1 .. i : seq[j] \in S
  BY ElementOfSeq
<1>2. /\ p \in Seq(S) /\ Len(p) = IF 1 <= i THEN i - 1 + 1 ELSE 0
      /\ \A j \in 1 .. i - 1 + 1 : p[j] = seq[1 + j - 1]
  BY <1>1, SubSeqProperties
<1>3. Len(p) = i /\ \A j \in 1 .. i : p[j] = seq[j]
  BY <1>1, <1>2
<1>4. DOMAIN p = 1 .. i
  BY <1>2, <1>3, LenProperties
<1> QED BY <1>2, <1>3, <1>4

IsWritten(s) ==
  /\ s = [out |-> s.out, arg |-> s.arg, percent |-> s.percent]
  /\ s.out \in Seq(Char)

LEMMA StartWritten == IsWritten(Start)
<1>1. Start.out = <<>> /\ Start = [out |-> Start.out, arg |-> Start.arg, percent |-> Start.percent]
  BY DEF Start
<1>2. <<>> \in Seq(Char)
  OBVIOUS
<1> QED BY <1>1, <1>2 DEF IsWritten

LEMMA PlainWritten ==
  ASSUME NEW s, IsWritten(s), NEW c \in Char
  PROVE  IsWritten(Plain(s, c))
<1>1. CASE c = "%"
  <2> PICK t : t = [s EXCEPT !.percent = TRUE]
    OBVIOUS
  <2>1. t.out = s.out /\ t = [out |-> t.out, arg |-> t.arg, percent |-> t.percent]
    BY DEF IsWritten
  <2>2. Plain(s, c) = t
    BY <1>1 DEF Plain
  <2> QED BY <2>1, <2>2 DEF IsWritten
<1>2. CASE c # "%"
  <2> PICK o : o = Append(s.out, c)
    OBVIOUS
  <2>1. o \in Seq(Char)
    BY AppendOf DEF IsWritten
  <2> PICK t : t = [s EXCEPT !.out = Append(@, c)]
    OBVIOUS
  <2>2. t.out = o /\ t = [out |-> t.out, arg |-> t.arg, percent |-> t.percent]
    BY DEF IsWritten
  <2>3. Plain(s, c) = t
    BY <1>2 DEF Plain
  <2> QED BY <2>1, <2>2, <2>3 DEF IsWritten
<1> QED BY <1>1, <1>2

LEMMA WrittenWritten ==
  ASSUME NEW s, IsWritten(s), NEW chars \in Seq(Char)
  PROVE  IsWritten(Written(s, chars))
<1> PICK t : t = Written(s, chars)
  OBVIOUS
<1> PICK o : o = s.out \o chars
  OBVIOUS
<1>1. o \in Seq(Char)
  BY ConcatProperties DEF IsWritten
<1>2. t.out = o /\ t = [out |-> t.out, arg |-> t.arg, percent |-> t.percent]
  BY DEF Written
<1> QED BY <1>1, <1>2 DEF IsWritten

\* Each character of a format is copied, or converts an argument to characters.
Formats(read, format, n) ==
  /\ read[0] = Start
  /\ \A i \in 1 .. n :
       \/ read[i] = Plain(read[i - 1], format[i])
       \/ \E chars \in Seq(Char) : read[i] = Written(read[i - 1], chars)

LEMMA FormatsToChars ==
  ASSUME NEW format \in Seq(Char), NEW n, n = Len(format), NEW read, Formats(read, format, n)
  PROVE  IsWritten(read[n])
<1> DEFINE Have == {i \in 0 .. n : IsWritten(read[i])}
<1>1. n \in Nat /\ \A i \in 1 .. n : format[i] \in Char
  BY ElementOfSeq
<1>2. 0 \in Have
  BY <1>1, StartWritten DEF Formats
<1>3. ASSUME NEW i \in 1 .. n, i - 1 \in Have PROVE i \in Have
  <2>1. IsWritten(read[i - 1])
    BY <1>3
  <2>2. IsWritten(read[i])
    BY <1>1, <2>1, PlainWritten, WrittenWritten DEF Formats
  <2> QED BY <2>2
<1> HIDE DEF Have
<1>4. 0 .. n \subseteq Have
  BY <1>1, <1>2, <1>3, ScreenFold!UpTo
<1> QED BY <1>1, <1>4 DEF Have

\* What fits its format is formatted to characters.
LEMMA FormatIsSeq ==
  ASSUME NEW format, NEW args, Fits(format, args, Converted, {"d", "u", "x", "l"})
  PROVE  Format(format, args, Converted) \in Seq(Char)
<1> DEFINE n == Len(format)
           Prefix(i) == SubSeq(format, 1, i)
           read == [i \in 0 .. n |-> Formatted(Prefix(i), args, Converted)]
<1>1. /\ format \in Seq(Char) /\ n \in Nat
      /\ \A i \in 1 .. n : format[i] \in Char
      /\ \A i \in 1 .. n :
           read[i - 1].percent => args[read[i - 1].arg] \in Kind(format[i], {"d", "u", "x", "l"})
  <2>1. format \in Seq(Char) /\ n \in Nat /\ \A i \in 1 .. n : i - 1 \in 0 .. n
    BY DEF Fits
  <2> QED BY <2>1, ElementOfSeq DEF Fits
<1>2. \A i \in 0 .. n : DOMAIN Prefix(i) = 1 .. i /\ \A j \in 1 .. i : Prefix(i)[j] = format[j]
  BY <1>1, PrefixOf
<1>3. \A i \in 0 .. n : read[i] = KernelFold!Folded(args, Start, Prefix(i))
  BY FormattedIs
<1>4. Prefix(n) = format
  BY <1>1, SubSeqFull
<1> HIDE DEF Prefix
<1>5. Format(format, args, Converted) = read[n].out
  <2>1. read[n] = Formatted(format, args, Converted)
    <3>1. n \in 0 .. n
      BY <1>1
    <3> QED BY <1>4, <3>1
  <2> QED BY <2>1 DEF Format
<1> HIDE DEF read
<1>6. read[0] = Start
  <2>1. 0 \in 0 .. n /\ DOMAIN Prefix(0) = 1 .. 0
    BY <1>1, <1>2
  <2> QED BY <1>3, <2>1, KernelFold!FoldEmpty
<1>7. ASSUME NEW i \in 1 .. n
      PROVE  \/ read[i] = Plain(read[i - 1], format[i])
             \/ \E chars \in Seq(Char) : read[i] = Written(read[i - 1], chars)
  <2> PICK h : h = i - 1
    OBVIOUS
  <2>1. i \in Nat \ {0} /\ h \in 0 .. n /\ i \in 0 .. n
    BY <1>1
  <2>2. /\ DOMAIN Prefix(i) = 1 .. i /\ DOMAIN Prefix(h) = 1 .. i - 1
        /\ \A j \in 1 .. i - 1 : Prefix(h)[j] = Prefix(i)[j]
        /\ Prefix(i)[i] = format[i]
    BY <1>2, <2>1
  <2>3. KernelFold!Folded(args, Start, Prefix(i)) =
          FormatStep(args, KernelFold!Folded(args, Start, Prefix(h)), Prefix(i)[i])
    BY <2>1, <2>2, KernelFold!FoldLast
  <2>4. read[i] = FormatStep(args, read[h], format[i])
    BY <1>3, <2>1, <2>2, <2>3
  <2>5. CASE read[h].percent
    <3> PICK chars : chars = Converted(format[i], args[read[h].arg])
      OBVIOUS
    <3>1. chars \in Seq(Char)
      BY <1>1, <2>5, ConvertedIsSeq
    <3>2. read[i] = Written(read[h], chars)
      BY <2>4, <2>5 DEF FormatStep
    <3> QED BY <3>1, <3>2
  <2>6. CASE ~read[h].percent
    BY <2>4, <2>6 DEF FormatStep
  <2> QED BY <2>5, <2>6
<1>8. Formats(read, format, n)
  BY <1>6, <1>7 DEF Formats
<1> HIDE DEF n
<1>9. IsWritten(read[n])
  BY <1>1, <1>8, FormatsToChars DEF n
<1> QED BY <1>5, <1>9 DEF IsWritten

\* The same for the programs' library.
LEMMA SprintfIsSeq ==
  ASSUME NEW format, NEW args, Fits(format, args, LibConverted, {"d", "u", "x"})
  PROVE  Sprintf(format, args) \in Seq(Char)
<1> DEFINE n == Len(format)
           Prefix(i) == SubSeq(format, 1, i)
           read == [i \in 0 .. n |-> Formatted(Prefix(i), args, LibConverted)]
<1>1. /\ format \in Seq(Char) /\ n \in Nat
      /\ \A i \in 1 .. n : format[i] \in Char
      /\ \A i \in 1 .. n :
           read[i - 1].percent => args[read[i - 1].arg] \in Kind(format[i], {"d", "u", "x"})
  <2>1. format \in Seq(Char) /\ n \in Nat /\ \A i \in 1 .. n : i - 1 \in 0 .. n
    BY DEF Fits
  <2> QED BY <2>1, ElementOfSeq DEF Fits
<1>2. \A i \in 0 .. n : DOMAIN Prefix(i) = 1 .. i /\ \A j \in 1 .. i : Prefix(i)[j] = format[j]
  BY <1>1, PrefixOf
<1>3. \A i \in 0 .. n : read[i] = LibFold!Folded(args, Start, Prefix(i))
  BY LibFormattedIs
<1>4. Prefix(n) = format
  BY <1>1, SubSeqFull
<1> HIDE DEF Prefix
<1>5. Sprintf(format, args) = read[n].out
  <2>1. read[n] = Formatted(format, args, LibConverted)
    <3>1. n \in 0 .. n
      BY <1>1
    <3> QED BY <1>4, <3>1
  <2> QED BY <2>1 DEF Sprintf, Format
<1> HIDE DEF read
<1>6. read[0] = Start
  <2>1. 0 \in 0 .. n /\ DOMAIN Prefix(0) = 1 .. 0
    BY <1>1, <1>2
  <2> QED BY <1>3, <2>1, LibFold!FoldEmpty
<1>7. ASSUME NEW i \in 1 .. n
      PROVE  \/ read[i] = Plain(read[i - 1], format[i])
             \/ \E chars \in Seq(Char) : read[i] = Written(read[i - 1], chars)
  <2> PICK h : h = i - 1
    OBVIOUS
  <2>1. i \in Nat \ {0} /\ h \in 0 .. n /\ i \in 0 .. n
    BY <1>1
  <2>2. /\ DOMAIN Prefix(i) = 1 .. i /\ DOMAIN Prefix(h) = 1 .. i - 1
        /\ \A j \in 1 .. i - 1 : Prefix(h)[j] = Prefix(i)[j]
        /\ Prefix(i)[i] = format[i]
    BY <1>2, <2>1
  <2>3. LibFold!Folded(args, Start, Prefix(i)) =
          LibFormatStep(args, LibFold!Folded(args, Start, Prefix(h)), Prefix(i)[i])
    BY <2>1, <2>2, LibFold!FoldLast
  <2>4. read[i] = LibFormatStep(args, read[h], format[i])
    BY <1>3, <2>1, <2>2, <2>3
  <2>5. CASE read[h].percent
    <3> PICK chars : chars = LibConverted(format[i], args[read[h].arg])
      OBVIOUS
    <3>1. chars \in Seq(Char)
      BY <1>1, <2>5, LibConvertedIsSeq
    <3>2. read[i] = Written(read[h], chars)
      BY <2>4, <2>5 DEF LibFormatStep
    <3> QED BY <3>1, <3>2
  <2>6. CASE ~read[h].percent
    BY <2>4, <2>6 DEF LibFormatStep
  <2> QED BY <2>5, <2>6
<1>8. Formats(read, format, n)
  BY <1>6, <1>7 DEF Formats
<1> HIDE DEF n
<1>9. IsWritten(read[n])
  BY <1>1, <1>8, FormatsToChars DEF n
<1> QED BY <1>5, <1>9 DEF IsWritten

\* What a format of one conversion gives.
LEMMA OneConversion ==
  ASSUME NEW format, DOMAIN format = 1 .. 2, format[1] = "%",
         NEW args, NEW chars \in Seq(Char), Converted(format[2], args[1]) = chars
  PROVE  Format(format, args, Converted) = chars
<1> PICK c : c = format[2]
  OBVIOUS
<1>0. PICK n : n = 2
  OBVIOUS
<1>1. n \in Nat /\ DOMAIN format = 1 .. n
  BY <1>0
<1>2. PICK h : KernelFold!IsFold(h, args, Start, format, n) /\ KernelFold!Folded(args, Start, format) = h[n]
  BY <1>1, KernelFold!FoldSteps
<1>3. h[1] = FormatStep(args, Start, "%")
  <2>1. h[0] = Start /\ h[1] = FormatStep(args, h[1 - 1], format[1])
    BY <1>0, <1>2 DEF KernelFold!IsFold
  <2> QED BY <2>1
<1>4. h[2] = FormatStep(args, FormatStep(args, Start, "%"), c)
  <2>1. h[2] = FormatStep(args, h[2 - 1], format[2])
    BY <1>0, <1>2 DEF KernelFold!IsFold
  <2> QED BY <1>3, <2>1
<1> PICK s : s = FormatStep(args, Start, "%")
  OBVIOUS
<1>5. s = [out |-> <<>>, arg |-> 1, percent |-> TRUE]
  BY DEF FormatStep, Plain, Start
<1>6. FormatStep(args, s, c) = Written(s, chars)
  BY <1>5 DEF FormatStep
<1>7. Format(format, args, Converted) = KernelFold!Folded(args, Start, format).out
  BY FormattedIs DEF Format
<1>8. Written(s, chars).out = <<>> \o chars
  <2> PICK w : w = Written(s, chars)
    OBVIOUS
  <2>1. w.out = s.out \o chars /\ s.out = <<>>
    BY <1>5 DEF Written
  <2> QED BY <2>1
<1>9. <<>> \o chars = chars
  BY ConcatEmptySeq
<1> QED BY <1>0, <1>2, <1>4, <1>6, <1>7, <1>8, <1>9

\* If such a format fits, the conversion gets the first argument.
LEMMA OneArgument ==
  ASSUME NEW format, NEW args, NEW ints, Fits(format, args, Converted, ints),
         Len(format) = 2, format[1] = "%"
  PROVE  args[1] \in Kind(format[2], ints)
<1>0. PICK n, one : n = 2 /\ one = 1
  OBVIOUS
<1>1. n \in 1 .. Len(format) /\ n - 1 = one /\ one \in 0 .. Len(format) /\ format \in Seq(Char)
      /\ one \in Nat
  BY <1>0 DEF Fits
<1>2. PICK p : p = SubSeq(format, 1, one)
  OBVIOUS
<1>3. DOMAIN p = 1 .. one /\ p[1] = "%"
  BY <1>0, <1>1, <1>2, PrefixOf
<1>4. PICK h : KernelFold!IsFold(h, args, Start, p, one) /\ KernelFold!Folded(args, Start, p) = h[one]
  BY <1>1, <1>3, KernelFold!FoldSteps
<1>5. h[0] = Start /\ h[1] = FormatStep(args, h[1 - 1], p[1])
  BY <1>0, <1>4 DEF KernelFold!IsFold
<1>6. PICK s : s = Formatted(p, args, Converted)
  OBVIOUS
<1>7. s = FormatStep(args, Start, "%")
  BY <1>0, <1>3, <1>4, <1>5, <1>6, FormattedIs
<1>8. s.percent /\ s.arg = 1
  BY <1>7 DEF FormatStep, Plain, Start
<1>9. s.percent => args[s.arg] \in Kind(format[n], ints)
  BY <1>1, <1>2, <1>6 DEF Fits
<1> QED BY <1>0, <1>8, <1>9

\* A string that a program formatted is not taken for a null pointer, nor for a
\* format.
LEMMA StringVerbatim ==
  ASSUME NEW string \in Seq(Char)
  PROVE  Format(<<"%", "s">>, <<string>>, Converted) = string
<1>1. PICK f, a, n : f = <<"%", "s">> /\ a = <<string>> /\ n = 2
  OBVIOUS
<1>2. DOMAIN f = 1 .. n /\ f[1] = "%" /\ f[2] = "s" /\ a[1] = string
  BY <1>1
<1>3. string # NoString
  <2> SUFFICES ASSUME string = NoString PROVE FALSE
    OBVIOUS
  <2>1. Len(string) = 1 /\ string[1] = "NULL"
    BY DEF NoString
  <2>2. string[1] \in Char
    BY <2>1, ElementOfSeq
  <2> QED BY <2>1, <2>2, CharAssumption
<1>4. Converted(f[2], a[1]) = string
  BY <1>2, <1>3 DEF Converted, String
<1>5. DOMAIN f = 1 .. 2
  BY <1>1
<1>6. Format(f, a, Converted) = string
  BY <1>2, <1>4, <1>5, OneConversion
<1> QED BY <1>1, <1>6
-----------------------------------------------------------------------------
(* The lines of a text                                                     *)

\* One more character, as Lines folds it in.
LineStep(q, ls, c) ==
  IF c = Newline THEN Append(ls, <<>>)
  ELSE LET l == Append(Last(ls), c) IN
       IF Len(l) = NUM_COLS THEN Front(ls) \o <<l, <<>>>> ELSE Append(Front(ls), l)

AreLines(ls) ==
  /\ ls \in Seq(Seq(Char)) /\ Len(ls) \in Nat \ {0}
  /\ ls[Len(ls)] \in Seq(Char)
  /\ Len(ls[Len(ls)]) \in 0 .. NUM_COLS - 1

LineAt(ls, n, k) == IF n <= Len(ls) /\ k <= Len(ls[n]) THEN ls[n][k] ELSE Blank

Full(ls, c) == c # Newline /\ Len(ls[Len(ls)]) + 1 = NUM_COLS

\* What a character does to the lines, line by line.
Grows(ls, c, new) ==
  /\ Len(new) = IF c = Newline \/ Full(ls, c) THEN Len(ls) + 1 ELSE Len(ls)
  /\ \A n \in 1 .. Len(ls) - 1 : new[n] = ls[n]
  /\ new[Len(ls)] = IF c = Newline THEN ls[Len(ls)] ELSE Append(ls[Len(ls)], c)
  /\ c = Newline \/ Full(ls, c) => new[Len(ls) + 1] = <<>>

LEMMA FrontOf ==
  ASSUME NEW S, NEW ls \in Seq(S), Len(ls) \in Nat \ {0}
  PROVE  /\ Front(ls) \in Seq(S) /\ Len(Front(ls)) = Len(ls) - 1
         /\ \A n \in 1 .. Len(ls) - 1 : Front(ls)[n] = ls[n]
<1> PICK n : n = Len(ls) - 1
  OBVIOUS
<1>1. n \in Nat /\ \A i \in 1 .. n : ls[i] \in S
  BY ElementOfSeq
<1> PICK f : f = SubSeq(ls, 1, n)
  OBVIOUS
<1>2. /\ f \in Seq(S)
      /\ Len(f) = IF 1 <= n THEN n - 1 + 1 ELSE 0
      /\ \A i \in 1 .. n - 1 + 1 : f[i] = ls[1 + i - 1]
  BY <1>1, SubSeqProperties
<1>3. Len(f) = n /\ \A i \in 1 .. n : f[i] = ls[i]
  BY <1>1, <1>2
<1> QED BY <1>2, <1>3 DEF Front

LEMMA LineStepGrows ==
  ASSUME NEW ls, AreLines(ls), NEW c \in Char, NEW q
  PROVE  AreLines(LineStep(q, ls, c)) /\ Grows(ls, c, LineStep(q, ls, c))
<1> DEFINE l == ls[Len(ls)]
           m == Append(l, c)
<1> PICK n : n = Len(ls)
  OBVIOUS
<1>1. n \in Nat \ {0} /\ l \in Seq(Char) /\ Len(l) \in 0 .. NUM_COLS - 1
  BY DEF AreLines
<1>2. <<>> \in Seq(Char) /\ Len(<<>>) = 0
  OBVIOUS
<1>3. NUM_COLS \in Nat \ {0}
  BY ScreenAssumption
<1>4. CASE c = Newline
  <2>1. LineStep(q, ls, c) = Append(ls, <<>>)
    BY <1>4 DEF LineStep
  <2>2. ls \in Seq(Seq(Char))
    BY DEF AreLines
  <2> PICK new : new = Append(ls, <<>>)
    OBVIOUS
  <2>3. /\ new \in Seq(Seq(Char)) /\ Len(new) = n + 1
        /\ \A k \in 1 .. n : new[k] = ls[k]
        /\ new[n + 1] = <<>>
    BY <1>2, <2>2, AppendOf
  <2>4. AreLines(new)
    BY <1>1, <1>2, <1>3, <2>3 DEF AreLines
  <2>5. Grows(ls, c, new)
    BY <1>1, <1>4, <2>3 DEF Grows
  <2> QED BY <2>1, <2>4, <2>5
<1>5. CASE c # Newline
  <2>1. m \in Seq(Char) /\ Len(m) = Len(l) + 1
    BY <1>1, AppendOf
  <2> DEFINE f == Front(ls)
  <2>2. f \in Seq(Seq(Char)) /\ Len(f) = n - 1 /\ \A k \in 1 .. n - 1 : f[k] = ls[k]
    BY <1>1, FrontOf DEF AreLines
  <2>3. LineStep(q, ls, c) = IF Len(m) = NUM_COLS THEN f \o <<m, <<>>>> ELSE Append(f, m)
    BY <1>5 DEF LineStep, Last
  <2> HIDE DEF f, m
  <2>4. CASE Len(m) = NUM_COLS
    <3> PICK two : two = <<m, <<>>>>
      OBVIOUS
    <3>1. two \in Seq(Seq(Char)) /\ Len(two) = 2 /\ two[1] = m /\ two[2] = <<>>
      BY <1>2, <2>1
    <3> PICK new : new = f \o two
      OBVIOUS
    <3>2. /\ new \in Seq(Seq(Char)) /\ Len(new) = Len(f) + Len(two)
          /\ \A i \in 1 .. Len(f) + Len(two) : new[i] = IF i <= Len(f) THEN f[i] ELSE two[i - Len(f)]
      BY <2>2, <3>1, ConcatProperties
    <3>3. /\ new \in Seq(Seq(Char)) /\ Len(new) = n + 1
          /\ \A i \in 1 .. n + 1 : new[i] = IF i <= n - 1 THEN f[i] ELSE two[i - (n - 1)]
      BY <1>1, <2>2, <3>1, <3>2
    <3>4. new[n] = two[1]
      <4>1. n \in 1 .. n + 1 /\ ~(n <= n - 1) /\ n - (n - 1) = 1
        BY <1>1
      <4> QED BY <3>3, <4>1
    <3>5. new[n] = m /\ new[n + 1] = <<>>
      <4>1. n + 1 \in 1 .. n + 1 /\ ~(n + 1 <= n - 1) /\ (n + 1) - (n - 1) = 2
        BY <1>1
      <4>2. new[n + 1] = two[2]
        BY <3>3, <4>1
      <4> QED BY <3>1, <3>4, <4>2
    <3>6. \A k \in 1 .. n - 1 : new[k] = ls[k]
      BY <1>1, <2>2, <3>3
    <3>7. AreLines(new)
      BY <1>1, <1>2, <1>3, <3>3, <3>5 DEF AreLines
    <3>8. Full(ls, c)
      BY <1>5, <2>1, <2>4 DEF Full
    <3>9. Grows(ls, c, new)
      BY <1>5, <3>3, <3>5, <3>6, <3>8 DEF Grows, m
    <3> QED BY <2>3, <2>4, <3>7, <3>9
  <2>5. CASE Len(m) # NUM_COLS
    <3> PICK new : new = Append(f, m)
      OBVIOUS
    <3>1. /\ new \in Seq(Seq(Char)) /\ Len(new) = Len(f) + 1
          /\ \A k \in 1 .. Len(f) : new[k] = f[k]
          /\ new[Len(f) + 1] = m
      BY <2>1, <2>2, AppendOf
    <3>2. /\ Len(new) = n /\ new[n] = m
          /\ \A k \in 1 .. n - 1 : new[k] = ls[k]
      BY <1>1, <2>2, <3>1
    <3>3. AreLines(new)
      <4>1. Len(m) \in 0 .. NUM_COLS - 1
        BY <1>1, <1>3, <2>1, <2>5 DEF m
      <4> QED BY <1>1, <2>1, <3>1, <3>2, <4>1 DEF AreLines
    <3>4. ~Full(ls, c)
      BY <2>1, <2>5 DEF Full
    <3>5. Grows(ls, c, new)
      BY <1>5, <3>2, <3>4 DEF Grows, m
    <3> QED BY <2>3, <2>5, <3>3, <3>5
  <2> QED BY <2>4, <2>5
<1> QED BY <1>4, <1>5

\* The lines after a character, place by place.
LEMMA GrownAt ==
  ASSUME NEW ls, AreLines(ls), NEW c \in Char, NEW new, Grows(ls, c, new),
         NEW n \in Nat \ {0}, NEW k \in Nat \ {0}
  PROVE  LineAt(new, n, k) =
           IF c # Newline /\ n = Len(ls) /\ k = Len(ls[Len(ls)]) + 1 THEN c ELSE LineAt(ls, n, k)
<1> PICK N : N = Len(ls)
  OBVIOUS
<1> PICK l : l = ls[N]
  OBVIOUS
<1>1. N \in Nat \ {0} /\ l \in Seq(Char) /\ Len(l) \in Nat
  BY DEF AreLines
<1> PICK m : m = Append(l, c)
  OBVIOUS
<1>2. /\ Len(m) = Len(l) + 1
      /\ \A i \in 1 .. Len(l) : m[i] = l[i]
      /\ m[Len(l) + 1] = c
  BY <1>1, AppendOf
<1>3. CASE n < N
  <2>1. n \in 1 .. N - 1 /\ n <= N
    BY <1>1, <1>3
  <2>2. new[n] = ls[n] /\ n <= Len(new)
    BY <1>1, <2>1 DEF Grows
  <2> QED BY <1>1, <1>3, <2>1, <2>2 DEF LineAt
<1>4. CASE n > N
  <2>1. LineAt(ls, n, k) = Blank
    BY <1>1, <1>4 DEF LineAt
  <2>2. Len(<<>>) = 0
    OBVIOUS
  <2>3. LineAt(new, n, k) = Blank
    <3>1. CASE n <= Len(new)
      <4>1. Len(new) = N + 1 /\ n = N + 1 /\ new[n] = <<>>
        BY <1>1, <1>4, <3>1 DEF Grows
      <4> QED BY <2>2, <4>1 DEF LineAt
    <3>2. CASE ~(n <= Len(new))
      BY <3>2 DEF LineAt
    <3> QED BY <3>1, <3>2
  <2> QED BY <1>1, <1>4, <2>1, <2>3
<1>5. CASE n = N
  <2>1. n <= Len(new) /\ new[n] = IF c = Newline THEN l ELSE m
    BY <1>1, <1>5 DEF Grows
  <2>2. CASE c = Newline
    BY <1>1, <1>5, <2>1, <2>2 DEF LineAt
  <2>3. CASE c # Newline
    <3>1. LineAt(new, n, k) = IF k <= Len(l) + 1 THEN m[k] ELSE Blank
      BY <1>2, <2>1, <2>3 DEF LineAt
    <3>2. LineAt(ls, n, k) = IF k <= Len(l) THEN l[k] ELSE Blank
      BY <1>5 DEF LineAt
    <3>3. CASE k <= Len(l)
      BY <1>1, <1>2, <3>1, <3>2, <3>3
    <3>4. CASE k > Len(l)
      BY <1>1, <1>2, <1>5, <2>3, <3>1, <3>2, <3>4
    <3> QED BY <1>1, <3>3, <3>4
  <2> QED BY <2>2, <2>3
<1> QED BY <1>1, <1>3, <1>4, <1>5

-----------------------------------------------------------------------------
(* The cells of the screen                                                 *)

CellAt(r, c) == r * NUM_COLS + c

Rows == 0 .. NUM_ROWS - 1
Columns == 0 .. NUM_COLS - 1

LEMMA CellOf ==
  ASSUME NEW r \in Rows, NEW c \in Columns
  PROVE  CellAt(r, c) \in Cells /\ (CellAt(r, c) \in LastRow <=> r = NUM_ROWS - 1)
<1> PICK C : C = NUM_COLS
  OBVIOUS
<1> PICK R : R = NUM_ROWS
  OBVIOUS
<1>1. C \in Nat \ {0} /\ R \in Nat \ {0} /\ r \in 0 .. R - 1 /\ c \in 0 .. C - 1
  BY ScreenAssumption DEF Rows, Columns
<1>2. r * C \in Nat /\ C * R \in Nat /\ C * (R - 1) = C * R - C
  BY <1>1
<1>3. C * R = r * C + (R - r) * C
  BY <1>1
<1>4. CASE r = R - 1
  <2>1. r * C = C * R - C
    BY <1>1, <1>4
  <2> QED BY <1>1, <1>2, <1>4, <2>1 DEF CellAt, Cells, LastRow
<1>5. CASE r # R - 1
  <2>1. R - r >= 2
    BY <1>1, <1>5
  <2>2. (R - r) * C >= 2 * C
    BY <1>1, <2>1
  <2> QED BY <1>1, <1>2, <1>3, <1>5, <2>2 DEF CellAt, Cells, LastRow
<1> QED BY <1>4, <1>5

LEMMA CellIsOne ==
  ASSUME NEW r \in Nat, NEW c \in Columns, NEW q \in Nat, NEW d \in Columns,
         CellAt(r, c) = CellAt(q, d)
  PROVE  r = q /\ c = d
<1> PICK C : C = NUM_COLS
  OBVIOUS
<1>1. C \in Nat \ {0} /\ c \in 0 .. C - 1 /\ d \in 0 .. C - 1 /\ r * C + c = q * C + d
  BY ScreenAssumption DEF Columns, CellAt
<1>2. CASE r < q
  <2>1. q - r >= 1
    BY <1>2
  <2>2. (q - r) * C >= C
    BY <1>1, <2>1
  <2>3. (q - r) * C = q * C - r * C
    BY <1>1
  <2> QED BY <1>1, <2>2, <2>3
<1>3. CASE q < r
  <2>1. r - q >= 1
    BY <1>3
  <2>2. (r - q) * C >= C
    BY <1>1, <2>1
  <2>3. (r - q) * C = r * C - q * C
    BY <1>1
  <2> QED BY <1>1, <2>2, <2>3
<1> QED BY <1>1, <1>2, <1>3

LEMMA PlaceOf ==
  ASSUME NEW i \in Cells
  PROVE  /\ i \div NUM_COLS \in Rows /\ i % NUM_COLS \in Columns
         /\ CellAt(i \div NUM_COLS, i % NUM_COLS) = i
<1> PICK C : C = NUM_COLS
  OBVIOUS
<1> PICK R : R = NUM_ROWS
  OBVIOUS
<1> PICK r : r = i \div C
  OBVIOUS
<1>1. C \in Nat \ {0} /\ R \in Nat \ {0} /\ i \in 0 .. C * R - 1 /\ i \in Nat
  BY ScreenAssumption DEF Cells
<1>2. r \in Nat /\ i % C \in 0 .. C - 1 /\ i = C * r + (i % C)
  BY <1>1
<1>3. r < R
  <2> SUFFICES ASSUME r >= R PROVE FALSE
    BY <1>1, <1>2
  <2>1. C * (r - R) >= 0
    BY <1>1, <1>2
  <2>2. C * (r - R) = C * r - C * R
    BY <1>1, <1>2
  <2> QED BY <1>1, <1>2, <2>1, <2>2
<1>4. C * r = r * C
  BY <1>1, <1>2
<1> QED BY <1>1, <1>2, <1>3, <1>4 DEF Rows, Columns, CellAt

\* The cell below another.
LEMMA CellBelow ==
  ASSUME NEW r \in Rows, r # NUM_ROWS - 1, NEW c \in Columns
  PROVE  CellAt(r, c) + NUM_COLS = CellAt(r + 1, c) /\ r + 1 \in Rows
<1> PICK C : C = NUM_COLS
  OBVIOUS
<1>1. C \in Nat \ {0} /\ NUM_ROWS \in Nat \ {0} /\ r \in Nat /\ c \in Nat
  BY ScreenAssumption DEF Rows, Columns
<1>2. (r + 1) * C = r * C + C
  BY <1>1
<1> QED BY <1>1, <1>2 DEF Rows, CellAt

-----------------------------------------------------------------------------
(* What is on the screen                                                   *)

IsScreen(s) ==
  /\ s = [video |-> s.video, row |-> s.row, col |-> s.col]
  /\ s.video = [i \in Cells |-> s.video[i]]

\* The screen shows the lines behind the first f of them.
View(s, ls, f) ==
  /\ IsScreen(s) /\ AreLines(ls) /\ f \in Nat
  /\ \A r \in Rows, c \in Columns : s.video[CellAt(r, c)] = LineAt(ls, f + r + 1, c + 1)
  /\ s.col = Len(ls[Len(ls)])
  /\ s.row = Len(ls) - f - 1

NewScreen(v, r, c) == [video |-> v, row |-> r, col |-> c]

LEMMA PutIs ==
  ASSUME NEW s, IsScreen(s), NEW c
  PROVE  Put(s, c) =
           IF c = Newline THEN NewScreen(s.video, s.row + 1, 0)
           ELSE LET v == [s.video EXCEPT ![CellAt(s.row, s.col)] = c]
                IN  IF s.col + 1 >= NUM_COLS THEN NewScreen(v, s.row + 1, 0)
                    ELSE NewScreen(v, s.row, s.col + 1)
<1>1. PICK v, r, k : s = [video |-> v, row |-> r, col |-> k]
  BY DEF IsScreen
<1>2. s.video = v /\ s.row = r /\ s.col = k
  BY <1>1
<1>3. CASE c = Newline
  <2>1. [s EXCEPT !.col = 0, !.row = @ + 1] = [video |-> v, row |-> r + 1, col |-> 0]
    <3> PICK t : t = [s EXCEPT !.col = 0, !.row = @ + 1]
      OBVIOUS
    <3>1. t.video = v /\ t.row = r + 1 /\ t.col = 0
      BY <1>1
    <3>2. t = [video |-> t.video, row |-> t.row, col |-> t.col]
      BY <1>1
    <3> QED BY <3>1, <3>2
  <2> QED BY <1>2, <1>3, <2>1 DEF Put, NewScreen
<1>4. CASE c # Newline
  <2> PICK w : w = [v EXCEPT ![r * NUM_COLS + k] = c]
    OBVIOUS
  <2> PICK put : put = [s EXCEPT !.video[s.row * NUM_COLS + s.col] = c, !.col = @ + 1]
    OBVIOUS
  <2>1. put.video = w /\ put.row = r /\ put.col = k + 1
    BY <1>1
  <2>2. put = [video |-> w, row |-> r, col |-> k + 1]
    <3>1. put = [video |-> put.video, row |-> put.row, col |-> put.col]
      BY <1>1
    <3> QED BY <2>1, <3>1
  <2>3. [put EXCEPT !.col = 0, !.row = @ + 1] = [video |-> w, row |-> r + 1, col |-> 0]
    <3> PICK t : t = [put EXCEPT !.col = 0, !.row = @ + 1]
      OBVIOUS
    <3>1. t.video = w /\ t.row = r + 1 /\ t.col = 0
      BY <2>1, <2>2
    <3>2. t = [video |-> t.video, row |-> t.row, col |-> t.col]
      BY <2>2
    <3> QED BY <3>1, <3>2
  <2>4. Put(s, c) = IF put.col >= NUM_COLS THEN [put EXCEPT !.col = 0, !.row = @ + 1] ELSE put
    BY <1>4 DEF Put
  <2> QED BY <1>2, <1>4, <2>1, <2>2, <2>3, <2>4 DEF NewScreen, CellAt
<1> QED BY <1>3, <1>4

LEMMA ScrolledIs ==
  ASSUME NEW s, IsScreen(s)
  PROVE  Scrolled(s) =
           NewScreen([i \in Cells |-> IF i \in LastRow THEN Blank ELSE s.video[i + NUM_COLS]],
                     NUM_ROWS - 1, s.col)
<1>1. PICK v, r, k : s = [video |-> v, row |-> r, col |-> k]
  BY DEF IsScreen
<1>2. PICK w : w = [i \in Cells |-> IF i \in LastRow THEN Blank ELSE s.video[i + NUM_COLS]]
  OBVIOUS
<1>3. [s EXCEPT !.video = w, !.row = NUM_ROWS - 1] = [video |-> w, row |-> NUM_ROWS - 1, col |-> k]
  <2> PICK t : t = [s EXCEPT !.video = w, !.row = NUM_ROWS - 1]
    OBVIOUS
  <2>1. t.video = w /\ t.row = NUM_ROWS - 1 /\ t.col = k
    BY <1>1
  <2>2. t = [video |-> t.video, row |-> t.row, col |-> t.col]
    BY <1>1
  <2> QED BY <2>1, <2>2
<1>4. s.col = k
  BY <1>1
<1> QED BY <1>2, <1>3, <1>4 DEF Scrolled, NewScreen

LEMMA ScreenIs ==
  ASSUME NEW v, NEW r, NEW c, v = [i \in Cells |-> v[i]]
  PROVE  /\ IsScreen(NewScreen(v, r, c))
         /\ NewScreen(v, r, c).video = v /\ NewScreen(v, r, c).row = r /\ NewScreen(v, r, c).col = c
BY DEF IsScreen, NewScreen

\* A character is shown behind those before it; what it does not fill stays.
LEMMA PutShows ==
  ASSUME NEW s, NEW ls, NEW f, View(s, ls, f), s.row \in Rows, NEW c \in Char,
         NEW new, AreLines(new), Grows(ls, c, new)
  PROVE  /\ View(Put(s, c), new, f)
         /\ Put(s, c).row = IF Len(new) = Len(ls) THEN s.row ELSE s.row + 1
         /\ Len(new) # Len(ls) => Put(s, c).col = 0
<1> PICK n : n = Len(ls)
  OBVIOUS
<1> PICK l : l = ls[n]
  OBVIOUS
<1> PICK p : p = Put(s, c)
  OBVIOUS
<1>1. /\ n \in Nat \ {0} /\ f \in Nat /\ l \in Seq(Char)
      /\ s.row = n - f - 1 /\ s.col = Len(l) /\ s.col \in Columns
      /\ IsScreen(s) /\ NUM_COLS \in Nat \ {0} /\ NUM_ROWS \in Nat \ {0}
  BY ScreenAssumption DEF View, AreLines, Columns
<1>2. \A r \in Rows, k \in Columns :
        LineAt(new, f + r + 1, k + 1) =
          IF c # Newline /\ r = s.row /\ k = s.col THEN c ELSE s.video[CellAt(r, k)]
  <2> TAKE r \in Rows, k \in Columns
  <2>1. f + r + 1 \in Nat \ {0} /\ k + 1 \in Nat \ {0}
    BY <1>1 DEF Rows, Columns
  <2>2. f + r + 1 = n <=> r = s.row
    BY <1>1 DEF Rows
  <2>3. k + 1 = Len(l) + 1 <=> k = s.col
    BY <1>1 DEF Columns
  <2>4. s.video[CellAt(r, k)] = LineAt(ls, f + r + 1, k + 1)
    BY DEF View
  <2>5. AreLines(ls)
    BY DEF View
  <2> PICK i : i = f + r + 1
    OBVIOUS
  <2> PICK j : j = k + 1
    OBVIOUS
  <2>6. LineAt(new, i, j) = IF c # Newline /\ i = Len(ls) /\ j = Len(ls[Len(ls)]) + 1 THEN c ELSE LineAt(ls, i, j)
    BY <2>1, <2>5, GrownAt
  <2> QED BY <2>2, <2>3, <2>4, <2>6
<1>3. CASE c = Newline
  <2>1. p = NewScreen(s.video, s.row + 1, 0)
    BY <1>1, <1>3, PutIs
  <2>2. s.video = [i \in Cells |-> s.video[i]]
    BY <1>1 DEF IsScreen
  <2>3. IsScreen(p) /\ p.video = s.video /\ p.row = s.row + 1 /\ p.col = 0
    BY <2>1, <2>2, ScreenIs
  <2>4. Len(new) = n + 1 /\ new[n + 1] = <<>>
    BY <1>1, <1>3 DEF Grows
  <2>5. Len(<<>>) = 0
    OBVIOUS
  <2>6. \A r \in Rows, k \in Columns : p.video[CellAt(r, k)] = LineAt(new, f + r + 1, k + 1)
    BY <1>2, <1>3, <2>3
  <2>7. View(p, new, f)
    BY <1>1, <2>3, <2>4, <2>5, <2>6 DEF View
  <2> QED BY <1>1, <2>3, <2>4, <2>7
<1>4. CASE c # Newline
  <2> PICK v : v = [s.video EXCEPT ![CellAt(s.row, s.col)] = c]
    OBVIOUS
  <2>1. s.video = [i \in Cells |-> s.video[i]] /\ CellAt(s.row, s.col) \in Cells
    BY <1>1, CellOf DEF IsScreen
  <2>2. v = [i \in Cells |-> v[i]] /\ \A i \in Cells : v[i] = IF i = CellAt(s.row, s.col) THEN c ELSE s.video[i]
    BY <2>1
  <2>3. \A r \in Rows, k \in Columns : v[CellAt(r, k)] = LineAt(new, f + r + 1, k + 1)
    <3> TAKE r \in Rows, k \in Columns
    <3>1. CellAt(r, k) \in Cells
      BY CellOf
    <3>2. r \in Nat /\ s.row \in Nat
      BY DEF Rows
    <3>3. CellAt(r, k) = CellAt(s.row, s.col) => r = s.row /\ k = s.col
      BY <1>1, <3>2, CellIsOne
    <3> QED BY <1>2, <1>4, <2>2, <3>1, <3>3
  <2> PICK m : m = Append(l, c)
    OBVIOUS
  <2>4. Len(m) = s.col + 1
    BY <1>1, AppendOf
  <2>5. new[n] = m
    BY <1>4 DEF Grows
  <2>6. s.col \in Nat
    BY <1>1 DEF Columns
  <2>7. CASE s.col + 1 = NUM_COLS
    <3>1. p = NewScreen(v, s.row + 1, 0)
      BY <1>1, <1>4, <2>6, <2>7, PutIs
    <3>2. IsScreen(p) /\ p.video = v /\ p.row = s.row + 1 /\ p.col = 0
      BY <2>2, <3>1, ScreenIs
    <3>3. Full(ls, c)
      BY <1>1, <1>4, <2>7 DEF Full
    <3>4. Len(new) = n + 1 /\ new[n + 1] = <<>>
      BY <1>1, <3>3 DEF Grows
    <3>5. Len(<<>>) = 0
      OBVIOUS
    <3>6. View(p, new, f)
      BY <1>1, <2>3, <3>2, <3>4, <3>5 DEF View
    <3> QED BY <1>1, <3>2, <3>4, <3>6
  <2>8. CASE s.col + 1 # NUM_COLS
    <3>1. p = NewScreen(v, s.row, s.col + 1)
      <4>1. ~(s.col + 1 >= NUM_COLS)
        BY <1>1, <2>8 DEF Columns
      <4> QED BY <1>1, <1>4, <4>1, PutIs
    <3>2. IsScreen(p) /\ p.video = v /\ p.row = s.row /\ p.col = s.col + 1
      BY <2>2, <3>1, ScreenIs
    <3>3. ~Full(ls, c)
      BY <1>1, <2>8 DEF Full
    <3>4. Len(new) = n
      BY <1>4, <3>3 DEF Grows
    <3>5. View(p, new, f)
      BY <1>1, <2>3, <2>4, <2>5, <3>2, <3>4 DEF View
    <3> QED BY <3>2, <3>4, <3>5
  <2> QED BY <2>7, <2>8
<1> QED BY <1>3, <1>4

\* Scrolling hides one line more; the one that comes in from below is empty.
LEMMA ScrollShows ==
  ASSUME NEW s, NEW ls, NEW f, View(s, ls, f), s.row = NUM_ROWS, s.col = 0
  PROVE  View(Scrolled(s), ls, f + 1) /\ Scrolled(s).row = NUM_ROWS - 1
<1> PICK n : n = Len(ls)
  OBVIOUS
<1> PICK v : v = [i \in Cells |-> IF i \in LastRow THEN Blank ELSE s.video[i + NUM_COLS]]
  OBVIOUS
<1> PICK p : p = Scrolled(s)
  OBVIOUS
<1>1. /\ n \in Nat \ {0} /\ f \in Nat /\ IsScreen(s) /\ AreLines(ls)
      /\ NUM_ROWS = n - f - 1 /\ Len(ls[n]) = 0
      /\ NUM_COLS \in Nat \ {0} /\ NUM_ROWS \in Nat \ {0}
  BY ScreenAssumption DEF View, AreLines
<1>2. IsScreen(p) /\ p.video = v /\ p.row = NUM_ROWS - 1 /\ p.col = 0
  <2>1. p = NewScreen(v, NUM_ROWS - 1, 0)
    BY <1>1, ScrolledIs
  <2>2. v = [i \in Cells |-> v[i]]
    OBVIOUS
  <2> QED BY <2>1, <2>2, ScreenIs
<1>3. \A r \in Rows, k \in Columns : v[CellAt(r, k)] = LineAt(ls, (f + 1) + r + 1, k + 1)
  <2> TAKE r \in Rows, k \in Columns
  <2>1. CellAt(r, k) \in Cells /\ (CellAt(r, k) \in LastRow <=> r = NUM_ROWS - 1)
    BY CellOf
  <2>2. CASE r = NUM_ROWS - 1
    <3> PICK i : i = (f + 1) + r + 1
      OBVIOUS
    <3> PICK j : j = k + 1
      OBVIOUS
    <3>1. i = n /\ j \in Nat /\ ~(j <= 0)
      BY <1>1, <2>2 DEF Columns
    <3>2. LineAt(ls, i, j) = Blank
      BY <1>1, <3>1 DEF LineAt
    <3> QED BY <2>1, <2>2, <3>2
  <2>3. CASE r # NUM_ROWS - 1
    <3> PICK q : q = r + 1
      OBVIOUS
    <3>1. CellAt(r, k) + NUM_COLS = CellAt(q, k) /\ q \in Rows
      BY <2>3, CellBelow
    <3>2. s.video[CellAt(q, k)] = LineAt(ls, f + q + 1, k + 1)
      BY <3>1 DEF View
    <3>3. f + q + 1 = (f + 1) + r + 1
      BY <1>1 DEF Rows
    <3> QED BY <2>1, <2>3, <3>1, <3>2, <3>3
  <2> QED BY <2>2, <2>3
<1>4. NUM_ROWS - 1 = n - (f + 1) - 1 /\ f + 1 \in Nat
  BY <1>1
<1>5. View(p, ls, f + 1)
  <2> PICK g : g = f + 1
    OBVIOUS
  <2> QED BY <1>1, <1>2, <1>3, <1>4 DEF View
<1> QED BY <1>2, <1>5

\* The screen shows the last of the lines.
Hidden(ls) == IF Len(ls) > NUM_ROWS THEN Len(ls) - NUM_ROWS ELSE 0

Shows(s, ls) == View(s, ls, Hidden(ls)) /\ s.row \in Rows

LEMMA PutcShows ==
  ASSUME NEW s, NEW ls, Shows(s, ls), NEW c \in Char, NEW q
  PROVE  Shows(Putc(s, c), LineStep(q, ls, c))
<1> PICK new : new = LineStep(q, ls, c)
  OBVIOUS
<1> PICK p : p = Put(s, c)
  OBVIOUS
<1> PICK f : f = Hidden(ls)
  OBVIOUS
<1> PICK n : n = Len(ls)
  OBVIOUS
<1>1. View(s, ls, f) /\ AreLines(ls) /\ s.row \in Rows /\ s.row = n - f - 1
  BY DEF Shows, View
<1>2. AreLines(new) /\ Grows(ls, c, new)
  BY <1>1, LineStepGrows
<1>3. /\ View(p, new, f) /\ p.row = IF Len(new) = n THEN s.row ELSE s.row + 1
      /\ Len(new) # n => p.col = 0
  BY <1>1, <1>2, PutShows
<1>4. n \in Nat \ {0} /\ NUM_ROWS \in Nat \ {0} /\ Len(new) \in {n, n + 1}
  BY <1>1, <1>2, ScreenAssumption DEF AreLines, Grows
<1>5. f = IF n > NUM_ROWS THEN n - NUM_ROWS ELSE 0
  BY DEF Hidden
<1>6. CASE p.row >= NUM_ROWS
  <2>1. Len(new) = n + 1 /\ p.row = NUM_ROWS /\ p.col = 0
    BY <1>1, <1>3, <1>4, <1>6 DEF Rows
  <2>2. Hidden(new) = f + 1
    BY <1>1, <1>3, <1>4, <1>5, <2>1 DEF Hidden
  <2>3. View(Scrolled(p), new, f + 1) /\ Scrolled(p).row = NUM_ROWS - 1
    BY <1>3, <2>1, ScrollShows
  <2>4. Putc(s, c) = Scrolled(p)
    BY <1>6 DEF Putc
  <2>5. NUM_ROWS - 1 \in Rows
    BY <1>4 DEF Rows
  <2> QED BY <2>2, <2>3, <2>4, <2>5 DEF Shows
<1>7. CASE ~(p.row >= NUM_ROWS)
  <2>1. p.row \in Rows
    BY <1>1, <1>3, <1>4, <1>7 DEF Rows
  <2>2. Hidden(new) = f
    BY <1>1, <1>3, <1>4, <1>5, <1>7 DEF Hidden, Rows
  <2>3. Putc(s, c) = p
    BY <1>7 DEF Putc
  <2> QED BY <1>3, <2>1, <2>2, <2>3 DEF Shows
<1> QED BY <1>6, <1>7

-----------------------------------------------------------------------------
(* The screen and all that was printed                                     *)

LinesFold == INSTANCE Recursion WITH Step <- LineStep, Keeps <- Nothing

NoLines == <<<<>>>>

LinesOf(t) == LinesFold!Folded(0, NoLines, t)

LEMMA LinesAre == Lines = LinesOf(text)
BY DEF Lines, LinesOf, NoLines, LinesFold!Folded, LinesFold!FoldLeft, LinesFold!MapThenFoldSet, LinesFold!Max,
   FoldLeft, MapThenFoldSet, Max, LineStep

LEMMA LinesLast ==
  ASSUME NEW n \in Nat \ {0}, NEW seq, DOMAIN seq = 1 .. n,
         NEW old, DOMAIN old = 1 .. n - 1, \A i \in 1 .. n - 1 : old[i] = seq[i]
  PROVE  LinesOf(seq) = LineStep(0, LinesOf(old), seq[n])
BY LinesFold!FoldLast DEF LinesOf

\* One character more is one step of the lines more.
LEMMA LinesGrow ==
  ASSUME NEW t \in Seq(Char), NEW chars \in Seq(Char), NEW i \in 1 .. Len(chars)
  PROVE  LinesOf(t \o SubSeq(chars, 1, i)) =
           LineStep(0, LinesOf(t \o SubSeq(chars, 1, i - 1)), chars[i])
<1> PICK h : h = i - 1
  OBVIOUS
<1> PICK p, o : p = SubSeq(chars, 1, i) /\ o = SubSeq(chars, 1, h)
  OBVIOUS
<1> PICK m : m = Len(t)
  OBVIOUS
<1>1. i \in Nat \ {0} /\ h \in Nat /\ i \in 0 .. Len(chars) /\ h \in 0 .. Len(chars) /\ m \in Nat
  OBVIOUS
<1>2. /\ p \in Seq(Char) /\ Len(p) = i /\ \A j \in 1 .. i : p[j] = chars[j]
      /\ o \in Seq(Char) /\ Len(o) = h /\ \A j \in 1 .. h : o[j] = chars[j]
  BY <1>1, PrefixOf
<1> PICK seq : seq = t \o p
  OBVIOUS
<1> PICK old : old = t \o o
  OBVIOUS
<1>3. /\ DOMAIN seq = 1 .. m + i
      /\ \A j \in 1 .. m + i : seq[j] = IF j <= m THEN t[j] ELSE p[j - m]
  <2>1. /\ seq \in Seq(Char) /\ Len(seq) = m + i
        /\ \A j \in 1 .. m + i : seq[j] = IF j <= m THEN t[j] ELSE p[j - m]
    BY <1>2, ConcatProperties
  <2> QED BY <2>1, LenProperties
<1>4. /\ DOMAIN old = 1 .. m + h
      /\ \A j \in 1 .. m + h : old[j] = IF j <= m THEN t[j] ELSE o[j - m]
  <2>1. /\ old \in Seq(Char) /\ Len(old) = m + h
        /\ \A j \in 1 .. m + h : old[j] = IF j <= m THEN t[j] ELSE o[j - m]
    BY <1>2, ConcatProperties
  <2> QED BY <2>1, LenProperties
<1>5. PICK n : n = m + i
  OBVIOUS
<1>6. n \in Nat \ {0} /\ DOMAIN seq = 1 .. n /\ DOMAIN old = 1 .. n - 1
  BY <1>1, <1>3, <1>4, <1>5
<1>7. \A j \in 1 .. n - 1 : old[j] = seq[j]
  <2> TAKE j \in 1 .. n - 1
  <2>1. j \in 1 .. m + i /\ j \in 1 .. m + h
    BY <1>1, <1>5
  <2>2. CASE j <= m
    BY <1>3, <1>4, <2>1, <2>2
  <2>3. CASE ~(j <= m)
    <3>1. j - m \in 1 .. h /\ j - m \in 1 .. i
      BY <1>1, <2>1, <2>3
    <3>2. p[j - m] = chars[j - m] /\ o[j - m] = chars[j - m]
      BY <1>2, <3>1
    <3> QED BY <1>3, <1>4, <2>1, <2>3, <3>2
  <2> QED BY <2>2, <2>3
<1>8. seq[n] = chars[i]
  <2>1. n \in 1 .. m + i /\ ~(n <= m) /\ n - m = i /\ i \in 1 .. i
    BY <1>1, <1>5
  <2>2. seq[n] = p[i]
    BY <1>3, <2>1
  <2> QED BY <1>2, <2>1, <2>2
<1>9. LinesOf(seq) = LineStep(0, LinesOf(old), seq[n])
  BY <1>6, <1>7, LinesLast
<1> QED BY <1>8, <1>9

LEMMA PutsAre ==
  ASSUME NEW s, NEW chars, NEW q
  PROVE  FoldLeft(Putc, s, chars) = ScreenFold!Folded(q, s, chars)
BY DEF ScreenFold!Folded, ScreenFold!FoldLeft, ScreenFold!MapThenFoldSet, ScreenFold!Max,
   FoldLeft, MapThenFoldSet, Max, PutcStep

\* The screen goes on to show what was printed, character by character.
LEMMA PrintShows ==
  ASSUME NEW s, NEW t \in Seq(Char), NEW chars \in Seq(Char), Shows(s, LinesOf(t))
  PROVE  Shows(FoldLeft(Putc, s, chars), LinesOf(t \o chars))
<1> PICK n : n = Len(chars)
  OBVIOUS
<1>1. n \in Nat /\ DOMAIN chars = 1 .. n /\ \A i \in 1 .. n : chars[i] \in Char
  BY ElementOfSeq
<1>2. PICK h : ScreenFold!IsFold(h, 0, s, chars, n) /\ ScreenFold!Folded(0, s, chars) = h[n]
  BY <1>1, ScreenFold!FoldSteps
<1> DEFINE Part(i) == LinesOf(t \o SubSeq(chars, 1, i))
           Have == {i \in 0 .. n : Shows(h[i], Part(i))}
<1>3. Part(0) = LinesOf(t) /\ Part(n) = LinesOf(t \o chars)
  <2>1. SubSeq(chars, 1, 0) = <<>> /\ SubSeq(chars, 1, n) = chars
    BY SubSeqEmpty, SubSeqFull
  <2>2. t \o <<>> = t
    BY ConcatEmptySeq
  <2> QED BY <2>1, <2>2
<1>4. \A i \in 1 .. n : Part(i) = LineStep(0, Part(i - 1), chars[i])
  BY LinesGrow
<1> HIDE DEF Part
<1>5. 0 \in Have
  <2>1. h[0] = s /\ 0 \in 0 .. n
    BY <1>1, <1>2 DEF ScreenFold!IsFold
  <2> QED BY <1>3, <2>1
<1>6. ASSUME NEW i \in 1 .. n, i - 1 \in Have PROVE i \in Have
  <2>1. Shows(h[i - 1], Part(i - 1))
    BY <1>6
  <2>2. h[i] = Putc(h[i - 1], chars[i])
    BY <1>2 DEF ScreenFold!IsFold, PutcStep
  <2>3. Shows(h[i], Part(i))
    BY <1>1, <1>4, <2>1, <2>2, PutcShows
  <2> QED BY <2>3
<1> HIDE DEF Have
<1>7. 0 .. n \subseteq Have
  BY <1>1, <1>5, <1>6, ScreenFold!UpTo
<1>8. Shows(h[n], Part(n))
  BY <1>1, <1>7 DEF Have
<1> QED BY <1>2, <1>3, <1>8, PutsAre

-----------------------------------------------------------------------------
(* The invariant                                                           *)

ScreenWhole == text \in Seq(Char) /\ Shows(Screen, LinesOf(text))

LEMMA BeginsBlank ==
  ASSUME ScreenInit
  PROVE  ScreenWhole
<1>1. NUM_COLS \in Nat \ {0} /\ NUM_ROWS \in Nat \ {0}
  BY ScreenAssumption
<1>2. text = <<>> /\ text \in Seq(Char)
  BY DEF ScreenInit
<1>3. LinesOf(text) = NoLines
  <2> PICK none : none = <<>>
    OBVIOUS
  <2>1. DOMAIN none = 1 .. 0
    OBVIOUS
  <2>2. LinesFold!Folded(0, NoLines, none) = NoLines
    BY <2>1, LinesFold!FoldEmpty
  <2> QED BY <1>2, <2>2 DEF LinesOf
<1>4. /\ NoLines \in Seq(Seq(Char)) /\ Len(NoLines) = 1 /\ NoLines[1] = <<>>
      /\ <<>> \in Seq(Char) /\ Len(<<>>) = 0
  BY DEF NoLines
<1>5. AreLines(NoLines) /\ Hidden(NoLines) = 0
  BY <1>1, <1>4 DEF AreLines, Hidden
<1>6. /\ IsScreen(Screen) /\ Screen.video = [i \in Cells |-> Blank]
      /\ Screen.row = 0 /\ Screen.col = 0
  BY DEF ScreenInit, Screen, IsScreen
<1>7. \A r \in Rows, c \in Columns : Screen.video[CellAt(r, c)] = LineAt(NoLines, 0 + r + 1, c + 1)
  <2> TAKE r \in Rows, c \in Columns
  <2> PICK n, k : n = 0 + r + 1 /\ k = c + 1
    OBVIOUS
  <2>1. n \in Nat \ {0} /\ k \in Nat \ {0}
    BY DEF Rows, Columns
  <2>2. LineAt(NoLines, n, k) = Blank
    BY <1>4, <2>1 DEF LineAt
  <2> QED BY <1>6, <2>2, CellOf
<1>8. View(Screen, NoLines, 0) /\ Screen.row \in Rows
  BY <1>1, <1>4, <1>5, <1>6, <1>7 DEF View, Rows
<1> QED BY <1>2, <1>3, <1>5, <1>8 DEF ScreenWhole, Shows

LEMMA PrintfWhole ==
  ASSUME ScreenWhole, NEW format, NEW args, Printf(format, args),
         Format(format, args, Converted) \in Seq(Char)
  PROVE  ScreenWhole'
<1> PICK chars : chars = Format(format, args, Converted)
  OBVIOUS
<1> PICK s : s = FoldLeft(Putc, Screen, chars)
  OBVIOUS
<1>1. text' = text \o chars /\ Screen' = [video |-> s.video, row |-> s.row, col |-> s.col]
  BY DEF Printf, Screen
<1>2. Shows(s, LinesOf(text \o chars)) /\ text \o chars \in Seq(Char)
  BY PrintShows, ConcatProperties DEF ScreenWhole
<1>3. s = [video |-> s.video, row |-> s.row, col |-> s.col]
  BY <1>2 DEF Shows, View, IsScreen
<1> QED BY <1>1, <1>2, <1>3 DEF ScreenWhole

LEMMA ScreenNextWhole ==
  ASSUME ScreenWhole, ScreenNext
  PROVE  ScreenWhole'
<1>1. ASSUME NEW m \in Messages, Printf(m[1], m[2]) PROVE ScreenWhole'
  <2>1. Format(m[1], m[2], Converted) \in Seq(Char)
    BY MessagesAssumption, FormatIsSeq
  <2> QED BY <1>1, <2>1, PrintfWhole
<1>2. ASSUME NEW m \in Puts, ProgramPuts(m) PROVE ScreenWhole'
  <2> PICK string : string = Sprintf(m[1], m[2])
    OBVIOUS
  <2>1. string \in Seq(Char)
    BY MessagesAssumption, SprintfIsSeq
  <2>2. Format(<<"%", "s">>, <<string>>, Converted) \in Seq(Char)
    BY <2>1, StringVerbatim
  <2>3. Printf(<<"%", "s">>, <<string>>)
    BY <1>2 DEF ProgramPuts, Kdebug
  <2> QED BY <2>2, <2>3, PrintfWhole
<1> QED BY <1>1, <1>2 DEF ScreenNext, KernelPrints

LEMMA TextStepWhole ==
  ASSUME ScreenWhole, [TextNext]_<<screenVars, devnodes>>
  PROVE  ScreenWhole'
<1>1. CASE UNCHANGED screenVars
  BY <1>1 DEF ScreenWhole, Screen, screenVars
<1>2. CASE ScreenNext
  BY <1>2, ScreenNextWhole
<1> QED BY <1>1, <1>2 DEF TextNext

LEMMA PrintfAdds ==
  ASSUME text \in Seq(Char), NEW format, NEW args, Printf(format, args),
         NEW chars \in Seq(Char), Format(format, args, Converted) = chars
  PROVE  Added = chars
<1> PICK n : n = Len(text)
  OBVIOUS
<1> PICK m : m = Len(chars)
  OBVIOUS
<1> PICK new : new = text'
  OBVIOUS
<1>1. new = text \o chars
  BY DEF Printf
<1>2. /\ new \in Seq(Char) /\ Len(new) = n + m /\ n \in Nat /\ m \in Nat
      /\ \A i \in 1 .. n + m : new[i] = IF i <= n THEN text[i] ELSE chars[i - n]
  BY <1>1, ConcatProperties, LenProperties
<1> PICK a : a = SubSeq(new, n + 1, n + m)
  OBVIOUS
<1>3. \A i \in n + 1 .. n + m : new[i] \in Char
  BY <1>2, ElementOfSeq
<1>4. /\ a \in Seq(Char) /\ Len(a) = IF n + 1 <= n + m THEN (n + m) - (n + 1) + 1 ELSE 0
      /\ \A i \in 1 .. (n + m) - (n + 1) + 1 : a[i] = new[(n + 1) + i - 1]
  BY <1>2, <1>3, SubSeqProperties
<1>5. Len(a) = m
  BY <1>2, <1>4
<1>6. ASSUME NEW i \in 1 .. m PROVE a[i] = chars[i]
  <2> PICK j : j = n + i
    OBVIOUS
  <2>1. /\ i \in 1 .. (n + m) - (n + 1) + 1 /\ (n + 1) + i - 1 = j
        /\ j \in 1 .. n + m /\ ~(j <= n) /\ j - n = i
    BY <1>2
  <2>2. a[i] = new[j]
    BY <1>4, <2>1
  <2>3. new[j] = chars[i]
    BY <1>2, <2>1
  <2> QED BY <2>2, <2>3
<1>7. a = chars
  BY <1>4, <1>5, <1>6, SeqEqual
<1>8. Added = SubSeq(new, n + 1, Len(new))
  BY DEF Added
<1> QED BY <1>2, <1>7, <1>8

LEMMA WholeShows ==
  ASSUME ScreenWhole
  PROVE  ScreenShowsText
<1> PICK ls : ls = LinesOf(text)
  OBVIOUS
<1> PICK n : n = Len(ls)
  OBVIOUS
<1> PICK f : f = Hidden(ls)
  OBVIOUS
<1>1. Lines = ls
  BY LinesAre
<1>2. /\ View(Screen, ls, f) /\ Screen.row \in Rows
      /\ Screen.video = video /\ Screen.row = row /\ Screen.col = col
  BY DEF ScreenWhole, Shows, Screen
<1>3. /\ n \in Nat \ {0} /\ f = IF n > NUM_ROWS THEN n - NUM_ROWS ELSE 0
      /\ row = n - f - 1 /\ col = Len(ls[n]) /\ col \in Columns /\ row \in Rows
      /\ NUM_ROWS \in Nat \ {0} /\ NUM_COLS \in Nat \ {0}
  BY <1>2, ScreenAssumption DEF View, AreLines, Hidden, Columns
<1>4. ASSUME NEW i \in Cells PROVE video[i] = Shown(ls, i)
  <2> PICK r : r = i \div NUM_COLS
    OBVIOUS
  <2> PICK c : c = i % NUM_COLS
    OBVIOUS
  <2>1. r \in Rows /\ c \in Columns /\ CellAt(r, c) = i
    BY PlaceOf
  <2>2. video[i] = LineAt(ls, f + r + 1, c + 1)
    BY <1>2, <2>1 DEF View
  <2>3. Shown(ls, i) = LineAt(ls, f + r + 1, c + 1)
    BY DEF Shown, LineAt, Hidden
  <2> QED BY <2>2, <2>3
<1>5. row * NUM_COLS + col \in Cells
  BY <1>3, CellOf DEF CellAt
<1>6. row = (IF n > NUM_ROWS THEN NUM_ROWS ELSE n) - 1
  BY <1>3
<1>7. col = Len(Last(ls))
  BY <1>3 DEF Last
<1> QED BY <1>1, <1>4, <1>5, <1>6, <1>7 DEF ScreenShowsText

\* The screen shows the last lines of all that was ever printed, and the cursor
\* is behind it and on the screen: for every size of screen, every message that
\* fits its format and every int, whatever programs put there
\* (bootvideo.c:18-43, 45-133).
THEOREM ScreenKeepsText == TextSpec => []ScreenShowsText
<1>1. TextInit => ScreenWhole
  BY BeginsBlank DEF TextInit
<1>2. ScreenWhole /\ [TextNext]_<<screenVars, devnodes>> => ScreenWhole'
  BY TextStepWhole
<1>3. ScreenWhole => ScreenShowsText
  BY WholeShows
<1> QED BY <1>1, <1>2, <1>3, PTL DEF TextSpec

\* What a program formats reaches the screen as it is, also what looks like a
\* conversion in it, for every message (syscall.c:34-36, libak/syscall.c:6-8,
\* 206-252).
THEOREM PutsStayVerbatim == TextSpec => PutsIsVerbatim
<1>1. TextInit => ScreenWhole
  BY BeginsBlank DEF TextInit
<1>2. ScreenWhole /\ [TextNext]_<<screenVars, devnodes>> => ScreenWhole'
  BY TextStepWhole
<1>3. ScreenWhole => \A m \in Puts : ProgramPuts(m) => Added = Sprintf(m[1], m[2])
  <2> SUFFICES ASSUME ScreenWhole, NEW m \in Puts, ProgramPuts(m)
               PROVE  Added = Sprintf(m[1], m[2])
    OBVIOUS
  <2> PICK string : string = Sprintf(m[1], m[2])
    OBVIOUS
  <2>1. string \in Seq(Char)
    BY MessagesAssumption, SprintfIsSeq
  <2>2. Printf(<<"%", "s">>, <<string>>)
    BY DEF ProgramPuts, Kdebug
  <2> QED BY <2>1, <2>2, StringVerbatim, PrintfAdds DEF ScreenWhole
<1> QED BY <1>1, <1>2, <1>3, PTL DEF TextSpec, PutsIsVerbatim

\* A number that is printed stands for the argument, as short as it can be and
\* within printf()'s 20 bytes, for every int, base and message (bootvideo.c:45-85).
THEOREM NumbersStayTrue == TextSpec => NumbersDenote
<1>1. TextInit => ScreenWhole
  BY BeginsBlank DEF TextInit
<1>2. ScreenWhole /\ [TextNext]_<<screenVars, devnodes>> => ScreenWhole'
  BY TextStepWhole
<1>3. ScreenWhole => \A m \in Messages :
        Len(m[1]) = 2 /\ m[1][1] = "%" /\ m[1][2] \in {"d", "u", "x", "l"} /\ Printf(m[1], m[2]) =>
          Denotes(m[1][2], m[2][1], Added)
  <2> SUFFICES ASSUME ScreenWhole, NEW m \in Messages, Len(m[1]) = 2, m[1][1] = "%",
                      m[1][2] \in {"d", "u", "x", "l"}, Printf(m[1], m[2])
               PROVE  Denotes(m[1][2], m[2][1], Added)
    OBVIOUS
  <2> PICK base : base = m[1][2]
    OBVIOUS
  <2> PICK d : d = m[2][1]
    OBVIOUS
  <2>1. Fits(m[1], m[2], Converted, {"d", "u", "x", "l"})
    BY MessagesAssumption
  <2>2. d \in Ints
    <3>1. d \in Kind(base, {"d", "u", "x", "l"})
      BY <2>1, OneArgument
    <3> QED BY <3>1 DEF Kind
  <2> PICK chars : chars = Itoa(base, d)
    OBVIOUS
  <2>3. chars \in Seq(Char) /\ Denotes(base, d, chars)
    BY <2>2, ItoaIsSeq, ItoaDenotes
  <2>4. Format(m[1], m[2], Converted) = chars
    <3>1. m[1] \in Seq(Char)
      BY <2>1 DEF Fits
    <3>2. DOMAIN m[1] = 1 .. 2
      BY <3>1, LenProperties
    <3>3. Converted(base, d) = chars
      BY DEF Converted
    <3> QED BY <2>3, <3>2, <3>3, OneConversion
  <2>5. Added = chars
    BY <2>3, <2>4, PrintfAdds DEF ScreenWhole
  <2> QED BY <2>3, <2>5
<1> QED BY <1>1, <1>2, <1>3, PTL DEF TextSpec, NumbersDenote
=============================================================================
