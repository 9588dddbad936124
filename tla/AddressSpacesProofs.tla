------------------------- MODULE AddressSpacesProofs -------------------------
(***************************************************************************)
(* Proofs about the lists of regions of address spaces, for address spaces *)
(* of any size and lists of any length: whatever is created in them,       *)
(* carved out of them and merged again, they neither overlap nor leave     *)
(* gaps.                                                                   *)
(***************************************************************************)
EXTENDS Processes, SequenceTheorems, FiniteSetTheorems, TLAPS

Kinds == {"FREE", "STACK", "CORE", "ANON", "IPC"}

Regions == [va : Nat, len : Nat, type : Kinds, param : Nat]

On(r, a) == r.va <= a /\ a < r.va + r.len

\* The stack is in its place, everything else below it; only what is free
\* may be empty.
InPlace(r) ==
  IF r.type = "STACK" THEN r.va = Top /\ r.len = StackPages
  ELSE /\ Low <= r.va /\ r.va < Top /\ r.va + r.len <= Top
       /\ r.len = 0 => r.type = "FREE"

OffEachOther(r, s) ==
  \/ r.va + r.len <= s.va \/ s.va + s.len <= r.va
  \/ r.len = 0 \/ s.len = 0

Apart(list) == \A i, j \in DOMAIN list : i # j => OffEachOther(list[i], list[j])

Tidy(list) ==
  /\ list \in Seq(Regions)
  /\ Apart(list)
  /\ \A i \in DOMAIN list : InPlace(list[i])
  /\ \A a \in Low .. Top - 1 : \E i \in DOMAIN list : On(list[i], a)

HasStack(list) == \E i \in DOMAIN list : list[i].type = "STACK"

Used(list) == {r \in ToSet(list) : r.type # "FREE"}

-----------------------------------------------------------------------------
LEMMA PageOn ==
  ASSUME NEW r \in Regions, NEW a \in Int
  PROVE  a \in Pages(r) <=> On(r, a)
BY DEF Pages, On, Regions

LEMMA RegionFields ==
  ASSUME NEW va \in Nat, NEW len \in Nat, NEW type \in Kinds, NEW param \in Nat
  PROVE  /\ Region(va, len, type, param) \in Regions
         /\ Region(va, len, type, param).va = va
         /\ Region(va, len, type, param).len = len
         /\ Region(va, len, type, param).type = type
         /\ Region(va, len, type, param).param = param
BY DEF Region, Regions


NoStep(q, s, r) == s
Anything(q, k, s) == TRUE
Numbers == INSTANCE Recursion WITH Step <- NoStep, Keeps <- Anything

LEMMA LeastIsIn ==
  ASSUME NEW S \in SUBSET Nat, S # {}
  PROVE  Min(S) \in S /\ \A x \in S : Min(S) <= x
<1>1. \E x \in S : \A y \in S : x <= y
  BY Numbers!LeastNumber
<1> QED BY <1>1 DEF Min

LEMMA GreatestIsIn ==
  ASSUME NEW n \in Nat, NEW S \in SUBSET (1 .. n), S # {}
  PROVE  Max(S) \in S /\ \A x \in S : x <= Max(S)
<1>1. Numbers!Max(S) \in S /\ \A x \in S : x <= Numbers!Max(S)
  BY Numbers!MaxIsIn
<1> QED BY <1>1 DEF Max, Numbers!Max

LEMMA DetermineRegionFinds ==
  ASSUME NEW list \in Seq(Regions), NEW a \in Int, NEW d, d = DetermineRegion(list, a)
  PROVE  \/ d \in DOMAIN list /\ On(list[d], a)
         \/ d = 0 /\ \A i \in DOMAIN list : ~On(list[i], a)
<1> DEFINE I == {i \in 1 .. Len(list) : a \in Pages(list[i])}
<1>1. d = IF I # {} THEN Min(I) ELSE 0
  BY DEF DetermineRegion, SelectInSeq
<1>2. \A i \in 1 .. Len(list) : list[i] \in Regions /\ (i \in I <=> On(list[i], a))
  <2>1. \A i \in 1 .. Len(list) : list[i] \in Regions
    OBVIOUS
  <2> QED BY <2>1, PageOn
<1>3. I \in SUBSET Nat /\ DOMAIN list = 1 .. Len(list)
  OBVIOUS
<1> HIDE DEF I
<1>4. CASE I # {}
  <2>1. d \in I
    BY <1>1, <1>3, <1>4, LeastIsIn
  <2>2. I \subseteq DOMAIN list
    BY <1>3 DEF I
  <2> QED BY <1>2, <1>3, <2>1, <2>2
<1>5. CASE I = {}
  BY <1>1, <1>2, <1>3, <1>5
<1> QED BY <1>4, <1>5

LEMMA RemoveAtFacts ==
  ASSUME NEW S, NEW s \in Seq(S), NEW i \in DOMAIN s, NEW t, t = RemoveAt(s, i)
  PROVE  /\ t \in Seq(S) /\ Len(t) = Len(s) - 1
         /\ \A j \in DOMAIN t : t[j] = IF j < i THEN s[j] ELSE s[j + 1]
<1>1. Len(s) \in Nat /\ DOMAIN s = 1 .. Len(s) /\ i \in 1 .. Len(s)
  OBVIOUS
<1> DEFINE u == SubSeq(s, 1, i - 1)  v == SubSeq(s, i + 1, Len(s))
<1>2. u \in Seq(S) /\ Len(u) = i - 1 /\ \A j \in 1 .. i - 1 : u[j] = s[j]
  <2>1. \A j \in 1 .. i - 1 : s[j] \in S
    BY <1>1
  <2>2. 1 \in Int /\ i - 1 \in Int
    BY <1>1
  <2>3. /\ u \in Seq(S)
        /\ Len(u) = IF 1 <= i - 1 THEN (i - 1) - 1 + 1 ELSE 0
        /\ \A j \in 1 .. (i - 1) - 1 + 1 : u[j] = s[1 + j - 1]
    BY <2>1, <2>2, SubSeqProperties
  <2> HIDE DEF u
  <2> QED BY <1>1, <2>3
<1>3. v \in Seq(S) /\ Len(v) = Len(s) - i /\ \A j \in 1 .. Len(s) - i : v[j] = s[i + j]
  <2>1. \A j \in i + 1 .. Len(s) : s[j] \in S
    BY <1>1
  <2>2. i + 1 \in Int /\ Len(s) \in Int
    BY <1>1
  <2>3. /\ v \in Seq(S)
        /\ Len(v) = IF i + 1 <= Len(s) THEN Len(s) - (i + 1) + 1 ELSE 0
        /\ \A j \in 1 .. Len(s) - (i + 1) + 1 : v[j] = s[(i + 1) + j - 1]
    BY <2>1, <2>2, SubSeqProperties
  <2> HIDE DEF v
  <2>4. Len(v) = Len(s) - i
    BY <1>1, <2>3
  <2>5. ASSUME NEW j \in 1 .. Len(s) - i PROVE v[j] = s[i + j]
    <3>1. j \in 1 .. Len(s) - (i + 1) + 1 /\ (i + 1) + j - 1 = i + j
      BY <1>1
    <3>2. v[j] = s[(i + 1) + j - 1]
      BY <2>3, <3>1
    <3> QED BY <3>1, <3>2
  <2> QED BY <2>3, <2>4, <2>5
<1>4. t = u \o v
  BY DEF RemoveAt
<1> HIDE DEF u, v
<1>5. /\ t \in Seq(S)
      /\ Len(t) = Len(u) + Len(v)
      /\ \A j \in 1 .. Len(u) + Len(v) : t[j] = IF j <= Len(u) THEN u[j] ELSE v[j - Len(u)]
  <2>1. /\ u \o v \in Seq(S)
        /\ Len(u \o v) = Len(u) + Len(v)
        /\ \A j \in 1 .. Len(u) + Len(v) : (u \o v)[j] = IF j <= Len(u) THEN u[j] ELSE v[j - Len(u)]
    BY <1>2, <1>3, ConcatProperties
  <2> QED BY <1>4, <2>1
<1>6. t \in Seq(S) /\ Len(t) = Len(s) - 1 /\ DOMAIN t = 1 .. Len(s) - 1
  <2>1. t \in Seq(S) /\ DOMAIN t = 1 .. Len(t)
    BY <1>5
  <2>2. Len(t) = Len(s) - 1
    BY <1>1, <1>2, <1>3, <1>5
  <2> QED BY <2>1, <2>2
<1>7. ASSUME NEW j \in DOMAIN t PROVE t[j] = IF j < i THEN s[j] ELSE s[j + 1]
  <2>0. j \in 1 .. Len(s) - 1 /\ j \in 1 .. Len(u) + Len(v)
    BY <1>1, <1>2, <1>3, <1>6
  <2>1. j \in 1 .. Len(s) - 1 /\ t[j] = IF j <= i - 1 THEN u[j] ELSE v[j - (i - 1)]
    BY <1>2, <1>4, <1>5, <2>0
  <2>2. CASE j < i
    BY <1>1, <1>2, <2>1, <2>2
  <2>3. CASE ~(j < i)
    <3>1. j - (i - 1) \in 1 .. Len(s) - i /\ i + (j - (i - 1)) = j + 1
      BY <1>1, <2>1, <2>3
    <3> QED BY <1>1, <1>3, <2>1, <2>3, <3>1
  <2> QED BY <2>2, <2>3
<1> QED BY <1>6, <1>7

LEMMA InsertAtFacts ==
  ASSUME NEW S, NEW s \in Seq(S), NEW i \in 1 .. Len(s) + 1, NEW e \in S,
         NEW t, t = InsertAt(s, i, e)
  PROVE  /\ t \in Seq(S) /\ Len(t) = Len(s) + 1
         /\ \A j \in DOMAIN t : t[j] = IF j < i THEN s[j] ELSE IF j = i THEN e ELSE s[j - 1]
<1>1. Len(s) \in Nat /\ DOMAIN s = 1 .. Len(s)
  OBVIOUS
<1> DEFINE u == SubSeq(s, 1, i - 1)  v == SubSeq(s, i, Len(s))
<1>2. u \in Seq(S) /\ Len(u) = i - 1 /\ \A j \in 1 .. i - 1 : u[j] = s[j]
  <2>1. \A j \in 1 .. i - 1 : s[j] \in S
    BY <1>1
  <2>2. 1 \in Int /\ i - 1 \in Int
    BY <1>1
  <2>3. /\ u \in Seq(S)
        /\ Len(u) = IF 1 <= i - 1 THEN (i - 1) - 1 + 1 ELSE 0
        /\ \A j \in 1 .. (i - 1) - 1 + 1 : u[j] = s[1 + j - 1]
    BY <2>1, <2>2, SubSeqProperties
  <2> HIDE DEF u
  <2> QED BY <1>1, <2>3
<1>3. v \in Seq(S) /\ Len(v) = Len(s) - i + 1 /\ \A j \in 1 .. Len(s) - i + 1 : v[j] = s[i + j - 1]
  <2>1. \A j \in i .. Len(s) : s[j] \in S
    BY <1>1
  <2>2. i \in Int /\ Len(s) \in Int
    BY <1>1
  <2>3. /\ v \in Seq(S)
        /\ Len(v) = IF i <= Len(s) THEN Len(s) - i + 1 ELSE 0
        /\ \A j \in 1 .. Len(s) - i + 1 : v[j] = s[i + j - 1]
    BY <2>1, <2>2, SubSeqProperties
  <2> HIDE DEF v
  <2> QED BY <1>1, <2>3
<1> DEFINE w == u \o <<e>>
<1>4. t = w \o v
  BY DEF InsertAt
<1> HIDE DEF u, v
<1>5. <<e>> \in Seq(S) /\ Len(<<e>>) = 1 /\ <<e>>[1] = e
  OBVIOUS
<1>6. /\ w \in Seq(S) /\ Len(w) = i
      /\ \A j \in 1 .. i : w[j] = IF j < i THEN u[j] ELSE e
  <2>1. /\ u \o <<e>> \in Seq(S)
        /\ Len(u \o <<e>>) = Len(u) + Len(<<e>>)
        /\ \A j \in 1 .. Len(u) + Len(<<e>>) :
             (u \o <<e>>)[j] = IF j <= Len(u) THEN u[j] ELSE <<e>>[j - Len(u)]
    BY <1>2, <1>5, ConcatProperties
  <2>2. w \in Seq(S) /\ Len(w) = i
    BY <1>1, <1>2, <1>5, <2>1
  <2>3. ASSUME NEW j \in 1 .. i PROVE w[j] = IF j < i THEN u[j] ELSE e
    <3>0. j \in 1 .. Len(u) + Len(<<e>>)
      BY <1>1, <1>2, <1>5
    <3>1. w[j] = IF j <= Len(u) THEN u[j] ELSE <<e>>[j - Len(u)]
      BY <2>1, <3>0
    <3>2. CASE j < i
      <4>1. j <= Len(u)
        BY <1>1, <1>2, <3>2
      <4> QED BY <3>1, <3>2, <4>1
    <3>3. CASE j = i
      <4>1. ~(j <= Len(u)) /\ j - Len(u) = 1
        BY <1>1, <1>2, <3>3
      <4> QED BY <1>5, <3>1, <3>3, <4>1
    <3>4. j < i \/ j = i
      BY <1>1
    <3> HIDE DEF w
    <3> QED BY <3>2, <3>3, <3>4
  <2> QED BY <2>2, <2>3
<1> HIDE DEF w
<1>7. /\ w \o v \in Seq(S)
      /\ Len(w \o v) = Len(w) + Len(v)
      /\ \A j \in 1 .. Len(w) + Len(v) : (w \o v)[j] = IF j <= Len(w) THEN w[j] ELSE v[j - Len(w)]
  BY <1>3, <1>6, ConcatProperties
<1>8. t \in Seq(S) /\ Len(t) = Len(s) + 1 /\ DOMAIN t = 1 .. Len(s) + 1
  BY <1>1, <1>3, <1>4, <1>6, <1>7
<1>9. ASSUME NEW j \in DOMAIN t
      PROVE  t[j] = IF j < i THEN s[j] ELSE IF j = i THEN e ELSE s[j - 1]
  <2>1. j \in 1 .. Len(s) + 1 /\ t[j] = IF j <= i THEN w[j] ELSE v[j - i]
    BY <1>1, <1>3, <1>4, <1>6, <1>7, <1>8
  <2>2. CASE j <= i
    BY <1>1, <1>2, <1>6, <2>1, <2>2
  <2>3. CASE ~(j <= i)
    <3>1. j - i \in 1 .. Len(s) - i + 1 /\ i + (j - i) - 1 = j - 1
      BY <1>1, <2>1, <2>3
    <3> QED BY <1>1, <1>3, <2>1, <2>3, <3>1
  <2> QED BY <2>2, <2>3
<1> QED BY <1>8, <1>9

LEMMA PrependFacts ==
  ASSUME NEW S, NEW s \in Seq(S), NEW e \in S, NEW t, t = <<e>> \o s
  PROVE  /\ t \in Seq(S) /\ Len(t) = Len(s) + 1 /\ t[1] = e
         /\ \A j \in DOMAIN s : t[j + 1] = s[j]
         /\ \A j \in DOMAIN t : j = 1 \/ (j - 1 \in DOMAIN s /\ t[j] = s[j - 1])
<1>1. <<e>> \in Seq(S) /\ Len(<<e>>) = 1 /\ <<e>>[1] = e
  OBVIOUS
<1>2. /\ <<e>> \o s \in Seq(S)
      /\ Len(<<e>> \o s) = Len(<<e>>) + Len(s)
      /\ \A j \in 1 .. Len(<<e>>) + Len(s) :
           (<<e>> \o s)[j] = IF j <= Len(<<e>>) THEN <<e>>[j] ELSE s[j - Len(<<e>>)]
  BY <1>1, ConcatProperties
<1>3. Len(s) \in Nat /\ DOMAIN s = 1 .. Len(s)
  OBVIOUS
<1>4. t \in Seq(S) /\ Len(t) = Len(s) + 1 /\ DOMAIN t = 1 .. Len(s) + 1
  BY <1>1, <1>2, <1>3
<1>5. \A j \in 1 .. Len(s) + 1 : t[j] = IF j <= 1 THEN <<e>>[j] ELSE s[j - 1]
  BY <1>1, <1>2, <1>3
<1>6. t[1] = e
  BY <1>1, <1>3, <1>5
<1>7. \A j \in DOMAIN s : t[j + 1] = s[j]
  BY <1>3, <1>5
<1>8. \A j \in DOMAIN t : j = 1 \/ (j - 1 \in DOMAIN s /\ t[j] = s[j - 1])
  BY <1>3, <1>4, <1>5
<1> QED BY <1>4, <1>6, <1>7, <1>8
-----------------------------------------------------------------------------
\* Where an element of a list with one taken out comes from.
Skip(i, j) == IF j < i THEN j ELSE j + 1

LEMMA RemoveAtElements ==
  ASSUME NEW S, NEW s \in Seq(S), NEW i \in DOMAIN s, NEW t, t = RemoveAt(s, i)
  PROVE  /\ t \in Seq(S)
         /\ \A j \in DOMAIN t : Skip(i, j) \in DOMAIN s \ {i} /\ t[j] = s[Skip(i, j)]
         /\ \A j, k \in DOMAIN t : j # k => Skip(i, j) # Skip(i, k)
         /\ \A k \in DOMAIN s \ {i} : \E j \in DOMAIN t : Skip(i, j) = k
<1>1. /\ t \in Seq(S) /\ Len(t) = Len(s) - 1
      /\ \A j \in DOMAIN t : t[j] = IF j < i THEN s[j] ELSE s[j + 1]
  BY RemoveAtFacts
<1>2. Len(s) \in Nat /\ DOMAIN s = 1 .. Len(s) /\ DOMAIN t = 1 .. Len(s) - 1
  BY <1>1
<1>3. ASSUME NEW j \in DOMAIN t PROVE Skip(i, j) \in DOMAIN s \ {i} /\ t[j] = s[Skip(i, j)]
  BY <1>1, <1>2 DEF Skip
<1>4. \A j, k \in DOMAIN t : j # k => Skip(i, j) # Skip(i, k)
  BY <1>2 DEF Skip
<1>5. ASSUME NEW k \in DOMAIN s \ {i} PROVE \E j \in DOMAIN t : Skip(i, j) = k
  <2>1. CASE k < i
    <3>1. k \in DOMAIN t /\ Skip(i, k) = k
      BY <1>2, <2>1 DEF Skip
    <3> QED BY <3>1
  <2>2. CASE ~(k < i)
    <3>1. k - 1 \in DOMAIN t /\ Skip(i, k - 1) = k
      BY <1>2, <2>2 DEF Skip
    <3> QED BY <3>1
  <2> QED BY <2>1, <2>2
<1> QED BY <1>1, <1>3, <1>4, <1>5

\* r grown by what comes behind it.
Grown(r, s, R) == R \in Regions /\ R.va = r.va /\ R.len = r.len + s.len

LEMMA GrownOff ==
  ASSUME NEW r \in Regions, NEW s \in Regions, NEW R, Grown(r, s, R), s.va = r.va + r.len,
         NEW q \in Regions, OffEachOther(r, q), OffEachOther(s, q)
  PROVE  OffEachOther(R, q) /\ OffEachOther(q, R)
BY DEF Grown, OffEachOther, Regions

LEMMA OffSymmetric ==
  ASSUME NEW r \in Regions, NEW s \in Regions
  PROVE  OffEachOther(r, s) <=> OffEachOther(s, r)
BY DEF OffEachOther, Regions

\* A region that takes in the one that begins where it ends.
Absorbs(list, g, x, R, t) ==
  /\ Tidy(list) /\ g \in DOMAIN list /\ x \in DOMAIN list /\ g # x
  /\ list[x].va = list[g].va + list[g].len
  /\ Grown(list[g], list[x], R) /\ InPlace(R)
  /\ t = RemoveAt([list EXCEPT ![g] = R], x)

Absorbed(list, g, x, R, t) ==
  /\ \A j \in DOMAIN t : IF Skip(x, j) = g THEN t[j] = R
                         ELSE /\ Skip(x, j) \in DOMAIN list \ {g, x}
                              /\ t[j] = list[Skip(x, j)]
  /\ \A k \in DOMAIN list \ {x} : \E j \in DOMAIN t : Skip(x, j) = k

LEMMA AbsorbTidy ==
  ASSUME NEW list, NEW g, NEW x, NEW R, NEW t, Absorbs(list, g, x, R, t)
  PROVE  Tidy(t) /\ Absorbed(list, g, x, R, t)
<1>0. /\ Tidy(list) /\ g \in DOMAIN list /\ x \in DOMAIN list /\ g # x
      /\ list[x].va = list[g].va + list[g].len
      /\ Grown(list[g], list[x], R) /\ InPlace(R)
  BY DEF Absorbs
<1>a. PICK grown : grown = [list EXCEPT ![g] = R]
  OBVIOUS
<1>b. t = RemoveAt(grown, x)
  BY <1>a DEF Absorbs
<1>1. /\ list \in Seq(Regions) /\ Apart(list) /\ \A i \in DOMAIN list : InPlace(list[i])
      /\ \A a \in Low .. Top - 1 : \E i \in DOMAIN list : On(list[i], a)
  BY <1>0 DEF Tidy
<1>2. R \in Regions
  BY <1>0 DEF Grown
<1>3. grown \in Seq(Regions) /\ DOMAIN grown = DOMAIN list
  BY <1>0, <1>1, <1>2, <1>a
<1>4. \A k \in DOMAIN list : grown[k] = IF k = g THEN R ELSE list[k]
  BY <1>1, <1>a
<1>5. \A k \in DOMAIN list : list[k] \in Regions
  BY <1>1
<1>6. /\ t \in Seq(Regions)
      /\ \A j \in DOMAIN t : Skip(x, j) \in DOMAIN grown \ {x} /\ t[j] = grown[Skip(x, j)]
      /\ \A j, k \in DOMAIN t : j # k => Skip(x, j) # Skip(x, k)
      /\ \A k \in DOMAIN grown \ {x} : \E j \in DOMAIN t : Skip(x, j) = k
  <2>1. x \in DOMAIN grown
    BY <1>0, <1>3
  <2> QED BY <1>3, <1>b, <2>1, RemoveAtElements
<1>7. ASSUME NEW j \in DOMAIN list, NEW k \in DOMAIN list, j # k, j # x, k # x
      PROVE  OffEachOther(grown[j], grown[k])
  <2>1. OffEachOther(list[j], list[k])
    BY <1>1, <1>7 DEF Apart
  <2>2. CASE j = g
    <3>1. OffEachOther(list[g], list[k]) /\ OffEachOther(list[x], list[k])
      BY <1>0, <1>1, <1>7, <2>2 DEF Apart
    <3> QED BY <1>0, <1>4, <1>5, <1>7, <2>2, <3>1, GrownOff
  <2>3. CASE k = g
    <3>1. OffEachOther(list[g], list[j]) /\ OffEachOther(list[x], list[j])
      BY <1>0, <1>1, <1>7, <2>3 DEF Apart
    <3> QED BY <1>0, <1>4, <1>5, <1>7, <2>3, <3>1, GrownOff
  <2> QED BY <1>4, <2>1, <2>2, <2>3
<1>8. Apart(t)
  <2> SUFFICES ASSUME NEW j \in DOMAIN t, NEW k \in DOMAIN t, j # k
               PROVE  OffEachOther(t[j], t[k])
    BY DEF Apart
  <2>1. /\ Skip(x, j) \in DOMAIN list \ {x} /\ t[j] = grown[Skip(x, j)]
        /\ Skip(x, k) \in DOMAIN list \ {x} /\ t[k] = grown[Skip(x, k)]
        /\ Skip(x, j) # Skip(x, k)
    BY <1>3, <1>6
  <2> QED BY <1>7, <2>1
<1>9. \A j \in DOMAIN t : InPlace(t[j])
  BY <1>0, <1>1, <1>3, <1>4, <1>6
<1>10. ASSUME NEW a \in Low .. Top - 1 PROVE \E j \in DOMAIN t : On(t[j], a)
  <2>1. PICK i \in DOMAIN list : On(list[i], a)
    BY <1>1
  <2>2. CASE i \in {g, x}
    <3>1. a \in Int
      BY AddressSpacesAssumption
    <3>2. On(R, a)
      BY <1>0, <1>5, <2>1, <2>2, <3>1 DEF On, Grown, Regions
    <3>3. PICK j \in DOMAIN t : Skip(x, j) = g
      BY <1>0, <1>3, <1>6
    <3>4. t[j] = R
      BY <1>0, <1>3, <1>4, <1>6, <3>3
    <3> QED BY <3>2, <3>4
  <2>3. CASE i \notin {g, x}
    <3>1. PICK j \in DOMAIN t : Skip(x, j) = i
      BY <1>3, <1>6, <2>3
    <3>2. t[j] = list[i]
      BY <1>4, <1>6, <2>3, <3>1
    <3> QED BY <2>1, <3>2
  <2> QED BY <2>2, <2>3
<1>11. Tidy(t)
  BY <1>6, <1>8, <1>9, <1>10 DEF Tidy
<1>12. ASSUME NEW j \in DOMAIN t
       PROVE  IF Skip(x, j) = g THEN t[j] = R
              ELSE Skip(x, j) \in DOMAIN list \ {g, x} /\ t[j] = list[Skip(x, j)]
  BY <1>3, <1>4, <1>6
<1>13. Absorbed(list, g, x, R, t)
  BY <1>3, <1>6, <1>12 DEF Absorbed
<1> QED BY <1>11, <1>13
\* What is used, but for one region of each list.
OthersKept(list, i, t, at) ==
  /\ \A j \in DOMAIN t \ {at} : t[j].type # "FREE" => \E k \in DOMAIN list \ {i} : list[k] = t[j]
  /\ \A k \in DOMAIN list \ {i} : list[k].type # "FREE" => \E j \in DOMAIN t \ {at} : t[j] = list[k]

\* Region i of a list may be merged.
Mergeable(list, i) ==
  /\ Tidy(list) /\ i \in DOMAIN list /\ list[i].type # "STACK" /\ list[i].len > 0

LEMMA StackStays ==
  ASSUME NEW list, NEW i \in DOMAIN list, HasStack(list), list[i].type # "STACK",
         NEW t, NEW at, OthersKept(list, i, t, at)
  PROVE  HasStack(t)
<1>1. PICK k \in DOMAIN list : list[k].type = "STACK"
  BY DEF HasStack
<1>2. PICK j \in DOMAIN t \ {at} : t[j] = list[k]
  BY <1>1 DEF OthersKept
<1> QED BY <1>1, <1>2 DEF HasStack

LEMMA MeetingRegions ==
  ASSUME NEW r \in Regions, NEW s \in Regions, OffEachOther(r, s), s.len > 0
  PROVE  /\ On(r, s.va - 1) => s.va = r.va + r.len
         /\ On(r, s.va + s.len) => r.va = s.va + s.len
BY DEF On, OffEachOther, Regions

LEMMA GrownInPlace ==
  ASSUME NEW r \in Regions, NEW s \in Regions, NEW R, Grown(r, s, R), R.type = "FREE",
         InPlace(r), InPlace(s), r.type # "STACK", s.type # "STACK", s.va = r.va + r.len,
         r.len > 0
  PROVE  InPlace(R) /\ R.len > 0
BY AddressSpacesAssumption DEF Grown, InPlace, Regions

LEMMA MergeBeforeTidy ==
  ASSUME NEW list, NEW i, Mergeable(list, i), NEW n, n = MergeBefore(list, i)
  PROVE  Mergeable(n.list, n.at) /\ OthersKept(list, i, n.list, n.at)
<1> DEFINE b == DetermineRegion(list, list[i].va - 1)
<1>1. /\ Tidy(list) /\ i \in DOMAIN list /\ list[i].type # "STACK" /\ list[i].len > 0
      /\ list \in Seq(Regions) /\ Apart(list) /\ InPlace(list[i])
  BY DEF Mergeable, Tidy
<1>2. \A k \in DOMAIN list : list[k] \in Regions
  BY <1>1
<1>3. list[i].va \in Nat /\ list[i].len \in Nat /\ list[i].va - 1 \in Int
  BY <1>1, <1>2 DEF Regions
<1>4. \/ b \in DOMAIN list /\ On(list[b], list[i].va - 1)
      \/ b = 0 /\ \A k \in DOMAIN list : ~On(list[k], list[i].va - 1)
  BY <1>1, <1>3, DetermineRegionFinds
<1>5. CASE ~IsFree(list, b)
  <2>1. n = [list |-> list, at |-> i]
    BY <1>5 DEF MergeBefore
  <2>2. n.list = list /\ n.at = i
    BY <2>1
  <2> QED BY <2>2 DEF Mergeable, OthersKept
<1>6. CASE IsFree(list, b)
  <2>1. b \in DOMAIN list /\ On(list[b], list[i].va - 1) /\ list[b].type = "FREE"
    BY <1>4, <1>6 DEF IsFree
  <2> DEFINE grown == [list EXCEPT ![b].len = @ + list[i].len]
             R == [list[b] EXCEPT !.len = @ + list[i].len]
             t == RemoveAt(grown, i)
             at == IF b < i THEN b ELSE b - 1
  <2>2. n = [list |-> t, at |-> at]
    BY <1>6 DEF MergeBefore
  <2>3. n.list = t /\ n.at = at
    BY <2>2
  <2>4. grown = [list EXCEPT ![b] = R]
    OBVIOUS
  <2> HIDE DEF b
  <2>5. list[b] \in Regions /\ list[i] \in Regions
    BY <1>1, <1>2, <2>1
  <2>6. b # i
    BY <2>1, <2>5 DEF On, Regions
  <2>7. OffEachOther(list[b], list[i]) /\ InPlace(list[b])
    BY <1>1, <2>1, <2>6 DEF Apart, Tidy
  <2>8. list[i].va = list[b].va + list[b].len
    BY <1>1, <2>1, <2>5, <2>7, MeetingRegions
  <2>9. Grown(list[b], list[i], R) /\ R.type = "FREE"
    BY <2>1, <2>5 DEF Grown, Regions
  <2>10. InPlace(R) /\ R.len > 0
    <3>1. list[b].len > 0
      BY <2>1, <2>5 DEF On, Regions
    <3> HIDE DEF R
    <3> QED BY <1>1, <2>1, <2>5, <2>7, <2>8, <2>9, <3>1, GrownInPlace
  <2> HIDE DEF R
  <2>11. /\ Tidy(t)
         /\ \A j \in DOMAIN t : IF Skip(i, j) = b THEN t[j] = R
                                ELSE Skip(i, j) \in DOMAIN list \ {b, i} /\ t[j] = list[Skip(i, j)]
         /\ \A k \in DOMAIN list \ {i} : \E j \in DOMAIN t : Skip(i, j) = k
    <3>1. Absorbs(list, b, i, R, t)
      BY <1>1, <2>1, <2>4, <2>6, <2>8, <2>9, <2>10 DEF Absorbs
    <3> HIDE DEF t
    <3> QED BY <3>1, AbsorbTidy DEF Absorbed
  <2>12. i \in Int /\ b \in Int
    BY <1>1, <2>1
  <2> HIDE DEF t
  <2>13. \A j \in DOMAIN t : j \in Int
    BY <2>11 DEF Tidy
  <2>14. \A j \in DOMAIN t : Skip(i, j) = b <=> j = at
    BY <2>6, <2>12, <2>13 DEF Skip
  <2>15. at \in DOMAIN t /\ t[at] = R
    BY <2>1, <2>6, <2>11, <2>14
  <2>16. Mergeable(t, at)
    BY <2>9, <2>10, <2>11, <2>15 DEF Mergeable
  <2>17. ASSUME NEW j \in DOMAIN t \ {at} PROVE \E k \in DOMAIN list \ {i} : list[k] = t[j]
    BY <2>11, <2>14
  <2>18. ASSUME NEW k \in DOMAIN list \ {i}, list[k].type # "FREE"
         PROVE  \E j \in DOMAIN t \ {at} : t[j] = list[k]
    <3>1. PICK j \in DOMAIN t : Skip(i, j) = k
      BY <2>11
    <3>2. k # b
      BY <2>1, <2>18
    <3> QED BY <2>11, <2>14, <3>1, <3>2
  <2> HIDE DEF at
  <2>19. OthersKept(list, i, t, at)
    BY <2>17, <2>18 DEF OthersKept
  <2> QED BY <2>3, <2>16, <2>19
<1> QED BY <1>5, <1>6
LEMMA FreeTidy ==
  ASSUME NEW list, NEW i, Mergeable(list, i), NEW t, t = [list EXCEPT ![i].type = "FREE"]
  PROVE  Tidy(t) /\ OthersKept(list, i, t, i) /\ DOMAIN t = DOMAIN list
<1>1. /\ i \in DOMAIN list /\ list[i].type # "STACK" /\ list[i].len > 0
      /\ list \in Seq(Regions) /\ Apart(list) /\ \A k \in DOMAIN list : InPlace(list[k])
      /\ \A a \in Low .. Top - 1 : \E k \in DOMAIN list : On(list[k], a)
  BY DEF Mergeable, Tidy
<1>2. \A k \in DOMAIN list : list[k] \in Regions
  BY <1>1
<1> DEFINE R == [list[i] EXCEPT !.type = "FREE"]
<1>3. t = [list EXCEPT ![i] = R]
  OBVIOUS
<1>4. R \in Regions /\ R.va = list[i].va /\ R.len = list[i].len /\ R.type = "FREE"
  BY <1>1, <1>2 DEF Regions, Kinds
<1>5. InPlace(R)
  BY <1>1, <1>4 DEF InPlace
<1> HIDE DEF R
<1>6. t \in Seq(Regions) /\ DOMAIN t = DOMAIN list
  BY <1>1, <1>3, <1>4
<1>7. \A k \in DOMAIN list : t[k] = IF k = i THEN R ELSE list[k]
  BY <1>1, <1>3
<1>8. \A k \in DOMAIN list : t[k].va = list[k].va /\ t[k].len = list[k].len
  BY <1>4, <1>7
<1>9. Apart(t)
  BY <1>1, <1>6, <1>8 DEF Apart, OffEachOther
<1>10. \A k \in DOMAIN t : InPlace(t[k])
  BY <1>1, <1>5, <1>6, <1>7
<1>11. \A a \in Low .. Top - 1 : \E k \in DOMAIN t : On(t[k], a)
  BY <1>1, <1>6, <1>8 DEF On
<1>12. Tidy(t)
  BY <1>6, <1>9, <1>10, <1>11 DEF Tidy
<1>13. OthersKept(list, i, t, i)
  BY <1>6, <1>7 DEF OthersKept
<1> QED BY <1>6, <1>12, <1>13

LEMMA MergeAfterTidy ==
  ASSUME NEW list, NEW i, Mergeable(list, i), NEW t, t = MergeAfter(list, i)
  PROVE  /\ Tidy(t)
         /\ \E at \in DOMAIN t : OthersKept(list, i, t, at) /\ t[at].type = "FREE"
<1> DEFINE a == After(list, i)
<1>1. /\ Tidy(list) /\ i \in DOMAIN list /\ list[i].type # "STACK" /\ list[i].len > 0
      /\ list \in Seq(Regions) /\ Apart(list) /\ InPlace(list[i])
  BY DEF Mergeable, Tidy
<1>2. \A k \in DOMAIN list : list[k] \in Regions
  BY <1>1
<1>3. list[i].va \in Nat /\ list[i].len \in Nat /\ list[i].va + list[i].len \in Int
  BY <1>1, <1>2 DEF Regions
<1>4. \/ a \in DOMAIN list /\ On(list[a], list[i].va + list[i].len)
      \/ a = 0 /\ \A k \in DOMAIN list : ~On(list[k], list[i].va + list[i].len)
  BY <1>1, <1>3, DetermineRegionFinds DEF After
<1>5. CASE ~IsFree(list, a)
  <2>1. t = [list EXCEPT ![i].type = "FREE"]
    BY <1>5 DEF MergeAfter
  <2>2. Tidy(t) /\ OthersKept(list, i, t, i) /\ i \in DOMAIN t
    BY <1>1, <2>1, FreeTidy
  <2>3. t[i].type = "FREE"
    BY <1>1, <1>2, <2>1 DEF Regions
  <2> QED BY <2>2, <2>3
<1>6. CASE IsFree(list, a)
  <2>1. a \in DOMAIN list /\ On(list[a], list[i].va + list[i].len) /\ list[a].type = "FREE"
    BY <1>4, <1>6 DEF IsFree
  <2> DEFINE R == [list[i] EXCEPT !.len = @ + list[a].len, !.type = "FREE"]
             merged == [list EXCEPT ![i].len = @ + list[a].len, ![i].type = "FREE"]
  <2>2. t = RemoveAt(merged, a)
    BY <1>6 DEF MergeAfter
  <2> HIDE DEF a
  <2>3. list[a] \in Regions /\ list[i] \in Regions
    BY <1>1, <1>2, <2>1
  <2>4. merged = [list EXCEPT ![i] = R]
    <3>1. merged = [[list EXCEPT ![i].len = @ + list[a].len] EXCEPT ![i].type = "FREE"]
      OBVIOUS
    <3> QED BY <1>1
  <2>5. a # i
    BY <2>1, <2>3 DEF On, Regions
  <2>6. OffEachOther(list[a], list[i]) /\ InPlace(list[a])
    BY <1>1, <2>1, <2>5 DEF Apart, Tidy
  <2>7. list[a].va = list[i].va + list[i].len
    BY <1>1, <2>1, <2>3, <2>6, MeetingRegions
  <2>8. Grown(list[i], list[a], R) /\ R.type = "FREE"
    <3>1. PICK r : r = list[i]
      OBVIOUS
    <3>2. PICK s : s = [r EXCEPT !.len = @ + list[a].len]
      OBVIOUS
    <3>3. R = [s EXCEPT !.type = "FREE"]
      BY <3>1, <3>2
    <3> HIDE DEF R
    <3>4. s \in Regions /\ s.va = r.va /\ s.len = r.len + list[a].len
      BY <2>3, <3>1, <3>2 DEF Regions
    <3>5. R \in Regions /\ R.va = s.va /\ R.len = s.len /\ R.type = "FREE"
      BY <3>3, <3>4 DEF Regions, Kinds
    <3> QED BY <3>1, <3>4, <3>5 DEF Grown
  <2>9. InPlace(R) /\ R.len > 0
    <3> HIDE DEF R
    <3> QED BY <1>1, <2>1, <2>3, <2>6, <2>7, <2>8, GrownInPlace
  <2>10. Absorbs(list, i, a, R, t)
    BY <1>1, <2>1, <2>2, <2>4, <2>5, <2>7, <2>8, <2>9 DEF Absorbs
  <2>11. Tidy(t) /\ Absorbed(list, i, a, R, t)
    BY <2>10, AbsorbTidy
  <2> HIDE DEF R
  <2>12. PICK at \in DOMAIN t : Skip(a, at) = i
    BY <1>1, <2>5, <2>11 DEF Absorbed
  <2>13. a \in Int /\ \A j \in DOMAIN t : j \in Int
    BY <1>1, <2>1, <2>11 DEF Tidy
  <2>14. \A j \in DOMAIN t : Skip(a, j) = i <=> j = at
    BY <2>12, <2>13 DEF Skip
  <2>15. t[at] = R
    BY <2>11, <2>12 DEF Absorbed
  <2>16. ASSUME NEW j \in DOMAIN t \ {at} PROVE \E k \in DOMAIN list \ {i} : list[k] = t[j]
    BY <2>11, <2>14 DEF Absorbed
  <2>17. ASSUME NEW k \in DOMAIN list \ {i}, list[k].type # "FREE"
         PROVE  \E j \in DOMAIN t \ {at} : t[j] = list[k]
    <3>1. k # a
      BY <2>1, <2>17
    <3>2. PICK j \in DOMAIN t : Skip(a, j) = k
      BY <2>11, <3>1 DEF Absorbed
    <3> QED BY <2>11, <2>14, <3>2 DEF Absorbed
  <2>18. OthersKept(list, i, t, at)
    BY <2>16, <2>17 DEF OthersKept
  <2> QED BY <2>8, <2>11, <2>15, <2>18
<1> QED BY <1>5, <1>6

\* What is left of a list when region i is deleted.
LEMMA MergedTidy ==
  ASSUME NEW list, NEW i, Mergeable(list, i), HasStack(list), NEW n, n = MergeBefore(list, i),
         NEW t, t = MergeAfter(n.list, n.at)
  PROVE  /\ Tidy(t) /\ HasStack(t)
         /\ \E at \in DOMAIN t : OthersKept(list, i, t, at) /\ t[at].type = "FREE"
<1>1. Mergeable(n.list, n.at) /\ OthersKept(list, i, n.list, n.at)
  BY MergeBeforeTidy
<1>2. PICK at \in DOMAIN t : OthersKept(n.list, n.at, t, at) /\ t[at].type = "FREE"
  BY <1>1, MergeAfterTidy
<1>3. Tidy(t)
  BY <1>1, MergeAfterTidy
<1>4. OthersKept(list, i, t, at)
  <2>1. ASSUME NEW j \in DOMAIN t \ {at}, t[j].type # "FREE"
        PROVE  \E k \in DOMAIN list \ {i} : list[k] = t[j]
    <3>1. PICK h \in DOMAIN n.list \ {n.at} : n.list[h] = t[j]
      BY <1>2, <2>1 DEF OthersKept
    <3> QED BY <1>1, <2>1, <3>1 DEF OthersKept
  <2>2. ASSUME NEW k \in DOMAIN list \ {i}, list[k].type # "FREE"
        PROVE  \E j \in DOMAIN t \ {at} : t[j] = list[k]
    <3>1. PICK h \in DOMAIN n.list \ {n.at} : n.list[h] = list[k]
      BY <1>1, <2>2 DEF OthersKept
    <3>2. PICK j \in DOMAIN t \ {at} : t[j] = n.list[h]
      BY <1>2, <2>2, <3>1 DEF OthersKept
    <3> QED BY <3>1, <3>2
  <2> QED BY <2>1, <2>2 DEF OthersKept
<1>5. HasStack(t)
  BY <1>4, StackStays DEF Mergeable
<1> QED BY <1>2, <1>3, <1>4, <1>5
-----------------------------------------------------------------------------
\* A list has the room for region r, and everything else.
RoomFor(list, r) ==
  /\ list \in Seq(Regions) /\ Apart(list)
  /\ \A i \in DOMAIN list : InPlace(list[i]) /\ OffEachOther(r, list[i])
  /\ \A a \in Low .. Top - 1 : On(r, a) \/ \E i \in DOMAIN list : On(list[i], a)

LEMMA PrependTidy ==
  ASSUME NEW list, NEW r \in Regions, RoomFor(list, r), InPlace(r), NEW t, t = <<r>> \o list
  PROVE  Tidy(t)
<1>1. /\ list \in Seq(Regions) /\ Apart(list)
      /\ \A i \in DOMAIN list : InPlace(list[i]) /\ OffEachOther(r, list[i])
      /\ \A a \in Low .. Top - 1 : On(r, a) \/ \E i \in DOMAIN list : On(list[i], a)
  BY DEF RoomFor
<1>2. /\ t \in Seq(Regions) /\ Len(t) = Len(list) + 1 /\ t[1] = r
      /\ \A j \in DOMAIN list : t[j + 1] = list[j]
      /\ \A j \in DOMAIN t : j = 1 \/ (j - 1 \in DOMAIN list /\ t[j] = list[j - 1])
  BY <1>1, PrependFacts
<1>3. Len(list) \in Nat /\ DOMAIN list = 1 .. Len(list) /\ DOMAIN t = 1 .. Len(list) + 1
  BY <1>1, <1>2
<1>4. \A j \in DOMAIN list : list[j] \in Regions
  BY <1>1
<1>5. Apart(t)
  <2> SUFFICES ASSUME NEW j \in DOMAIN t, NEW k \in DOMAIN t, j # k
               PROVE  OffEachOther(t[j], t[k])
    BY DEF Apart
  <2>1. CASE j = 1
    <3>1. k - 1 \in DOMAIN list /\ t[k] = list[k - 1]
      BY <1>2, <2>1
    <3> QED BY <1>1, <1>2, <2>1, <3>1
  <2>2. CASE k = 1
    <3>1. j - 1 \in DOMAIN list /\ t[j] = list[j - 1]
      BY <1>2, <2>2
    <3>2. OffEachOther(r, list[j - 1])
      BY <1>1, <3>1
    <3> QED BY <1>2, <1>4, <2>2, <3>1, <3>2, OffSymmetric
  <2>3. CASE j # 1 /\ k # 1
    <3>1. /\ j - 1 \in DOMAIN list /\ t[j] = list[j - 1]
          /\ k - 1 \in DOMAIN list /\ t[k] = list[k - 1] /\ j - 1 # k - 1
      BY <1>2, <1>3, <2>3
    <3> QED BY <1>1, <3>1 DEF Apart
  <2> QED BY <2>1, <2>2, <2>3
<1>6. \A j \in DOMAIN t : InPlace(t[j])
  BY <1>1, <1>2
<1>7. ASSUME NEW a \in Low .. Top - 1 PROVE \E j \in DOMAIN t : On(t[j], a)
  <2>1. CASE On(r, a)
    <3>1. 1 \in DOMAIN t
      BY <1>3
    <3> QED BY <1>2, <2>1, <3>1
  <2>2. CASE ~On(r, a)
    <3>1. PICK i \in DOMAIN list : On(list[i], a)
      BY <1>1, <2>2
    <3>2. i + 1 \in DOMAIN t /\ t[i + 1] = list[i]
      BY <1>2, <1>3
    <3> QED BY <3>1, <3>2
  <2> QED BY <2>1, <2>2
<1> QED BY <1>2, <1>5, <1>6, <1>7 DEF Tidy

LEMMA BestFitFits ==
  ASSUME NEW list \in Seq(Regions), NEW len, Fits(list, len) # {}
  PROVE  BestFit(list, len) \in Fits(list, len)
<1> DEFINE F == Fits(list, len)
           L == {list[i].len : i \in F}
           S == {i \in F : \A j \in F : list[i].len <= list[j].len}
<1>1. F \subseteq 1 .. Len(list) /\ Len(list) \in Nat
  BY DEF Fits
<1>2. L \in SUBSET Nat /\ L # {}
  <2>1. \A i \in F : list[i] \in Regions
    BY <1>1
  <2> QED BY <2>1 DEF Regions
<1> HIDE DEF F, L
<1>3. PICK x \in L : \A y \in L : x <= y
  BY <1>2, Numbers!LeastNumber
<1>4. S # {} /\ S \in SUBSET (1 .. Len(list))
  <2>1. PICK i \in F : x = list[i].len
    BY <1>3 DEF L
  <2>2. \A j \in F : list[j].len \in L
    BY DEF L
  <2>3. i \in S
    BY <1>3, <2>1, <2>2
  <2> QED BY <1>1, <2>3
<1> HIDE DEF S
<1>5. Numbers!Max(S) \in S /\ \A y \in S : y <= Numbers!Max(S)
  BY <1>1, <1>4, Numbers!MaxIsIn
<1>6. BestFit(list, len) = CHOOSE i \in S : \A j \in S : j <= i
  BY DEF BestFit, S, F
<1>7. BestFit(list, len) \in S
  BY <1>5, <1>6
<1> QED BY <1>7 DEF S, F

\* create_region() at the end of free region i.
Cuts(list, i, r, t) ==
  /\ Tidy(list) /\ i \in DOMAIN list /\ list[i].type = "FREE"
  /\ r \in Regions /\ r.len > 0 /\ r.type # "STACK" /\ r.len <= list[i].len
  /\ r.va = list[i].va + (list[i].len - r.len)
  /\ t = <<r>> \o [list EXCEPT ![i].len = list[i].len - r.len]

LEMMA CutTidy ==
  ASSUME NEW list, NEW i, NEW r, NEW t, Cuts(list, i, r, t)
  PROVE  /\ Tidy(t) /\ Len(t) = Len(list) + 1 /\ t[1] = r
         /\ \A j \in DOMAIN list :
              /\ j # i => t[j + 1] = list[j]
              /\ t[j + 1].type = list[j].type /\ t[j + 1].va = list[j].va
              /\ t[j + 1].param = list[j].param
              /\ j = i => t[j + 1].len = list[i].len - r.len
<1>0. /\ Tidy(list) /\ i \in DOMAIN list /\ list[i].type = "FREE"
      /\ r \in Regions /\ r.len > 0 /\ r.type # "STACK" /\ r.len <= list[i].len
      /\ r.va = list[i].va + (list[i].len - r.len)
  BY DEF Cuts
<1>a. PICK rest : rest = [list EXCEPT ![i].len = list[i].len - r.len]
  OBVIOUS
<1>b. t = <<r>> \o rest
  BY <1>a DEF Cuts
<1>1. /\ list \in Seq(Regions) /\ Apart(list) /\ \A k \in DOMAIN list : InPlace(list[k])
      /\ \A a \in Low .. Top - 1 : \E k \in DOMAIN list : On(list[k], a)
  BY <1>0 DEF Tidy
<1>2. \A k \in DOMAIN list : list[k] \in Regions
  BY <1>1
<1> DEFINE R == [list[i] EXCEPT !.len = list[i].len - r.len]
<1>3. rest = [list EXCEPT ![i] = R]
  BY <1>0, <1>a
<1>4. /\ R \in Regions /\ R.va = list[i].va /\ R.len = list[i].len - r.len
      /\ R.type = list[i].type /\ R.param = list[i].param
  <2>1. PICK x : x = list[i]
    OBVIOUS
  <2>2. PICK n : n = list[i].len - r.len
    OBVIOUS
  <2>3. x \in Regions /\ n \in Nat
    BY <1>0, <1>2, <2>1, <2>2 DEF Regions
  <2>4. R = [x EXCEPT !.len = n]
    BY <2>1, <2>2
  <2> HIDE DEF R
  <2>5. R \in Regions /\ R.va = x.va /\ R.len = n /\ R.type = x.type /\ R.param = x.param
    BY <2>3, <2>4 DEF Regions
  <2> QED BY <2>1, <2>2, <2>5
<1> HIDE DEF R
<1>5. rest \in Seq(Regions) /\ DOMAIN rest = DOMAIN list
  <2>1. [list EXCEPT ![i] = R] \in Seq(Regions)
    BY <1>0, <1>1, <1>4
  <2> QED BY <1>0, <1>1, <1>3, <2>1
<1>6. \A k \in DOMAIN list : rest[k] = IF k = i THEN R ELSE list[k]
  BY <1>0, <1>1, <1>3
<1>7. InPlace(R) /\ InPlace(r) /\ OffEachOther(r, R)
  <2>1. list[i] \in Regions /\ InPlace(list[i])
    BY <1>0, <1>1, <1>2
  <2> QED BY <1>0, <1>4, <2>1, AddressSpacesAssumption DEF InPlace, Regions, OffEachOther
<1>8. ASSUME NEW q \in Regions, OffEachOther(list[i], q) PROVE OffEachOther(R, q) /\ OffEachOther(r, q)
  BY <1>0, <1>2, <1>4, <1>8 DEF OffEachOther, Regions
<1>9. ASSUME NEW j \in DOMAIN list, NEW k \in DOMAIN list, j # k
      PROVE  OffEachOther(rest[j], rest[k])
  <2>1. OffEachOther(list[j], list[k]) /\ OffEachOther(list[k], list[j])
    BY <1>1, <1>9 DEF Apart
  <2>2. list[j] \in Regions /\ list[k] \in Regions
    BY <1>2
  <2>3. CASE j = i
    BY <1>0, <1>6, <1>8, <1>9, <2>1, <2>2, <2>3
  <2>4. CASE k = i
    <3>1. OffEachOther(R, list[j])
      BY <1>8, <2>1, <2>2, <2>4
    <3> QED BY <1>4, <1>6, <1>9, <2>2, <2>4, <3>1, OffSymmetric
  <2> QED BY <1>6, <2>1, <2>3, <2>4
<1>10. Apart(rest)
  BY <1>5, <1>9 DEF Apart
<1>11. ASSUME NEW k \in DOMAIN rest PROVE InPlace(rest[k]) /\ OffEachOther(r, rest[k])
  <2>1. CASE k = i
    BY <1>0, <1>6, <1>7, <2>1
  <2>2. CASE k # i
    <3>1. OffEachOther(list[i], list[k]) /\ rest[k] = list[k]
      BY <1>0, <1>1, <1>5, <1>6, <2>2 DEF Apart
    <3> QED BY <1>1, <1>2, <1>5, <1>8, <3>1
  <2> QED BY <2>1, <2>2
<1>12. ASSUME NEW a \in Low .. Top - 1, ~On(r, a) PROVE \E k \in DOMAIN rest : On(rest[k], a)
  <2>1. PICK k \in DOMAIN list : On(list[k], a)
    BY <1>1
  <2>2. CASE k = i
    <3>1. a \in Int
      BY AddressSpacesAssumption
    <3>2. On(R, a)
      BY <1>0, <1>2, <1>4, <1>12, <2>1, <2>2, <3>1 DEF On, Regions
    <3> QED BY <1>0, <1>5, <1>6, <3>2
  <2>3. CASE k # i
    BY <1>5, <1>6, <2>1, <2>3
  <2> QED BY <2>2, <2>3
<1>13. RoomFor(rest, r)
  BY <1>5, <1>10, <1>11, <1>12 DEF RoomFor
<1>14. Tidy(t)
  BY <1>0, <1>7, <1>13, <1>b, PrependTidy
<1>15. /\ Len(t) = Len(rest) + 1 /\ t[1] = r
       /\ \A j \in DOMAIN rest : t[j + 1] = rest[j]
  BY <1>0, <1>5, <1>b, PrependFacts
<1>16. Len(rest) = Len(list)
  BY <1>1, <1>5
<1> QED BY <1>0, <1>4, <1>5, <1>6, <1>14, <1>15, <1>16

-----------------------------------------------------------------------------
\* What create_region() with an address makes of a region that it does not delete.
Piece(x, r, va, stop) ==
  /\ x \in Regions /\ x.type = r.type /\ x.param = r.param
  /\ \/ x.va = r.va /\ x.len = r.len /\ (r.va + r.len <= va \/ stop <= r.va)
     \/ x.va = r.va /\ x.len = va - r.va /\ r.va < va /\ va < r.va + r.len
     \/ x.va = stop /\ x.len = (r.va + r.len) - stop /\ r.va < stop /\ stop < r.va + r.len

Survives(r, va, stop) == ~(va <= r.va /\ r.va + r.len <= stop)

Target(a, va, stop) == va <= a /\ a < stop

Trims(l, i, n, at, va, stop) == \E x :
  /\ Piece(x, l[i], va, stop)
  /\ \A a \in Int : On(l[i], a) /\ ~Target(a, va, stop) => On(x, a)
  /\ n = [l EXCEPT ![i] = x] /\ at = i + 1

Splits(l, i, n, at, va, stop) == \E x, y :
  /\ Piece(x, l[i], va, stop) /\ Piece(y, l[i], va, stop) /\ OffEachOther(x, y)
  /\ \A a \in Int : On(l[i], a) /\ ~Target(a, va, stop) => On(x, a) \/ On(y, a)
  /\ n = InsertAt([l EXCEPT ![i] = x], i + 1, y) /\ at = i + 2

\* A list L of which k regions have been looked at, and d been split.
Carved(l, L, k, d, va, stop) ==
  /\ l \in Seq(Regions) /\ Len(l) = Len(L) + d /\ Apart(l)
  /\ \A j \in k + 1 .. Len(L) : l[j + d] = L[j]
  /\ \A i \in 1 .. k + d : \E j \in 1 .. k : Piece(l[i], L[j], va, stop)
  /\ \A j \in 1 .. k : \E i \in 1 .. k + d : Piece(l[i], L[j], va, stop)
  /\ \A j \in 1 .. k : \A a \in Int :
       On(L[j], a) /\ ~Target(a, va, stop) => \E i \in 1 .. k + d : On(l[i], a)

LEMMA PieceOff ==
  ASSUME NEW r \in Regions, NEW x, NEW va \in Nat, NEW stop \in Nat, va < stop,
         Piece(x, r, va, stop),
         NEW s \in Regions, OffEachOther(r, s)
  PROVE  OffEachOther(x, s) /\ OffEachOther(s, x)
BY DEF Piece, OffEachOther, Regions

LEMMA PieceOffTarget ==
  ASSUME NEW r \in Regions, NEW x, NEW va \in Nat, NEW stop \in Nat, va < stop,
         Piece(x, r, va, stop), NEW t \in Regions, t.va = va, t.va + t.len = stop
  PROVE  OffEachOther(t, x)
BY DEF Piece, OffEachOther, Regions

LEMMA TrimCarved ==
  ASSUME NEW L \in Seq(Regions), NEW k \in 1 .. Len(L), NEW d \in Nat, NEW l,
         NEW va \in Nat, NEW stop \in Nat, va < stop,
         Carved(l, L, k - 1, d, va, stop), NEW n, NEW at, Trims(l, k + d, n, at, va, stop)
  PROVE  Carved(n, L, k, d, va, stop) /\ at = k + 1 + d
<1>1. /\ l \in Seq(Regions) /\ Len(l) = Len(L) + d /\ Apart(l)
      /\ \A j \in k .. Len(L) : l[j + d] = L[j]
      /\ \A i \in 1 .. k - 1 + d : \E j \in 1 .. k - 1 : Piece(l[i], L[j], va, stop)
      /\ \A j \in 1 .. k - 1 : \E i \in 1 .. k - 1 + d : Piece(l[i], L[j], va, stop)
      /\ \A j \in 1 .. k - 1 : \A a \in Int :
           On(L[j], a) /\ ~Target(a, va, stop) => \E i \in 1 .. k - 1 + d : On(l[i], a)
  <2>1. k - 1 + 1 = k
    OBVIOUS
  <2> QED BY <2>1 DEF Carved
<1> DEFINE i == k + d
<1>2. PICK x : /\ Piece(x, l[i], va, stop)
               /\ \A a \in Int : On(l[i], a) /\ ~Target(a, va, stop) => On(x, a)
               /\ n = [l EXCEPT ![i] = x] /\ at = i + 1
  BY DEF Trims
<1>3. Len(L) \in Nat /\ i \in 1 .. Len(l) /\ DOMAIN l = 1 .. Len(l) /\ i \in DOMAIN l
  BY <1>1
<1>4. l[i] = L[k] /\ \A j \in DOMAIN l : l[j] \in Regions
  BY <1>1
<1>5. x \in Regions
  BY <1>2 DEF Piece
<1>6. /\ n \in Seq(Regions) /\ Len(n) = Len(l) /\ DOMAIN n = DOMAIN l
      /\ \A j \in DOMAIN l : n[j] = IF j = i THEN x ELSE l[j]
  <2> HIDE DEF i
  <2>1. [l EXCEPT ![i] = x] \in Seq(Regions) /\ Len([l EXCEPT ![i] = x]) = Len(l)
    BY <1>1, <1>3, <1>5
  <2> QED BY <1>1, <1>2, <1>3, <2>1
<1>7. Apart(n)
  <2> SUFFICES ASSUME NEW j \in DOMAIN l, NEW h \in DOMAIN l, j # h
               PROVE  OffEachOther(n[j], n[h])
    BY <1>6 DEF Apart
  <2> HIDE DEF i
  <2>1. OffEachOther(l[j], l[h]) /\ OffEachOther(l[h], l[j])
    BY <1>1 DEF Apart
  <2>2. l[j] \in Regions /\ l[h] \in Regions
    BY <1>4
  <2>3. CASE j = i
    BY <1>2, <1>6, <2>1, <2>2, <2>3, PieceOff
  <2>4. CASE h = i
    BY <1>2, <1>6, <2>1, <2>2, <2>4, PieceOff
  <2> QED BY <1>6, <2>1, <2>3, <2>4
<1>8. ASSUME NEW j \in k + 1 .. Len(L) PROVE n[j + d] = L[j]
  <2>1. Len(l) = Len(L) + d
    BY <1>1
  <2>2. j + d \in 1 .. Len(l) /\ j + d # i /\ j \in k .. Len(L)
    BY <1>3, <2>1
  <2> HIDE DEF i
  <2> QED BY <1>1, <1>3, <1>6, <2>2
<1>9. i \in 1 .. k + d /\ Piece(n[i], L[k], va, stop) /\ k \in 1 .. k
  BY <1>2, <1>3, <1>4, <1>6
<1>10. ASSUME NEW h \in 1 .. k - 1 + d PROVE h \in 1 .. k + d /\ n[h] = l[h]
  <2>1. Len(l) = Len(L) + d
    BY <1>1
  <2>2. h \in 1 .. Len(l) /\ h # i /\ h \in 1 .. k + d
    BY <1>3, <2>1
  <2> HIDE DEF i
  <2> QED BY <1>3, <1>6, <2>2
<1>11. ASSUME NEW h \in 1 .. k + d PROVE \E j \in 1 .. k : Piece(n[h], L[j], va, stop)
  <2>1. CASE h = i
    BY <1>9, <2>1
  <2>2. CASE h # i
    <3>1. h \in 1 .. k - 1 + d
      BY <2>2
    <3>2. PICK j \in 1 .. k - 1 : Piece(l[h], L[j], va, stop)
      BY <1>1, <3>1
    <3> QED BY <1>10, <3>1, <3>2
  <2> QED BY <2>1, <2>2
<1>12. ASSUME NEW j \in 1 .. k PROVE \E h \in 1 .. k + d : Piece(n[h], L[j], va, stop)
  <2>1. CASE j = k
    BY <1>9, <2>1
  <2>2. CASE j # k
    <3>1. j \in 1 .. k - 1
      BY <2>2
    <3>2. PICK h \in 1 .. k - 1 + d : Piece(l[h], L[j], va, stop)
      BY <1>1, <3>1
    <3> QED BY <1>10, <3>2
  <2> QED BY <2>1, <2>2
<1>13. ASSUME NEW j \in 1 .. k, NEW a \in Int, On(L[j], a), ~Target(a, va, stop)
       PROVE  \E h \in 1 .. k + d : On(n[h], a)
  <2>1. CASE j = k
    BY <1>2, <1>3, <1>4, <1>6, <1>9, <1>13, <2>1
  <2>2. CASE j # k
    <3>1. j \in 1 .. k - 1
      BY <2>2
    <3>2. PICK h \in 1 .. k - 1 + d : On(l[h], a)
      BY <1>1, <1>13, <3>1
    <3> QED BY <1>10, <3>2
  <2> QED BY <2>1, <2>2
<1>14. Carved(n, L, k, d, va, stop)
  BY <1>1, <1>6, <1>7, <1>8, <1>11, <1>12, <1>13 DEF Carved
<1> QED BY <1>2, <1>14

LEMMA SplitCarved ==
  ASSUME NEW L \in Seq(Regions), NEW k \in 1 .. Len(L), NEW d \in Nat, NEW l,
         NEW va \in Nat, NEW stop \in Nat, va < stop,
         Carved(l, L, k - 1, d, va, stop), NEW n, NEW at, Splits(l, k + d, n, at, va, stop)
  PROVE  Carved(n, L, k, d + 1, va, stop) /\ at = k + 1 + (d + 1)
<1>1. /\ l \in Seq(Regions) /\ Len(l) = Len(L) + d /\ Apart(l)
      /\ \A j \in k .. Len(L) : l[j + d] = L[j]
      /\ \A i \in 1 .. k - 1 + d : \E j \in 1 .. k - 1 : Piece(l[i], L[j], va, stop)
      /\ \A j \in 1 .. k - 1 : \E i \in 1 .. k - 1 + d : Piece(l[i], L[j], va, stop)
      /\ \A j \in 1 .. k - 1 : \A a \in Int :
           On(L[j], a) /\ ~Target(a, va, stop) => \E i \in 1 .. k - 1 + d : On(l[i], a)
  <2>1. k - 1 + 1 = k
    OBVIOUS
  <2> QED BY <2>1 DEF Carved
<1> DEFINE i == k + d
<1>2. PICK x, y :
         /\ Piece(x, l[i], va, stop) /\ Piece(y, l[i], va, stop) /\ OffEachOther(x, y)
         /\ \A a \in Int : On(l[i], a) /\ ~Target(a, va, stop) => On(x, a) \/ On(y, a)
         /\ n = InsertAt([l EXCEPT ![i] = x], i + 1, y) /\ at = i + 2
  BY DEF Splits
<1>3. Len(L) \in Nat /\ i \in 1 .. Len(l) /\ DOMAIN l = 1 .. Len(l) /\ i \in DOMAIN l
  BY <1>1
<1>4. l[i] = L[k] /\ \A j \in DOMAIN l : l[j] \in Regions
  BY <1>1
<1>5. x \in Regions /\ y \in Regions /\ OffEachOther(y, x)
  BY <1>2, OffSymmetric DEF Piece
<1>6. PICK u : u = [l EXCEPT ![i] = x]
  OBVIOUS
<1>7. /\ u \in Seq(Regions) /\ Len(u) = Len(l) /\ DOMAIN u = DOMAIN l
      /\ \A j \in DOMAIN l : u[j] = IF j = i THEN x ELSE l[j]
  <2> HIDE DEF i
  <2> QED BY <1>1, <1>3, <1>5, <1>6
<1>8. /\ n \in Seq(Regions) /\ Len(n) = Len(l) + 1 /\ DOMAIN n = 1 .. Len(l) + 1
      /\ \A j \in 1 .. Len(l) + 1 :
           n[j] = IF j <= i THEN u[j] ELSE IF j = i + 1 THEN y ELSE u[j - 1]
  <2>1. i + 1 \in 1 .. Len(u) + 1 /\ n = InsertAt(u, i + 1, y)
    BY <1>2, <1>3, <1>6, <1>7
  <2>2. /\ n \in Seq(Regions) /\ Len(n) = Len(u) + 1
        /\ \A j \in DOMAIN n : n[j] = IF j < i + 1 THEN u[j] ELSE IF j = i + 1 THEN y ELSE u[j - 1]
    <3> HIDE DEF i
    <3>1. PICK b : b = i + 1
      OBVIOUS
    <3>2. /\ n \in Seq(Regions) /\ Len(n) = Len(u) + 1
          /\ \A j \in DOMAIN n : n[j] = IF j < b THEN u[j] ELSE IF j = b THEN y ELSE u[j - 1]
      <4>1. b \in 1 .. Len(u) + 1 /\ n = InsertAt(u, b, y)
        BY <2>1, <3>1
      <4>2. y \in Regions /\ u \in Seq(Regions)
        BY <1>5, <1>7
      <4> QED BY ONLY <4>1, <4>2, InsertAtFacts
    <3> QED BY <3>1, <3>2
  <2>3. DOMAIN n = 1 .. Len(l) + 1
    BY <1>7, <2>2
  <2>4. i \in Int
    BY <1>3
  <2> HIDE DEF i
  <2> QED BY <1>7, <2>2, <2>3, <2>4
\* Where in l an element of n comes from.
<1> DEFINE From(j) == IF j <= i THEN j ELSE j - 1
<1>9. \A j \in DOMAIN n : /\ From(j) \in DOMAIN l
                          /\ n[j] = IF j = i THEN x ELSE IF j = i + 1 THEN y ELSE l[From(j)]
                          /\ From(j) = i <=> j = i \/ j = i + 1
  <2> HIDE DEF i
  <2>1. i \in 1 .. Len(l) /\ Len(l) \in Nat
    BY <1>1, <1>3
  <2> QED BY <1>3, <1>7, <1>8, <2>1
<1>10. ASSUME NEW j \in DOMAIN n PROVE n[j] = l[From(j)] \/ (From(j) = i /\ Piece(n[j], l[i], va, stop))
  BY <1>2, <1>9
<1>11. Apart(n)
  <2> SUFFICES ASSUME NEW j \in DOMAIN n, NEW h \in DOMAIN n, j # h
               PROVE  OffEachOther(n[j], n[h])
    BY DEF Apart
  <2>1. CASE From(j) = From(h)
    <3>1. (j = i /\ h = i + 1) \/ (j = i + 1 /\ h = i)
      BY <1>3, <1>8, <2>1
    <3>2. i # i + 1
      BY <1>3
    <3> HIDE DEF i, From
    <3> QED BY <1>2, <1>5, <1>9, <3>1, <3>2
  <2>2. CASE From(j) # From(h)
    <3> HIDE DEF i, From
    <3>1. OffEachOther(l[From(j)], l[From(h)]) /\ OffEachOther(l[From(h)], l[From(j)])
      BY <1>1, <1>9, <2>2 DEF Apart
    <3>2. l[From(j)] \in Regions /\ l[From(h)] \in Regions
      BY <1>4, <1>9
    <3>3. CASE From(j) = i
      <4>1. n[h] = l[From(h)]
        BY <1>10, <2>2, <3>3
      <4> QED BY <1>10, <2>2, <3>1, <3>2, <3>3, <4>1, PieceOff
    <3>4. CASE From(h) = i
      <4>1. n[j] = l[From(j)]
        BY <1>10, <2>2, <3>4
      <4> QED BY <1>10, <2>2, <3>1, <3>2, <3>4, <4>1, PieceOff
    <3> QED BY <1>10, <3>1, <3>3, <3>4
  <2> QED BY <2>1, <2>2
<1>12. ASSUME NEW j \in k + 1 .. Len(L) PROVE n[j + (d + 1)] = L[j]
  <2>1. /\ j + (d + 1) \in 1 .. Len(l) + 1 /\ ~(j + (d + 1) <= i) /\ j + (d + 1) # i + 1
        /\ j + (d + 1) - 1 = j + d /\ j + d \in DOMAIN l /\ j + d # i /\ j \in k .. Len(L)
    <3>1. Len(l) = Len(L) + d
      BY <1>1
    <3> QED BY <1>3, <3>1
  <2> HIDE DEF i
  <2>2. n[j + (d + 1)] = u[j + d]
    BY <1>8, <2>1
  <2> QED BY <1>1, <1>7, <2>1, <2>2
<1>13. /\ i \in 1 .. k + (d + 1) /\ i + 1 \in 1 .. k + (d + 1) /\ k \in 1 .. k
       /\ n[i] = x /\ n[i + 1] = y
  <2>1. i \in DOMAIN n /\ i + 1 \in DOMAIN n /\ i # i + 1
    BY <1>3, <1>8
  <2>2. i \in 1 .. k + (d + 1) /\ i + 1 \in 1 .. k + (d + 1) /\ k \in 1 .. k
    OBVIOUS
  <2> HIDE DEF i
  <2> QED BY <1>9, <2>1, <2>2
<1>14. \A h \in 1 .. k - 1 + d : h \in 1 .. k + (d + 1) /\ n[h] = l[h]
  <2> SUFFICES ASSUME NEW h \in 1 .. k - 1 + d PROVE h \in 1 .. k + (d + 1) /\ n[h] = l[h]
    OBVIOUS
  <2>1. h \in 1 .. k + (d + 1) /\ h \in 1 .. Len(l) + 1 /\ h <= i /\ h # i /\ h \in DOMAIN l
    BY <1>1, <1>3
  <2> HIDE DEF i
  <2> QED BY <1>7, <1>8, <2>1
<1>15. ASSUME NEW h \in 1 .. k + (d + 1) PROVE \E j \in 1 .. k : Piece(n[h], L[j], va, stop)
  <2>1. CASE h = i \/ h = i + 1
    BY <1>2, <1>4, <1>13, <2>1
  <2>2. CASE h # i /\ h # i + 1
    <3>1. h \in 1 .. k - 1 + d
      BY <2>2
    <3>2. PICK j \in 1 .. k - 1 : Piece(l[h], L[j], va, stop)
      BY <1>1, <3>1
    <3> QED BY <1>14, <3>1, <3>2
  <2> QED BY <2>1, <2>2
<1>16. ASSUME NEW j \in 1 .. k PROVE \E h \in 1 .. k + (d + 1) : Piece(n[h], L[j], va, stop)
  <2>1. CASE j = k
    BY <1>2, <1>4, <1>13, <2>1
  <2>2. CASE j # k
    <3>1. j \in 1 .. k - 1
      BY <2>2
    <3>2. PICK h \in 1 .. k - 1 + d : Piece(l[h], L[j], va, stop)
      BY <1>1, <3>1
    <3> QED BY <1>14, <3>2
  <2> QED BY <2>1, <2>2
<1>17. ASSUME NEW j \in 1 .. k, NEW a \in Int, On(L[j], a), ~Target(a, va, stop)
       PROVE  \E h \in 1 .. k + (d + 1) : On(n[h], a)
  <2>1. CASE j = k
    BY <1>2, <1>4, <1>13, <1>17, <2>1
  <2>2. CASE j # k
    <3>1. j \in 1 .. k - 1
      BY <2>2
    <3>2. PICK h \in 1 .. k - 1 + d : On(l[h], a)
      BY <1>1, <1>17, <3>1
    <3> QED BY <1>14, <3>2
  <2> QED BY <2>1, <2>2
<1>18. Len(n) = Len(L) + (d + 1)
  BY <1>1, <1>3, <1>8
<1>19. Carved(n, L, k, d + 1, va, stop)
  BY <1>8, <1>11, <1>12, <1>15, <1>16, <1>17, <1>18 DEF Carved
<1>20. at = k + 1 + (d + 1)
  BY <1>2
<1> QED BY <1>19, <1>20
-----------------------------------------------------------------------------
\* A state of the memory system has these parts.
Shape(m) ==
  m = [bitmap |-> m.bitmap, free |-> m.free, total |-> m.total, kpages |-> m.kpages,
       tables |-> m.tables, pt |-> m.pt, spaces |-> m.spaces, npids |-> m.npids,
       fifos |-> m.fifos, next_fifo |-> m.next_fifo, acl |-> m.acl, acl_free |-> m.acl_free,
       ret |-> m.ret, stop |-> m.stop]

\* n is m with another list of regions for p.
Respaced(m, n, p, l) ==
  /\ Shape(n)
  /\ n.spaces = [m.spaces EXCEPT ![p] = l]
  /\ n.bitmap = m.bitmap /\ n.free = m.free /\ n.total = m.total /\ n.kpages = m.kpages
  /\ n.tables = m.tables /\ n.pt = m.pt /\ n.npids = m.npids /\ n.fifos = m.fifos
  /\ n.next_fifo = m.next_fifo /\ n.acl = m.acl /\ n.acl_free = m.acl_free
  /\ n.ret = m.ret /\ n.stop = m.stop

LEMMA RespacedBy ==
  ASSUME NEW m, Shape(m), NEW p, NEW l, NEW n, n = [m EXCEPT !.spaces[p] = l]
  PROVE  Respaced(m, n, p, l)
BY DEF Shape, Respaced

LEMMA RespacedTwice ==
  ASSUME NEW m, NEW n, NEW o, NEW p, NEW k, NEW l, Respaced(m, n, p, k), Respaced(n, o, p, l)
  PROVE  Respaced(m, o, p, l)
BY DEF Respaced

\* Where the target lies, the pieces of one region.
LEMMA Pieces ==
  ASSUME NEW r \in Regions, NEW va \in Nat, NEW stop \in Nat, va < stop, Survives(r, va, stop)
  PROVE  /\ r.va <= va /\ r.va + r.len <= stop /\ r.va + r.len > va =>
              LET x == [r EXCEPT !.len = r.len - ((r.va + r.len) - va)]
              IN  Piece(x, r, va, stop)
                  /\ \A a \in Int : On(r, a) /\ ~Target(a, va, stop) => On(x, a)
         /\ r.va + r.len > stop /\ r.va >= va /\ r.va < stop =>
              LET x == [r EXCEPT !.len = r.len - (stop - r.va), !.va = stop]
              IN  Piece(x, r, va, stop)
                  /\ \A a \in Int : On(r, a) /\ ~Target(a, va, stop) => On(x, a)
         /\ r.va < va /\ r.va + r.len > stop =>
              LET x == [r EXCEPT !.len = va - r.va]
                  y == Region(stop, (r.va + r.len) - stop, r.type, r.param)
              IN  Piece(x, r, va, stop) /\ Piece(y, r, va, stop) /\ OffEachOther(x, y)
                  /\ \A a \in Int : On(r, a) /\ ~Target(a, va, stop) => On(x, a) \/ On(y, a)
         /\ \/ r.va <= va /\ r.va + r.len <= stop /\ r.va + r.len > va
            \/ r.va + r.len > stop /\ r.va >= va /\ r.va < stop
            \/ r.va < va /\ r.va + r.len > stop
            \/ Piece(r, r, va, stop)
               /\ \A a \in Int : On(r, a) /\ ~Target(a, va, stop) => On(r, a)
<1>0. r.va \in Nat /\ r.len \in Nat /\ r.type \in Kinds /\ r.param \in Nat
  BY DEF Regions
<1>1. ASSUME r.va <= va, r.va + r.len <= stop, r.va + r.len > va
      PROVE  LET x == [r EXCEPT !.len = r.len - ((r.va + r.len) - va)]
             IN  Piece(x, r, va, stop)
                 /\ \A a \in Int : On(r, a) /\ ~Target(a, va, stop) => On(x, a)
  <2> DEFINE x == [r EXCEPT !.len = r.len - ((r.va + r.len) - va)]
  <2>1. PICK n : n = r.len - ((r.va + r.len) - va)
    OBVIOUS
  <2>2. n = va - r.va /\ n \in Nat /\ r.va < va
    BY <1>0, <1>1, <2>1 DEF Survives
  <2>3. x \in Regions /\ x.va = r.va /\ x.len = n /\ x.type = r.type /\ x.param = r.param
    BY <2>1, <2>2 DEF Regions
  <2> HIDE DEF x
  <2>4. Piece(x, r, va, stop)
    BY <1>0, <1>1, <2>2, <2>3 DEF Piece
  <2>5. \A a \in Int : On(r, a) /\ ~Target(a, va, stop) => On(x, a)
    BY <1>0, <1>1, <2>2, <2>3 DEF On, Target
  <2> QED BY <2>4, <2>5 DEF x
<1>2. ASSUME r.va + r.len > stop, r.va >= va, r.va < stop
      PROVE  LET x == [r EXCEPT !.len = r.len - (stop - r.va), !.va = stop]
             IN  Piece(x, r, va, stop)
                 /\ \A a \in Int : On(r, a) /\ ~Target(a, va, stop) => On(x, a)
  <2> DEFINE x == [r EXCEPT !.len = r.len - (stop - r.va), !.va = stop]
  <2>1. PICK n : n = r.len - (stop - r.va)
    OBVIOUS
  <2>2. n = (r.va + r.len) - stop /\ n \in Nat
    BY <1>0, <1>2, <2>1
  <2>3. PICK y : y = [r EXCEPT !.len = n]
    OBVIOUS
  <2>4. x = [y EXCEPT !.va = stop]
    BY <2>1, <2>3
  <2>5. y \in Regions /\ y.len = n /\ y.type = r.type /\ y.param = r.param
    BY <2>2, <2>3 DEF Regions
  <2> HIDE DEF x
  <2>6. x \in Regions /\ x.va = stop /\ x.len = n /\ x.type = r.type /\ x.param = r.param
    BY <2>4, <2>5 DEF Regions
  <2>7. Piece(x, r, va, stop)
    BY <1>0, <1>2, <2>2, <2>6 DEF Piece
  <2>8. \A a \in Int : On(r, a) /\ ~Target(a, va, stop) => On(x, a)
    BY <1>0, <1>2, <2>2, <2>6 DEF On, Target
  <2> QED BY <2>7, <2>8 DEF x
<1>3. ASSUME r.va < va, r.va + r.len > stop
      PROVE  LET x == [r EXCEPT !.len = va - r.va]
                 y == Region(stop, (r.va + r.len) - stop, r.type, r.param)
             IN  Piece(x, r, va, stop) /\ Piece(y, r, va, stop) /\ OffEachOther(x, y)
                 /\ \A a \in Int : On(r, a) /\ ~Target(a, va, stop) => On(x, a) \/ On(y, a)
  <2> DEFINE x == [r EXCEPT !.len = va - r.va]
             y == Region(stop, (r.va + r.len) - stop, r.type, r.param)
  <2>1. PICK n : n = va - r.va
    OBVIOUS
  <2>2. PICK k : k = (r.va + r.len) - stop
    OBVIOUS
  <2>3. n \in Nat /\ k \in Nat
    BY <1>0, <1>3, <2>1, <2>2
  <2>4. x \in Regions /\ x.va = r.va /\ x.len = n /\ x.type = r.type /\ x.param = r.param
    BY <2>1, <2>3 DEF Regions
  <2>5. y \in Regions /\ y.va = stop /\ y.len = k /\ y.type = r.type /\ y.param = r.param
    <3>1. PICK t : t = r.type
      OBVIOUS
    <3>2. PICK q : q = r.param
      OBVIOUS
    <3>3. y = Region(stop, k, t, q) /\ t \in Kinds /\ q \in Nat
      BY <1>0, <2>2, <3>1, <3>2
    <3> HIDE DEF y
    <3> QED BY <2>3, <3>1, <3>2, <3>3, RegionFields
  <2> HIDE DEF x, y
  <2>6. Piece(x, r, va, stop) /\ Piece(y, r, va, stop) /\ OffEachOther(x, y)
    BY <1>0, <1>3, <2>1, <2>2, <2>4, <2>5 DEF Piece, OffEachOther
  <2>7. \A a \in Int : On(r, a) /\ ~Target(a, va, stop) => On(x, a) \/ On(y, a)
    BY <1>0, <1>3, <2>1, <2>2, <2>4, <2>5 DEF On, Target
  <2> QED BY <2>6, <2>7 DEF x, y
<1>4. \/ r.va <= va /\ r.va + r.len <= stop /\ r.va + r.len > va
      \/ r.va + r.len > stop /\ r.va >= va /\ r.va < stop
      \/ r.va < va /\ r.va + r.len > stop
      \/ Piece(r, r, va, stop)
         /\ \A a \in Int : On(r, a) /\ ~Target(a, va, stop) => On(r, a)
  BY <1>0 DEF Piece, Survives
<1> QED BY <1>1, <1>2, <1>3, <1>4

\* Neither the end of the list nor a region in the target.
Looks(m, i, p, va, stop) ==
  /\ m.stop = RUNNING /\ ~(i > Len(m.spaces[p]))
  /\ ~(m.spaces[p][i].va >= va /\ m.spaces[p][i].va + m.spaces[p][i].len <= stop)

CutsEnd(r, va, stop) == r.va <= va /\ r.va + r.len <= stop /\ r.va + r.len > va
CutsBegin(r, va, stop) == r.va + r.len > stop /\ r.va >= va /\ r.va < stop
CutsMiddle(r, va, stop) == r.va < va /\ r.va + r.len > stop

EndCut(m, i, p, va) ==
  LET list == m.spaces[p]
      r == list[i]
      e == r.va + r.len
  IN  [m |-> [m EXCEPT !.spaces[p] = [list EXCEPT ![i].len = @ - (e - va)]],
       at |-> i + 1]

BeginCut(m, i, p, stop) ==
  LET list == m.spaces[p]
      r == list[i]
  IN  [m |-> [m EXCEPT !.spaces[p] = [list EXCEPT ![i].len = @ - (stop - r.va), ![i].va = stop]],
       at |-> i + 1]

MiddleCut(m, i, p, va, stop) ==
  LET list == m.spaces[p]
      r == list[i]
      e == r.va + r.len
  IN  [m |-> [m EXCEPT !.spaces[p] =
                InsertAt([list EXCEPT ![i].len = va - r.va], i + 1,
                         Region(stop, e - stop, r.type, r.param))],
       at |-> i + 2]

LEMMA CarveAtOn ==
  ASSUME NEW m, NEW i, NEW p, NEW va, NEW stop, Looks(m, i, p, va, stop)
  PROVE  /\ CutsEnd(m.spaces[p][i], va, stop) =>
              CarveAt([m |-> m, at |-> i], p, va, stop) = EndCut(m, i, p, va)
         /\ ~CutsEnd(m.spaces[p][i], va, stop) /\ CutsBegin(m.spaces[p][i], va, stop) =>
              CarveAt([m |-> m, at |-> i], p, va, stop) = BeginCut(m, i, p, stop)
         /\ ~CutsEnd(m.spaces[p][i], va, stop) /\ ~CutsBegin(m.spaces[p][i], va, stop)
            /\ CutsMiddle(m.spaces[p][i], va, stop) =>
              CarveAt([m |-> m, at |-> i], p, va, stop) = MiddleCut(m, i, p, va, stop)
         /\ ~CutsEnd(m.spaces[p][i], va, stop) /\ ~CutsBegin(m.spaces[p][i], va, stop)
            /\ ~CutsMiddle(m.spaces[p][i], va, stop) =>
              CarveAt([m |-> m, at |-> i], p, va, stop) = [[m |-> m, at |-> i] EXCEPT !.at = @ + 1]
<1>1. ASSUME CutsEnd(m.spaces[p][i], va, stop)
      PROVE  CarveAt([m |-> m, at |-> i], p, va, stop) = EndCut(m, i, p, va)
  BY <1>1 DEF CarveAt, Looks, CutsEnd, EndCut
<1>2. ASSUME ~CutsEnd(m.spaces[p][i], va, stop), CutsBegin(m.spaces[p][i], va, stop)
      PROVE  CarveAt([m |-> m, at |-> i], p, va, stop) = BeginCut(m, i, p, stop)
  BY <1>2 DEF CarveAt, Looks, CutsEnd, CutsBegin, BeginCut
<1>3. ASSUME ~CutsEnd(m.spaces[p][i], va, stop), ~CutsBegin(m.spaces[p][i], va, stop),
             CutsMiddle(m.spaces[p][i], va, stop)
      PROVE  CarveAt([m |-> m, at |-> i], p, va, stop) = MiddleCut(m, i, p, va, stop)
  BY <1>3 DEF CarveAt, Looks, CutsEnd, CutsBegin, CutsMiddle, MiddleCut
<1>4. ASSUME ~CutsEnd(m.spaces[p][i], va, stop), ~CutsBegin(m.spaces[p][i], va, stop),
             ~CutsMiddle(m.spaces[p][i], va, stop)
      PROVE  CarveAt([m |-> m, at |-> i], p, va, stop) = [[m |-> m, at |-> i] EXCEPT !.at = @ + 1]
  BY <1>4 DEF CarveAt, Looks, CutsEnd, CutsBegin, CutsMiddle
<1> QED BY <1>1, <1>2, <1>3, <1>4

LEMMA CarveAtCases ==
  ASSUME NEW m, NEW i, NEW p, NEW va, NEW stop, Looks(m, i, p, va, stop),
         NEW r, r = m.spaces[p][i], NEW s, s = [m |-> m, at |-> i]
  PROVE  /\ CutsEnd(r, va, stop) => CarveAt(s, p, va, stop) = EndCut(m, i, p, va)
         /\ ~CutsEnd(r, va, stop) /\ CutsBegin(r, va, stop) =>
              CarveAt(s, p, va, stop) = BeginCut(m, i, p, stop)
         /\ ~CutsEnd(r, va, stop) /\ ~CutsBegin(r, va, stop) /\ CutsMiddle(r, va, stop) =>
              CarveAt(s, p, va, stop) = MiddleCut(m, i, p, va, stop)
         /\ ~CutsEnd(r, va, stop) /\ ~CutsBegin(r, va, stop) /\ ~CutsMiddle(r, va, stop) =>
              CarveAt(s, p, va, stop) = [m |-> m, at |-> i + 1]
<1> SUFFICES
         /\ CutsEnd(m.spaces[p][i], va, stop) =>
              CarveAt([m |-> m, at |-> i], p, va, stop) = EndCut(m, i, p, va)
         /\ ~CutsEnd(m.spaces[p][i], va, stop) /\ CutsBegin(m.spaces[p][i], va, stop) =>
              CarveAt([m |-> m, at |-> i], p, va, stop) = BeginCut(m, i, p, stop)
         /\ ~CutsEnd(m.spaces[p][i], va, stop) /\ ~CutsBegin(m.spaces[p][i], va, stop)
            /\ CutsMiddle(m.spaces[p][i], va, stop) =>
              CarveAt([m |-> m, at |-> i], p, va, stop) = MiddleCut(m, i, p, va, stop)
         /\ ~CutsEnd(m.spaces[p][i], va, stop) /\ ~CutsBegin(m.spaces[p][i], va, stop)
            /\ ~CutsMiddle(m.spaces[p][i], va, stop) =>
              CarveAt([m |-> m, at |-> i], p, va, stop) = [[m |-> m, at |-> i] EXCEPT !.at = @ + 1]
  OBVIOUS
<1> QED BY CarveAtOn

LEMMA CarveRound ==
  ASSUME NEW m, Shape(m), m.stop = RUNNING, NEW P, m.spaces \in [P -> Seq(Regions)],
         NEW p \in P, NEW i \in DOMAIN m.spaces[p],
         NEW va \in Nat, NEW stop \in Nat, va < stop, Survives(m.spaces[p][i], va, stop)
  PROVE  \E n, at, l :
           /\ CarveAt([m |-> m, at |-> i], p, va, stop) = [m |-> n, at |-> at]
           /\ Respaced(m, n, p, l)
           /\ Trims(m.spaces[p], i, l, at, va, stop) \/ Splits(m.spaces[p], i, l, at, va, stop)
<1> DEFINE list == m.spaces[p]  r == list[i]
<1>1. list = m.spaces[p]
  OBVIOUS
<1>2. r = list[i]
  OBVIOUS
<1> HIDE DEF list, r
<1>5. r \in Regions /\ list \in Seq(Regions) /\ i \in DOMAIN list /\ Survives(r, va, stop)
  BY <1>1, <1>2
<1>6. r.va \in Nat /\ r.len \in Nat /\ ~(i > Len(list))
  BY <1>5 DEF Regions
<1>7. ~(r.va >= va /\ r.va + r.len <= stop)
  BY <1>5, <1>6 DEF Survives
<1>8. Looks(m, i, p, va, stop)
  BY <1>1, <1>2, <1>6, <1>7 DEF Looks
<1> DEFINE Put(l, at) == [m |-> [m EXCEPT !.spaces[p] = l], at |-> at]
           one == CutsEnd(r, va, stop)
           two == CutsBegin(r, va, stop)
           three == CutsMiddle(r, va, stop)
           e == r.va + r.len
           X == [list EXCEPT ![i].len = @ - (e - va)]
           Y == [list EXCEPT ![i].len = @ - (stop - r.va), ![i].va = stop]
           Z == InsertAt([list EXCEPT ![i].len = va - r.va], i + 1,
                         Region(stop, e - stop, r.type, r.param))
<1>9. \A l, at : \E n : Put(l, at) = [m |-> n, at |-> at] /\ Respaced(m, n, p, l)
  BY RespacedBy
<1>10. CASE one
  <2> DEFINE x == [r EXCEPT !.len = r.len - ((r.va + r.len) - va)]
  <2>1. X = [list EXCEPT ![i] = x]
    BY <1>2, <1>5
  <2>2. Piece(x, r, va, stop) /\ \A a \in Int : On(r, a) /\ ~Target(a, va, stop) => On(x, a)
    BY <1>5, <1>10, Pieces DEF CutsEnd, CutsBegin, CutsMiddle
  <2> HIDE DEF x, X, Put, one
  <2>3. Trims(list, i, X, i + 1, va, stop)
    BY <1>2, <2>1, <2>2 DEF Trims
  <2>4. PICK n : Put(X, i + 1) = [m |-> n, at |-> i + 1] /\ Respaced(m, n, p, X)
    BY <1>9
  <2>5. CarveAt([m |-> m, at |-> i], p, va, stop) = Put(X, i + 1)
    <3>1. CarveAt([m |-> m, at |-> i], p, va, stop) = EndCut(m, i, p, va)
      BY <1>1, <1>2, <1>8, <1>10, CarveAtCases DEF one, two, three
    <3>2. EndCut(m, i, p, va) = Put(X, i + 1)
      BY DEF EndCut, X, Put, list, r
    <3> QED BY <3>1, <3>2
  <2> QED BY <1>1, <2>3, <2>4, <2>5
<1>11. CASE ~one /\ two
  <2> DEFINE x == [r EXCEPT !.len = r.len - (stop - r.va), !.va = stop]
  <2>1. Y = [list EXCEPT ![i] = x]
    <3>1. Y = [[list EXCEPT ![i].len = @ - (stop - r.va)] EXCEPT ![i].va = stop]
      OBVIOUS
    <3> QED BY <1>2, <1>5
  <2>2. Piece(x, r, va, stop) /\ \A a \in Int : On(r, a) /\ ~Target(a, va, stop) => On(x, a)
    BY <1>5, <1>11, Pieces DEF CutsEnd, CutsBegin, CutsMiddle
  <2> HIDE DEF x, Y, Put, one, two
  <2>3. Trims(list, i, Y, i + 1, va, stop)
    BY <1>2, <2>1, <2>2 DEF Trims
  <2>4. PICK n : Put(Y, i + 1) = [m |-> n, at |-> i + 1] /\ Respaced(m, n, p, Y)
    BY <1>9
  <2>5. CarveAt([m |-> m, at |-> i], p, va, stop) = Put(Y, i + 1)
    <3>1. CarveAt([m |-> m, at |-> i], p, va, stop) = BeginCut(m, i, p, stop)
      BY <1>1, <1>2, <1>8, <1>11, CarveAtCases DEF one, two, three
    <3>2. BeginCut(m, i, p, stop) = Put(Y, i + 1)
      BY DEF BeginCut, Y, Put, list, r
    <3> QED BY <3>1, <3>2
  <2> QED BY <1>1, <2>3, <2>4, <2>5
<1>12. CASE ~one /\ ~two /\ three
  <2> DEFINE x == [r EXCEPT !.len = va - r.va]
             y == Region(stop, (r.va + r.len) - stop, r.type, r.param)
  <2>1. [list EXCEPT ![i].len = va - r.va] = [list EXCEPT ![i] = x]
    BY <1>2, <1>5
  <2>2. Piece(x, r, va, stop) /\ Piece(y, r, va, stop) /\ OffEachOther(x, y)
        /\ \A a \in Int : On(r, a) /\ ~Target(a, va, stop) => On(x, a) \/ On(y, a)
    BY <1>5, <1>12, Pieces DEF CutsEnd, CutsBegin, CutsMiddle
  <2>3. Z = InsertAt([list EXCEPT ![i] = x], i + 1, y)
    BY <2>1
  <2> HIDE DEF x, y, Z, Put, one, two, three
  <2>4. Splits(list, i, Z, i + 2, va, stop)
    BY <1>2, <2>2, <2>3 DEF Splits
  <2>5. PICK n : Put(Z, i + 2) = [m |-> n, at |-> i + 2] /\ Respaced(m, n, p, Z)
    BY <1>9
  <2>6. CarveAt([m |-> m, at |-> i], p, va, stop) = Put(Z, i + 2)
    <3>1. CarveAt([m |-> m, at |-> i], p, va, stop) = MiddleCut(m, i, p, va, stop)
      BY <1>1, <1>2, <1>8, <1>12, CarveAtCases DEF one, two, three
    <3>2. MiddleCut(m, i, p, va, stop) = Put(Z, i + 2)
      BY DEF MiddleCut, Z, Put, list, r
    <3> QED BY <3>1, <3>2
  <2> QED BY <1>1, <2>4, <2>5, <2>6
<1>13. CASE ~one /\ ~two /\ ~three
  <2>1. Piece(r, r, va, stop) /\ \A a \in Int : On(r, a) /\ ~Target(a, va, stop) => On(r, a)
    BY <1>5, <1>13, Pieces DEF CutsEnd, CutsBegin, CutsMiddle
  <2>2. list = [list EXCEPT ![i] = r]
    BY <1>2, <1>5
  <2> HIDE DEF X, Y, Z, Put, one, two, three
  <2>3. Trims(list, i, list, i + 1, va, stop)
    BY <1>2, <2>1, <2>2 DEF Trims
  <2>4. CarveAt([m |-> m, at |-> i], p, va, stop) = [m |-> m, at |-> i + 1]
    BY <1>1, <1>2, <1>8, <1>13, CarveAtCases DEF one, two, three
  <2>5. Respaced(m, m, p, list)
    BY <1>1 DEF Respaced
  <2> QED BY <1>1, <2>3, <2>4, <2>5
<1> HIDE DEF one, two, three
<1> QED BY <1>10, <1>11, <1>12, <1>13
-----------------------------------------------------------------------------
\* The rounds of create_region(), for q = <<m, p, va, stop>>.
CarveStep(q, s, r) == CarveAt(s, q[2], q[3], q[4])

CarveKept(q, k, s) == \E n, l, d :
  /\ d \in Nat /\ s = [m |-> n, at |-> k + 1 + d]
  /\ Respaced(q[1], n, q[2], l)
  /\ Carved(l, q[1].spaces[q[2]], k, d, q[3], q[4])

Rounds == INSTANCE Recursion WITH Step <- CarveStep, Keeps <- CarveKept

\* What p's regions are carved from: they stay, if cut.
Carvable(m, P, p, va, stop) ==
  /\ Shape(m) /\ m.stop = RUNNING /\ m.spaces \in [P -> Seq(Regions)] /\ p \in P
  /\ va \in Nat /\ stop \in Nat /\ va < stop
  /\ Apart(m.spaces[p])
  /\ \A i \in DOMAIN m.spaces[p] : Survives(m.spaces[p][i], va, stop)

LEMMA CarveRoundKeeps ==
  ASSUME NEW m, NEW P, NEW p, NEW va, NEW stop, Carvable(m, P, p, va, stop),
         NEW k \in 1 .. Len(m.spaces[p]), NEW s,
         CarveKept(<<m, p, va, stop>>, k - 1, s), NEW r
  PROVE  CarveKept(<<m, p, va, stop>>, k, CarveStep(<<m, p, va, stop>>, s, r))
<1>1. PICK L : L = m.spaces[p]
  OBVIOUS
<1>2. /\ Shape(m) /\ m.stop = RUNNING /\ m.spaces \in [P -> Seq(Regions)] /\ p \in P
      /\ va \in Nat /\ stop \in Nat /\ va < stop
      /\ L \in Seq(Regions) /\ Len(L) \in Nat /\ DOMAIN L = 1 .. Len(L) /\ k \in 1 .. Len(L)
      /\ \A i \in DOMAIN L : Survives(L[i], va, stop)
  BY <1>1 DEF Carvable
<1>3. PICK n, l, d : /\ d \in Nat /\ s = [m |-> n, at |-> k - 1 + 1 + d]
                     /\ Respaced(m, n, p, l) /\ Carved(l, L, k - 1, d, va, stop)
  BY <1>1 DEF CarveKept
<1> DEFINE i == k + d
<1>4. s = [m |-> n, at |-> i] /\ k \in Int /\ d \in Int
  BY <1>2, <1>3
<1>5. /\ l \in Seq(Regions) /\ Len(l) = Len(L) + d /\ l[i] = L[k] /\ i \in DOMAIN l
  <2>1. k - 1 + 1 = k /\ k \in k .. Len(L)
    BY <1>2
  <2>2. l \in Seq(Regions) /\ Len(l) = Len(L) + d /\ l[i] = L[k]
    BY <1>3, <2>1 DEF Carved
  <2>3. i \in 1 .. Len(l)
    BY <1>2, <1>3, <2>2
  <2> QED BY <2>2, <2>3
<1>6. /\ Shape(n) /\ n.stop = RUNNING /\ n.spaces = [m.spaces EXCEPT ![p] = l]
  BY <1>2, <1>3 DEF Respaced
<1>7. n.spaces \in [P -> Seq(Regions)] /\ n.spaces[p] = l
  BY <1>2, <1>5, <1>6
<1> HIDE DEF i
<1>8. i \in DOMAIN n.spaces[p] /\ Survives(n.spaces[p][i], va, stop)
  BY <1>2, <1>5, <1>7
<1>9. PICK o, at, c :
        /\ CarveAt([m |-> n, at |-> i], p, va, stop) = [m |-> o, at |-> at]
        /\ Respaced(n, o, p, c)
        /\ Trims(l, i, c, at, va, stop) \/ Splits(l, i, c, at, va, stop)
  BY <1>2, <1>6, <1>7, <1>8, CarveRound
<1>10. Respaced(m, o, p, c)
  BY <1>3, <1>9, RespacedTwice
<1>11. CarveStep(<<m, p, va, stop>>, s, r) = [m |-> o, at |-> at]
  BY <1>4, <1>9 DEF CarveStep
<1>12. \E e \in Nat : Carved(c, L, k, e, va, stop) /\ at = k + 1 + e
  <2>1. CASE Trims(l, i, c, at, va, stop)
    BY <1>2, <1>3, <2>1, TrimCarved DEF i
  <2>2. CASE Splits(l, i, c, at, va, stop)
    <3>1. Carved(c, L, k, d + 1, va, stop) /\ at = k + 1 + (d + 1) /\ d + 1 \in Nat
      BY <1>2, <1>3, <2>2, SplitCarved DEF i
    <3> QED BY <3>1
  <2> QED BY <1>9, <2>1, <2>2
<1> QED BY <1>1, <1>10, <1>11, <1>12 DEF CarveKept

LEMMA CarveIter ==
  ASSUME NEW m, NEW p, NEW va, NEW stop, NEW n \in Nat, DOMAIN m.spaces[p] = 1 .. n
  PROVE  \E f : /\ Rounds!IsIter(f, <<m, p, va, stop>>, [m |-> m, at |-> 1], m.spaces[p], n)
                /\ Carve(m, p, va, stop) = f[1 .. n].m
<1> DEFINE base == [m |-> m, at |-> 1]
           list == m.spaces[p]
           F(f) == [s \in SUBSET (1 .. n) |->
                      IF s = {} THEN base ELSE CarveAt(f[s \ {Max(s)}], p, va, stop)]
           it == CHOOSE f : f = F(f)
<1>1. Carve(m, p, va, stop) = it[1 .. n].m
  BY DEF Carve, FoldLeft, MapThenFoldSet
<1>2. ASSUME NEW f PROVE Rounds!IsIter(f, <<m, p, va, stop>>, base, list, n) <=> f = F(f)
  BY DEF Rounds!IsIter, Rounds!Max, Max, CarveStep
<1>3. \E f : Rounds!IsIter(f, <<m, p, va, stop>>, base, list, n)
  BY Rounds!IterExists
<1>4. it = F(it)
  <2> HIDE DEF F
  <2> QED BY <1>2, <1>3
<1> HIDE DEF F, it
<1>5. Rounds!IsIter(it, <<m, p, va, stop>>, base, list, n)
  BY <1>2, <1>4
<1> QED BY <1>1, <1>5

\* What create_region() leaves of the regions that it finds.
LEMMA CarveLeaves ==
  ASSUME NEW m, NEW P, NEW p, NEW va, NEW stop, Carvable(m, P, p, va, stop)
  PROVE  \E l : \E d \in Nat :
           /\ Respaced(m, Carve(m, p, va, stop), p, l)
           /\ Carved(l, m.spaces[p], Len(m.spaces[p]), d, va, stop)
<1> DEFINE q == <<m, p, va, stop>>
           base == [m |-> m, at |-> 1]
<1>1. PICK L : L = m.spaces[p]
  OBVIOUS
<1>2. /\ Shape(m) /\ m.spaces \in [P -> Seq(Regions)] /\ p \in P
      /\ L \in Seq(Regions) /\ Len(L) \in Nat /\ DOMAIN L = 1 .. Len(L) /\ Apart(L)
  BY <1>1 DEF Carvable
<1>3. PICK f : /\ Rounds!IsIter(f, q, base, L, Len(L))
               /\ Carve(m, p, va, stop) = f[1 .. Len(L)].m
  BY <1>1, <1>2, CarveIter
<1>4. CarveKept(q, 0, base)
  <2>1. Respaced(m, m, p, L)
    BY <1>1, <1>2 DEF Respaced
  <2>2. Carved(L, L, 0, 0, va, stop)
    BY <1>2 DEF Carved
  <2>3. base = [m |-> m, at |-> 0 + 1 + 0] /\ 0 \in Nat
    OBVIOUS
  <2> QED BY <1>1, <2>1, <2>2, <2>3 DEF CarveKept
<1>5. \A i \in 1 .. Len(L) : \A s : CarveKept(q, i - 1, s) => CarveKept(q, i, CarveStep(q, s, L[i]))
  BY <1>1, CarveRoundKeeps
<1>6. CarveKept(q, Len(L), f[1 .. Len(L)])
  <2> HIDE DEF q, base
  <2> QED BY <1>2, <1>3, <1>4, <1>5, Rounds!IterKeeps
<1> QED BY <1>1, <1>3, <1>6 DEF CarveKept

-----------------------------------------------------------------------------
Listed(s) == \E n \in Nat : s = [i \in 1 .. n |-> s[i]]

\* What most operations keep: all address spaces, that the FIFOs are in a list,
\* and a stopped kernel's stop.
Quiet(m, n) ==
  /\ Shape(n) /\ n.spaces = m.spaces /\ n.npids = m.npids
  /\ Listed(m.fifos) => Listed(n.fifos)
  /\ m.next_fifo \in Nat => n.next_fifo \in Nat
  /\ n.stop = RUNNING => m.stop = RUNNING

LEMMA ListedExcept ==
  ASSUME NEW s, Listed(s), NEW i, NEW x PROVE Listed([s EXCEPT ![i] = x])
<1>1. PICK n \in Nat : s = [j \in 1 .. n |-> s[j]]
  BY DEF Listed
<1>2. PICK t : t = [s EXCEPT ![i] = x]
  OBVIOUS
<1>3. t = [j \in 1 .. n |-> t[j]]
  BY <1>1, <1>2
<1> QED BY <1>2, <1>3 DEF Listed

LEMMA QuietSelf == ASSUME NEW m, Shape(m) PROVE Quiet(m, m)
BY DEF Quiet

LEMMA QuietTwice ==
  ASSUME NEW m, NEW n, NEW o, Quiet(m, n), Quiet(n, o)
  PROVE  Quiet(m, o)
BY DEF Quiet

LEMMA StopQuiet == ASSUME NEW m, Shape(m), NEW why PROVE Quiet(m, Stop(m, why))
BY DEF Quiet, Shape, Stop

LEMMA AllocatePageQuiet == ASSUME NEW m, Shape(m) PROVE Quiet(m, AllocatePage(m))
<1>1. Quiet(m, Stop(m, "no clear bit"))
  BY StopQuiet
<1> QED BY <1>1 DEF Quiet, Shape, AllocatePage

LEMMA DeallocatePageQuiet ==
  ASSUME NEW m, Shape(m), NEW page PROVE Quiet(m, DeallocatePage(m, page))
<1>1. ASSUME NEW b, NEW f, NEW n, n = [m EXCEPT !.bitmap = b, !.free = f] PROVE Quiet(m, n)
  BY <1>1 DEF Quiet, Shape
<1>2. PICK d : d = [m EXCEPT !.bitmap = @ \ {page}, !.free = @ + 1]
  OBVIOUS
<1>3. Quiet(m, d)
  BY <1>1, <1>2
<1>4. Quiet(m, Stop(d, "other memory written"))
  BY <1>3, StopQuiet, QuietTwice DEF Quiet
<1>5. DeallocatePage(m, page) \in {d, Stop(d, "other memory written")}
  BY <1>2 DEF DeallocatePage
<1> QED BY <1>3, <1>4, <1>5

LEMMA UnusedKernelPageQuiet == ASSUME NEW m, Shape(m) PROVE Quiet(m, UnusedKernelPage(m))
<1>1. Quiet(m, Stop(m, "no kernel page"))
  BY StopQuiet
<1> QED BY <1>1 DEF Quiet, Shape, UnusedKernelPage

LEMMA FreeKernelPageQuiet == ASSUME NEW m, Shape(m) PROVE Quiet(m, FreeKernelPage(m))
BY DEF Quiet, Shape, FreeKernelPage

LEMMA BrieflyMappedQuiet == ASSUME NEW m, Shape(m) PROVE Quiet(m, BrieflyMapped(m))
<1>1. PICK u : u = UnusedKernelPage(m)
  OBVIOUS
<1>2. Quiet(m, u) /\ Quiet(u, FreeKernelPage(u))
  BY <1>1, UnusedKernelPageQuiet, FreeKernelPageQuiet DEF Quiet
<1> QED BY <1>1, <1>2, QuietTwice DEF BrieflyMapped

LEMMA FrameQuiet == ASSUME NEW m, Shape(m) PROVE Quiet(m, Frame(m))
<1>1. PICK a : a = AllocatePage(m)
  OBVIOUS
<1>2. Quiet(m, a) /\ Quiet(a, Stop(a, "no frame"))
  BY <1>1, AllocatePageQuiet, StopQuiet DEF Quiet
<1> QED BY <1>1, <1>2, QuietTwice DEF Frame

LEMMA UsableKernelPageQuiet == ASSUME NEW m, Shape(m) PROVE Quiet(m, UsableKernelPage(m))
<1>1. PICK u : u = UnusedKernelPage(m)
  OBVIOUS
<1>2. PICK f : f = Frame(u)
  OBVIOUS
<1>3. Quiet(m, u) /\ Quiet(u, f) /\ Quiet(f, Stop(f, "page 0"))
  BY <1>1, <1>2, UnusedKernelPageQuiet, FrameQuiet, StopQuiet DEF Quiet
<1>4. Quiet(m, f) /\ Quiet(m, Stop(f, "page 0"))
  BY <1>3, QuietTwice
<1> QED BY <1>1, <1>2, <1>4 DEF UsableKernelPage

LEMMA WithTableQuiet ==
  ASSUME NEW m, Shape(m), NEW p, NEW page PROVE Quiet(m, WithTable(m, p, page))
<1>1. PICK a : a = Frame(m)
  OBVIOUS
<1>2. Quiet(m, a)
  BY <1>1, FrameQuiet
<1>3. Quiet(a, [a EXCEPT !.tables[p][Table(page)] = a.ret])
  BY <1>2 DEF Quiet, Shape
<1>4. Quiet(m, [a EXCEPT !.tables[p][Table(page)] = a.ret])
  BY <1>2, <1>3, QuietTwice
<1> QED BY <1>1, <1>4, QuietSelf DEF WithTable

LEMMA SetPteQuiet ==
  ASSUME NEW m, Shape(m), NEW p, NEW page, NEW frame PROVE Quiet(m, SetPte(m, p, page, frame))
BY DEF Quiet, Shape, SetPte

LEMMA MapPageQuiet ==
  ASSUME NEW m, Shape(m), NEW p, NEW page, NEW frame PROVE Quiet(m, MapPage(m, p, page, frame))
<1>1. PICK t : t = WithTable(m, p, page)
  OBVIOUS
<1>2. PICK u : u = UnusedKernelPage(t)
  OBVIOUS
<1>3. Quiet(m, t) /\ Quiet(t, u) /\ Quiet(u, SetPte(u, p, page, frame))
  BY <1>1, <1>2, WithTableQuiet, UnusedKernelPageQuiet, SetPteQuiet DEF Quiet
<1> QED BY <1>1, <1>2, <1>3, QuietTwice DEF MapPage

LEMMA MapUserAddressQuiet ==
  ASSUME NEW m, Shape(m), NEW p, NEW page, NEW frame
  PROVE  Quiet(m, MapUserAddress(m, p, page, frame))
<1>1. PICK t : t = WithTable(m, p, page)
  OBVIOUS
<1>2. Quiet(m, t) /\ Shape(t)
  BY <1>1, WithTableQuiet DEF Quiet
<1>3. Quiet(t, Stop(t, "page table out of reach"))
  BY <1>2, StopQuiet
<1>4. Quiet(t, SetPte(t, p, page, frame))
  BY <1>2, SetPteQuiet
<1>5. Quiet(m, Stop(t, "page table out of reach")) /\ Quiet(m, SetPte(t, p, page, frame))
  BY <1>2, <1>3, <1>4, QuietTwice
<1> QED BY <1>1, <1>5 DEF MapUserAddress

LEMMA LookedQuiet ==
  ASSUME NEW m, Shape(m), NEW p, NEW page PROVE Quiet(m, Looked(m, p, page))
BY QuietSelf, BrieflyMappedQuiet DEF Looked

LEMMA UserPageInKernelQuiet == ASSUME NEW m, Shape(m) PROVE Quiet(m, UserPageInKernel(m))
<1>1. PICK b : b = BrieflyMapped(m)
  OBVIOUS
<1>2. Quiet(m, b) /\ Quiet(b, UnusedKernelPage(b))
  BY <1>1, BrieflyMappedQuiet, UnusedKernelPageQuiet DEF Quiet
<1> QED BY <1>1, <1>2, QuietTwice DEF UserPageInKernel

LEMMA PageFaultQuiet ==
  ASSUME NEW m, Shape(m), NEW p, NEW page PROVE Quiet(m, PageFault(m, p, page))
<1>1. PICK a : a = Frame(m)
  OBVIOUS
<1>2. Quiet(m, a) /\ Quiet(a, MapUserAddress(a, p, page, a.ret))
  BY <1>1, FrameQuiet, MapUserAddressQuiet DEF Quiet
<1> QED BY <1>1, <1>2, QuietTwice DEF PageFault

LEMMA CopyStackPageQuiet ==
  ASSUME NEW m, Shape(m), NEW p, NEW c, NEW page PROVE Quiet(m, CopyStackPage(m, p, c, page))
<1>1. PICK l : l = Looked(m, p, page)
  OBVIOUS
<1>2. PICK a : a = Frame(l)
  OBVIOUS
<1>3. PICK u : u = MapUserAddress(a, c, page, a.ret)
  OBVIOUS
<1>4. Quiet(m, l) /\ Quiet(l, a) /\ Quiet(a, u) /\ Quiet(u, UserPageInKernel(u))
  BY <1>1, <1>2, <1>3, LookedQuiet, FrameQuiet, MapUserAddressQuiet, UserPageInKernelQuiet DEF Quiet
<1> QED BY <1>1, <1>2, <1>3, <1>4, QuietTwice DEF CopyStackPage

LEMMA NewEntryQuiet == ASSUME NEW m, Shape(m), NEW pid PROVE Quiet(m, NewEntry(m, pid))
BY DEF Quiet, Shape, NewEntry

LEMMA ReturnEntryQuiet == ASSUME NEW m, Shape(m), NEW cell PROVE Quiet(m, ReturnEntry(m, cell))
<1>1. ASSUME NEW pid, NEW list, NEW n, n = [m EXCEPT !.acl[cell].pid = pid, !.acl_free = list]
      PROVE  Quiet(m, n)
  BY <1>1 DEF Quiet, Shape
<1> QED BY <1>1 DEF ReturnEntry

LEMMA CloneFifoQuiet ==
  ASSUME NEW m, Shape(m), NEW id, NEW newpid PROVE Quiet(m, CloneFifo(m, id, newpid))
<1>1. PICK e : e = NewEntry(m, newpid)
  OBVIOUS
<1>2. PICK i : i = FifoAt(m, id)
  OBVIOUS
<1>3. Quiet(m, e)
  BY <1>1, NewEntryQuiet
<1>4. Quiet(e, [e EXCEPT !.acl[e.ret].next = m.fifos[i].recvlist, !.fifos[i].recvlist = e.ret])
  <2>1. ASSUME NEW c, NEW x, NEW h, NEW n, n = [e EXCEPT !.acl[c].next = x, !.fifos[i].recvlist = h]
        PROVE  Quiet(e, n)
    <3>1. PICK f : f = [e.fifos[i] EXCEPT !.recvlist = h]
      OBVIOUS
    <3>2. n.fifos = [e.fifos EXCEPT ![i] = f]
      BY <1>3, <2>1, <3>1 DEF Quiet, Shape
    <3>3. Listed(e.fifos) => Listed(n.fifos)
      BY <3>2, ListedExcept
    <3>4. /\ Shape(n) /\ n.spaces = e.spaces /\ n.npids = e.npids /\ n.next_fifo = e.next_fifo
          /\ n.stop = RUNNING => e.stop = RUNNING
      BY <1>3, <2>1 DEF Quiet, Shape
    <3> QED BY <3>3, <3>4 DEF Quiet
  <2> QED BY <2>1
<1>5. Quiet(m, [e EXCEPT !.acl[e.ret].next = m.fifos[i].recvlist, !.fifos[i].recvlist = e.ret])
  BY <1>3, <1>4, QuietTwice
<1>6. CloneFifo(m, id, newpid) =
        IF i = 0 THEN m
        ELSE [e EXCEPT !.acl[e.ret].next = m.fifos[i].recvlist, !.fifos[i].recvlist = e.ret]
  BY <1>1, <1>2 DEF CloneFifo
<1> QED BY <1>5, <1>6, QuietSelf

LEMMA UpdateListQuiet ==
  ASSUME NEW m, Shape(m), NEW head, NEW oldpid, NEW newpid
  PROVE  Quiet(m, UpdateList(m, head, oldpid, newpid))
<1>1. PICK e : e = NewEntry(m, newpid)
  OBVIOUS
<1>2. Quiet(m, e)
  BY <1>1, NewEntryQuiet
<1>3. \A acl : Quiet(e, [e EXCEPT !.acl = acl])
  BY <1>2 DEF Quiet, Shape
<1>4. \A acl : Quiet(m, [e EXCEPT !.acl = acl])
  BY <1>2, <1>3, QuietTwice
<1> QED BY <1>1, <1>2, <1>4 DEF UpdateList

LEMMA UnlinkedQuiet ==
  ASSUME NEW m, Shape(m), NEW head, NEW pid PROVE Quiet(m, Unlinked(m, head, pid))
<1>1. \A h : Quiet(m, [m EXCEPT !.ret = h])
  BY DEF Quiet, Shape
<1>2. \A c, n, h : Quiet(m, [m EXCEPT !.acl[c].next = n, !.ret = h])
  <2>1. ASSUME NEW c, NEW n, NEW h, NEW o, o = [m EXCEPT !.acl[c].next = n, !.ret = h]
        PROVE  Quiet(m, o)
    BY <2>1 DEF Quiet, Shape
  <2> QED BY <2>1
<1> QED BY <1>1, <1>2 DEF Unlinked

-----------------------------------------------------------------------------
QuietKept(q, k, s) == Quiet(q[1], s)

\* A page of map_user_region_to_physical() without a physical address.
MappingPage(s, a, p) == LET f == Frame(s) IN MapPage(f, p, a, f.ret)

MappingStep(q, s, a) == MappingPage(s, a, q[2])
Mapping == INSTANCE Recursion WITH Step <- MappingStep, Keeps <- QuietKept

LEMMA MappingFold ==
  ASSUME NEW m, Shape(m), NEW p, NEW r, r.len \in Nat
  PROVE  Quiet(m, MapRegion(m, p, r))
<1> DEFINE base == m
           seq == [i \in 1 .. r.len |-> r.va + i - 1]
           n == r.len
           q == <<m, p>>
           F(f) == [ss \in SUBSET (1 .. n) |->
                      IF ss = {} THEN base
                      ELSE MappingPage(f[ss \ {Max(ss)}], seq[Max(ss)], p)]
           it == CHOOSE f : f = F(f)
<1>1. MapRegion(m, p, r) = it[1 .. n]
  BY DEF MapRegion, ForPages, MappingPage, FoldLeft, MapThenFoldSet
<1>2. ASSUME NEW f PROVE Mapping!IsIter(f, q, base, seq, n) <=> f = F(f)
  BY DEF Mapping!IsIter, Mapping!Max, Max, MappingStep
<1>3. n \in Nat
  OBVIOUS
<1>4. \E f : Mapping!IsIter(f, q, base, seq, n)
  BY <1>3, Mapping!IterExists
<1>5. it = F(it)
  <2> HIDE DEF F
  <2> QED BY <1>2, <1>4
<1> HIDE DEF F, it
<1>6. Mapping!IsIter(it, q, base, seq, n)
  BY <1>2, <1>5
<1>7. \A i \in 1 .. n : \A s : QuietKept(q, i - 1, s) => QuietKept(q, i, MappingStep(q, s, seq[i]))
  <2> SUFFICES ASSUME NEW s, Quiet(m, s), NEW a PROVE Quiet(m, MappingStep(q, s, a))
    BY DEF QuietKept
  <2>1. PICK f : f = Frame(s)
    OBVIOUS
  <2>2. Quiet(s, f) /\ Quiet(f, MapPage(f, p, a, f.ret))
    BY <2>1, FrameQuiet, MapPageQuiet DEF Quiet
  <2>3. Quiet(m, MapPage(f, p, a, f.ret))
    BY <2>2, QuietTwice
  <2> QED BY <2>1, <2>3 DEF MappingStep, MappingPage
<1>8. QuietKept(q, 0, base)
  BY QuietSelf DEF QuietKept
<1>9. QuietKept(q, n, it[1 .. n])
  <2> HIDE DEF q, base, seq, n
  <2> QED BY <1>3, <1>6, <1>7, <1>8, Mapping!IterKeeps
<1> QED BY <1>1, <1>9 DEF QuietKept

\* With a physical address.
DirectingPage(s, a, p, r, phys) == MapPage(s, p, a, phys + a - r.va)

DirectingStep(q, s, a) == DirectingPage(s, a, q[2], q[3], q[4])
Directing == INSTANCE Recursion WITH Step <- DirectingStep, Keeps <- QuietKept

LEMMA DirectingFold ==
  ASSUME NEW m, Shape(m), NEW p, NEW r, r.len \in Nat, NEW phys
  PROVE  Quiet(m, MapDirected(m, p, r, phys))
<1> DEFINE base == m
           seq == [i \in 1 .. r.len |-> r.va + i - 1]
           n == r.len
           q == <<m, p, r, phys>>
           F(f) == [ss \in SUBSET (1 .. n) |->
                      IF ss = {} THEN base
                      ELSE DirectingPage(f[ss \ {Max(ss)}], seq[Max(ss)], p, r, phys)]
           it == CHOOSE f : f = F(f)
<1>1. MapDirected(m, p, r, phys) = it[1 .. n]
  BY DEF MapDirected, ForPages, DirectingPage, FoldLeft, MapThenFoldSet
<1>2. ASSUME NEW f PROVE Directing!IsIter(f, q, base, seq, n) <=> f = F(f)
  BY DEF Directing!IsIter, Directing!Max, Max, DirectingStep
<1>3. n \in Nat
  OBVIOUS
<1>4. \E f : Directing!IsIter(f, q, base, seq, n)
  BY <1>3, Directing!IterExists
<1>5. it = F(it)
  <2> HIDE DEF F
  <2> QED BY <1>2, <1>4
<1> HIDE DEF F, it
<1>6. Directing!IsIter(it, q, base, seq, n)
  BY <1>2, <1>5
<1>7. \A i \in 1 .. n : \A s : QuietKept(q, i - 1, s) => QuietKept(q, i, DirectingStep(q, s, seq[i]))
  <2> SUFFICES ASSUME NEW s, Quiet(m, s), NEW a PROVE Quiet(m, DirectingStep(q, s, a))
    BY DEF QuietKept
  <2>1. Quiet(s, MapPage(s, p, a, phys + a - r.va))
    BY MapPageQuiet DEF Quiet
  <2> QED BY <2>1, QuietTwice DEF DirectingStep, DirectingPage
<1>8. QuietKept(q, 0, base)
  BY QuietSelf DEF QuietKept
<1>9. QuietKept(q, n, it[1 .. n])
  <2> HIDE DEF q, base, seq, n
  <2> QED BY <1>3, <1>6, <1>7, <1>8, Directing!IterKeeps
<1> QED BY <1>1, <1>9 DEF QuietKept

\* A page of a region that is deleted.
ReleasingPage(s, a, p, alone) ==
  LET b == BrieflyMapped(s)
      u == IF s.tables[p][Table(a)] = NONE THEN Stop(b, "no page table") ELSE b
      d == IF alone THEN DeallocatePage(u, Physical(s, p, a) * PageSize) ELSE u
  IN  [d EXCEPT !.pt[p][a] = NONE]

ReleasingStep(q, s, a) == ReleasingPage(s, a, q[2], q[3])
Releasing == INSTANCE Recursion WITH Step <- ReleasingStep, Keeps <- QuietKept

LEMMA ReleasingFold ==
  ASSUME NEW m, Shape(m), NEW p, NEW r, r.len \in Nat
  PROVE  Quiet(m, ReleasePages(m, p, r))
<1> DEFINE base == m
           seq == [i \in 1 .. r.len |-> r.va + i - 1]
           n == r.len
           q == <<m, p, ~Shared(m, r)>>
           F(f) == [ss \in SUBSET (1 .. n) |->
                      IF ss = {} THEN base
                      ELSE ReleasingPage(f[ss \ {Max(ss)}], seq[Max(ss)], p, ~Shared(m, r))]
           it == CHOOSE f : f = F(f)
<1>1. ReleasePages(m, p, r) = it[1 .. n]
  BY DEF ReleasePages, ForPages, ReleasingPage, FoldLeft, MapThenFoldSet
<1>2. ASSUME NEW f PROVE Releasing!IsIter(f, q, base, seq, n) <=> f = F(f)
  BY DEF Releasing!IsIter, Releasing!Max, Max, ReleasingStep
<1>3. n \in Nat
  OBVIOUS
<1>4. \E f : Releasing!IsIter(f, q, base, seq, n)
  BY <1>3, Releasing!IterExists
<1>5. it = F(it)
  <2> HIDE DEF F
  <2> QED BY <1>2, <1>4
<1> HIDE DEF F, it
<1>6. Releasing!IsIter(it, q, base, seq, n)
  BY <1>2, <1>5
<1>7. \A i \in 1 .. n : \A s : QuietKept(q, i - 1, s) => QuietKept(q, i, ReleasingStep(q, s, seq[i]))
  <2> SUFFICES ASSUME NEW s, Quiet(m, s), NEW a PROVE Quiet(m, ReleasingStep(q, s, a))
    BY DEF QuietKept
  <2>1. PICK b : b = BrieflyMapped(s)
    OBVIOUS
  <2>2. PICK u : u = IF s.tables[p][Table(a)] = NONE THEN Stop(b, "no page table") ELSE b
    OBVIOUS
  <2>3. PICK d : d = IF ~Shared(m, r) THEN DeallocatePage(u, Physical(s, p, a) * PageSize) ELSE u
    OBVIOUS
  <2>4. Quiet(s, b)
    BY <2>1, BrieflyMappedQuiet DEF Quiet
  <2>5. Quiet(b, u)
    BY <2>2, <2>4, StopQuiet, QuietSelf DEF Quiet
  <2>6. Quiet(u, d)
    BY <2>3, <2>5, DeallocatePageQuiet, QuietSelf DEF Quiet
  <2>7. Quiet(d, [d EXCEPT !.pt[p][a] = NONE])
    BY <2>6 DEF Quiet, Shape
  <2>8. Quiet(m, [d EXCEPT !.pt[p][a] = NONE])
    BY <2>4, <2>5, <2>6, <2>7, QuietTwice
  <2> QED BY <2>1, <2>2, <2>3, <2>8 DEF ReleasingStep, ReleasingPage
<1>8. QuietKept(q, 0, base)
  BY QuietSelf DEF QuietKept
<1>9. QuietKept(q, n, it[1 .. n])
  <2> HIDE DEF q, base, seq, n
  <2> QED BY <1>3, <1>6, <1>7, <1>8, Releasing!IterKeeps
<1> QED BY <1>1, <1>9 DEF QuietKept

\* A page of clone_region(): region r of q, at mr in p.
CloningPage(s, a, p, q, r, mr) ==
  LET source == r.va + a - mr.va
  IN  MapUserAddress(Looked(s, q, source), p, a, Physical(s, q, source))

\* What clone_region() does to a state in which the region is made.
ClonePages(m, p, q, r, mr) ==
  ForPages(LAMBDA s, page : CloningPage(s, page, p, q, r, mr), m, mr)

CloningStep(q, s, a) == CloningPage(s, a, q[2], q[3], q[4], q[5])
Cloning == INSTANCE Recursion WITH Step <- CloningStep, Keeps <- QuietKept

LEMMA CloningFold ==
  ASSUME NEW m, Shape(m), NEW p, NEW from, NEW r, NEW mr, mr.len \in Nat
  PROVE  Quiet(m, ClonePages(m, p, from, r, mr))
<1> DEFINE base == m
           seq == [i \in 1 .. mr.len |-> mr.va + i - 1]
           n == mr.len
           q == <<m, p, from, r, mr>>
           F(f) == [ss \in SUBSET (1 .. n) |->
                      IF ss = {} THEN base
                      ELSE CloningPage(f[ss \ {Max(ss)}], seq[Max(ss)], p, from, r, mr)]
           it == CHOOSE f : f = F(f)
<1>1. ClonePages(m, p, from, r, mr) = it[1 .. n]
  BY DEF ClonePages, ForPages, CloningPage, FoldLeft, MapThenFoldSet
<1>2. ASSUME NEW f PROVE Cloning!IsIter(f, q, base, seq, n) <=> f = F(f)
  BY DEF Cloning!IsIter, Cloning!Max, Max, CloningStep
<1>3. n \in Nat
  OBVIOUS
<1>4. \E f : Cloning!IsIter(f, q, base, seq, n)
  BY <1>3, Cloning!IterExists
<1>5. it = F(it)
  <2> HIDE DEF F
  <2> QED BY <1>2, <1>4
<1> HIDE DEF F, it
<1>6. Cloning!IsIter(it, q, base, seq, n)
  BY <1>2, <1>5
<1>7. \A i \in 1 .. n : \A s : QuietKept(q, i - 1, s) => QuietKept(q, i, CloningStep(q, s, seq[i]))
  <2> SUFFICES ASSUME NEW s, Quiet(m, s), NEW a PROVE Quiet(m, CloningStep(q, s, a))
    BY DEF QuietKept
  <2>1. PICK source : source = r.va + a - mr.va
    OBVIOUS
  <2>2. PICK l : l = Looked(s, from, source)
    OBVIOUS
  <2>3. Quiet(s, l)
    BY <2>2, LookedQuiet DEF Quiet
  <2>4. \A f : Quiet(l, MapUserAddress(l, p, a, f))
    BY <2>3, MapUserAddressQuiet DEF Quiet
  <2>5. Quiet(m, MapUserAddress(l, p, a, Physical(s, from, source)))
    BY <2>3, <2>4, QuietTwice
  <2> QED BY <2>1, <2>2, <2>5 DEF CloningStep, CloningPage
<1>8. QuietKept(q, 0, base)
  BY QuietSelf DEF QuietKept
<1>9. QuietKept(q, n, it[1 .. n])
  <2> HIDE DEF q, base, seq, n
  <2> QED BY <1>3, <1>6, <1>7, <1>8, Cloning!IterKeeps
<1> QED BY <1>1, <1>9 DEF QuietKept

\* A page that fork() copies.
CopyingPage(s, a) == FreeKernelPage(UserPageInKernel(s))

CopyPages(m, r) == ForPages(LAMBDA s, page : FreeKernelPage(UserPageInKernel(s)), m, r)

CopyingStep(q, s, a) == CopyingPage(s, a)
Copying == INSTANCE Recursion WITH Step <- CopyingStep, Keeps <- QuietKept

LEMMA CopyingFold ==
  ASSUME NEW m, Shape(m), NEW r, r.len \in Nat
  PROVE  Quiet(m, CopyPages(m, r))
<1> DEFINE base == m
           seq == [i \in 1 .. r.len |-> r.va + i - 1]
           n == r.len
           q == <<m>>
           F(f) == [ss \in SUBSET (1 .. n) |->
                      IF ss = {} THEN base
                      ELSE CopyingPage(f[ss \ {Max(ss)}], seq[Max(ss)])]
           it == CHOOSE f : f = F(f)
<1>1. CopyPages(m, r) = it[1 .. n]
  BY DEF CopyPages, ForPages, CopyingPage, FoldLeft, MapThenFoldSet
<1>2. ASSUME NEW f PROVE Copying!IsIter(f, q, base, seq, n) <=> f = F(f)
  BY DEF Copying!IsIter, Copying!Max, Max, CopyingStep
<1>3. n \in Nat
  OBVIOUS
<1>4. \E f : Copying!IsIter(f, q, base, seq, n)
  BY <1>3, Copying!IterExists
<1>5. it = F(it)
  <2> HIDE DEF F
  <2> QED BY <1>2, <1>4
<1> HIDE DEF F, it
<1>6. Copying!IsIter(it, q, base, seq, n)
  BY <1>2, <1>5
<1>7. \A i \in 1 .. n : \A s : QuietKept(q, i - 1, s) => QuietKept(q, i, CopyingStep(q, s, seq[i]))
  <2> SUFFICES ASSUME NEW s, Quiet(m, s), NEW a PROVE Quiet(m, CopyingStep(q, s, a))
    BY DEF QuietKept
  <2>1. PICK u : u = UserPageInKernel(s)
    OBVIOUS
  <2>2. Quiet(s, u) /\ Quiet(u, FreeKernelPage(u))
    BY <2>1, UserPageInKernelQuiet, FreeKernelPageQuiet DEF Quiet
  <2>3. Quiet(m, FreeKernelPage(u))
    BY <2>2, QuietTwice
  <2> QED BY <2>1, <2>3 DEF CopyingStep, CopyingPage
<1>8. QuietKept(q, 0, base)
  BY QuietSelf DEF QuietKept
<1>9. QuietKept(q, n, it[1 .. n])
  <2> HIDE DEF q, base, seq, n
  <2> QED BY <1>3, <1>6, <1>7, <1>8, Copying!IterKeeps
<1> QED BY <1>1, <1>9 DEF QuietKept

\* A page of the stack that fork() copies.
StackingPage(s, a, p, c) == CopyStackPage(s, p, c, a)

StackPagesOf(m, p, c, r) == ForPages(LAMBDA s, page : CopyStackPage(s, p, c, page), m, r)

StackingStep(q, s, a) == StackingPage(s, a, q[2], q[3])
Stacking == INSTANCE Recursion WITH Step <- StackingStep, Keeps <- QuietKept

LEMMA StackingFold ==
  ASSUME NEW m, Shape(m), NEW p, NEW c, NEW r, r.len \in Nat
  PROVE  Quiet(m, StackPagesOf(m, p, c, r))
<1> DEFINE base == m
           seq == [i \in 1 .. r.len |-> r.va + i - 1]
           n == r.len
           q == <<m, p, c>>
           F(f) == [ss \in SUBSET (1 .. n) |->
                      IF ss = {} THEN base
                      ELSE StackingPage(f[ss \ {Max(ss)}], seq[Max(ss)], p, c)]
           it == CHOOSE f : f = F(f)
<1>1. StackPagesOf(m, p, c, r) = it[1 .. n]
  BY DEF StackPagesOf, ForPages, StackingPage, FoldLeft, MapThenFoldSet
<1>2. ASSUME NEW f PROVE Stacking!IsIter(f, q, base, seq, n) <=> f = F(f)
  BY DEF Stacking!IsIter, Stacking!Max, Max, StackingStep
<1>3. n \in Nat
  OBVIOUS
<1>4. \E f : Stacking!IsIter(f, q, base, seq, n)
  BY <1>3, Stacking!IterExists
<1>5. it = F(it)
  <2> HIDE DEF F
  <2> QED BY <1>2, <1>4
<1> HIDE DEF F, it
<1>6. Stacking!IsIter(it, q, base, seq, n)
  BY <1>2, <1>5
<1>7. \A i \in 1 .. n : \A s : QuietKept(q, i - 1, s) => QuietKept(q, i, StackingStep(q, s, seq[i]))
  <2> SUFFICES ASSUME NEW s, Quiet(m, s), NEW a PROVE Quiet(m, StackingStep(q, s, a))
    BY DEF QuietKept
  <2>1. Quiet(s, CopyStackPage(s, p, c, a))
    BY CopyStackPageQuiet DEF Quiet
  <2> QED BY <2>1, QuietTwice DEF StackingStep, StackingPage
<1>8. QuietKept(q, 0, base)
  BY QuietSelf DEF QuietKept
<1>9. QuietKept(q, n, it[1 .. n])
  <2> HIDE DEF q, base, seq, n
  <2> QED BY <1>3, <1>6, <1>7, <1>8, Stacking!IterKeeps
<1> QED BY <1>1, <1>9 DEF QuietKept

\* An entry behind the first of a new list.
LinkingPage(s, pid) == LET e == NewEntry(s, pid) IN [e EXCEPT !.acl[s.ret].next = e.ret]

LinkAll(m, pids) ==
  FoldLeft(LAMBDA s, pid : LET e == NewEntry(s, pid) IN [e EXCEPT !.acl[s.ret].next = e.ret], m, pids)

LinkingStep(q, s, a) == LinkingPage(s, a)
Linking == INSTANCE Recursion WITH Step <- LinkingStep, Keeps <- QuietKept

LEMMA LinkingFold ==
  ASSUME NEW m, Shape(m), NEW pids, NEW n \in Nat, DOMAIN pids = 1 .. n
  PROVE  Quiet(m, LinkAll(m, pids))
<1> DEFINE base == m
           seq == pids
           q == <<m>>
           F(f) == [ss \in SUBSET (1 .. n) |->
                      IF ss = {} THEN base
                      ELSE LinkingPage(f[ss \ {Max(ss)}], seq[Max(ss)])]
           it == CHOOSE f : f = F(f)
<1>1. LinkAll(m, pids) = it[1 .. n]
  BY DEF LinkAll, LinkingPage, FoldLeft, MapThenFoldSet
<1>2. ASSUME NEW f PROVE Linking!IsIter(f, q, base, seq, n) <=> f = F(f)
  BY DEF Linking!IsIter, Linking!Max, Max, LinkingStep
<1>3. n \in Nat
  OBVIOUS
<1>4. \E f : Linking!IsIter(f, q, base, seq, n)
  BY <1>3, Linking!IterExists
<1>5. it = F(it)
  <2> HIDE DEF F
  <2> QED BY <1>2, <1>4
<1> HIDE DEF F, it
<1>6. Linking!IsIter(it, q, base, seq, n)
  BY <1>2, <1>5
<1>7. \A i \in 1 .. n : \A s : QuietKept(q, i - 1, s) => QuietKept(q, i, LinkingStep(q, s, seq[i]))
  <2> SUFFICES ASSUME NEW s, Quiet(m, s), NEW a PROVE Quiet(m, LinkingStep(q, s, a))
    BY DEF QuietKept
  <2>1. PICK e : e = NewEntry(s, a)
    OBVIOUS
  <2>2. Quiet(s, e)
    BY <2>1, NewEntryQuiet DEF Quiet
  <2>3. \A c, x : Quiet(e, [e EXCEPT !.acl[c].next = x])
    BY <2>2 DEF Quiet, Shape
  <2>4. Quiet(m, [e EXCEPT !.acl[s.ret].next = e.ret])
    BY <2>2, <2>3, QuietTwice
  <2> QED BY <2>1, <2>4 DEF LinkingStep, LinkingPage
<1>8. QuietKept(q, 0, base)
  BY QuietSelf DEF QuietKept
<1>9. QuietKept(q, n, it[1 .. n])
  <2> HIDE DEF q, base, seq
  <2> QED BY <1>3, <1>6, <1>7, <1>8, Linking!IterKeeps
<1> QED BY <1>1, <1>9 DEF QuietKept

\* One list of senders.
UpdatingPage(s, f, oldpid, newpid) == UpdateList(s, f.sendlist, oldpid, newpid)

UpdatingStep(q, s, a) == UpdatingPage(s, a, q[2], q[3])
Updating == INSTANCE Recursion WITH Step <- UpdatingStep, Keeps <- QuietKept

LEMMA UpdatingFold ==
  ASSUME NEW m, Shape(m), NEW oldpid, NEW newpid, NEW n \in Nat, DOMAIN m.fifos = 1 .. n
  PROVE  Quiet(m, UpdateSenders(m, oldpid, newpid))
<1> DEFINE base == m
           seq == m.fifos
           q == <<m, oldpid, newpid>>
           F(f) == [ss \in SUBSET (1 .. n) |->
                      IF ss = {} THEN base
                      ELSE UpdatingPage(f[ss \ {Max(ss)}], seq[Max(ss)], oldpid, newpid)]
           it == CHOOSE f : f = F(f)
<1>1. UpdateSenders(m, oldpid, newpid) = it[1 .. n]
  BY DEF UpdateSenders, UpdatingPage, FoldLeft, MapThenFoldSet
<1>2. ASSUME NEW f PROVE Updating!IsIter(f, q, base, seq, n) <=> f = F(f)
  BY DEF Updating!IsIter, Updating!Max, Max, UpdatingStep
<1>3. n \in Nat
  OBVIOUS
<1>4. \E f : Updating!IsIter(f, q, base, seq, n)
  BY <1>3, Updating!IterExists
<1>5. it = F(it)
  <2> HIDE DEF F
  <2> QED BY <1>2, <1>4
<1> HIDE DEF F, it
<1>6. Updating!IsIter(it, q, base, seq, n)
  BY <1>2, <1>5
<1>7. \A i \in 1 .. n : \A s : QuietKept(q, i - 1, s) => QuietKept(q, i, UpdatingStep(q, s, seq[i]))
  <2> SUFFICES ASSUME NEW s, Quiet(m, s), NEW a PROVE Quiet(m, UpdatingStep(q, s, a))
    BY DEF QuietKept
  <2>1. \A h : Quiet(s, UpdateList(s, h, oldpid, newpid))
    BY UpdateListQuiet DEF Quiet
  <2> QED BY <2>1, QuietTwice DEF UpdatingStep, UpdatingPage
<1>8. QuietKept(q, 0, base)
  BY QuietSelf DEF QuietKept
<1>9. QuietKept(q, n, it[1 .. n])
  <2> HIDE DEF q, base, seq
  <2> QED BY <1>3, <1>6, <1>7, <1>8, Updating!IterKeeps
<1> QED BY <1>1, <1>9 DEF QuietKept

-----------------------------------------------------------------------------
\* A memory system with an address space for every process.
Formed(m) ==
  /\ Shape(m) /\ m.npids \in 0 .. MaxPid /\ Listed(m.fifos) /\ m.next_fifo \in Nat
  /\ m.spaces \in [1 .. MaxPid -> Seq(Regions)]

\* n is m with another address space for p.
Reworked(m, n, p) ==
  /\ Formed(n) /\ n.npids = m.npids
  /\ n.spaces = [m.spaces EXCEPT ![p] = n.spaces[p]]
  /\ n.stop = RUNNING => m.stop = RUNNING

LEMMA QuietFormed ==
  ASSUME NEW m, Formed(m), NEW n, Quiet(m, n)
  PROVE  Formed(n) /\ \A p \in 1 .. MaxPid : Reworked(m, n, p)
BY DEF Formed, Quiet, Reworked

LEMMA ReworkedQuiet ==
  ASSUME NEW m, NEW n, NEW o, NEW p \in 1 .. MaxPid, Formed(m), Reworked(m, n, p), Quiet(n, o)
  PROVE  Reworked(m, o, p) /\ o.spaces[p] = n.spaces[p]
BY DEF Formed, Quiet, Reworked

LEMMA QuietReworked ==
  ASSUME NEW m, NEW n, NEW o, NEW p \in 1 .. MaxPid, Formed(m), Quiet(m, n), Reworked(n, o, p)
  PROVE  Reworked(m, o, p)
BY DEF Formed, Quiet, Reworked

WithSpace(m, p, l) == [m EXCEPT !.spaces[p] = l]

LEMMA SpaceReworked ==
  ASSUME NEW m, Formed(m), NEW p \in 1 .. MaxPid, NEW l \in Seq(Regions),
         NEW n, n = WithSpace(m, p, l)
  PROVE  Reworked(m, n, p) /\ n.spaces[p] = l /\ n.stop = m.stop
<1>1. Respaced(m, n, p, l)
  BY RespacedBy DEF Formed, WithSpace
<1>2. /\ n.spaces = [m.spaces EXCEPT ![p] = l] /\ n.stop = m.stop /\ n.npids = m.npids
      /\ n.fifos = m.fifos /\ Shape(n) /\ n.next_fifo = m.next_fifo
  BY <1>1 DEF Respaced
<1>3. m.spaces \in [1 .. MaxPid -> Seq(Regions)] /\ m.npids \in 0 .. MaxPid /\ Listed(m.fifos)
      /\ m.next_fifo \in Nat
  BY DEF Formed
<1>4. n.spaces \in [1 .. MaxPid -> Seq(Regions)] /\ n.spaces[p] = l
  BY <1>2, <1>3
<1> QED BY <1>2, <1>3, <1>4 DEF Formed, Reworked

\* Region t[1] is at the end of what was the free region i of the list.
Taken(list, t, r, i) ==
  /\ Tidy(t) /\ Len(t) = Len(list) + 1 /\ t[1] = r
  /\ i \in DOMAIN list /\ list[i].type = "FREE" /\ r.len <= list[i].len
  /\ r.va = list[i].va + (list[i].len - r.len)
  /\ \A j \in DOMAIN list :
       /\ j # i => t[j + 1] = list[j]
       /\ t[j + 1].type = list[j].type /\ t[j + 1].va = list[j].va
       /\ t[j + 1].param = list[j].param
       /\ j = i => t[j + 1].len = list[i].len - r.len

LEMMA StopStops ==
  ASSUME NEW m, Shape(m), NEW why, why # RUNNING PROVE Stop(m, why).stop # RUNNING
BY DEF Stop, Shape

LEMMA CreateRegionTakes ==
  ASSUME NEW m, Formed(m), NEW p \in 1 .. MaxPid, Tidy(m.spaces[p]), NEW len \in Nat \ {0},
         NEW type \in Kinds \ {"STACK"}, NEW param \in Nat,
         NEW n, n = CreateRegion(m, p, len, type, param)
  PROVE  /\ Reworked(m, n, p)
         /\ n.stop = RUNNING =>
              \E r \in Regions, i \in Nat :
                /\ r.len = len /\ r.type = type /\ r.param = param
                /\ Taken(m.spaces[p], n.spaces[p], r, i)
<1>1. PICK list : list = m.spaces[p]
  OBVIOUS
<1>2. list \in Seq(Regions) /\ Tidy(list) /\ Len(list) \in Nat /\ DOMAIN list = 1 .. Len(list)
  <2>1. list \in Seq(Regions) /\ Tidy(list)
    BY <1>1 DEF Tidy
  <2> QED BY <2>1
<1>3. CASE Fits(list, len) = {}
  <2>1. n = Stop(m, "no room")
    BY <1>1, <1>3 DEF CreateRegion
  <2>2. Quiet(m, n)
    BY <2>1, StopQuiet DEF Formed
  <2>3. n.stop # RUNNING
    BY <2>1, StopStops DEF Formed, RUNNING
  <2> QED BY <2>2, <2>3, QuietFormed
<1>4. CASE Fits(list, len) # {}
  <2>1. PICK i : i = BestFit(list, len)
    OBVIOUS
  <2>2. i \in DOMAIN list /\ list[i].type = "FREE" /\ list[i].len >= len
    BY <1>2, <1>4, <2>1, BestFitFits DEF Fits
  <2>3. list[i] \in Regions
    BY <1>2, <2>2
  <2>4. PICK left : left = list[i].len - len
    OBVIOUS
  <2>5. PICK va : va = list[i].va + left
    OBVIOUS
  <2>6. left \in Nat /\ va \in Nat
    BY <2>2, <2>3, <2>4, <2>5 DEF Regions
  <2>7. PICK r : r = Region(va, len, type, param)
    OBVIOUS
  <2>8. r \in Regions /\ r.va = va /\ r.len = len /\ r.type = type /\ r.param = param
    BY <2>6, <2>7, RegionFields
  <2>9. PICK rest : rest = [list EXCEPT ![i].len = left]
    OBVIOUS
  <2>10. PICK t : t = <<r>> \o rest
    OBVIOUS
  <2>11. n = WithSpace(m, p, t)
    BY <1>1, <1>4, <2>1, <2>4, <2>5, <2>7, <2>9, <2>10 DEF CreateRegion, WithSpace
  <2>12. /\ Tidy(t) /\ Len(t) = Len(list) + 1 /\ t[1] = r
         /\ \A j \in DOMAIN list :
              /\ j # i => t[j + 1] = list[j]
              /\ t[j + 1].type = list[j].type /\ t[j + 1].va = list[j].va
              /\ t[j + 1].param = list[j].param
              /\ j = i => t[j + 1].len = list[i].len - r.len
    <3>1. t = <<r>> \o [list EXCEPT ![i].len = list[i].len - r.len]
      BY <2>4, <2>8, <2>9, <2>10
    <3>2. /\ r.len > 0 /\ r.type # "STACK" /\ r.len <= list[i].len
          /\ r.va = list[i].va + (list[i].len - r.len)
      BY <2>2, <2>3, <2>4, <2>5, <2>8 DEF Regions
    <3>3. Cuts(list, i, r, t)
      BY <1>2, <2>2, <2>8, <3>1, <3>2 DEF Cuts
    <3> QED BY <3>3, CutTidy
  <2>13. t \in Seq(Regions)
    BY <2>12 DEF Tidy
  <2>14. Reworked(m, n, p) /\ n.spaces[p] = t
    BY <2>11, <2>13, SpaceReworked
  <2>15. Taken(list, t, r, i)
    BY <2>2, <2>3, <2>4, <2>5, <2>8, <2>12 DEF Taken
  <2>16. i \in Nat
    BY <1>2, <2>2
  <2> QED BY <1>1, <2>8, <2>14, <2>15, <2>16
<1> QED BY <1>3, <1>4

LEMMA TakenStack ==
  ASSUME NEW list, NEW t, NEW r, NEW i, Taken(list, t, r, i), HasStack(list), Tidy(list)
  PROVE  HasStack(t)
<1>1. PICK j \in DOMAIN list : list[j].type = "STACK"
  BY DEF HasStack
<1>2. j + 1 \in DOMAIN t /\ t[j + 1].type = "STACK"
  <2>1. DOMAIN list = 1 .. Len(list) /\ Len(list) \in Nat /\ DOMAIN t = 1 .. Len(t)
    BY DEF Tidy, Taken
  <2> QED BY <1>1, <2>1 DEF Taken
<1> QED BY <1>2 DEF HasStack

LEMMA DeleteRegionMerges ==
  ASSUME NEW m, Formed(m), NEW p \in 1 .. MaxPid, NEW i, Mergeable(m.spaces[p], i),
         HasStack(m.spaces[p]), NEW n, n = DeleteRegion(m, p, i)
  PROVE  /\ Reworked(m, n, p) /\ Tidy(n.spaces[p]) /\ HasStack(n.spaces[p])
         /\ \E at \in DOMAIN n.spaces[p] :
              OthersKept(m.spaces[p], i, n.spaces[p], at) /\ n.spaces[p][at].type = "FREE"
<1>1. PICK list : list = m.spaces[p]
  OBVIOUS
<1>2. PICK r : r = list[i]
  OBVIOUS
<1>3. r \in Regions
  <2>1. list \in Seq(Regions) /\ i \in DOMAIN list
    BY <1>1 DEF Mergeable, Tidy
  <2> QED BY <1>2, <2>1
<1>4. PICK c : c = ReleasePages(m, p, r)
  OBVIOUS
<1>5. Quiet(m, c)
  BY <1>3, <1>4, ReleasingFold DEF Formed, Regions
<1>6. Formed(c) /\ c.spaces[p] = list
  BY <1>1, <1>5, QuietFormed DEF Quiet
<1>7. PICK b : b = MergeBefore(list, i)
  OBVIOUS
<1>8. PICK t : t = MergeAfter(b.list, b.at)
  OBVIOUS
<1>9. n = WithSpace(c, p, t)
  BY <1>1, <1>2, <1>4, <1>6, <1>7, <1>8 DEF DeleteRegion, WithSpace
<1>10. /\ Tidy(t) /\ HasStack(t)
       /\ \E at \in DOMAIN t : OthersKept(list, i, t, at) /\ t[at].type = "FREE"
  BY <1>1, <1>7, <1>8, MergedTidy
<1>11. t \in Seq(Regions)
  BY <1>10 DEF Tidy
<1>12. Reworked(c, n, p) /\ n.spaces[p] = t
  BY <1>6, <1>9, <1>11, SpaceReworked
<1>13. Reworked(m, n, p)
  BY <1>5, <1>12, QuietReworked
<1> QED BY <1>1, <1>10, <1>12, <1>13

LEMMA CloneRegionTakes ==
  ASSUME NEW m, Formed(m), NEW p \in 1 .. MaxPid, Tidy(m.spaces[p]), NEW from,
         NEW r \in Regions, r.len > 0, r.type # "STACK",
         NEW n, n = CloneRegion(m, p, from, r)
  PROVE  /\ Reworked(m, n, p)
         /\ n.stop = RUNNING =>
              \E s \in Regions, i \in Nat :
                /\ s.len = r.len /\ s.type = r.type /\ s.param = r.param
                /\ Taken(m.spaces[p], n.spaces[p], s, i)
<1>1. r.len \in Nat \ {0} /\ r.type \in Kinds \ {"STACK"} /\ r.param \in Nat
  BY DEF Regions
<1> DEFINE c == CreateRegion(m, p, r.len, r.type, r.param)
<1>a. c.stop = RUNNING => n = ClonePages(c, p, from, r, c.spaces[p][1])
  BY DEF CloneRegion, ClonePages, CloningPage
<1>b. c.stop # RUNNING => n = c
  BY DEF CloneRegion
<1>2. c = CreateRegion(m, p, r.len, r.type, r.param)
  OBVIOUS
<1> HIDE DEF c
<1>3. /\ Reworked(m, c, p)
      /\ c.stop = RUNNING =>
           \E s \in Regions, i \in Nat :
             /\ s.len = r.len /\ s.type = r.type /\ s.param = r.param
             /\ Taken(m.spaces[p], c.spaces[p], s, i)
  BY <1>1, <1>2, CreateRegionTakes
<1>4. CASE c.stop # RUNNING
  <2>1. n = c
    BY <1>b, <1>4
  <2> QED BY <1>3, <2>1
<1>5. CASE c.stop = RUNNING
  <2>1. PICK s \in Regions, i \in Nat :
          /\ s.len = r.len /\ s.type = r.type /\ s.param = r.param
          /\ Taken(m.spaces[p], c.spaces[p], s, i)
    BY <1>3, <1>5
  <2>2. c.spaces[p][1] = s
    BY <2>1 DEF Taken
  <2>3. n = ClonePages(c, p, from, r, s)
    BY <1>a, <1>5, <2>2
  <2>4. Quiet(c, n)
    BY <1>3, <2>3, CloningFold DEF Reworked, Formed, Regions
  <2>5. Reworked(m, n, p) /\ n.spaces[p] = c.spaces[p]
    BY <1>3, <2>4, ReworkedQuiet
  <2> QED BY <2>1, <2>5
<1> QED BY <1>4, <1>5

-----------------------------------------------------------------------------
\* List t is list with room made for region r, and r in front.
Made(list, t, r) ==
  /\ Tidy(t) /\ 1 \in DOMAIN t /\ t[1] = r
  /\ HasStack(list) \/ r.type = "STACK" => HasStack(t)
  /\ \A j \in DOMAIN t \ {1} : \E i \in DOMAIN list : Piece(t[j], list[i], r.va, r.va + r.len)

\* A region that is created in front of what is left of the others.
Fronted(list, l, d, r, t) ==
  /\ Tidy(list) /\ d \in Nat /\ r \in Regions /\ r.len > 0 /\ InPlace(r)
  /\ r.type = "STACK" => ~HasStack(list)
  /\ Carved(l, list, Len(list), d, r.va, r.va + r.len)
  /\ t = <<r>> \o l

LEMMA PieceInPlace ==
  ASSUME NEW r \in Regions, r.len > 0, InPlace(r), NEW s \in Regions, InPlace(s), NEW x,
         r.type = "STACK" => s.type # "STACK", Piece(x, s, r.va, r.va + r.len)
  PROVE  InPlace(x) /\ x \in Regions
<1>1. /\ r.va \in Nat /\ r.len \in Nat /\ s.va \in Nat /\ s.len \in Nat
      /\ x \in Regions /\ x.va \in Nat /\ x.len \in Nat /\ x.type = s.type
      /\ Low \in Nat /\ Top \in Nat /\ StackPages \in Nat
  BY AddressSpacesAssumption DEF Piece, Regions
<1>2. CASE s.type = "STACK"
  BY <1>1, <1>2 DEF InPlace, Piece
<1>3. CASE s.type # "STACK"
  BY <1>1, <1>3 DEF InPlace, Piece
<1> QED BY <1>1, <1>2, <1>3

LEMMA FrontedMade ==
  ASSUME NEW list, NEW l, NEW d, NEW r, NEW t, Fronted(list, l, d, r, t)
  PROVE  Made(list, t, r)
<1>1. /\ Tidy(list) /\ d \in Nat /\ r \in Regions /\ r.len > 0 /\ InPlace(r)
      /\ r.type = "STACK" => ~HasStack(list)
      /\ Carved(l, list, Len(list), d, r.va, r.va + r.len)
      /\ t = <<r>> \o l
  BY DEF Fronted
<1>2. PICK stop : stop = r.va + r.len
  OBVIOUS
<1>3. /\ r.va \in Nat /\ r.len \in Nat /\ stop \in Nat /\ r.va < stop
  BY <1>1, <1>2 DEF Regions
<1>4. /\ list \in Seq(Regions) /\ Len(list) \in Nat /\ DOMAIN list = 1 .. Len(list)
      /\ \A i \in DOMAIN list : list[i] \in Regions /\ InPlace(list[i])
      /\ \A a \in Low .. Top - 1 : \E i \in DOMAIN list : On(list[i], a)
  BY <1>1 DEF Tidy
<1>5. /\ l \in Seq(Regions) /\ Apart(l) /\ DOMAIN l = 1 .. Len(list) + d
      /\ \A i \in DOMAIN l : \E j \in DOMAIN list : Piece(l[i], list[j], r.va, stop)
      /\ \A j \in DOMAIN list : \E i \in DOMAIN l : Piece(l[i], list[j], r.va, stop)
      /\ \A j \in DOMAIN list : \A a \in Int :
           On(list[j], a) /\ ~Target(a, r.va, stop) => \E i \in DOMAIN l : On(l[i], a)
  <2>1. Carved(l, list, Len(list), d, r.va, stop)
    BY <1>1, <1>2
  <2>2. l \in Seq(Regions) /\ Len(l) = Len(list) + d
    BY <2>1 DEF Carved
  <2>3. DOMAIN l = 1 .. Len(list) + d
    BY <2>2
  <2> QED BY <1>4, <2>1, <2>2, <2>3 DEF Carved
<1>6. ASSUME NEW i \in DOMAIN list PROVE r.type = "STACK" => list[i].type # "STACK"
  BY <1>1 DEF HasStack
<1>7. ASSUME NEW i \in DOMAIN l PROVE InPlace(l[i]) /\ OffEachOther(r, l[i])
  <2>1. PICK j \in DOMAIN list : Piece(l[i], list[j], r.va, stop)
    BY <1>5
  <2>2. InPlace(l[i])
    BY <1>1, <1>2, <1>4, <1>6, <2>1, PieceInPlace
  <2>3. OffEachOther(r, l[i])
    BY <1>1, <1>2, <1>3, <1>4, <2>1, PieceOffTarget
  <2> QED BY <2>2, <2>3
<1>8. ASSUME NEW a \in Low .. Top - 1, ~On(r, a) PROVE \E i \in DOMAIN l : On(l[i], a)
  <2>1. PICK j \in DOMAIN list : On(list[j], a)
    BY <1>4
  <2>2. a \in Int /\ ~Target(a, r.va, stop)
    BY <1>2, <1>8, AddressSpacesAssumption DEF On, Target
  <2> QED BY <1>5, <2>1, <2>2
<1>9. RoomFor(l, r)
  BY <1>5, <1>7, <1>8 DEF RoomFor
<1>10. Tidy(t)
  BY <1>1, <1>9, PrependTidy
<1>11. /\ Len(t) = Len(l) + 1 /\ t[1] = r /\ t \in Seq(Regions)
       /\ \A j \in DOMAIN l : t[j + 1] = l[j]
       /\ \A j \in DOMAIN t : j = 1 \/ (j - 1 \in DOMAIN l /\ t[j] = l[j - 1])
  <2>1. l \in Seq(Regions) /\ r \in Regions /\ t = <<r>> \o l
    BY <1>1, <1>5
  <2> QED BY ONLY <2>1, PrependFacts
<1>12. /\ 1 \in DOMAIN t /\ \A j \in DOMAIN l : j + 1 \in DOMAIN t
  <2>1. Len(l) \in Nat /\ DOMAIN l = 1 .. Len(l) /\ DOMAIN t = 1 .. Len(l) + 1
    BY <1>5, <1>11
  <2> QED BY <2>1
<1>13. ASSUME HasStack(list) \/ r.type = "STACK" PROVE HasStack(t)
  <2>1. CASE r.type = "STACK"
    BY <1>11, <1>12, <2>1 DEF HasStack
  <2>2. CASE HasStack(list)
    <3>1. PICK j \in DOMAIN list : list[j].type = "STACK"
      BY <2>2 DEF HasStack
    <3>2. PICK i \in DOMAIN l : Piece(l[i], list[j], r.va, stop)
      BY <1>5
    <3>3. t[i + 1].type = "STACK"
      BY <1>11, <3>1, <3>2 DEF Piece
    <3> QED BY <1>12, <3>3 DEF HasStack
  <2> QED BY <1>13, <2>1, <2>2
<1>14. \A j \in DOMAIN t \ {1} : \E i \in DOMAIN list : Piece(t[j], list[i], r.va, stop)
  BY <1>5, <1>11
<1> QED BY <1>2, <1>10, <1>11, <1>12, <1>13, <1>14 DEF Made

\* create_region() with the address of r.
RoomIn(m, p, r) ==
  /\ m.stop = RUNNING /\ Tidy(m.spaces[p])
  /\ r \in Regions /\ r.len > 0 /\ InPlace(r)
  /\ r.type = "STACK" => ~HasStack(m.spaces[p])
  /\ \A i \in DOMAIN m.spaces[p] : Survives(m.spaces[p][i], r.va, r.va + r.len)

LEMMA CreateRegionAtMakes ==
  ASSUME NEW m, Formed(m), NEW p \in 1 .. MaxPid, NEW r, RoomIn(m, p, r),
         NEW n, n = CreateRegionAt(m, p, r.va, r.len, r.type, r.param)
  PROVE  Reworked(m, n, p) /\ n.stop = RUNNING /\ Made(m.spaces[p], n.spaces[p], r)
<1>1. /\ m.stop = RUNNING /\ Tidy(m.spaces[p]) /\ r \in Regions /\ r.len > 0 /\ InPlace(r)
      /\ r.type = "STACK" => ~HasStack(m.spaces[p])
      /\ \A i \in DOMAIN m.spaces[p] : Survives(m.spaces[p][i], r.va, r.va + r.len)
  BY DEF RoomIn
<1>2. PICK stop : stop = r.va + r.len
  OBVIOUS
<1>3. Carvable(m, 1 .. MaxPid, p, r.va, stop)
  <2>1. r.va \in Nat /\ stop \in Nat /\ r.va < stop
    BY <1>1, <1>2 DEF Regions
  <2>2. Apart(m.spaces[p])
    BY <1>1 DEF Tidy
  <2>3. Shape(m) /\ m.spaces \in [1 .. MaxPid -> Seq(Regions)]
    BY DEF Formed
  <2> QED BY <1>1, <1>2, <2>1, <2>2, <2>3 DEF Carvable
<1>4. PICK c : c = Carve(m, p, r.va, stop)
  OBVIOUS
<1>5. PICK l : \E d \in Nat : /\ Respaced(m, c, p, l)
                             /\ Carved(l, m.spaces[p], Len(m.spaces[p]), d, r.va, stop)
  BY <1>3, <1>4, CarveLeaves
<1>a. Respaced(m, c, p, l)
  BY <1>5
<1>b. PICK d \in Nat : Carved(l, m.spaces[p], Len(m.spaces[p]), d, r.va, stop)
  BY <1>5
<1>6. l \in Seq(Regions) /\ c.spaces[p] = l /\ c.stop = RUNNING
  BY <1>1, <1>a, <1>b DEF Carved, Respaced, Formed
<1>7. PICK t : t = <<r>> \o l
  OBVIOUS
<1>8. Made(m.spaces[p], t, r)
  BY <1>1, <1>2, <1>b, <1>7, FrontedMade DEF Fronted
<1>9. r = Region(r.va, r.len, r.type, r.param)
  BY <1>1 DEF Regions, Region
<1>10. n = WithSpace(c, p, t)
  <2>1. n = [c EXCEPT !.spaces[p] = <<Region(r.va, r.len, r.type, r.param)>> \o @]
    BY <1>2, <1>4 DEF CreateRegionAt
  <2> QED BY <1>6, <1>7, <1>9, <2>1 DEF WithSpace
<1>11. n = [c EXCEPT !.spaces[p] = t]
  BY <1>10 DEF WithSpace
<1>12. Respaced(c, n, p, t)
  <2>1. Shape(c)
    BY <1>a DEF Respaced
  <2> QED BY <1>11, <2>1, RespacedBy
<1>13. Respaced(m, n, p, t)
  BY <1>a, <1>12, RespacedTwice
<1>14. n.spaces[p] = t /\ n.stop = RUNNING /\ Reworked(m, n, p)
  <2>1. t \in Seq(Regions)
    BY <1>8 DEF Made, Tidy
  <2>2. n.spaces = [m.spaces EXCEPT ![p] = t] /\ m.spaces \in [1 .. MaxPid -> Seq(Regions)]
    BY <1>13 DEF Respaced, Formed
  <2>3. n.spaces[p] = t /\ n.spaces \in [1 .. MaxPid -> Seq(Regions)]
    BY <2>1, <2>2
  <2> QED BY <1>1, <1>13, <2>2, <2>3 DEF Respaced, Formed, Reworked
<1> QED BY <1>8, <1>14

-----------------------------------------------------------------------------
PagesUpTo(list, k) == UNION {Pages(list[j]) : j \in 1 .. k}

LengthStep(q, s, r) == s + r.len
LengthKept(q, k, s) ==
  IsFiniteSet(PagesUpTo(q, k)) /\ s = Cardinality(PagesUpTo(q, k))

Lengths == INSTANCE Recursion WITH Step <- LengthStep, Keeps <- LengthKept

\* The pages of one region more.
LEMMA OneRegionMore ==
  ASSUME NEW list, Tidy(list), NEW k \in DOMAIN list, NEW s, LengthKept(list, k - 1, s)
  PROVE  LengthKept(list, k, LengthStep(list, s, list[k]))
<1>1. /\ list \in Seq(Regions) /\ Len(list) \in Nat /\ DOMAIN list = 1 .. Len(list)
      /\ \A j \in DOMAIN list : list[j] \in Regions
  BY DEF Tidy
<1>2. PICK r : r = list[k]
  OBVIOUS
<1>3. r \in Regions /\ r.va \in Nat /\ r.len \in Nat
  BY <1>1, <1>2 DEF Regions
<1>4. PICK U : U = PagesUpTo(list, k - 1)
  OBVIOUS
<1>5. IsFiniteSet(U) /\ s = Cardinality(U) /\ s \in Nat
  BY <1>4, FS_CardinalityType DEF LengthKept
<1>6. IsFiniteSet(Pages(r)) /\ Cardinality(Pages(r)) = r.len
  <2>1. PICK b : b = r.va + r.len - 1
    OBVIOUS
  <2>2. b \in Int /\ Pages(r) = r.va .. b
    BY <1>3, <2>1 DEF Pages
  <2>3. (IF r.va > b THEN 0 ELSE b - r.va + 1) = r.len
    BY <1>3, <2>1
  <2>4. PICK a : a = r.va
    OBVIOUS
  <2>5. a \in Int /\ b \in Int
    BY <1>3, <2>2, <2>4
  <2>6. IsFiniteSet(a .. b) /\ Cardinality(a .. b) = IF a > b THEN 0 ELSE b - a + 1
    BY ONLY <2>5, FS_Interval
  <2> QED BY <2>2, <2>3, <2>4, <2>6
<1>7. PagesUpTo(list, k) = U \cup Pages(r)
  <2>1. k \in Int /\ 1 .. k = (1 .. k - 1) \cup {k}
    BY <1>1
  <2> QED BY <1>2, <1>4, <2>1 DEF PagesUpTo
<1>8. U \cap Pages(r) = {}
  <2> SUFFICES ASSUME NEW a \in U, a \in Pages(r) PROVE FALSE
    OBVIOUS
  <2>1. PICK j \in 1 .. k - 1 : a \in Pages(list[j])
    BY <1>4 DEF PagesUpTo
  <2>2. j \in DOMAIN list /\ j # k
    BY <1>1
  <2>3. OffEachOther(list[j], r) /\ list[j] \in Regions
    BY <1>1, <1>2, <2>2 DEF Tidy, Apart
  <2> QED BY <1>3, <2>1, <2>3 DEF OffEachOther, Pages, Regions
<1>9. IsFiniteSet(U \cup Pages(r)) /\ Cardinality(U \cup Pages(r)) = s + r.len
  <2>1. Cardinality(U \cap Pages(r)) = 0
    BY <1>8, FS_EmptySet
  <2>2. PICK t : t = Pages(r)
    OBVIOUS
  <2>3. IsFiniteSet(U \cup t) /\ Cardinality(U \cup t) = Cardinality(U) + Cardinality(t) - Cardinality(U \cap t)
    BY <1>5, <1>6, <2>2, FS_Union
  <2> QED BY <1>3, <1>5, <1>6, <2>1, <2>2, <2>3
<1> QED BY <1>2, <1>7, <1>9 DEF LengthKept, LengthStep

LEMMA LengthsFold ==
  ASSUME NEW list, Tidy(list)
  PROVE  LET n == FoldLeft(LAMBDA s, r : s + r.len, 0, list)
         IN  LengthKept(list, Len(list), n)
<1> DEFINE n == Len(list)
           F(f) == [ss \in SUBSET (1 .. n) |->
                      IF ss = {} THEN 0 ELSE f[ss \ {Max(ss)}] + list[Max(ss)].len]
           it == CHOOSE f : f = F(f)
           sum == FoldLeft(LAMBDA s, r : s + r.len, 0, list)
<1>0. list \in Seq(Regions) /\ n \in Nat /\ DOMAIN list = 1 .. n
  BY DEF Tidy
<1>1. sum = it[1 .. n]
  BY <1>0 DEF FoldLeft, MapThenFoldSet
<1>2. ASSUME NEW f PROVE Lengths!IsIter(f, list, 0, list, n) <=> f = F(f)
  BY DEF Lengths!IsIter, Lengths!Max, Max, LengthStep
<1>4. \E f : Lengths!IsIter(f, list, 0, list, n)
  BY <1>0, Lengths!IterExists
<1>5. it = F(it)
  <2> HIDE DEF F
  <2> QED BY <1>2, <1>4
<1> HIDE DEF F, it, sum
<1>6. Lengths!IsIter(it, list, 0, list, n)
  BY <1>2, <1>5
<1>7. \A i \in 1 .. n : \A s :
        LengthKept(list, i - 1, s) => LengthKept(list, i, LengthStep(list, s, list[i]))
  BY <1>0, OneRegionMore
<1>8. LengthKept(list, 0, 0)
  BY FS_EmptySet DEF LengthKept, PagesUpTo
<1>9. LengthKept(list, n, it[1 .. n])
  <2> HIDE DEF n
  <2> QED BY <1>0, <1>6, <1>7, <1>8, Lengths!IterKeeps
<1> QED BY <1>1, <1>9 DEF sum

\* What SpacePartitioned says of one address space.
Partitions(list) ==
  /\ UNION {Pages(r) : r \in ToSet(list)} = Low .. Top + StackPages - 1
  /\ FoldLeft(LAMBDA n, r : n + r.len, 0, list) = Top + StackPages - Low

LEMMA TidyPartitions ==
  ASSUME NEW list, Tidy(list), HasStack(list)
  PROVE  Partitions(list)
<1>1. /\ list \in Seq(Regions) /\ Len(list) \in Nat /\ DOMAIN list = 1 .. Len(list)
      /\ \A j \in DOMAIN list : list[j] \in Regions /\ InPlace(list[j])
      /\ \A a \in Low .. Top - 1 : \E i \in DOMAIN list : On(list[i], a)
  BY DEF Tidy
<1>2. Low \in Nat /\ Top \in Nat /\ StackPages \in Nat /\ Low < Top
  BY AddressSpacesAssumption
<1>3. PagesUpTo(list, Len(list)) = Low .. Top + StackPages - 1
  <2>1. ASSUME NEW j \in DOMAIN list PROVE Pages(list[j]) \subseteq Low .. Top + StackPages - 1
    <3>1. list[j].va \in Nat /\ list[j].len \in Nat /\ InPlace(list[j])
      BY <1>1 DEF Regions
    <3> QED BY <1>2, <3>1 DEF InPlace, Pages
  <2>2. ASSUME NEW a \in Low .. Top + StackPages - 1
        PROVE  \E j \in DOMAIN list : a \in Pages(list[j])
    <3>1. a \in Int
      BY <1>2
    <3>2. CASE a < Top
      <4>1. a \in Low .. Top - 1
        BY <1>2, <3>1, <3>2
      <4>2. PICK j \in DOMAIN list : On(list[j], a)
        BY <1>1, <4>1
      <4> QED BY <1>1, <3>1, <4>2, PageOn
    <3>3. CASE a >= Top
      <4>1. PICK j \in DOMAIN list : list[j].type = "STACK"
        BY DEF HasStack
      <4>2. list[j].va = Top /\ list[j].len = StackPages
        BY <1>1, <4>1 DEF InPlace
      <4>3. On(list[j], a)
        BY <1>2, <3>1, <3>3, <4>2 DEF On
      <4> QED BY <1>1, <3>1, <4>3, PageOn
    <3> QED BY <1>2, <3>1, <3>2, <3>3
  <2> QED BY <1>1, <2>1, <2>2 DEF PagesUpTo
<1>4. UNION {Pages(r) : r \in ToSet(list)} = PagesUpTo(list, Len(list))
  BY <1>1 DEF ToSet, PagesUpTo
<1>5. PICK n : n = FoldLeft(LAMBDA s, r : s + r.len, 0, list)
  OBVIOUS
<1>6. n = Cardinality(PagesUpTo(list, Len(list)))
  BY <1>5, LengthsFold DEF LengthKept
<1>7. Cardinality(Low .. Top + StackPages - 1) = Top + StackPages - Low
  <2>1. PICK b : b = Top + StackPages - 1
    OBVIOUS
  <2>2. b \in Int /\ ~(Low > b) /\ (b - Low) + 1 = Top + StackPages - Low
    BY <1>2, <2>1
  <2>3. IsFiniteSet(Low .. b) /\ Cardinality(Low .. b) = IF Low > b THEN 0 ELSE b - Low + 1
    BY ONLY <1>2, <2>2, FS_Interval
  <2> QED BY <2>1, <2>2, <2>3
<1>8. FoldLeft(LAMBDA s, r : s + r.len, 0, list) = Top + StackPages - Low
  BY <1>3, <1>5, <1>6, <1>7
<1> QED BY <1>3, <1>4, <1>8 DEF Partitions
=============================================================================
