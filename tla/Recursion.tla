----------------------------- MODULE Recursion -----------------------------
(***************************************************************************)
(* Induction and recursion in the form in which the proofs use them: over  *)
(* a set of numbers in place of a predicate, and over the results of a     *)
(* step that is repeated, whether a recursive function or FoldLeft()       *)
(* repeats it.  A proof about a fold takes this module with its step.      *)
(***************************************************************************)
EXTENDS Integers, SequencesExt, WellFoundedInduction, TLAPS

CONSTANTS
  Step(_, _, _), \* parameters, what there is so far, the next element
  Keeps(_, _, _) \* what is so of the parameters, how often, and what there is so far

\* A nonempty set of natural numbers has a least one.
LEMMA LeastNumber ==
  ASSUME NEW S \in SUBSET Nat, S # {}
  PROVE  \E x \in S : \A y \in S : x <= y
<1> DEFINE R == {ss \in Nat \X Nat : ss[1] < ss[2]}
<1>1. IsWellFoundedOn(R, Nat)
  BY NatLessThanWellFounded DEF OpToRel
<1>2. \A x, y \in Nat : y < x => <<y, x>> \in R
  OBVIOUS
<1> HIDE DEF R
<1>3. PICK x \in S : \A y \in S : ~(<<y, x>> \in R)
  BY <1>1, WFMin
<1>4. ASSUME NEW y \in S PROVE x <= y
  <2>1. x \in Nat /\ y \in Nat
    OBVIOUS
  <2>2. ~(y < x)
    BY <1>2, <1>3, <2>1
  <2> QED BY <2>1, <2>2
<1> QED BY <1>4

\* A set that holds 0, and each number after one it holds, holds them all.
LEMMA UpTo ==
  ASSUME NEW N \in Nat, NEW S, 0 \in S, \A k \in 1 .. N : k - 1 \in S => k \in S
  PROVE  0 .. N \subseteq S
<1> SUFFICES ASSUME (0 .. N) \ S # {} PROVE FALSE
  OBVIOUS
<1>1. (0 .. N) \ S \in SUBSET Nat
  OBVIOUS
<1>2. PICK n \in (0 .. N) \ S : \A m \in (0 .. N) \ S : n <= m
  <2> DEFINE Rest == (0 .. N) \ S
  <2>1. Rest \in SUBSET Nat /\ Rest # {}
    BY <1>1
  <2> HIDE DEF Rest
  <2>2. \E x \in Rest : \A y \in Rest : x <= y
    BY <2>1, LeastNumber
  <2> QED BY <2>2 DEF Rest
<1>3. n \in 1 .. N /\ n - 1 \in 0 .. N
  OBVIOUS
<1>4. n - 1 \in S
  BY <1>2, <1>3
<1> QED BY <1>3, <1>4

Folded(q, base, seq) == FoldLeft(LAMBDA s, c : Step(q, s, c), base, seq)

LEMMA MaxIsIn ==
  ASSUME NEW n \in Nat, NEW S \in SUBSET (1 .. n), S # {}
  PROVE  Max(S) \in S /\ \A x \in S : x <= Max(S)
<1> DEFINE T == {n - x : x \in S}
<1>1. T \in SUBSET Nat /\ T # {}
  <2>1. \A x \in S : n - x \in Nat
    OBVIOUS
  <2> QED BY <2>1
<1> HIDE DEF T
<1>2. PICK t \in T : \A u \in T : t <= u
  BY <1>1, LeastNumber
<1>3. PICK x \in S : t = n - x
  BY <1>2 DEF T
<1>4. ASSUME NEW y \in S PROVE x >= y
  <2>1. n - y \in T
    BY DEF T
  <2>2. t <= n - y
    BY <1>2, <2>1
  <2>3. x \in 1 .. n /\ y \in 1 .. n
    OBVIOUS
  <2> QED BY <1>3, <2>2, <2>3
<1>5. \E z \in S : \A y \in S : z >= y
  BY <1>4
<1>6. Max(S) \in S /\ \A y \in S : Max(S) >= y
  BY <1>5 DEF Max
<1> QED BY <1>6

\* The function that FoldLeft() is defined by, on the sets of positions.
IsIter(f, q, base, seq, n) ==
  f = [s \in SUBSET (1 .. n) |-> IF s = {} THEN base
                                 ELSE Step(q, f[s \ {Max(s)}], seq[Max(s)])]

LEMMA IterExists ==
  ASSUME NEW q, NEW base, NEW seq, NEW n \in Nat
  PROVE  \E f : IsIter(f, q, base, seq, n)
<1> DEFINE Have == {k \in 0 .. n : \E f : IsIter(f, q, base, seq, k)}
<1>1. 0 \in Have
  <2> DEFINE f == [s \in SUBSET (1 .. 0) |-> base]
  <2>1. \A s \in SUBSET (1 .. 0) : s = {}
    OBVIOUS
  <2>2. f = [s \in SUBSET (1 .. 0) |-> IF s = {} THEN base
                                 ELSE Step(q, f[s \ {Max(s)}], seq[Max(s)])]
    BY <2>1
  <2>3. IsIter(f, q, base, seq, 0)
    BY <2>2 DEF IsIter
  <2> HIDE DEF f
  <2> QED BY <2>3
<1>2. ASSUME NEW k \in 1 .. n, k - 1 \in Have PROVE k \in Have
  <2>1. PICK g : IsIter(g, q, base, seq, k - 1)
    BY <1>2
  <2> DEFINE f == [s \in SUBSET (1 .. k) |-> IF k \in s THEN Step(q, g[s \ {k}], seq[k]) ELSE g[s]]
  <2>2. ASSUME NEW s \in SUBSET (1 .. k)
        PROVE  f[s] = IF s = {} THEN base ELSE Step(q, f[s \ {Max(s)}], seq[Max(s)])
    <3>1. CASE k \in s
      <4>1. Max(s) = k
        <5>1. Max(s) \in s /\ k <= Max(s) /\ Max(s) \in 1 .. k
          <6>1. k \in Nat /\ s # {}
            BY <3>1
          <6> QED BY <3>1, <6>1, MaxIsIn
        <5> QED BY <5>1
      <4>2. s \ {k} \in SUBSET (1 .. k) /\ k \notin s \ {k}
        OBVIOUS
      <4>3. f[s \ {k}] = g[s \ {k}]
        BY <4>2
      <4>4. f[s] = Step(q, g[s \ {k}], seq[k])
        BY <3>1
      <4> HIDE DEF f
      <4> QED BY <3>1, <4>1, <4>3, <4>4
    <3>2. CASE k \notin s
      <4>1. s \in SUBSET (1 .. k - 1)
        BY <3>2
      <4>2. g[s] = IF s = {} THEN base ELSE Step(q, g[s \ {Max(s)}], seq[Max(s)])
        BY <2>1, <4>1 DEF IsIter
      <4>3. s \ {Max(s)} \in SUBSET (1 .. k) /\ k \notin s \ {Max(s)}
        BY <3>2
      <4>4. f[s] = g[s] /\ f[s \ {Max(s)}] = g[s \ {Max(s)}]
        BY <3>2, <4>3
      <4> HIDE DEF f
      <4> QED BY <4>2, <4>4
    <3> QED BY <3>1, <3>2
  <2>3. DOMAIN f = SUBSET (1 .. k) /\ f = [s \in SUBSET (1 .. k) |-> f[s]]
    OBVIOUS
  <2> HIDE DEF f
  <2>4. IsIter(f, q, base, seq, k)
    BY <2>2, <2>3 DEF IsIter
  <2> QED BY <2>4
<1>3. n \in Have
  <2> HIDE DEF Have
  <2>1. 0 .. n \subseteq Have
    BY <1>1, <1>2, UpTo
  <2> QED BY <2>1
<1> QED BY <1>3

\* h lists the results of the fold, from none to all n elements.
IsFold(h, q, base, seq, n) ==
  /\ h = [i \in 0 .. n |-> h[i]]
  /\ h[0] = base
  /\ \A i \in 1 .. n : h[i] = Step(q, h[i - 1], seq[i])

\* The results of a repetition, in order.
LEMMA IterSteps ==
  ASSUME NEW q, NEW base, NEW seq, NEW n \in Nat, NEW f, IsIter(f, q, base, seq, n)
  PROVE  IsFold([i \in 0 .. n |-> f[1 .. i]], q, base, seq, n)
<1> DEFINE h == [i \in 0 .. n |-> f[1 .. i]]
<1>1. h[0] = base
  <2>1. 1 .. 0 = {} /\ 1 .. 0 \in SUBSET (1 .. n)
    OBVIOUS
  <2>2. f[1 .. 0] = base
    BY <2>1 DEF IsIter
  <2> QED BY <2>2
<1>2. ASSUME NEW i \in 1 .. n PROVE h[i] = Step(q, h[i - 1], seq[i])
  <2>1. 1 .. i \in SUBSET (1 .. n) /\ 1 .. i # {} /\ (1 .. i) \ {i} = 1 .. i - 1
    <3>1. i \in 1 .. i
      OBVIOUS
    <3>2. ASSUME NEW x PROVE x \in (1 .. i) \ {i} <=> x \in 1 .. i - 1
      OBVIOUS
    <3>3. (1 .. i) \ {i} = 1 .. i - 1
      BY <3>2
    <3> QED BY <3>1, <3>3
  <2>2. Max(1 .. i) = i
    <3>1. i \in 1 .. i /\ i \in Nat
      OBVIOUS
    <3>2. Max(1 .. i) \in 1 .. i /\ i <= Max(1 .. i)
      BY <2>1, <3>1, MaxIsIn
    <3> QED BY <3>2
  <2>3. f[1 .. i] = Step(q, f[(1 .. i) \ {Max(1 .. i)}], seq[Max(1 .. i)])
    BY <2>1 DEF IsIter
  <2>4. i - 1 \in 0 .. n /\ i \in 0 .. n
    OBVIOUS
  <2>5. h[i] = f[1 .. i] /\ h[i - 1] = f[1 .. i - 1]
    BY <2>4
  <2> HIDE DEF h
  <2> QED BY <2>1, <2>2, <2>3, <2>5
<1>3. h = [i \in 0 .. n |-> h[i]]
  OBVIOUS
<1> HIDE DEF h
<1>4. IsFold(h, q, base, seq, n)
  BY <1>1, <1>2, <1>3 DEF IsFold
<1> QED BY <1>4 DEF h

\* A fold is the last of its results.
LEMMA FoldSteps ==
  ASSUME NEW q, NEW base, NEW seq, NEW n \in Nat, DOMAIN seq = 1 .. n
  PROVE  \E h : IsFold(h, q, base, seq, n) /\ Folded(q, base, seq) = h[n]
<1> DEFINE iter == CHOOSE f : IsIter(f, q, base, seq, n)
           h == [i \in 0 .. n |-> iter[1 .. i]]
<1>1. IsIter(iter, q, base, seq, n)
  BY IterExists
<1>2. Folded(q, base, seq) = iter[1 .. n]
  BY DEF Folded, FoldLeft, MapThenFoldSet, IsIter
<1> HIDE DEF iter
<1>3. IsFold(h, q, base, seq, n)
  BY <1>1, IterSteps
<1>4. h[n] = iter[1 .. n]
  OBVIOUS
<1> QED BY <1>2, <1>3, <1>4

\* What holds before the first step and is kept by each holds of the result.
LEMMA IterKeeps ==
  ASSUME NEW q, NEW base, NEW seq, NEW n \in Nat, NEW f, IsIter(f, q, base, seq, n),
         Keeps(q, 0, base),
         \A i \in 1 .. n : \A s : Keeps(q, i - 1, s) => Keeps(q, i, Step(q, s, seq[i]))
  PROVE  Keeps(q, n, f[1 .. n])
<1> DEFINE h == [i \in 0 .. n |-> f[1 .. i]]
           Have == {i \in 0 .. n : Keeps(q, i, h[i])}
<1>1. IsFold(h, q, base, seq, n)
  BY IterSteps
<1>2. h[n] = f[1 .. n]
  OBVIOUS
<1> HIDE DEF h
<1>3. 0 \in Have
  BY <1>1 DEF IsFold
<1>4. ASSUME NEW i \in 1 .. n, i - 1 \in Have PROVE i \in Have
  <2>1. Keeps(q, i - 1, h[i - 1])
    BY <1>4
  <2>2. Keeps(q, i, Step(q, h[i - 1], seq[i]))
    BY <2>1
  <2>3. h[i] = Step(q, h[i - 1], seq[i])
    BY <1>1 DEF IsFold
  <2> QED BY <2>2, <2>3
<1> HIDE DEF Have
<1>5. 0 .. n \subseteq Have
  BY <1>3, <1>4, UpTo
<1>6. n \in Have
  BY <1>5
<1> QED BY <1>2, <1>6 DEF Have

LEMMA FoldEmpty ==
  ASSUME NEW q, NEW base, NEW seq, DOMAIN seq = 1 .. 0
  PROVE  Folded(q, base, seq) = base
BY FoldSteps DEF IsFold

\* The last element is folded in last.
LEMMA FoldLast ==
  ASSUME NEW q, NEW base, NEW n \in Nat \ {0}, NEW seq, DOMAIN seq = 1 .. n,
         NEW t, DOMAIN t = 1 .. n - 1, \A i \in 1 .. n - 1 : t[i] = seq[i]
  PROVE  Folded(q, base, seq) = Step(q, Folded(q, base, t), seq[n])
<1>1. PICK h : IsFold(h, q, base, seq, n) /\ Folded(q, base, seq) = h[n]
  BY FoldSteps
<1>2. n - 1 \in Nat
  OBVIOUS
<1>3. PICK g : IsFold(g, q, base, t, n - 1) /\ Folded(q, base, t) = g[n - 1]
  BY <1>2, FoldSteps
<1> DEFINE Have == {i \in 0 .. n - 1 : h[i] = g[i]}
<1>4. 0 \in Have
  BY <1>1, <1>3 DEF IsFold
<1>5. ASSUME NEW i \in 1 .. n - 1, i - 1 \in Have PROVE i \in Have
  <2>1. h[i - 1] = g[i - 1] /\ i \in 1 .. n
    BY <1>5
  <2>2. h[i] = Step(q, h[i - 1], seq[i]) /\ g[i] = Step(q, g[i - 1], t[i])
    BY <1>1, <1>3, <2>1 DEF IsFold
  <2> QED BY <2>1, <2>2
<1> HIDE DEF Have
<1>6. 0 .. n - 1 \subseteq Have
  BY <1>2, <1>4, <1>5, UpTo
<1>7. h[n - 1] = g[n - 1]
  BY <1>2, <1>6 DEF Have
<1>8. h[n] = Step(q, h[n - 1], seq[n])
  BY <1>1 DEF IsFold
<1> QED BY <1>1, <1>3, <1>7, <1>8
=============================================================================
