------------------------------ MODULE ProofLemmas ------------------------------
(***************************************************************************)
(* Facts about natural numbers, sequences and sets that the proofs about   *)
(* several components need.  Induction is stated for sets of numbers: what  *)
(* it is to be used for is a set comprehension.                            *)
(***************************************************************************)
EXTENDS Integers, Sequences, FiniteSets, SequencesExt, FiniteSetTheorems, FunctionTheorems,
        WellFoundedInduction, TLAPS

\* A set of natural numbers has a least member.
LEMMA LeastMember ==
  ASSUME NEW T \in SUBSET Nat, T # {}
  PROVE  \E m \in T : \A n \in T : m <= n
  <1>1. IsWellFoundedOn(OpToRel(<, Nat), Nat)
        BY NatLessThanWellFounded
  <1>2. PICK m \in T : \A n \in T : ~(<<n, m>> \in OpToRel(<, Nat))
        BY <1>1, WFMin
  <1>3. ASSUME NEW n \in T PROVE m <= n
    <2>1. ~(n < m)
          BY <1>2 DEF OpToRel
    <2>2. QED
          BY <2>1
  <1>4. QED
        BY <1>3

\* A set with 0 that has n + 1 with every n has every natural number.
LEMMA Induction ==
  ASSUME NEW T \in SUBSET Nat, 0 \in T, \A n \in T : n + 1 \in T
  PROVE  T = Nat
  <1> SUFFICES ASSUME T # Nat PROVE FALSE
      OBVIOUS
  <1>1. PICK m \in Nat \ T : \A n \in Nat \ T : m <= n
        BY LeastMember
  <1>2. m - 1 \in T
        BY <1>1
  <1>3. QED
        BY <1>1, <1>2

\* The greatest member of a set that has a bound.
LEMMA GreatestMember ==
  ASSUME NEW T \in SUBSET Nat, T # {}, NEW bound \in Nat, \A n \in T : n <= bound
  PROVE  \E m \in T : \A n \in T : n <= m
  <1> DEFINE Below == {bound - n : n \in T}
  <1>1. Below \in SUBSET Nat /\ Below # {}
    <2>1. ASSUME NEW n \in T PROVE bound - n \in Nat
          OBVIOUS
    <2>2. PICK n \in T : TRUE
          OBVIOUS
    <2>3. bound - n \in Below
          BY <2>2
    <2>4. QED
          BY <2>1, <2>3
  <1>2. PICK k \in Below : \A j \in Below : k <= j
        BY <1>1, LeastMember
  <1>3. PICK m \in T : k = bound - m
        OBVIOUS
  <1>4. ASSUME NEW n \in T PROVE n <= m
    <2>1. bound - m <= bound - n
          BY <1>2, <1>3
    <2>2. QED
          BY <2>1
  <1>5. QED
        BY <1>4

--------------------------------------------------------------------------------

\* The steps of a recursion on 0..N, and the function it defines.
Steps(S, N) == [S \X (1..N) -> S]

Recursion(f, S, base, N, step) ==
  /\ f \in [0..N -> S]
  /\ f[0] = base
  /\ \A n \in 1..N : f[n] = step[<<f[n - 1], n>>]

\* A function can be defined by recursion on 0..N, whatever a step is.
LEMMA RecursionOnInterval ==
  ASSUME NEW S, NEW base \in S, NEW N \in Nat, NEW step \in Steps(S, N)
  PROVE  \E f : Recursion(f, S, base, N, step)
  <1> USE DEF Steps
  <1> DEFINE Defines(f, m) ==
               f[0] = base /\ \A n \in 1..m : f[n] = step[<<f[n - 1], n>>]
             T == {m \in Nat : m <= N => \E f \in [0..m -> S] : Defines(f, m)}
  <1>1. 0 \in T
    <2>1. [i \in 0..0 |-> base] \in [0..0 -> S] /\ Defines([i \in 0..0 |-> base], 0)
          OBVIOUS
    <2>2. QED
          BY <2>1
  <1>2. ASSUME NEW m \in T PROVE m + 1 \in T
    <2> SUFFICES ASSUME m + 1 <= N PROVE \E f \in [0..(m + 1) -> S] : Defines(f, m + 1)
        OBVIOUS
    <2>1. PICK f \in [0..m -> S] : Defines(f, m)
          OBVIOUS
    <2> DEFINE g == [i \in 0..(m + 1) |-> IF i = m + 1 THEN step[<<f[m], m + 1>>] ELSE f[i]]
    <2>2. step[<<f[m], m + 1>>] \in S
          BY <2>1
    <2>3. g \in [0..(m + 1) -> S]
          BY <2>1, <2>2
    <2>4. Defines(g, m + 1)
      <3>1. \A i \in 0..m : g[i] = f[i]
            OBVIOUS
      <3>2. g[m + 1] = step[<<g[m], m + 1>>]
        <4>1. g[m + 1] = step[<<f[m], m + 1>>]
              OBVIOUS
        <4>2. g[m] = f[m]
              OBVIOUS
        <4>3. QED
              BY <4>1, <4>2, Zenon
      <3>3. ASSUME NEW n \in 1..m PROVE g[n] = step[<<g[n - 1], n>>]
        <4>1. g[n] = f[n] /\ g[n - 1] = f[n - 1]
              BY <3>1
        <4>2. QED
              BY <2>1, <4>1
      <3>4. g[0] = base
            BY <2>1, <3>1
      <3> HIDE DEF g
      <3>5. ASSUME NEW n \in 1..(m + 1) PROVE g[n] = step[<<g[n - 1], n>>]
        <4>1. CASE n = m + 1
              BY <3>2, <4>1
        <4>2. CASE n # m + 1
              BY <3>3, <4>2
        <4>3. QED
              BY <4>1, <4>2
      <3>6. QED
            BY <3>4, <3>5
    <2>5. QED
          BY <2>3, <2>4
  <1>3. T = Nat
    <2> HIDE DEF T
    <2>1. T \in SUBSET Nat
          BY DEF T
    <2>2. QED
          BY <1>1, <1>2, <2>1, Induction
  <1>4. N \in T
        BY <1>3
  <1>5. QED
        BY <1>4 DEF Recursion

--------------------------------------------------------------------------------

\* The greatest member of a set of indices.
LEMMA MaxOfIndices ==
  ASSUME NEW N \in Nat, NEW s \in SUBSET (1..N), s # {}
  PROVE  Max(s) \in s /\ \A i \in s : i <= Max(s)
  <1>1. \E m \in s : \A i \in s : i <= m
    <2>1. s \in SUBSET Nat /\ \A i \in s : i <= N
          OBVIOUS
    <2>2. QED
          BY <2>1, GreatestMember
  <1>2. QED
        BY <1>1 DEF Max

\* What a fold computes from a set of indices, the greatest last.
IsFold(iter, S, base, N, step) ==
  /\ iter \in [SUBSET (1..N) -> S]
  /\ \A s \in SUBSET (1..N) :
       iter[s] = IF s = {} THEN base ELSE step[<<iter[s \ {Max(s)}], Max(s)>>]

\* There is such a function, so that MapThenFoldSet chooses one.
LEMMA FoldOnSubsets ==
  ASSUME NEW S, NEW base \in S, NEW N \in Nat, NEW step \in Steps(S, N)
  PROVE  \E iter : IsFold(iter, S, base, N, step)
  <1> USE DEF Steps
  <1> DEFINE T == {m \in Nat : m <= N => \E iter : IsFold(iter, S, base, m, step)}
  <1>1. 0 \in T
    <2>1. IsFold([s \in SUBSET (1..0) |-> base], S, base, 0, step)
      <3>1. 1..0 = {}
            OBVIOUS
      <3>2. QED
            BY <3>1 DEF IsFold
    <2>2. QED
          BY <2>1
  <1>2. ASSUME NEW m \in T PROVE m + 1 \in T
    <2> SUFFICES ASSUME m + 1 <= N PROVE \E iter : IsFold(iter, S, base, m + 1, step)
        OBVIOUS
    <2>0. m \in Nat
          OBVIOUS
    <2>1. PICK iter : IsFold(iter, S, base, m, step)
          OBVIOUS
    <2> DEFINE g == [s \in SUBSET (1..(m + 1)) |->
                       IF m + 1 \in s THEN step[<<iter[s \ {m + 1}], m + 1>>] ELSE iter[s]]
    <2>2. ASSUME NEW s \in SUBSET (1..(m + 1))
          PROVE  s \ {m + 1} \in SUBSET (1..m)
          BY <2>0
    <2>3. ASSUME NEW s \in SUBSET (1..(m + 1))
          PROVE  /\ g[s] \in S
                 /\ g[s] = IF m + 1 \in s THEN step[<<iter[s \ {m + 1}], m + 1>>] ELSE iter[s]
      <3>1. iter[s \ {m + 1}] \in S
            BY <2>1, <2>2 DEF IsFold
      <3>2. CASE m + 1 \in s
        <4>1. step[<<iter[s \ {m + 1}], m + 1>>] \in S
              BY <2>0, <3>1
        <4>2. g[s] = step[<<iter[s \ {m + 1}], m + 1>>]
              BY <3>2
        <4>3. QED
              BY <3>2, <4>1, <4>2
      <3>3. CASE m + 1 \notin s
        <4>1. s \ {m + 1} = s
              BY <3>3
        <4>2. QED
              BY <3>1, <3>3, <4>1
      <3>4. QED
            BY <3>2, <3>3
    <2>4. g \in [SUBSET (1..(m + 1)) -> S]
          BY <2>3
    <2> HIDE DEF g
    <2>5. ASSUME NEW s \in SUBSET (1..m)
          PROVE  s \in SUBSET (1..(m + 1)) /\ m + 1 \notin s /\ g[s] = iter[s]
      <3>1. s \in SUBSET (1..(m + 1)) /\ m + 1 \notin s
            BY <2>0
      <3>2. QED
            BY <2>3, <3>1
    <2>6. ASSUME NEW s \in SUBSET (1..(m + 1))
          PROVE  g[s] = IF s = {} THEN base ELSE step[<<g[s \ {Max(s)}], Max(s)>>]
      <3>1. CASE m + 1 \in s
        <4>1. Max(s) \in s /\ \A i \in s : i <= Max(s)
          <5>1. m + 1 \in Nat /\ s # {}
                BY <2>0, <3>1
          <5>2. QED
                BY <5>1, MaxOfIndices, Zenon
        <4>2. Max(s) = m + 1
          <5>1. Max(s) \in 1..(m + 1) /\ m + 1 <= Max(s)
                BY <3>1, <4>1
          <5>2. QED
                BY <2>0, <5>1
        <4>3. g[s \ {m + 1}] = iter[s \ {m + 1}]
              BY <2>2, <2>5
        <4>4. g[s] = step[<<iter[s \ {m + 1}], m + 1>>]
              BY <2>3, <3>1
        <4>5. QED
              BY <3>1, <4>2, <4>3, <4>4
      <3>2. CASE m + 1 \notin s
        <4>1. s \in SUBSET (1..m)
          <5>1. s \ {m + 1} = s
                BY <3>2
          <5>2. QED
                BY <2>2, <5>1
        <4>2. g[s] = iter[s] /\ g[s \ {Max(s)}] = iter[s \ {Max(s)}]
          <5>1. s \ {Max(s)} \in SUBSET (1..m)
                BY <4>1
          <5>2. QED
                BY <2>5, <4>1, <5>1
        <4>3. iter[s] = IF s = {} THEN base ELSE step[<<iter[s \ {Max(s)}], Max(s)>>]
              BY <2>1, <4>1 DEF IsFold
        <4>4. QED
              BY <4>2, <4>3, Zenon
      <3>3. QED
            BY <3>1, <3>2
    <2>7. QED
          BY <2>4, <2>6 DEF IsFold
  <1>3. T = Nat
    <2> HIDE DEF T
    <2>1. T \in SUBSET Nat
          BY DEF T
    <2>2. QED
          BY <1>1, <1>2, <2>1, Induction
  <1>4. N \in T
        BY <1>3
  <1>5. QED
        BY <1>4

\* Any function that computes the same, as long as what it computes from is in S.
LEMMA FoldIsTyped ==
  ASSUME NEW S, NEW base \in S, NEW N \in Nat, NEW step \in Steps(S, N), NEW g,
         DOMAIN g = SUBSET (1..N), g = [s \in SUBSET (1..N) |-> g[s]], g[{}] = base,
         \A s \in SUBSET (1..N) :
           s # {} /\ g[s \ {Max(s)}] \in S => g[s] = step[<<g[s \ {Max(s)}], Max(s)>>]
  PROVE  IsFold(g, S, base, N, step)
  <1> USE DEF Steps
  <1> DEFINE Typed(m) == m <= N => \A s \in SUBSET (1..m) : g[s] \in S
             T == {m \in Nat : Typed(m)}
  <1>1. Typed(0)
    <2>1. \A s \in SUBSET (1..0) : s = {}
          OBVIOUS
    <2>2. QED
          BY <2>1
  <1>2. ASSUME NEW m \in Nat, Typed(m) PROVE Typed(m + 1)
    <2> SUFFICES ASSUME m + 1 <= N, NEW s \in SUBSET (1..(m + 1)) PROVE g[s] \in S
        BY Zenon
    <2>0. s \in SUBSET (1..N)
          OBVIOUS
    <2>1. \A t \in SUBSET (1..m) : g[t] \in S
      <3>1. m <= N
            OBVIOUS
      <3>2. QED
            BY <1>2, <3>1, Zenon
    <2>2. CASE m + 1 \in s
      <3>1. m + 1 \in Nat /\ s # {}
            BY <2>0, <2>2
      <3>2. Max(s) \in s /\ \A i \in s : i <= Max(s)
            BY <3>1, MaxOfIndices, Zenon
      <3>3. Max(s) = m + 1
        <4>1. Max(s) \in 1..(m + 1) /\ m + 1 <= Max(s)
              BY <2>2, <3>2
        <4>2. QED
              BY <2>0, <4>1
      <3>4. s \ {Max(s)} \in SUBSET (1..m)
            BY <2>0, <3>3
      <3>5. g[s \ {Max(s)}] \in S /\ Max(s) \in 1..N
        <4>1. g[s \ {Max(s)}] \in S
              BY <2>1, <3>4, Zenon
        <4>2. QED
              BY <3>3, <4>1
      <3>6. g[s] = step[<<g[s \ {Max(s)}], Max(s)>>]
            BY <2>0, <3>1, <3>5, Zenon
      <3>7. QED
            BY <3>5, <3>6
    <2>3. CASE m + 1 \notin s
      <3>1. s \in SUBSET (1..m)
            BY <2>0, <2>3
      <3>2. QED
            BY <2>1, <3>1
    <2>4. QED
          BY <2>2, <2>3
  <1>3. Typed(N)
    <2> HIDE DEF Typed
    <2>1. 0 \in T /\ \A m \in T : m + 1 \in T
          BY <1>1, <1>2
    <2>2. T = Nat
      <3>1. T \in SUBSET Nat
            OBVIOUS
      <3> HIDE DEF T
      <3>2. QED
            BY <2>1, <3>1, Induction
    <2>3. QED
          BY <2>2
  <1>4. \A s \in SUBSET (1..N) : g[s] \in S
    <2>1. N <= N
          OBVIOUS
    <2>2. QED
          BY <1>3, <2>1, Zenon
  <1>5. ASSUME NEW s \in SUBSET (1..N)
        PROVE  g[s] = IF s = {} THEN base ELSE step[<<g[s \ {Max(s)}], Max(s)>>]
    <2>1. s \ {Max(s)} \in SUBSET (1..N)
          OBVIOUS
    <2>2. g[s \ {Max(s)}] \in S
          BY <1>4, <2>1
    <2>3. QED
          BY <2>2
  <1>6. QED
        BY <1>4, <1>5 DEF IsFold

\* Of a list, it computes one element after the other.
LEMMA FoldIsRecursion ==
  ASSUME NEW S, NEW base \in S, NEW N \in Nat, NEW step, NEW iter,
         IsFold(iter, S, base, N, step)
  PROVE  Recursion([n \in 0..N |-> iter[1..n]], S, base, N, step)
  <1> DEFINE f == [n \in 0..N |-> iter[1..n]]
  <1>1. \A n \in 0..N : 1..n \in SUBSET (1..N)
        OBVIOUS
  <1>2. f \in [0..N -> S]
        BY <1>1 DEF IsFold
  <1>3. f[0] = base
    <2>1. 1..0 = {}
          OBVIOUS
    <2>2. 1..0 \in SUBSET (1..N) /\ f[0] = iter[1..0]
          BY <1>1
    <2>3. QED
          BY <2>1, <2>2 DEF IsFold
  <1>4. ASSUME NEW n \in 1..N PROVE f[n] = step[<<f[n - 1], n>>]
    <2>1. 1..n \in SUBSET (1..N) /\ n \in 1..n
          BY <1>1
    <2>2. Max(1..n) = n
      <3>1. Max(1..n) \in 1..n /\ n <= Max(1..n)
            BY <2>1, MaxOfIndices
      <3>2. QED
            BY <3>1
    <2>3. (1..n) \ {n} = 1..(n - 1)
          OBVIOUS
    <2>4. f[n] = iter[1..n] /\ f[n - 1] = iter[1..(n - 1)]
          OBVIOUS
    <2>5. iter[1..n] = step[<<iter[(1..n) \ {Max(1..n)}], Max(1..n)>>]
          BY <2>1 DEF IsFold
    <2>6. QED
          BY <2>2, <2>3, <2>4, <2>5
  <1> HIDE DEF f
  <1>5. Recursion(f, S, base, N, step)
        BY <1>2, <1>3, <1>4 DEF Recursion
  <1>6. QED
        BY <1>5 DEF f

--------------------------------------------------------------------------------

\* The members of a sequence.
LEMMA SetOfEmpty == ToSet(<<>>) = {}
  BY DEF ToSet

\* The members of a sequence with one more element.
LEMMA SetOfAppend ==
  ASSUME NEW S, NEW s \in Seq(S), NEW e
  PROVE  ToSet(Append(s, e)) = ToSet(s) \cup {e}
  <1>1. Len(s) \in Nat /\ DOMAIN s = 1..Len(s)
        OBVIOUS
  <1>2. DOMAIN Append(s, e) = 1..(Len(s) + 1)
        OBVIOUS
  <1>3. \A i \in 1..Len(s) : Append(s, e)[i] = s[i]
        OBVIOUS
  <1>4. Append(s, e)[Len(s) + 1] = e
        OBVIOUS
  <1>5. PICK t : t = Append(s, e)
        OBVIOUS
  <1>6. ToSet(t) = ToSet(s) \cup {e}
        BY <1>1, <1>2, <1>3, <1>4, <1>5 DEF ToSet
  <1>7. QED
        BY <1>5, <1>6

\* The members of a concatenation.
LEMMA SetOfConcat ==
  ASSUME NEW S, NEW s \in Seq(S), NEW t \in Seq(S)
  PROVE  ToSet(s \o t) = ToSet(s) \cup ToSet(t)
  <1>1. Len(s) \in Nat /\ DOMAIN s = 1..Len(s) /\ Len(t) \in Nat /\ DOMAIN t = 1..Len(t)
        OBVIOUS
  <1>2. PICK u : u = s \o t
        OBVIOUS
  <1>3. DOMAIN u = 1..(Len(s) + Len(t))
        BY <1>2
  <1>4. \A i \in 1..Len(s) : u[i] = s[i]
        BY <1>2
  <1>5. \A i \in 1..Len(t) : u[Len(s) + i] = t[i]
        BY <1>2
  <1>6. \A i \in (Len(s) + 1)..(Len(s) + Len(t)) : i - Len(s) \in 1..Len(t) /\ u[i] = t[i - Len(s)]
        BY <1>1, <1>2
  <1>7. ToSet(u) = ToSet(s) \cup ToSet(t)
    <2>1. ASSUME NEW x \in ToSet(u) PROVE x \in ToSet(s) \cup ToSet(t)
      <3>1. PICK i \in 1..(Len(s) + Len(t)) : x = u[i]
            BY <1>3 DEF ToSet
      <3>2. CASE i \in 1..Len(s)
            BY <1>1, <1>4, <3>1, <3>2 DEF ToSet
      <3>3. CASE i \in (Len(s) + 1)..(Len(s) + Len(t))
        <4>1. i - Len(s) \in DOMAIN t /\ x = t[i - Len(s)]
              BY <1>1, <1>6, <3>1, <3>3
        <4>2. QED
              BY <4>1 DEF ToSet
      <3>4. QED
            BY <1>1, <3>1, <3>2, <3>3
    <2>2. ASSUME NEW x \in ToSet(s) PROVE x \in ToSet(u)
          BY <1>1, <1>3, <1>4 DEF ToSet
    <2>3. ASSUME NEW x \in ToSet(t) PROVE x \in ToSet(u)
      <3>1. PICK i \in 1..Len(t) : x = t[i]
            BY <1>1 DEF ToSet
      <3>2. Len(s) + i \in DOMAIN u /\ u[Len(s) + i] = x
            BY <1>1, <1>3, <1>5, <3>1
      <3>3. QED
            BY <3>2 DEF ToSet
    <2>4. QED
          BY <2>1, <2>2, <2>3
  <1>8. QED
        BY <1>2, <1>7

\* A sequence without its i-th member.
LEMMA RemoveAtFacts ==
  ASSUME NEW S, NEW s \in Seq(S), NEW i \in 1..Len(s)
  PROVE  /\ RemoveAt(s, i) \in Seq(S)
         /\ Len(RemoveAt(s, i)) = Len(s) - 1
         /\ \A j \in 1..(Len(s) - 1) : RemoveAt(s, i)[j] = IF j < i THEN s[j] ELSE s[j + 1]
  <1>0. Len(s) \in Nat
        OBVIOUS
  <1>1. PICK a, b : a = SubSeq(s, 1, i - 1) /\ b = SubSeq(s, i + 1, Len(s))
        OBVIOUS
  <1>2. RemoveAt(s, i) = a \o b
        BY <1>1, Zenon DEF RemoveAt
  <1>3. a \in Seq(S) /\ Len(a) = i - 1 /\ \A j \in 1..(i - 1) : a[j] = s[j]
        BY <1>0, <1>1
  <1>4. b \in Seq(S) /\ Len(b) = Len(s) - i /\ \A j \in 1..(Len(s) - i) : b[j] = s[j + i]
        BY <1>0, <1>1
  <1>5. PICK u : u = a \o b
        OBVIOUS
  <1>6. u \in Seq(S) /\ Len(u) = Len(s) - 1
        BY <1>0, <1>3, <1>4, <1>5
  <1>7. ASSUME NEW j \in 1..(Len(s) - 1) PROVE u[j] = IF j < i THEN s[j] ELSE s[j + 1]
    <2>1. CASE j < i
          BY <1>0, <1>3, <1>4, <1>5, <2>1
    <2>2. CASE i <= j
      <3>1. u[j] = b[j - (i - 1)]
            BY <1>0, <1>3, <1>4, <1>5, <2>2
      <3>2. j - (i - 1) \in 1..(Len(s) - i) /\ (j - (i - 1)) + i = j + 1
            BY <1>0, <2>2
      <3>3. b[j - (i - 1)] = s[j + 1]
            BY <1>4, <3>2
      <3>4. QED
            BY <1>0, <2>2, <3>1, <3>3
    <2>3. QED
          BY <1>0, <2>1, <2>2
  <1>8. QED
        BY <1>2, <1>5, <1>6, <1>7

--------------------------------------------------------------------------------

\* SetToSeq lists the members of a finite set, once each.
LEMMA SetToSeqIsOnto ==
  ASSUME NEW S, IsFiniteSet(S)
  PROVE  /\ SetToSeq(S) \in Seq(S)
         /\ ToSet(SetToSeq(S)) = S
         /\ IsInjective(SetToSeq(S))
         /\ S # {} => SetToSeq(S) # <<>>
  <1>1. Cardinality(S) \in Nat /\ (S # {} => Cardinality(S) # 0)
        BY FS_CardinalityType, FS_EmptySet
  <1>2. ExistsBijection(1..Cardinality(S), S)
        BY FS_CardinalityType
  <1>3. PICK f : f \in Bijection(1..Cardinality(S), S)
        BY <1>2 DEF ExistsBijection
  <1>4. f \in [1..Cardinality(S) -> S] /\ IsInjective(f)
        BY <1>3 DEF Bijection, Injection, IsInjective
  <1>5. SetToSeq(S) \in [1..Cardinality(S) -> S] /\ IsInjective(SetToSeq(S))
        BY <1>4 DEF SetToSeq
  <1>6. ToSet(SetToSeq(S)) = S
    <2>1. PICK s \in [1..Cardinality(S) -> S] : s = SetToSeq(S) /\ IsInjective(s)
          BY <1>5
    <2>2. s \in Injection(1..Cardinality(S), S)
          BY <2>1 DEF Injection, IsInjective
    <2>3. Cardinality(1..Cardinality(S)) = Cardinality(S)
          BY <1>1, FS_Interval
    <2>4. s \in Surjection(1..Cardinality(S), S)
          BY <2>2, <2>3, FS_Injection
    <2>5. QED
          BY <2>1, <2>4 DEF Surjection, ToSet
  <1>7. QED
        BY <1>1, <1>5, <1>6

\* Sequences of one kind of element.
LEMMA SeqFacts ==
  ASSUME NEW S
  PROVE  /\ <<>> \in Seq(S)
         /\ \A e \in S : <<e>> \in Seq(S)
         /\ \A s \in Seq(S) : s # <<>> => Head(s) \in S /\ Tail(s) \in Seq(S)
         /\ \A s, t \in Seq(S) : s \o t \in Seq(S)
  OBVIOUS

\* The two parts of a concatenation.
LEMMA ConcatParts ==
  ASSUME NEW S, NEW s \in Seq(S), NEW t \in Seq(S)
  PROVE  /\ s \o t \in Seq(S) /\ Len(s \o t) = Len(s) + Len(t)
         /\ \A i \in 1..Len(s) : (s \o t)[i] = s[i]
         /\ \A i \in 1..Len(t) : (s \o t)[Len(s) + i] = t[i]
  OBVIOUS

\* The rest of a list without repetitions.
LEMMA TailOfInjective ==
  ASSUME NEW S, NEW s \in Seq(S), s # <<>>, IsInjective(s)
  PROVE  /\ Head(s) \in ToSet(s)
         /\ ToSet(Tail(s)) = ToSet(s) \ {Head(s)}
         /\ IsInjective(Tail(s))
  <1>1. PICK t \in Seq(S) : t = Tail(s)
        BY SeqFacts
  <1>2. /\ Len(s) \in Nat \ {0} /\ Head(s) = s[1] /\ Len(t) = Len(s) - 1
        /\ \A i \in 1..Len(t) : i + 1 \in 1..Len(s) /\ t[i] = s[i + 1]
        /\ \A i \in 2..Len(s) : i - 1 \in 1..Len(t) /\ t[i - 1] = s[i]
        /\ DOMAIN s = 1..Len(s) /\ DOMAIN t = 1..Len(t)
        BY <1>1
  <1>3. Head(s) \in ToSet(s)
        BY <1>2 DEF ToSet
  <1>4. IsInjective(t)
    <2>1. ASSUME NEW i \in 1..Len(t), NEW j \in 1..Len(t), t[i] = t[j] PROVE i = j
      <3>1. i + 1 \in 1..Len(s) /\ j + 1 \in 1..Len(s) /\ s[i + 1] = s[j + 1]
            BY <1>2, <2>1
      <3>2. i + 1 = j + 1
            BY <1>2, <3>1 DEF IsInjective
      <3>3. QED
            BY <1>2, <3>2
    <2>2. QED
          BY <1>2, <2>1 DEF IsInjective
  <1>5. ToSet(t) = ToSet(s) \ {Head(s)}
    <2>1. ASSUME NEW x \in ToSet(t) PROVE x \in ToSet(s) /\ x # Head(s)
      <3>1. PICK i \in 1..Len(t) : x = t[i]
            BY <1>2 DEF ToSet
      <3>2. i + 1 \in 1..Len(s) /\ x = s[i + 1] /\ 1 \in 1..Len(s) /\ i + 1 # 1
            BY <1>2, <3>1
      <3>3. QED
            BY <1>2, <3>2 DEF ToSet, IsInjective
    <2>2. ASSUME NEW x \in ToSet(s), x # Head(s) PROVE x \in ToSet(t)
      <3>1. PICK i \in 1..Len(s) : x = s[i]
            BY <1>2 DEF ToSet
      <3>2. i \in 2..Len(s)
            BY <1>2, <2>2, <3>1
      <3>3. QED
            BY <1>2, <3>1, <3>2 DEF ToSet
    <2>3. QED
          BY <2>1, <2>2
  <1>6. QED
        BY <1>1, <1>3, <1>4, <1>5

\* An empty list repeats nothing.
LEMMA EmptyIsInjective == IsInjective(<<>>)
  BY DEF IsInjective

================================================================================
