----------------------------- MODULE FoldProofs -----------------------------
(***************************************************************************)
(* What the folds of the model compute, for data of any size: the sum of   *)
(* the durations in job_metrics, and the two loops over a list of rules.   *)
(*                                                                         *)
(* The folds of the community modules are recursive functions over the     *)
(* subsets of a finite set.  Induction is by the least counterexample.     *)
(***************************************************************************)
EXTENDS PageScore, FiniteSetTheorems, TLAPS

-----------------------------------------------------------------------------
(* The least counterexample *)

LessThan == {ss \in Nat \X Nat : ss[1] < ss[2]}

LEMMA LeastOfNat ==
    ASSUME NEW A, A \subseteq Nat, A # {}
    PROVE  \E n \in A : \A m \in A : n <= m
<1>1. LessThan = OpToRel(<, Nat)
    BY DEF LessThan, OpToRel
<1>2. IsWellFoundedOn(LessThan, Nat)
    BY <1>1, NatLessThanWellFounded
<1>3. PICK n \in A : \A m \in A : ~(<<m, n>> \in LessThan)
    BY <1>2, WFMin
<1>4. ASSUME NEW m \in Nat, NEW k \in Nat, m < k
      PROVE  <<m, k>> \in LessThan
    <2> DEFINE ss == <<m, k>>
    <2>1. ss \in Nat \X Nat /\ ss[1] = m /\ ss[2] = k
        OBVIOUS
    <2> HIDE DEF ss
    <2>2. ss \in LessThan
        BY <1>4, <2>1 DEF LessThan
    <2>3. QED
        BY <2>2 DEF ss
<1>5. ASSUME NEW m \in A PROVE n <= m
    <2>1. m \in Nat /\ n \in Nat /\ ~(<<m, n>> \in LessThan)
        BY <1>3
    <2>2. ~(m < n)
        BY <1>4, <2>1
    <2>3. QED
        BY <2>1, <2>2
<1>6. QED
    BY <1>5

LEMMA NatSetInduction ==
    ASSUME NEW A, 0 \in A, \A n \in Nat : n \in A => n + 1 \in A
    PROVE  \A n \in Nat : n \in A
<1> SUFFICES ASSUME Nat \ A # {} PROVE FALSE
    OBVIOUS
<1>1. PICK n \in Nat \ A : \A m \in Nat \ A : n <= m
    BY LeastOfNat
<1>2. n # 0 /\ n - 1 \in Nat
    BY <1>1
<1>3. n - 1 \in A
    BY <1>1, <1>2
<1>4. QED
    BY <1>1, <1>2, <1>3

\* A property of some subset of a finite set has a smallest such subset.
LEMMA SmallestSubset ==
    ASSUME NEW S, IsFiniteSet(S), NEW T, T \subseteq SUBSET S, T # {}
    PROVE  \E s \in T : \A t \in SUBSET s : t # s => t \notin T
<1> DEFINE sizes == {Cardinality(s) : s \in T}
<1>1. \A s \in SUBSET S : IsFiniteSet(s) /\ Cardinality(s) \in Nat
    BY FS_Subset, FS_CardinalityType
<1>2. sizes \subseteq Nat /\ sizes # {}
    BY <1>1
<1>3. PICK n \in sizes : \A m \in sizes : n <= m
    BY <1>2, LeastOfNat
<1>4. PICK s \in T : Cardinality(s) = n
    OBVIOUS
<1>5. ASSUME NEW t \in SUBSET s, t # s, t \in T
      PROVE  FALSE
    <2>1. IsFiniteSet(s) /\ Cardinality(s) \in Nat /\ Cardinality(t) \in Nat
        BY <1>1, <1>5
    <2>2. Cardinality(t) <= Cardinality(s) /\ (Cardinality(t) = Cardinality(s) => t = s)
        BY <2>1, FS_Subset
    <2>3. Cardinality(s) <= Cardinality(t)
        BY <1>3, <1>4, <1>5
    <2>4. QED
        BY <1>5, <2>1, <2>2, <2>3
<1>6. QED
    BY <1>5

-----------------------------------------------------------------------------
(* Recursion over the subsets of a finite set *)

\* One value of the recursion: of s, whose element pick[s] comes last.
Turn(g, s, base, pick, H) ==
    IF s = {} THEN base ELSE H[pick[s]][g[s \ {pick[s]}]]

Picks(pick, S) == \A s \in SUBSET S : s # {} => pick[s] \in s

Solves(g, S, base, pick, H) ==
    \A s \in SUBSET S : g[s] = Turn(g, s, base, pick, H)

LEMMA RecursionExists ==
    ASSUME NEW S, IsFiniteSet(S), NEW V, NEW base \in V,
           NEW pick, Picks(pick, S),
           NEW H \in [S -> [V -> V]]
    PROVE  \E g \in [SUBSET S -> V] : Solves(g, S, base, pick, H)
<1> DEFINE UpTo(n) == {g \in [SUBSET S -> V] :
                          \A s \in SUBSET S : Cardinality(s) <= n
                                              => g[s] = Turn(g, s, base, pick, H)}
           A == {n \in Nat : UpTo(n) # {}}
<1>0. \A s \in SUBSET S : IsFiniteSet(s) /\ Cardinality(s) \in Nat
    BY FS_Subset, FS_CardinalityType
<1>1. 0 \in A
    <2> DEFINE g == [s \in SUBSET S |-> base]
    <2>1. ASSUME NEW s \in SUBSET S, Cardinality(s) <= 0
          PROVE  g[s] = Turn(g, s, base, pick, H)
        <3>1. Cardinality(s) = 0
            BY <1>0, <2>1
        <3>2. s = {}
            BY <1>0, <3>1, FS_EmptySet
        <3>3. QED
            BY <3>2 DEF Turn
    <2>2. g \in UpTo(0)
        BY <2>1
    <2>3. QED
        BY <2>2
<1>2. ASSUME NEW n \in Nat, n \in A
      PROVE  n + 1 \in A
    <2>1. PICK g \in [SUBSET S -> V] :
              \A s \in SUBSET S : Cardinality(s) <= n => g[s] = Turn(g, s, base, pick, H)
        BY <1>2
    <2> DEFINE f == [s \in SUBSET S |-> Turn(g, s, base, pick, H)]
    <2>2. ASSUME NEW s \in SUBSET S, s # {}
          PROVE  /\ pick[s] \in s
                 /\ s \ {pick[s]} \in SUBSET S
                 /\ Cardinality(s \ {pick[s]}) = Cardinality(s) - 1
                 /\ g[s \ {pick[s]}] \in V
        BY <1>0, <2>2, FS_RemoveElement DEF Picks
    <2>3. f \in [SUBSET S -> V]
        <3> SUFFICES ASSUME NEW s \in SUBSET S
                     PROVE  Turn(g, s, base, pick, H) \in V
            OBVIOUS
        <3>1. CASE s = {}
            BY <3>1 DEF Turn
        <3>2. CASE s # {}
            <4>1. pick[s] \in S /\ g[s \ {pick[s]}] \in V
                BY <2>2, <3>2
            <4>2. H[pick[s]] \in [V -> V]
                BY <4>1
            <4>3. H[pick[s]][g[s \ {pick[s]}]] \in V
                BY <4>1, <4>2
            <4>4. QED
                BY <3>2, <4>3 DEF Turn
        <3>3. QED
            BY <3>1, <3>2
    <2>4. ASSUME NEW s \in SUBSET S, Cardinality(s) <= n + 1
          PROVE  f[s] = Turn(f, s, base, pick, H)
        <3>1. CASE s = {}
            BY <3>1 DEF Turn
        <3>2. CASE s # {}
            <4> DEFINE t == s \ {pick[s]}
            <4>1. t \in SUBSET S /\ Cardinality(t) <= n
                <5>1. Cardinality(s) \in Nat
                    BY <1>0
                <5>2. QED
                    BY <2>2, <2>4, <3>2, <5>1
            <4>2. g[t] = Turn(g, t, base, pick, H)
                BY <2>1, <4>1
            <4>3. f[t] = g[t]
                BY <4>1, <4>2
            <4>4. QED
                BY <3>2, <4>3 DEF Turn
        <3>3. QED
            BY <3>1, <3>2
    <2>5. f \in UpTo(n + 1)
        BY <2>3, <2>4
    <2> HIDE DEF UpTo
    <2>6. QED
        BY <2>5
<1>3. Cardinality(S) \in A
    <2>1. Cardinality(S) \in Nat
        BY <1>0
    <2> HIDE DEF A
    <2>2. \A n \in Nat : n \in A
        BY <1>1, <1>2, NatSetInduction
    <2>3. QED
        BY <2>1, <2>2
<1>4. PICK g \in [SUBSET S -> V] :
          \A s \in SUBSET S : Cardinality(s) <= Cardinality(S)
                              => g[s] = Turn(g, s, base, pick, H)
    BY <1>3
<1>5. \A s \in SUBSET S : Cardinality(s) <= Cardinality(S)
    BY FS_Subset
<1>6. QED
    BY <1>4, <1>5 DEF Solves

-----------------------------------------------------------------------------
(* Sums over a finite set *)

\* The sum that MapThenSumSet computes of the values of f at the elements of S.
SumOf(f, S) == MapThenSumSet(LAMBDA i : f[i], S)

Some(s) == CHOOSE x \in s : TRUE

\* g[s] is the sum of f over s if g is right for the smaller sets.
Adds(g, f, s) == g[s] = IF s = {} THEN 0 ELSE f[Some(s)] + g[s \ {Some(s)}]

Sums(g, f, S) == \A s \in SUBSET S : Adds(g, f, s)

Summable(f, S) == IsFiniteSet(S) /\ \A x \in S : f[x] \in Nat

\* Sums of equal summands are equal, whatever larger sets they are parts of.
LEMMA SumsAgree ==
    ASSUME NEW S, IsFiniteSet(S), NEW f, NEW e, \A x \in S : f[x] = e[x],
           NEW g, Sums(g, f, S), NEW h, Sums(h, e, S)
    PROVE  \A s \in SUBSET S : g[s] = h[s]
<1> DEFINE T == {s \in SUBSET S : g[s] # h[s]}
<1> SUFFICES ASSUME T # {} PROVE FALSE
    OBVIOUS
<1>1. T \subseteq SUBSET S
    OBVIOUS
<1>2. PICK s \in T : \A t \in SUBSET s : t # s => t \notin T
    <2> HIDE DEF T
    <2>1. QED
        BY <1>1, SmallestSubset
<1>3. CASE s = {}
    BY <1>3 DEF Sums, Adds
<1>4. CASE s # {}
    <2> DEFINE t == s \ {Some(s)}
    <2>1. Some(s) \in s
        BY <1>4 DEF Some
    <2>2. t \in SUBSET s /\ t # s /\ t \in SUBSET S /\ s \in SUBSET S
        BY <2>1
    <2>3. g[t] = h[t]
        BY <1>2, <2>2
    <2>4. f[Some(s)] = e[Some(s)]
        BY <2>1, <2>2
    <2>5. g[s] = f[Some(s)] + g[t] /\ h[s] = e[Some(s)] + h[t]
        BY <1>4, <2>2 DEF Sums, Adds
    <2>6. g[s] # h[s]
        OBVIOUS
    <2> HIDE DEF t
    <2>7. QED
        BY <2>3, <2>4, <2>5, <2>6
<1>5. QED
    BY <1>3, <1>4

\* The recursion of MapThenSumSet has a solution, which is the sum.
LEMMA SumExists ==
    ASSUME NEW S, NEW f, Summable(f, S)
    PROVE  \E g \in [SUBSET S -> Nat] : Sums(g, f, S) /\ SumOf(f, S) = g[S]
<1> USE DEF Summable
<1> DEFINE Eq(h) == h = [s \in SUBSET S |->
                            IF s = {} THEN 0
                            ELSE f[CHOOSE x \in s : TRUE]
                                    + h[s \ {CHOOSE x \in s : TRUE}]]
           iter == CHOOSE h : Eq(h)
           pick == [s \in SUBSET S |-> Some(s)]
           H == [x \in S |-> [y \in Nat |-> f[x] + y]]
<1>1. SumOf(f, S) = iter[S]
    BY DEF SumOf, MapThenSumSet, MapThenFoldSet
<1>2. \A s \in SUBSET S : s # {} => Some(s) \in s /\ pick[s] = Some(s)
    BY DEF Some
<1>3. \E g \in [SUBSET S -> Nat] : Solves(g, S, 0, pick, H)
    <2>1. H \in [S -> [Nat -> Nat]]
        OBVIOUS
    <2>2. Picks(pick, S)
        BY <1>2 DEF Picks
    <2>3. 0 \in Nat
        OBVIOUS
    <2> HIDE DEF pick, H
    <2>4. QED
        BY <2>1, <2>2, <2>3, RecursionExists
<1>4. PICK g \in [SUBSET S -> Nat] : Solves(g, S, 0, pick, H)
    BY <1>3
<1>5. ASSUME NEW s \in SUBSET S PROVE Adds(g, f, s)
    <2>1. CASE s = {}
        BY <1>4, <2>1 DEF Adds, Turn, Solves
    <2>2. CASE s # {}
        <3>1. Some(s) \in S /\ s \ {Some(s)} \in SUBSET S
            BY <1>2, <2>2
        <3>2. g[s] = H[Some(s)][g[s \ {Some(s)}]]
            BY <1>2, <1>4, <2>2 DEF Turn, Solves
        <3>3. H[Some(s)][g[s \ {Some(s)}]] = f[Some(s)] + g[s \ {Some(s)}]
            BY <3>1
        <3>4. QED
            BY <2>2, <3>2, <3>3 DEF Adds
    <2>3. QED
        BY <2>1, <2>2
<1>6. Eq(g)
    BY <1>5 DEF Adds, Some
<1>7. Eq(iter)
    <2> HIDE DEF Eq
    <2>1. QED
        BY <1>6
<1>8. Sums(iter, f, S)
    <2> HIDE DEF iter
    <2>1. QED
        BY <1>7 DEF Sums, Adds, Some
<1>9. iter[S] = g[S]
    <2> HIDE DEF iter
    <2>1. QED
        BY <1>5, <1>8, SumsAgree DEF Sums
<1>10. QED
    BY <1>1, <1>5, <1>9 DEF Sums

AnyOrder(g, f, S) == \A s \in SUBSET S : \A x \in s : g[s] = f[x] + g[s \ {x}]

\* Any element may be taken as the last summand.
LEMMA SumAnyOrder ==
    ASSUME NEW S, NEW f, Summable(f, S), NEW g \in [SUBSET S -> Nat], Sums(g, f, S)
    PROVE  AnyOrder(g, f, S)
<1> USE DEF Summable, AnyOrder
<1> DEFINE T == {s \in SUBSET S : \E x \in s : g[s] # f[x] + g[s \ {x}]}
<1> SUFFICES ASSUME T # {} PROVE FALSE
    OBVIOUS
<1>1. T \subseteq SUBSET S
    OBVIOUS
<1>2. PICK s \in T : \A t \in SUBSET s : t # s => t \notin T
    <2> HIDE DEF T
    <2>1. QED
        BY <1>1, SmallestSubset
<1>3. PICK x \in s : g[s] # f[x] + g[s \ {x}]
    OBVIOUS
<1> DEFINE y == Some(s)
<1>4. y \in s /\ s \in SUBSET S
    BY <1>3 DEF Some
<1>5. g[s] = f[y] + g[s \ {y}]
    BY <1>3, <1>4 DEF Sums, Adds
<1> HIDE DEF y
<1>6. x # y
    BY <1>3, <1>5
<1>7. /\ s \ {x} \in SUBSET s /\ s \ {x} # s /\ y \in s \ {x}
      /\ s \ {y} \in SUBSET s /\ s \ {y} # s /\ x \in s \ {y}
    BY <1>3, <1>4, <1>6
<1> DEFINE r == (s \ {y}) \ {x}
<1>8. /\ g[s \ {x}] = f[y] + g[(s \ {x}) \ {y}]
      /\ g[s \ {y}] = f[x] + g[r]
    BY <1>2, <1>4, <1>7
<1>9. (s \ {x}) \ {y} = r /\ r \in SUBSET S
    BY <1>4
<1> HIDE DEF r
<1>10. f[x] \in Nat /\ f[y] \in Nat /\ g[r] \in Nat
    BY <1>3, <1>4, <1>9
<1>11. /\ g[s \ {x}] = f[y] + g[r]
       /\ g[s] = f[y] + (f[x] + g[r])
       /\ g[s] # f[x] + g[s \ {x}]
    BY <1>3, <1>5, <1>8, <1>9
<1>12. QED
    BY <1>10, <1>11

\* The three facts that proofs about sums need.
LEMMA SumOfEmpty == \A f : SumOf(f, {}) = 0
<1> SUFFICES ASSUME NEW f PROVE SumOf(f, {}) = 0
    OBVIOUS
<1>1. Summable(f, {})
    BY FS_EmptySet DEF Summable
<1>2. PICK g : Sums(g, f, {}) /\ SumOf(f, {}) = g[{}]
    BY <1>1, SumExists
<1>3. QED
    BY <1>2 DEF Sums, Adds

LEMMA SumOfEqual ==
    ASSUME NEW S, NEW f, NEW e, Summable(f, S), \A x \in S : f[x] = e[x]
    PROVE  SumOf(f, S) = SumOf(e, S)
<1>1. IsFiniteSet(S) /\ Summable(e, S)
    BY DEF Summable
<1>2. PICK g \in [SUBSET S -> Nat] : Sums(g, f, S) /\ SumOf(f, S) = g[S]
    BY SumExists
<1>3. PICK h \in [SUBSET S -> Nat] : Sums(h, e, S) /\ SumOf(e, S) = h[S]
    BY <1>1, SumExists
<1>4. g[S] = h[S]
    BY <1>1, <1>2, <1>3, SumsAgree
<1>5. QED
    BY <1>2, <1>3, <1>4

LEMMA SumOfMore ==
    ASSUME NEW S, NEW f, NEW x, x \notin S, Summable(f, S \cup {x})
    PROVE  SumOf(f, S \cup {x}) = SumOf(f, S) + f[x]
<1> DEFINE U == S \cup {x}
<1>1. /\ IsFiniteSet(S) /\ Summable(f, S)
      /\ U \ {x} = S /\ S \in SUBSET U /\ x \in U /\ U \in SUBSET U
      /\ f[x] \in Nat
    <2>1. IsFiniteSet(S)
        BY FS_Subset DEF Summable
    <2>2. QED
        BY <2>1 DEF Summable
<1>2. Summable(f, U)
    OBVIOUS
<1> HIDE DEF U
<1>3. PICK g \in [SUBSET U -> Nat] : Sums(g, f, U) /\ SumOf(f, U) = g[U]
    BY <1>2, SumExists
<1>4. PICK h \in [SUBSET S -> Nat] : Sums(h, f, S) /\ SumOf(f, S) = h[S]
    BY <1>1, SumExists
<1>5. Sums(g, f, S)
    BY <1>1, <1>3 DEF Sums
<1>6. g[S] = h[S]
    BY <1>1, <1>4, <1>5, SumsAgree
<1>7. g[U] = f[x] + g[U \ {x}]
    <2>1. AnyOrder(g, f, U)
        BY <1>2, <1>3, SumAnyOrder
    <2>2. QED
        BY <1>1, <2>1 DEF AnyOrder
<1>8. g[S] \in Nat
    BY <1>1, <1>3
<1>9. SumOf(f, U) = SumOf(f, S) + f[x]
    <2>1. SumOf(f, U) = f[x] + g[S] /\ SumOf(f, S) = g[S]
        BY <1>1, <1>3, <1>4, <1>6, <1>7
    <2>2. f[x] \in Nat /\ g[S] \in Nat
        BY <1>1, <1>8
    <2>3. QED
        BY <2>1, <2>2
<1>10. QED
    BY <1>9 DEF U

-----------------------------------------------------------------------------
(* The loops over the rules *)

LEMMA MaxOfNat ==
    ASSUME NEW n \in Nat, NEW s \in SUBSET (1 .. n), s # {}
    PROVE  Max(s) \in s /\ \A y \in s : Max(s) >= y
<1> DEFINE A == {n - x : x \in s}
<1>1. A \subseteq Nat /\ A # {}
    OBVIOUS
<1>2. PICK m \in A : \A a \in A : m <= a
    BY <1>1, LeastOfNat
<1>3. PICK x \in s : m = n - x
    OBVIOUS
<1>4. ASSUME NEW y \in s PROVE x >= y
    <2>1. n - x <= n - y
        BY <1>2, <1>3
    <2>2. x \in Int /\ y \in Int
        OBVIOUS
    <2>3. QED
        BY <2>1, <2>2
<1>5. QED
    BY <1>4 DEF Max

LEMMA MaxOfInterval ==
    ASSUME NEW k \in Nat \ {0}
    PROVE  Max(1 .. k) = k /\ (1 .. k) \ {k} = 1 .. k - 1
<1>1. 1 .. k \in SUBSET (1 .. k) /\ k \in 1 .. k
    OBVIOUS
<1>2. Max(1 .. k) \in 1 .. k /\ Max(1 .. k) >= k
    BY <1>1, MaxOfNat
<1>3. QED
    BY <1>2

\* it is the recursion of a fold over 1 .. n from the last element.
Unfolds(it, n, V, start, H) ==
    /\ it[{}] = start
    /\ \A s \in SUBSET (1 .. n) :
          s # {} /\ it[s \ {Max(s)}] \in V => it[s] = H[Max(s)][it[s \ {Max(s)}]]

LEMMA LoopExists ==
    ASSUME NEW n \in Nat, NEW V, NEW start \in V, NEW H \in [1 .. n -> [V -> V]]
    PROVE  \E g \in [SUBSET (1 .. n) -> V] : Unfolds(g, n, V, start, H)
<1> DEFINE S == 1 .. n
           pick == [s \in SUBSET S |-> Max(s)]
<1>1. IsFiniteSet(S)
    BY FS_Interval
<1>2. Picks(pick, S)
    BY MaxOfNat DEF Picks
<1>3. \E g \in [SUBSET S -> V] : Solves(g, S, start, pick, H)
    <2> HIDE DEF pick, S
    <2>1. H \in [S -> [V -> V]]
        BY DEF S
    <2>2. QED
        BY <1>1, <1>2, <2>1, RecursionExists
<1>4. PICK g \in [SUBSET S -> V] : Solves(g, S, start, pick, H)
    BY <1>3
<1>5. Unfolds(g, n, V, start, H)
    BY <1>4 DEF Unfolds, Solves, Turn
<1>6. QED
    BY <1>5

Steps(acc, n, start, H) ==
    /\ acc[0] = start
    /\ \A k \in 1 .. n : acc[k] = H[k][acc[k - 1]]

Reaches(n, V, start, H, end) ==
    \E acc \in [0 .. n -> V] : Steps(acc, n, start, H) /\ acc[n] = end

\* The values that the loop reaches, one after the other.
LEMMA LoopValues ==
    ASSUME NEW n \in Nat, NEW V, NEW start \in V, NEW H \in [1 .. n -> [V -> V]],
           NEW it, Unfolds(it, n, V, start, H)
    PROVE  Reaches(n, V, start, H, it[1 .. n])
<1> DEFINE acc == [k \in 0 .. n |-> it[1 .. k]]
           A == {k \in Nat : k <= n => acc[k] \in V}
<1>1. acc[0] = start /\ acc[n] = it[1 .. n]
    BY DEF Unfolds
<1>2. ASSUME NEW k \in 1 .. n, acc[k - 1] \in V
      PROVE  acc[k] = H[k][acc[k - 1]] /\ acc[k] \in V
    <2>1. Max(1 .. k) = k /\ (1 .. k) \ {k} = 1 .. k - 1
        BY MaxOfInterval
    <2>2. /\ 1 .. k \in SUBSET (1 .. n)
          /\ 1 .. k # {}
          /\ k \in 0 .. n /\ k - 1 \in 0 .. n
        <3>1. 1 .. k \in SUBSET (1 .. n)
            OBVIOUS
        <3>2. k \in 1 .. k
            OBVIOUS
        <3>3. k \in 0 .. n /\ k - 1 \in 0 .. n
            OBVIOUS
        <3>4. QED
            BY <3>1, <3>2, <3>3
    <2>3. acc[k] = it[1 .. k] /\ acc[k - 1] = it[1 .. k - 1]
        BY <2>2
    <2> HIDE DEF acc
    <2>4. it[1 .. k - 1] \in V
        BY <1>2, <2>3
    <2>5. it[1 .. k] = H[k][it[1 .. k - 1]]
        <3> DEFINE s == 1 .. k
        <3>1. s \in SUBSET (1 .. n) /\ s # {} /\ Max(s) = k /\ s \ {k} = 1 .. k - 1
            BY <2>1, <2>2
        <3> HIDE DEF s
        <3>2. it[s \ {Max(s)}] \in V
            BY <2>4, <3>1
        <3>3. it[s] = H[Max(s)][it[s \ {Max(s)}]]
            BY <3>1, <3>2 DEF Unfolds
        <3>4. QED
            BY <3>1, <3>3 DEF s
    <2>6. acc[k] = H[k][acc[k - 1]]
        BY <2>3, <2>5
    <2>7. QED
        BY <1>2, <2>6
<1> HIDE DEF acc
<1>3. 0 \in A
    BY <1>1
<1>4. ASSUME NEW m \in Nat, m \in A PROVE m + 1 \in A
    <2> SUFFICES ASSUME m + 1 <= n PROVE acc[m + 1] \in V
        OBVIOUS
    <2>1. m + 1 \in 1 .. n /\ (m + 1) - 1 = m /\ acc[m] \in V
        BY <1>4
    <2>2. QED
        BY <1>2, <2>1
<1>5. \A k \in 0 .. n : acc[k] \in V
    <2>1. \A m \in Nat : m \in A
        <3> HIDE DEF A
        <3>1. QED
            BY <1>3, <1>4, NatSetInduction
    <2>2. QED
        BY <2>1
<1>6. acc \in [0 .. n -> V]
    BY <1>5 DEF acc
<1>7. \A k \in 1 .. n : acc[k] = H[k][acc[k - 1]]
    BY <1>2, <1>5
<1>8. QED
    BY <1>1, <1>6, <1>7 DEF Steps, Reaches

\* What a loop keeps: a score, and the rate at which it grows with age.
Totals == [score : Int, rate : Int]

LEMMA ApplyRuleType ==
    ASSUME NEW context, NEW acc \in Totals, NEW rule, rule.value \in Int
    PROVE  ApplyRule(context, acc, rule) \in Totals
<1>1. acc.score \in Int /\ acc.rate \in Int /\ rule.value \in Int
    BY DEF Totals
<1>2. acc.score + rule.value \in Int /\ rule.value * acc.rate \in Int
    BY <1>1
<1>3. acc.score + rule.value * acc.rate \in Int
    BY <1>1, <1>2
<1>4. \/ ApplyRule(context, acc, rule) = acc
      \/ ApplyRule(context, acc, rule) = [acc EXCEPT !.rate = rule.value]
      \/ ApplyRule(context, acc, rule) = [acc EXCEPT !.score = @ + rule.value]
      \/ ApplyRule(context, acc, rule)
           = [acc EXCEPT !.score = @ + rule.value * acc.rate]
    BY Zenon DEF ApplyRule
<1>5. QED
    BY <1>1, <1>2, <1>3, <1>4 DEF Totals

\* acc[k] is what the engine's loop has reached after k rules.
EngineLoop(acc, context, start, list) ==
    /\ acc[0] = start
    /\ \A k \in 1 .. Len(list) : acc[k] = ApplyRule(context, acc[k - 1], list[k])

EngineFold(context, start, list) ==
    FoldLeft(LAMBDA t, rule : ApplyRule(context, t, rule), start, list)

LEMMA EngineLoopIs ==
    ASSUME NEW context, NEW start \in Totals, NEW list, IsRuleList(list)
    PROVE  \E acc \in [0 .. Len(list) -> Totals] :
              /\ EngineLoop(acc, context, start, list)
              /\ EngineFold(context, start, list) = acc[Len(list)]
<1> DEFINE n == Len(list)
           S == 1 .. n
           Eq(h) == h = [s \in SUBSET S |->
                            IF s = {} THEN start
                            ELSE ApplyRule(context, h[s \ {Max(s)}], list[Max(s)])]
           iter == CHOOSE h : Eq(h)
           H == [x \in S |-> [t \in Totals |-> ApplyRule(context, t, list[x])]]
<1>1. n \in Nat /\ DOMAIN list = S /\ \A x \in S : list[x].value \in Int
    BY DEF IsRuleList
<1>2. EngineFold(context, start, list) = iter[S]
    BY <1>1 DEF EngineFold, FoldLeft, MapThenFoldSet
<1>3. H \in [S -> [Totals -> Totals]]
    BY <1>1, ApplyRuleType
<1>4. \E h : Eq(h)
    <2>1. PICK g \in [SUBSET S -> Totals] : Unfolds(g, n, Totals, start, H)
        <3> HIDE DEF H
        <3>1. QED
            BY <1>1, <1>3, LoopExists
    <2>2. ASSUME NEW s \in SUBSET S
          PROVE  g[s] = IF s = {} THEN start
                        ELSE ApplyRule(context, g[s \ {Max(s)}], list[Max(s)])
        <3>1. CASE s # {}
            <4>1. Max(s) \in S /\ s \ {Max(s)} \in SUBSET S
                BY <1>1, <3>1, MaxOfNat
            <4>2. g[s] = H[Max(s)][g[s \ {Max(s)}]]
                BY <2>1, <3>1, <4>1 DEF Unfolds
            <4>3. QED
                BY <3>1, <4>1, <4>2
        <3>2. QED
            BY <2>1, <3>1 DEF Unfolds
    <2>3. Eq(g)
        BY <2>2
    <2> HIDE DEF Eq
    <2>4. QED
        BY <2>3
<1>5. Eq(iter)
    <2> HIDE DEF Eq
    <2>1. QED
        BY <1>4
<1> HIDE DEF iter
<1>6. Unfolds(iter, n, Totals, start, H)
    <2>1. ASSUME NEW s \in SUBSET S, s # {}, iter[s \ {Max(s)}] \in Totals
          PROVE  iter[s] = H[Max(s)][iter[s \ {Max(s)}]]
        <3>1. Max(s) \in S
            BY <1>1, <2>1, MaxOfNat
        <3>2. QED
            BY <1>5, <2>1, <3>1
    <2>2. iter[{}] = start
        BY <1>5
    <2> HIDE DEF H
    <2>3. QED
        BY <2>1, <2>2 DEF Unfolds
<1>7. PICK acc \in [0 .. n -> Totals] :
          Steps(acc, n, start, H) /\ acc[n] = iter[S]
    <2> HIDE DEF H
    <2>1. Reaches(n, Totals, start, H, iter[S])
        BY <1>1, <1>3, <1>6, LoopValues
    <2>2. QED
        BY <2>1 DEF Reaches
<1>8. EngineLoop(acc, context, start, list)
    <2> SUFFICES ASSUME NEW k \in 1 .. n
                 PROVE  acc[k] = ApplyRule(context, acc[k - 1], list[k])
        BY <1>7 DEF EngineLoop, Steps
    <2>1. k - 1 \in 0 .. n /\ acc[k - 1] \in Totals
        BY <1>1
    <2>2. acc[k] = H[k][acc[k - 1]]
        BY <1>7 DEF Steps
    <2>3. QED
        BY <2>1, <2>2
<1>9. QED
    BY <1>2, <1>7, <1>8

LEMMA ApplyPageRuleType ==
    ASSUME NEW context, NEW acc \in Totals, NEW rule, rule.value \in Int
    PROVE  ApplyPageRule(context, acc, rule) \in Totals
<1>1. acc.score \in Int /\ acc.rate \in Int /\ rule.value \in Int
    BY DEF Totals
<1>2. acc.score + rule.value \in Int /\ OutrankWeight(rule.value, acc.rate) \in Int
    BY <1>1 DEF OutrankWeight
<1>3. acc.score + OutrankWeight(rule.value, acc.rate) \in Int
    BY <1>1, <1>2
<1>4. \/ ApplyPageRule(context, acc, rule) = acc
      \/ ApplyPageRule(context, acc, rule) = [acc EXCEPT !.rate = rule.value]
      \/ ApplyPageRule(context, acc, rule) = [acc EXCEPT !.score = @ + rule.value]
      \/ ApplyPageRule(context, acc, rule)
           = [acc EXCEPT !.score = @ + OutrankWeight(rule.value, acc.rate)]
    BY Zenon DEF ApplyPageRule
<1>5. QED
    BY <1>1, <1>2, <1>3, <1>4 DEF Totals

\* acc[k] is what the page's loop has reached after k rules.
PageLoop(acc, context, start, list) ==
    /\ acc[0] = start
    /\ \A k \in 1 .. Len(list) : acc[k] = ApplyPageRule(context, acc[k - 1], list[k])

PageFold(context, start, list) ==
    FoldLeft(LAMBDA t, rule : ApplyPageRule(context, t, rule), start, list)

LEMMA PageLoopIs ==
    ASSUME NEW context, NEW start \in Totals, NEW list, IsRuleList(list)
    PROVE  \E acc \in [0 .. Len(list) -> Totals] :
              /\ PageLoop(acc, context, start, list)
              /\ PageFold(context, start, list) = acc[Len(list)]
<1> DEFINE n == Len(list)
           S == 1 .. n
           Eq(h) == h = [s \in SUBSET S |->
                            IF s = {} THEN start
                            ELSE ApplyPageRule(context, h[s \ {Max(s)}], list[Max(s)])]
           iter == CHOOSE h : Eq(h)
           H == [x \in S |-> [t \in Totals |-> ApplyPageRule(context, t, list[x])]]
<1>1. n \in Nat /\ DOMAIN list = S /\ \A x \in S : list[x].value \in Int
    BY DEF IsRuleList
<1>2. PageFold(context, start, list) = iter[S]
    BY <1>1 DEF PageFold, FoldLeft, MapThenFoldSet
<1>3. H \in [S -> [Totals -> Totals]]
    BY <1>1, ApplyPageRuleType
<1>4. \E h : Eq(h)
    <2>1. PICK g \in [SUBSET S -> Totals] : Unfolds(g, n, Totals, start, H)
        <3> HIDE DEF H
        <3>1. QED
            BY <1>1, <1>3, LoopExists
    <2>2. ASSUME NEW s \in SUBSET S
          PROVE  g[s] = IF s = {} THEN start
                        ELSE ApplyPageRule(context, g[s \ {Max(s)}], list[Max(s)])
        <3>1. CASE s # {}
            <4>1. Max(s) \in S /\ s \ {Max(s)} \in SUBSET S
                BY <1>1, <3>1, MaxOfNat
            <4>2. g[s] = H[Max(s)][g[s \ {Max(s)}]]
                BY <2>1, <3>1, <4>1 DEF Unfolds
            <4>3. QED
                BY <3>1, <4>1, <4>2
        <3>2. QED
            BY <2>1, <3>1 DEF Unfolds
    <2>3. Eq(g)
        BY <2>2
    <2> HIDE DEF Eq
    <2>4. QED
        BY <2>3
<1>5. Eq(iter)
    <2> HIDE DEF Eq
    <2>1. QED
        BY <1>4
<1> HIDE DEF iter
<1>6. Unfolds(iter, n, Totals, start, H)
    <2>1. ASSUME NEW s \in SUBSET S, s # {}, iter[s \ {Max(s)}] \in Totals
          PROVE  iter[s] = H[Max(s)][iter[s \ {Max(s)}]]
        <3>1. Max(s) \in S
            BY <1>1, <2>1, MaxOfNat
        <3>2. QED
            BY <1>5, <2>1, <3>1
    <2>2. iter[{}] = start
        BY <1>5
    <2> HIDE DEF H
    <2>3. QED
        BY <2>1, <2>2 DEF Unfolds
<1>7. PICK acc \in [0 .. n -> Totals] :
          Steps(acc, n, start, H) /\ acc[n] = iter[S]
    <2> HIDE DEF H
    <2>1. Reaches(n, Totals, start, H, iter[S])
        BY <1>1, <1>3, <1>6, LoopValues
    <2>2. QED
        BY <2>1 DEF Reaches
<1>8. PageLoop(acc, context, start, list)
    <2> SUFFICES ASSUME NEW k \in 1 .. n
                 PROVE  acc[k] = ApplyPageRule(context, acc[k - 1], list[k])
        BY <1>7 DEF PageLoop, Steps
    <2>1. k - 1 \in 0 .. n /\ acc[k - 1] \in Totals
        BY <1>1
    <2>2. acc[k] = H[k][acc[k - 1]]
        BY <1>7 DEF Steps
    <2>3. QED
        BY <2>1, <2>2
<1>9. QED
    BY <1>2, <1>7, <1>8

-----------------------------------------------------------------------------
(* The scores *)

Start(base) == [score |-> 10 * base, rate |-> BaseRate]


LEMMA ComputePriorityScoreIs ==
    ASSUME NEW context, NEW base \in Int, NEW list, IsRuleList(list)
    PROVE  \E acc \in [0 .. Len(list) -> Totals] :
              /\ EngineLoop(acc, context, Start(base), list)
              /\ \A age : ComputePriorityScore(context, base, age, list)
                             = 10 * acc[Len(list)].score
                                 + EffectiveAge(age) * acc[Len(list)].rate
<1>1. Start(base) \in Totals
    BY DEF Start, Totals, BaseRate
<1>2. PICK acc \in [0 .. Len(list) -> Totals] :
          /\ EngineLoop(acc, context, Start(base), list)
          /\ EngineFold(context, Start(base), list) = acc[Len(list)]
    BY <1>1, EngineLoopIs
<1>3. QED
    BY <1>2 DEF ComputePriorityScore, EngineFold, Start


LEMMA PageScoreOfIs ==
    ASSUME NEW context, NEW base \in Int, NEW list, IsRuleList(list)
    PROVE  \E acc \in [0 .. Len(list) -> Totals] :
              /\ PageLoop(acc, context, Start(base), list)
              /\ \A age : PageScoreOf(context, base, age, list)
                             = 10 * acc[Len(list)].score + age * acc[Len(list)].rate
<1>1. Start(base) \in Totals
    BY DEF Start, Totals, BaseRate
<1>2. PICK acc \in [0 .. Len(list) -> Totals] :
          /\ PageLoop(acc, context, Start(base), list)
          /\ PageFold(context, Start(base), list) = acc[Len(list)]
    BY <1>1, PageLoopIs
<1>3. QED
    BY <1>2 DEF PageScoreOf, PageFold, Start

\* In the model, which has no float64, a score is an integer.
LEMMA ScoreIsNumber ==
    ASSUME NEW context, NEW base \in Int, NEW age \in Int,
           NEW list, IsRuleList(list)
    PROVE  ComputePriorityScore(context, base, age, list) \in Int
<1>1. PICK acc \in [0 .. Len(list) -> Totals] :
          ComputePriorityScore(context, base, age, list)
             = 10 * acc[Len(list)].score + EffectiveAge(age) * acc[Len(list)].rate
    <2>1. PICK acc \in [0 .. Len(list) -> Totals] :
              \A a : ComputePriorityScore(context, base, a, list)
                        = 10 * acc[Len(list)].score
                            + EffectiveAge(a) * acc[Len(list)].rate
        BY ComputePriorityScoreIs
    <2>2. QED
        BY <2>1
<1>2. acc[Len(list)] \in Totals
    OBVIOUS
<1>3. /\ 10 * acc[Len(list)].score \in Int
      /\ acc[Len(list)].rate \in Int
      /\ EffectiveAge(age) \in Int
    BY <1>2 DEF Totals, EffectiveAge
<1>4. EffectiveAge(age) * acc[Len(list)].rate \in Int
    BY <1>3
<1>5. QED
    BY <1>1, <1>3, <1>4

LEMMA ApplyRuleRate ==
    ASSUME NEW context, NEW acc \in Totals, NEW rule, rule.value \in Int,
           acc.rate > 0, rule.type = "starvation_boost" => rule.value > 0
    PROVE  ApplyRule(context, acc, rule).rate > 0
<1>1. \/ ApplyRule(context, acc, rule).rate = acc.rate
      \/ /\ rule.type = "starvation_boost"
         /\ ApplyRule(context, acc, rule) = [acc EXCEPT !.rate = rule.value]
    <2>1. CASE rule.type = "starvation_boost" /\ rule.context \in {"all", context}
        BY Zenon, <2>1 DEF ApplyRule
    <2>2. CASE ~(rule.type = "starvation_boost" /\ rule.context \in {"all", context})
        <3>1. \/ ApplyRule(context, acc, rule) = acc
              \/ \E x : ApplyRule(context, acc, rule) = [acc EXCEPT !.score = x]
            BY Zenon, <2>2 DEF ApplyRule
        <3>2. QED
            BY <3>1 DEF Totals
    <2>3. QED
        BY <2>1, <2>2
<1>2. QED
    BY <1>1 DEF Totals

LEMMA EngineLoopRate ==
    ASSUME NEW context, NEW start \in Totals, start.rate > 0,
           NEW list, IsRuleList(list), RatesPositive(list),
           NEW acc \in [0 .. Len(list) -> Totals], EngineLoop(acc, context, start, list)
    PROVE  acc[Len(list)].rate > 0
<1> DEFINE n == Len(list)
           A == {k \in Nat : k <= n => acc[k].rate > 0}
<1>1. 0 \in A
    BY DEF EngineLoop
<1>2. ASSUME NEW m \in Nat, m \in A PROVE m + 1 \in A
    <2> SUFFICES ASSUME m + 1 <= n PROVE acc[m + 1].rate > 0
        OBVIOUS
    <2>1. m + 1 \in 1 .. n /\ (m + 1) - 1 = m /\ m \in 0 .. n /\ m + 1 \in DOMAIN list
        BY DEF IsRuleList
    <2>2. acc[m + 1] = ApplyRule(context, acc[m], list[m + 1])
        BY <2>1 DEF EngineLoop
    <2>3. /\ acc[m] \in Totals /\ acc[m].rate > 0
          /\ list[m + 1].value \in Int
          /\ list[m + 1].type = "starvation_boost" => list[m + 1].value > 0
        BY <1>2, <2>1 DEF RatesPositive, IsRuleList
    <2>4. QED
        BY <2>2, <2>3, ApplyRuleRate
<1> HIDE DEF A
<1>3. \A m \in Nat : m \in A
    BY <1>1, <1>2, NatSetInduction
<1>4. n \in A
    BY <1>3
<1>5. QED
    BY <1>4 DEF A

LEMMA ApplyPageRuleRate ==
    ASSUME NEW context, NEW acc \in Totals, NEW rule, rule.value \in Int,
           acc.rate > 0, rule.type = "starvation_boost" => rule.value > 0
    PROVE  ApplyPageRule(context, acc, rule).rate > 0
<1>1. \/ ApplyPageRule(context, acc, rule).rate = acc.rate
      \/ /\ rule.type = "starvation_boost"
         /\ ApplyPageRule(context, acc, rule) = [acc EXCEPT !.rate = rule.value]
    <2>1. CASE rule.type = "starvation_boost" /\ rule.context \in {"all", context}
        BY Zenon, <2>1 DEF ApplyPageRule
    <2>2. CASE ~(rule.type = "starvation_boost" /\ rule.context \in {"all", context})
        <3>1. \/ ApplyPageRule(context, acc, rule) = acc
              \/ \E x : ApplyPageRule(context, acc, rule) = [acc EXCEPT !.score = x]
            BY Zenon, <2>2 DEF ApplyPageRule
        <3>2. QED
            BY <3>1 DEF Totals
    <2>3. QED
        BY <2>1, <2>2
<1>2. QED
    BY <1>1 DEF Totals

LEMMA PageLoopRate ==
    ASSUME NEW context, NEW start \in Totals, start.rate > 0,
           NEW list, IsRuleList(list), RatesPositive(list),
           NEW acc \in [0 .. Len(list) -> Totals], PageLoop(acc, context, start, list)
    PROVE  acc[Len(list)].rate > 0
<1> DEFINE n == Len(list)
           A == {k \in Nat : k <= n => acc[k].rate > 0}
<1>1. 0 \in A
    BY DEF PageLoop
<1>2. ASSUME NEW m \in Nat, m \in A PROVE m + 1 \in A
    <2> SUFFICES ASSUME m + 1 <= n PROVE acc[m + 1].rate > 0
        OBVIOUS
    <2>1. m + 1 \in 1 .. n /\ (m + 1) - 1 = m /\ m \in 0 .. n /\ m + 1 \in DOMAIN list
        BY DEF IsRuleList
    <2>2. acc[m + 1] = ApplyPageRule(context, acc[m], list[m + 1])
        BY <2>1 DEF PageLoop
    <2>3. /\ acc[m] \in Totals /\ acc[m].rate > 0
          /\ list[m + 1].value \in Int
          /\ list[m + 1].type = "starvation_boost" => list[m + 1].value > 0
        BY <1>2, <2>1 DEF RatesPositive, IsRuleList
    <2>4. QED
        BY <2>2, <2>3, ApplyPageRuleRate
<1> HIDE DEF A
<1>3. \A m \in Nat : m \in A
    BY <1>1, <1>2, NatSetInduction
<1>4. n \in A
    BY <1>3
<1>5. QED
    BY <1>4 DEF A

\* The engine's score of a job grows with its age, at a rate that only the rules
\* and the job's context decide.
LEMMA EngineScoreGrows ==
    ASSUME NEW context, NEW base \in Int, NEW list, IsRuleList(list),
           RatesPositive(list)
    PROVE  \E fresh \in Int, rate \in Nat \ {0} :
              \A age : ComputePriorityScore(context, base, age, list)
                         = fresh + EffectiveAge(age) * rate
<1>1. PICK acc \in [0 .. Len(list) -> Totals] :
          /\ EngineLoop(acc, context, Start(base), list)
          /\ \A age : ComputePriorityScore(context, base, age, list)
                         = 10 * acc[Len(list)].score
                             + EffectiveAge(age) * acc[Len(list)].rate
    BY ComputePriorityScoreIs
<1>2. Start(base) \in Totals /\ Start(base).rate > 0
    BY DEF Start, Totals, BaseRate
<1>3. acc[Len(list)].rate > 0
    BY <1>1, <1>2, EngineLoopRate
<1>4. acc[Len(list)] \in Totals
    OBVIOUS
<1>5. 10 * acc[Len(list)].score \in Int /\ acc[Len(list)].rate \in Nat \ {0}
    BY <1>3, <1>4 DEF Totals
<1>6. QED
    BY <1>1, <1>5

\* So does the page's.
LEMMA PageScoreGrows ==
    ASSUME NEW context, NEW base \in Int, NEW list, IsRuleList(list),
           RatesPositive(list)
    PROVE  \E fresh \in Int, rate \in Nat \ {0} :
              \A age : PageScoreOf(context, base, age, list) = fresh + age * rate
<1>1. PICK acc \in [0 .. Len(list) -> Totals] :
          /\ PageLoop(acc, context, Start(base), list)
          /\ \A age : PageScoreOf(context, base, age, list)
                         = 10 * acc[Len(list)].score + age * acc[Len(list)].rate
    BY PageScoreOfIs
<1>2. Start(base) \in Totals /\ Start(base).rate > 0
    BY DEF Start, Totals, BaseRate
<1>3. acc[Len(list)].rate > 0
    BY <1>1, <1>2, PageLoopRate
<1>4. acc[Len(list)] \in Totals
    OBVIOUS
<1>5. 10 * acc[Len(list)].score \in Int /\ acc[Len(list)].rate \in Nat \ {0}
    BY <1>3, <1>4 DEF Totals
<1>6. QED
    BY <1>1, <1>5

\* No rule of the list lets the context outrank age.
Plain(context, list) ==
    \A k \in DOMAIN list :
        list[k].type = "context_outranks_age" => list[k].context # context

LEMMA SameTurn ==
    ASSUME NEW context, NEW acc, NEW rule,
           rule.type = "context_outranks_age" => rule.context # context
    PROVE  ApplyPageRule(context, acc, rule) = ApplyRule(context, acc, rule)
    BY Zenon DEF ApplyPageRule, ApplyRule, OfContext

\* The page's loop over the rules gives a job the score of the Go engine,
\* unless an outranking rule favours its context: there the weights differ.
THEOREM PageScoreIsEngineScore ==
    ASSUME NEW context, NEW base \in Int, NEW age \in Nat,
           NEW list, IsRuleList(list), Plain(context, list)
    PROVE  PageScoreOf(context, base, age, list)
             = ComputePriorityScore(context, base, age, list)
<1> DEFINE n == Len(list)
<1>1. PICK e \in [0 .. n -> Totals] :
          /\ EngineLoop(e, context, Start(base), list)
          /\ ComputePriorityScore(context, base, age, list)
               = 10 * e[n].score + EffectiveAge(age) * e[n].rate
    BY ComputePriorityScoreIs
<1>2. PICK p \in [0 .. n -> Totals] :
          /\ PageLoop(p, context, Start(base), list)
          /\ PageScoreOf(context, base, age, list) = 10 * p[n].score + age * p[n].rate
    BY PageScoreOfIs
<1> DEFINE A == {k \in Nat : k <= n => p[k] = e[k]}
<1>3. 0 \in A
    BY <1>1, <1>2 DEF EngineLoop, PageLoop
<1>4. ASSUME NEW m \in Nat, m \in A PROVE m + 1 \in A
    <2> SUFFICES ASSUME m + 1 <= n PROVE p[m + 1] = e[m + 1]
        OBVIOUS
    <2>1. m + 1 \in 1 .. n /\ (m + 1) - 1 = m /\ m + 1 \in DOMAIN list
        BY DEF IsRuleList
    <2>2. p[m] = e[m]
        BY <1>4, <2>1
    <2>3. ApplyPageRule(context, p[m], list[m + 1]) = ApplyRule(context, e[m], list[m + 1])
        BY <2>1, <2>2, SameTurn DEF Plain
    <2>4. QED
        BY <1>1, <1>2, <2>1, <2>3 DEF EngineLoop, PageLoop
<1>5. n \in A
    <2> HIDE DEF A
    <2>1. \A m \in Nat : m \in A
        BY <1>3, <1>4, NatSetInduction
    <2>2. QED
        BY <2>1
<1>6. EffectiveAge(age) = age
    BY DEF EffectiveAge
<1>7. QED
    BY <1>1, <1>2, <1>5, <1>6

LEMMA InitialRulesType == IsRuleList(INITIAL_RULES) /\ Len(INITIAL_RULES) = 3
<1>1. /\ Len(INITIAL_RULES) = 3
      /\ DOMAIN INITIAL_RULES = 1 .. 3
      /\ INITIAL_RULES[1].value = 5000
      /\ INITIAL_RULES[2].value = 300
      /\ INITIAL_RULES[3].value = 5
    BY DEF INITIAL_RULES, Rule
<1>2. QED
    BY <1>1 DEF IsRuleList

\* One turn of the page's loop, for each type of rule.
LEMMA PageTurn ==
    ASSUME NEW context, NEW acc, NEW rule
    PROVE  /\ rule.type = "boost" /\ rule.context # context
                => ApplyPageRule(context, acc, rule) = acc
           /\ rule.type = "starvation_boost" /\ rule.context \notin {"all", context}
                => ApplyPageRule(context, acc, rule) = acc
           /\ rule.type = "starvation_boost" /\ rule.context = context
                => ApplyPageRule(context, acc, rule) = [acc EXCEPT !.rate = rule.value]
           /\ rule.type = "context_outranks_age" /\ rule.context # context
                => ApplyPageRule(context, acc, rule) = acc
           /\ rule.type = "context_outranks_age" /\ rule.context = context
                => ApplyPageRule(context, acc, rule)
                     = [acc EXCEPT !.score = @ + OutrankWeight(rule.value, acc.rate)]
<1> USE DEF ApplyPageRule, OfContext
<1>1. ASSUME rule.type = "boost", rule.context # context
      PROVE  ApplyPageRule(context, acc, rule) = acc
    BY Zenon, <1>1
<1>2. ASSUME rule.type = "starvation_boost", rule.context \notin {"all", context}
      PROVE  ApplyPageRule(context, acc, rule) = acc
    BY Zenon, <1>2
<1>3. ASSUME rule.type = "starvation_boost", rule.context = context
      PROVE  ApplyPageRule(context, acc, rule) = [acc EXCEPT !.rate = rule.value]
    BY Zenon, <1>3
<1>4. ASSUME rule.type = "context_outranks_age", rule.context # context
      PROVE  ApplyPageRule(context, acc, rule) = acc
    BY Zenon, <1>4
<1>5. ASSUME rule.type = "context_outranks_age", rule.context = context
      PROVE  ApplyPageRule(context, acc, rule)
               = [acc EXCEPT !.score = @ + OutrankWeight(rule.value, acc.rate)]
    BY Zenon, <1>5
<1> HIDE DEF ApplyPageRule
<1>6. QED
    BY Zenon, <1>1, <1>2, <1>3, <1>4, <1>5

\* The page's scores with the rules it loads with.
ReportScore(base, age) == PageScoreOf("report_generation", base, age, INITIAL_RULES)

OnboardingScore(base, age) == PageScoreOf("user_onboarding", base, age, INITIAL_RULES)

LEMMA InitialScores ==
    ASSUME NEW base \in Int, NEW age \in Int
    PROVE  /\ OnboardingScore(base, age) = 100 * base + 3600 + age
           /\ ReportScore(base, age) = 100 * base + 5 * age
<1> DEFINE start == Start(base)
           list == INITIAL_RULES
           Turn3(context, t) ==
               ApplyPageRule(context,
                             ApplyPageRule(context,
                                           ApplyPageRule(context, t, list[1]),
                                           list[2]),
                             list[3])
<1>1. /\ list[1].type = "boost" /\ list[1].context = "payment_failed"
      /\ list[2].type = "context_outranks_age" /\ list[2].context = "user_onboarding"
      /\ list[2].value = 300
      /\ list[3].type = "starvation_boost" /\ list[3].context = "report_generation"
      /\ list[3].value = 5
    BY DEF INITIAL_RULES, Rule
<1>2. ASSUME NEW context
      PROVE  PageScoreOf(context, base, age, list)
               = 10 * Turn3(context, start).score + age * Turn3(context, start).rate
    <2>1. PICK acc \in [0 .. Len(list) -> Totals] :
              /\ PageLoop(acc, context, start, list)
              /\ PageScoreOf(context, base, age, list)
                   = 10 * acc[Len(list)].score + age * acc[Len(list)].rate
        BY InitialRulesType, PageScoreOfIs
    <2>2. acc[3] = Turn3(context, start)
        <3>1. /\ acc[0] = start
              /\ \A k \in 1 .. 3 : acc[k] = ApplyPageRule(context, acc[k - 1], list[k])
            BY <2>1, InitialRulesType DEF PageLoop
        <3> HIDE DEF start, list
        <3>2. /\ acc[1] = ApplyPageRule(context, acc[0], list[1])
              /\ acc[2] = ApplyPageRule(context, acc[1], list[2])
              /\ acc[3] = ApplyPageRule(context, acc[2], list[3])
            BY <3>1
        <3>3. QED
            BY <3>1, <3>2
    <2> HIDE DEF Turn3
    <2>3. QED
        BY <2>1, <2>2, InitialRulesType
<1> HIDE DEF list
<1>3. PageScoreOf("user_onboarding", base, age, list) = 100 * base + 3600 + age
    <2> DEFINE t == [start EXCEPT !.score = @ + 360]
    <2>1. ApplyPageRule("user_onboarding", start, list[1]) = start
        BY <1>1, PageTurn
    <2>2. ApplyPageRule("user_onboarding", start, list[2]) = t
        <3>1. ApplyPageRule("user_onboarding", start, list[2])
                = [start EXCEPT !.score = @ + OutrankWeight(300, start.rate)]
            BY <1>1, PageTurn
        <3>2. OutrankWeight(300, start.rate) = 360
            BY DEF OutrankWeight, Start, BaseRate
        <3>3. QED
            BY <3>1, <3>2
    <2>3. ApplyPageRule("user_onboarding", t, list[3]) = t
        BY <1>1, PageTurn
    <2>4. t.score = 10 * base + 360 /\ t.rate = 1
        BY DEF Start, BaseRate
    <2> HIDE DEF t, start
    <2>5. Turn3("user_onboarding", start) = t
        BY <2>1, <2>2, <2>3
    <2> HIDE DEF Turn3
    <2>6. QED
        BY <1>2, <2>4, <2>5
<1>4. PageScoreOf("report_generation", base, age, list) = 100 * base + 5 * age
    <2> DEFINE t == [start EXCEPT !.rate = 5]
    <2>1. /\ ApplyPageRule("report_generation", start, list[1]) = start
          /\ ApplyPageRule("report_generation", start, list[2]) = start
        BY <1>1, PageTurn
    <2>2. ApplyPageRule("report_generation", start, list[3]) = t
        BY <1>1, PageTurn
    <2>3. t.score = 10 * base /\ t.rate = 5
        BY DEF Start
    <2> HIDE DEF t, start
    <2>4. Turn3("report_generation", start) = t
        BY <2>1, <2>2
    <2> HIDE DEF Turn3
    <2>5. QED
        BY <1>2, <2>3, <2>4
<1>5. QED
    BY <1>3, <1>4 DEF list, OnboardingScore, ReportScore

=============================================================================
