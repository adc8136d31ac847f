--------------------------- MODULE PlanMath_proofs ---------------------------
(***************************************************************************)
(* Induction and folds; what PlanMath promises for every pool and any      *)
(* number of users and workers; and what RunMetrics makes of any events:   *)
(* what a percentile, the gate and a comparison mean.                      *)
(*                                                                         *)
(* The induction principles of the library take an operator; those here    *)
(* take a set, and rest on the ordering of the subsets of a finite set.    *)
(***************************************************************************)
EXTENDS PlanMath, RunMetrics, FiniteSetTheorems, SequenceTheorems, TLAPS

-----------------------------------------------------------------------------
(* Induction. *)

\* A family of subsets of a finite set that is not empty has a minimal member.
LEMMA MinimalSubset ==
  ASSUME NEW S, IsFiniteSet(S), NEW F, F \subseteq SUBSET S, F # {}
  PROVE  \E T \in F : \A U \in F : ~(U \subseteq T /\ U # T)
<1>1. FiniteSubsetsOf(S) = SUBSET S
  BY FS_FiniteSubsetsOfFinite
<1>2. IsWellFoundedOn(StrictSubsetOrdering(S), SUBSET S)
  BY <1>1, FS_StrictSubsetOrderingWellFounded
<1>3. PICK T \in F : \A U \in F : ~(<<U, T>> \in StrictSubsetOrdering(S))
  BY <1>2, WFMin
<1>4. \A U \in F : U \subseteq T /\ U # T => <<U, T>> \in StrictSubsetOrdering(S)
  BY DEF StrictSubsetOrdering
<1>5. \A U \in F : ~(U \subseteq T /\ U # T)
  BY <1>3, <1>4
<1> QED BY <1>5

\* Induction over the subsets of a finite set.
LEMMA SubsetInduction ==
  ASSUME NEW S, IsFiniteSet(S), NEW Q, {} \in Q,
         \A T \in SUBSET S, x \in S : T \in Q /\ x \notin T => T \cup {x} \in Q
  PROVE  SUBSET S \subseteq Q
<1> DEFINE F == (SUBSET S) \ Q
<1> SUFFICES ASSUME F # {} PROVE FALSE
  OBVIOUS
<1>1. PICK T \in F : \A U \in F : ~(U \subseteq T /\ U # T)
  <2>1. F \subseteq SUBSET S
    OBVIOUS
  <2> HIDE DEF F
  <2> QED BY <2>1, MinimalSubset
<1>2. PICK x \in T : TRUE
  OBVIOUS
<1>3. T \ {x} \in Q
  BY <1>1
<1>4. (T \ {x}) \cup {x} = T
  OBVIOUS
<1> QED BY <1>1, <1>3, <1>4

\* Induction over an interval.
LEMMA IntervalInduction ==
  ASSUME NEW n \in Nat, NEW Q, 0 \in Q, \A k \in 0..n - 1 : k \in Q => k + 1 \in Q
  PROVE  \A k \in 0..n : k \in Q
<1> SUFFICES ASSUME NEW m \in (0..n) \ Q PROVE FALSE
  OBVIOUS
<1> DEFINE S == 0..n
           F == {0..k : k \in S \ Q}
<1>1. IsFiniteSet(S)
  BY FS_Interval
<1>2. PICK T \in F : \A U \in F : ~(U \subseteq T /\ U # T)
  <2>1. F \subseteq SUBSET S
    OBVIOUS
  <2>2. F # {}
    OBVIOUS
  <2> HIDE DEF F, S
  <2> QED BY <1>1, <2>1, <2>2, MinimalSubset
<1>3. PICK k \in (0..n) \ Q : T = 0..k
  OBVIOUS
<1>4. k # 0 /\ k - 1 \in 0..n - 1 /\ k - 1 \in 0..n /\ (k - 1) + 1 = k
  BY <1>3
<1>5. k - 1 \notin Q
  BY <1>4
<1>6. 0..k - 1 \in F
  BY <1>4, <1>5
<1>7. 0..k - 1 \subseteq 0..k /\ 0..k - 1 # 0..k
  <2>1. k \in 0..k /\ k \notin 0..k - 1
    BY <1>4
  <2> QED BY <2>1
<1> QED BY <1>2, <1>3, <1>6, <1>7

-----------------------------------------------------------------------------
(* Folds. *)

\* The recursion of a fold over a finite set has a solution: of every set, "next" is the
\* element that comes off first.
Recursion(f, S, base, op, next) ==
  f = [s \in SUBSET S |-> IF s = {} THEN base ELSE op[next[s]][f[s \ {next[s]}]]]

\* The recursion has a solution.
LEMMA RecursionExists ==
  ASSUME NEW S, IsFiniteSet(S), NEW base, NEW op, NEW next,
         \A s \in SUBSET S : s # {} => next[s] \in s
  PROVE  \E f : Recursion(f, S, base, op, next)
<1> DEFINE Small(k) == {s \in SUBSET S : Cardinality(s) <= k}
           Fits(f, k) == \A s \in Small(k) :
                           f[s] = IF s = {} THEN base ELSE op[next[s]][f[s \ {next[s]}]]
           n == Cardinality(S)
           Q == {k \in Nat : \E f : Fits(f, k)}
<1>1. /\ n \in Nat
      /\ \A s \in SUBSET S : IsFiniteSet(s) /\ Cardinality(s) \in Nat /\ Cardinality(s) <= n
      /\ \A s \in SUBSET S : Cardinality(s) = 0 <=> s = {}
      /\ \A s \in SUBSET S : \A x \in s : Cardinality(s \ {x}) = Cardinality(s) - 1
  BY FS_CardinalityType, FS_Subset, FS_EmptySet, FS_RemoveElement
<1>2. 0 \in Q
  <2>1. Fits([s \in SUBSET S |-> base], 0)
    <3>1. \A s \in Small(0) : s = {} /\ s \in SUBSET S
      BY <1>1
    <3> QED BY <3>1
  <2> QED BY <2>1
<1>3. ASSUME NEW k \in 0..n - 1, k \in Q PROVE k + 1 \in Q
  <2>1. PICK f : Fits(f, k)
    BY <1>3
  <2> DEFINE g == [s \in SUBSET S |-> IF s = {} THEN base ELSE op[next[s]][f[s \ {next[s]}]]]
  <2>2. \A s \in Small(k) : g[s] = f[s]
    BY <2>1
  <2>3. \A s \in Small(k + 1) : s # {} => s \ {next[s]} \in Small(k)
    <3> SUFFICES ASSUME NEW s \in Small(k + 1), s # {} PROVE s \ {next[s]} \in Small(k)
      OBVIOUS
    <3>1. Cardinality(s \ {next[s]}) = Cardinality(s) - 1
      BY <1>1
    <3>2. Cardinality(s) \in Nat /\ Cardinality(s) <= k + 1
      BY <1>1
    <3> QED BY <3>1, <3>2
  <2>4. Fits(g, k + 1)
    <3> SUFFICES ASSUME NEW s \in Small(k + 1)
                 PROVE  g[s] = IF s = {} THEN base ELSE op[next[s]][g[s \ {next[s]}]]
      OBVIOUS
    <3>1. s # {} => g[s \ {next[s]}] = f[s \ {next[s]}]
      BY <2>2, <2>3
    <3> QED BY <3>1
  <2> HIDE DEF g
  <2>5. \E h : Fits(h, k + 1)
    BY <2>4
  <2> HIDE DEF Fits
  <2> QED BY <2>5
<1>4. n \in Q
  <2> HIDE DEF Q
  <2>1. \A k \in 0..n : k \in Q
    BY <1>1, <1>2, <1>3, IntervalInduction
  <2> QED BY <1>1, <2>1
<1>5. PICK f : Fits(f, n)
  BY <1>4
<1>6. \A s \in SUBSET S : s \in Small(n)
  BY <1>1
<1> DEFINE h == [s \in SUBSET S |-> f[s]]
<1>7. h = [s \in SUBSET S |-> IF s = {} THEN base ELSE op[next[s]][h[s \ {next[s]}]]]
  <2>1. \A s \in SUBSET S : h[s] = IF s = {} THEN base ELSE op[next[s]][h[s \ {next[s]}]]
    <3> SUFFICES ASSUME NEW s \in SUBSET S
                 PROVE  h[s] = IF s = {} THEN base ELSE op[next[s]][h[s \ {next[s]}]]
      OBVIOUS
    <3>1. s \ {next[s]} \in SUBSET S
      OBVIOUS
    <3>2. f[s] = IF s = {} THEN base ELSE op[next[s]][f[s \ {next[s]}]]
      BY <1>5, <1>6
    <3> QED BY <3>1, <3>2
  <2> QED BY <2>1
<1> HIDE DEF h
<1> QED BY <1>7 DEF Recursion

\* Induction over the subsets, along the recursion.
LEMMA RemovalInduction ==
  ASSUME NEW S, IsFiniteSet(S), NEW Q, {} \in Q,
         \A s \in SUBSET S : s # {} => \E x \in s : s \ {x} \in Q => s \in Q
  PROVE  SUBSET S \subseteq Q
<1> DEFINE F == (SUBSET S) \ Q
<1> SUFFICES ASSUME F # {} PROVE FALSE
  OBVIOUS
<1>1. PICK T \in F : \A U \in F : ~(U \subseteq T /\ U # T)
  <2>1. F \subseteq SUBSET S
    OBVIOUS
  <2> HIDE DEF F
  <2> QED BY <2>1, MinimalSubset
<1>2. PICK x \in T : T \ {x} \in Q => T \in Q
  OBVIOUS
<1>3. T \ {x} \notin F
  BY <1>1, <1>2
<1> QED BY <1>2, <1>3

\* Appending the elements of a set, in whatever order: each of them once.
Appended(list, S) == FoldSet(LAMBDA e, l : Append(l, e), list, S)

\* What the fold is by definition.
LEMMA AppendedIs ==
  ASSUME NEW list, NEW S
  PROVE  Appended(list, S) =
           (CHOOSE iter : iter = [s \in SUBSET S |->
              IF s = {} THEN list
              ELSE Append(iter[s \ {CHOOSE x \in s : TRUE}], CHOOSE x \in s : TRUE)])[S]
BY DEF Appended, FoldSet, MapThenFoldSet

\* A recursion whose operation stays in a set has a solution there.
LEMMA FoldExists ==
  ASSUME NEW S, IsFiniteSet(S), NEW A, NEW base \in A, NEW op, NEW next,
         \A s \in SUBSET S : s # {} => next[s] \in s,
         \A x \in S : \A a \in A : op[x][a] \in A
  PROVE  \E f \in [SUBSET S -> A] : Recursion(f, S, base, op, next)
<1>1. PICK f : Recursion(f, S, base, op, next)
  BY RecursionExists
<1> DEFINE Q == {s \in SUBSET S : f[s] \in A}
<1>2. f = [s \in SUBSET S |-> IF s = {} THEN base ELSE op[next[s]][f[s \ {next[s]}]]]
  BY <1>1 DEF Recursion
<1>3. {} \in Q
  BY <1>2
<1>4. \A s \in SUBSET S : s # {} => \E x \in s : s \ {x} \in Q => s \in Q
  <2> SUFFICES ASSUME NEW s \in SUBSET S, s # {}, s \ {next[s]} \in Q PROVE f[s] \in A
    OBVIOUS
  <2>1. next[s] \in S /\ f[s \ {next[s]}] \in A
    OBVIOUS
  <2>2. f[s] = op[next[s]][f[s \ {next[s]}]]
    BY <1>2
  <2> QED BY <2>1, <2>2
<1>5. SUBSET S \subseteq Q
  <2> HIDE DEF Q
  <2> QED BY <1>3, <1>4, RemovalInduction
<1>6. \A s \in SUBSET S : f[s] \in A
  BY <1>5
<1>7. f \in [SUBSET S -> A]
  BY <1>2, <1>6
<1> QED BY <1>1, <1>7

\* A set of numbers up to n has a greatest one.
LEMMA MaxExists ==
  ASSUME NEW n \in Nat, NEW s \in SUBSET (1..n), s # {}
  PROVE  Max(s) \in s /\ \A y \in s : y <= Max(s)
<1> DEFINE S == 1..n
           Above(x) == {y \in s : x <= y}
           F == {Above(x) : x \in s}
<1>1. IsFiniteSet(S) /\ \A x \in s : x \in Int
  BY FS_Interval
<1>2. PICK T \in F : \A U \in F : ~(U \subseteq T /\ U # T)
  <2>1. F \subseteq SUBSET S
    OBVIOUS
  <2>2. F # {}
    OBVIOUS
  <2> HIDE DEF F, S
  <2> QED BY <1>1, <2>1, <2>2, MinimalSubset
<1>3. PICK x \in s : T = Above(x)
  OBVIOUS
<1>4. ASSUME NEW y \in s PROVE y <= x
  <2> SUFFICES ASSUME x < y PROVE FALSE
    OBVIOUS
  <2>1. Above(y) \in F
    OBVIOUS
  <2>2. x \in Above(x)
    BY <1>1
  <2>3. x \notin Above(y)
    BY <1>1, <1>4
  <2>4. \A z \in Above(y) : z \in Above(x)
    BY <1>1
  <2> QED BY <1>2, <1>3, <2>1, <2>2, <2>3, <2>4
<1>5. \A y \in s : x >= y
  BY <1>1, <1>4
<1>6. Max(s) \in s /\ \A y \in s : Max(s) >= y
  BY <1>5 DEF Max
<1> QED BY <1>1, <1>6

\* What a fold over a sequence goes through, from its end.
LEMMA PrefixSteps ==
  ASSUME NEW n \in Nat
  PROVE  /\ \A k \in 1..n : 1..k \in SUBSET (1..n) /\ 1..k # {} /\ Max(1..k) = k
                            /\ (1..k) \ {k} = 1..k - 1
         /\ 1..0 = {} /\ {} \in SUBSET (1..n)
         /\ \A s \in SUBSET (1..n) : s # {} => Max(s) \in s
<1>1. ASSUME NEW k \in 1..n PROVE 1..k \in SUBSET (1..n) /\ k \in 1..k /\ (1..k) \ {k} = 1..k - 1
  OBVIOUS
<1>2. ASSUME NEW k \in 1..n PROVE Max(1..k) = k
  <2>1. Max(1..k) \in 1..k /\ \A y \in 1..k : y <= Max(1..k)
    BY <1>1, MaxExists
  <2> QED BY <1>1, <2>1
<1>3. \A s \in SUBSET (1..n) : s # {} => Max(s) \in s
  BY MaxExists
<1> QED BY <1>1, <1>2, <1>3

\* A fold over 1..n has a solution, if its operation stays in a set.
PrefixFold(f, n, A, base, op) ==
  /\ f \in [SUBSET (1..n) -> A]
  /\ \A s \in SUBSET (1..n) : f[s] = IF s = {} THEN base ELSE op[Max(s)][f[s \ {Max(s)}]]

\* The recursion over the prefixes of 1..n has a solution.
LEMMA PrefixFoldExists ==
  ASSUME NEW n \in Nat, NEW A, NEW base \in A, NEW op,
         \A k \in 1..n : \A a \in A : op[k][a] \in A
  PROVE  \E f : PrefixFold(f, n, A, base, op)
<1> DEFINE S == 1..n
           next == [s \in SUBSET S |-> Max(s)]
<1>1. IsFiniteSet(S)
  BY FS_Interval
<1>2. \A s \in SUBSET S : s # {} => next[s] \in s
  BY PrefixSteps
<1>3. \A x \in S : \A a \in A : op[x][a] \in A
  OBVIOUS
<1>4. PICK f \in [SUBSET S -> A] : Recursion(f, S, base, op, next)
  <2> HIDE DEF S, next
  <2> QED BY <1>1, <1>2, <1>3, FoldExists
<1>5. \A s \in SUBSET S : f[s] = IF s = {} THEN base ELSE op[Max(s)][f[s \ {Max(s)}]]
  BY <1>4 DEF Recursion
<1>6. PrefixFold(f, n, A, base, op)
  BY <1>5 DEF PrefixFold
<1> QED BY <1>6

\* Appending a set appends each of its elements once.
LEMMA AppendedProperties ==
  ASSUME NEW E, NEW S, S \subseteq E, IsFiniteSet(S), NEW list \in Seq(E)
  PROVE  /\ Appended(list, S) \in Seq(E)
         /\ ToSet(Appended(list, S)) = ToSet(list) \cup S
         /\ Len(Appended(list, S)) = Len(list) + Cardinality(S)
<1>0. PICK next : next = [s \in SUBSET S |-> CHOOSE x \in s : TRUE]
  OBVIOUS
<1> DEFINE op == [x \in S |-> [l \in Seq(E) |-> Append(l, x)]]
           Solves(f) == f = [s \in SUBSET S |->
              IF s = {} THEN list
              ELSE Append(f[s \ {CHOOSE x \in s : TRUE}], CHOOSE x \in s : TRUE)]
<1>1. \A s \in SUBSET S : s # {} => next[s] \in s
  BY <1>0
<1>2. \E f : Solves(f)
  <2>1. \A x \in S : \A a \in Seq(E) : op[x][a] \in Seq(E)
    BY AppendProperties
  <2>2. PICK f \in [SUBSET S -> Seq(E)] : Recursion(f, S, list, op, next)
    <3> HIDE DEF op
    <3> QED BY <1>1, <2>1, FoldExists
  <2>3. f = [s \in SUBSET S |-> IF s = {} THEN list ELSE op[next[s]][f[s \ {next[s]}]]]
    BY <2>2 DEF Recursion
  <2>4. ASSUME NEW s \in SUBSET S, s # {}
        PROVE  op[next[s]][f[s \ {next[s]}]]
                 = Append(f[s \ {CHOOSE x \in s : TRUE}], CHOOSE x \in s : TRUE)
    <3>1. next[s] = CHOOSE x \in s : TRUE
      BY <1>0
    <3>2. f[s \ {next[s]}] \in Seq(E) /\ next[s] \in S
      BY <2>2, <2>4, <1>1
    <3> QED BY <3>1, <3>2
  <2>5. Solves(f)
    <3> HIDE DEF op
    <3> QED BY <2>3, <2>4
  <2> QED BY <2>5
<1>3. PICK f : Solves(f) /\ Appended(list, S) = f[S]
  <2>1. Appended(list, S) = (CHOOSE iter : Solves(iter))[S]
    BY AppendedIs
  <2>2. Solves(CHOOSE iter : Solves(iter))
    <3> HIDE DEF Solves
    <3> QED BY <1>2
  <2> HIDE DEF Solves
  <2> QED BY <2>1, <2>2
<1> DEFINE Good(s) == /\ f[s] \in Seq(E)
                      /\ ToSet(f[s]) = ToSet(list) \cup s
                      /\ Len(f[s]) = Len(list) + Cardinality(s)
           Q == {s \in SUBSET S : Good(s)}
<1>4. {} \in Q
  BY <1>3, FS_EmptySet
<1>5. ASSUME NEW s \in SUBSET S, s # {}, s \ {next[s]} \in Q PROVE s \in Q
  <2> DEFINE x == next[s]
             r == f[s \ {x}]
  <2>1. x \in s /\ x = CHOOSE y \in s : TRUE
    BY <1>0, <1>1, <1>5
  <2>2. f[s] = Append(r, x)
    BY <1>3, <1>5, <2>1
  <2>3. /\ r \in Seq(E) /\ ToSet(r) = ToSet(list) \cup (s \ {x})
        /\ Len(r) = Len(list) + Cardinality(s \ {x})
    BY <1>5
  <2>4. IsFiniteSet(s) /\ Cardinality(s) \in Nat /\ Cardinality(s \ {x}) = Cardinality(s) - 1
    BY <2>1, FS_Subset, FS_CardinalityType, FS_RemoveElement
  <2> HIDE DEF x, r
  <2>5. x \in E /\ Append(r, x) \in Seq(E) /\ Len(Append(r, x)) = Len(r) + 1
    BY <2>1, <2>3
  <2>6. ToSet(Append(r, x)) = ToSet(r) \cup {x}
    <3>1. /\ Len(r) \in Nat /\ DOMAIN r = 1..Len(r)
          /\ DOMAIN Append(r, x) = 1..Len(r) + 1
          /\ \A i \in 1..Len(r) : Append(r, x)[i] = r[i]
          /\ Append(r, x)[Len(r) + 1] = x
      <4>1. r \in Seq(E)
        BY <2>3
      <4>2. Len(r) \in Nat /\ DOMAIN r = 1..Len(r)
        BY <4>1
      <4>3. DOMAIN Append(r, x) = 1..Len(r) + 1
        BY <2>5, <4>2
      <4>4. \A i \in 1..Len(r) : Append(r, x)[i] = r[i]
        BY <2>5, <4>1
      <4>5. Append(r, x)[Len(r) + 1] = x
        BY <2>5, <4>1
      <4> QED BY <4>2, <4>3, <4>4, <4>5
    <3>2. 1..Len(r) + 1 = (1..Len(r)) \cup {Len(r) + 1}
      BY <3>1
    <3> QED BY <3>1, <3>2 DEF ToSet
  <2>7. Len(list) \in Nat
    OBVIOUS
  <2>8. Good(s)
    BY <2>1, <2>2, <2>3, <2>4, <2>5, <2>6, <2>7
  <2> QED BY <2>8
<1>6. Q = SUBSET S
  <2>1. \A s \in SUBSET S : s # {} => \E x \in s : s \ {x} \in Q => s \in Q
    BY <1>1, <1>5
  <2>2. SUBSET S \subseteq Q
    <3> HIDE DEF Q
    <3> QED BY <1>4, <2>1, RemovalInduction
  <2> QED BY <2>2 DEF Q
<1>7. Good(S)
  <2>1. S \in Q
    BY <1>6
  <2> HIDE DEF Good
  <2> QED BY <2>1
<1> QED BY <1>3, <1>7

\* f is the recursion that adds up the first n numbers of c.
Adds(f, n, c) ==
  f = [s \in SUBSET (1..n) |-> IF s = {} THEN 0 ELSE f[s \ {Max(s)}] + c[Max(s)]]

\* t has the sums of the first k numbers of c.
PartialSum(t, n, c) ==
  /\ t \in [0..n -> Nat] /\ t[0] = 0
  /\ \A k \in 1..n : t[k] = t[k - 1] + c[k]

\* The recursion has a solution.
LEMMA AddsExists ==
  ASSUME NEW n \in Nat, NEW c \in [1..n -> Nat]
  PROVE  \E f : Adds(f, n, c)
<1>1. PICK op : \A k \in 1..n : \A a \in Nat : op[k][a] = a + c[k] /\ op[k][a] \in Nat
  <2> DEFINE op == [k \in 1..n |-> [a \in Nat |-> a + c[k]]]
  <2>1. \A k \in 1..n : \A a \in Nat : op[k][a] = a + c[k] /\ op[k][a] \in Nat
    OBVIOUS
  <2> HIDE DEF op
  <2> QED BY <2>1
<1>2. PICK f \in [SUBSET (1..n) -> Nat] :
        \A s \in SUBSET (1..n) :
          f[s] = IF s = {} THEN 0 ELSE op[Max(s)][f[s \ {Max(s)}]]
  <2>1. PICK A, base : A = Nat /\ base = 0
    OBVIOUS
  <2>2. base \in A /\ \A k \in 1..n : \A a \in A : op[k][a] \in A
    BY <1>1, <2>1
  <2>3. PICK f : PrefixFold(f, n, A, base, op)
    BY <2>2, PrefixFoldExists
  <2>4. PrefixFold(f, n, Nat, 0, op)
    BY <2>1, <2>3
  <2> QED BY <2>4 DEF PrefixFold
<1>3. \A s \in SUBSET (1..n) : f[s] = IF s = {} THEN 0 ELSE f[s \ {Max(s)}] + c[Max(s)]
  <2> SUFFICES ASSUME NEW s \in SUBSET (1..n), s # {} PROVE f[s] = f[s \ {Max(s)}] + c[Max(s)]
    BY <1>2
  <2>1. Max(s) \in 1..n /\ f[s \ {Max(s)}] \in Nat
    BY PrefixSteps
  <2> QED BY <1>1, <1>2, <2>1
<1>4. Adds(f, n, c)
  BY <1>3 DEF Adds
<1> QED BY <1>4

\* It goes through the sums of the first k numbers.
LEMMA AddsStages ==
  ASSUME NEW n \in Nat, NEW c \in [1..n -> Nat], NEW f, Adds(f, n, c)
  PROVE  \E t : PartialSum(t, n, c) /\ f[1..n] = t[n]
<1>1. f = [s \in SUBSET (1..n) |-> IF s = {} THEN 0 ELSE f[s \ {Max(s)}] + c[Max(s)]]
  BY DEF Adds
<1>2. \A s \in SUBSET (1..n) : f[s] = IF s = {} THEN 0 ELSE f[s \ {Max(s)}] + c[Max(s)]
  <2> DEFINE G(s) == IF s = {} THEN 0 ELSE f[s \ {Max(s)}] + c[Max(s)]
  <2>1. f = [s \in SUBSET (1..n) |-> G(s)]
    BY <1>1
  <2> HIDE DEF G
  <2>2. \A s \in SUBSET (1..n) : f[s] = G(s)
    BY <2>1
  <2> QED BY <2>2 DEF G
<1> DEFINE t == [k \in 0..n |-> f[1..k]]
<1>3. t[0] = 0 /\ f[1..n] = t[n]
  <2>1. t[0] = f[{}] /\ t[n] = f[1..n]
    BY PrefixSteps
  <2>2. f[{}] = 0
    BY <1>2
  <2> QED BY <1>2, <2>1, <2>2
<1>4. \A k \in 1..n : t[k] = t[k - 1] + c[k]
  <2> SUFFICES ASSUME NEW k \in 1..n PROVE f[1..k] = f[1..k - 1] + c[k]
    OBVIOUS
  <2>1. 1..k \in SUBSET (1..n) /\ 1..k # {} /\ Max(1..k) = k /\ (1..k) \ {k} = 1..k - 1
    BY PrefixSteps
  <2> QED BY <1>2, <2>1
<1>5. t \in [0..n -> Nat]
  <2> DEFINE Q == {k \in 0..n : t[k] \in Nat}
  <2>1. 0 \in Q
    BY <1>3
  <2>2. \A k \in 0..n - 1 : k \in Q => k + 1 \in Q
    <3> SUFFICES ASSUME NEW k \in 0..n - 1, t[k] \in Nat PROVE k + 1 \in 0..n /\ t[k + 1] \in Nat
      OBVIOUS
    <3>1. k + 1 \in 1..n /\ (k + 1) - 1 = k
      OBVIOUS
    <3> HIDE DEF t
    <3> QED BY <1>4, <3>1
  <2>3. \A k \in 0..n : k \in Q
    <3> HIDE DEF Q
    <3> QED BY <2>1, <2>2, IntervalInduction
  <2>4. \A k \in 0..n : t[k] \in Nat
    BY <2>3
  <2> QED BY <2>4
<1> HIDE DEF t
<1> QED BY <1>3, <1>4, <1>5 DEF PartialSum

\* A sum is the last of its partial sums.
LEMMA PartialSums ==
  ASSUME NEW n \in Nat, NEW c \in [1..n -> Nat]
  PROVE  \E t : PartialSum(t, n, c) /\ SumOf(c) = t[n]
<1>1. PICK f : Adds(f, n, c) /\ SumOf(c) = f[1..n]
  <2>1. SumOf(c) = (CHOOSE f : Adds(f, n, c))[1..n]
    BY DEF SumOf, FoldLeft, MapThenFoldSet, Adds
  <2>2. Adds((CHOOSE f : Adds(f, n, c)), n, c)
    BY AddsExists
  <2> QED BY <2>1, <2>2
<1> QED BY <1>1, AddsStages

\* A sum of natural numbers is 0 only if all of them are.
LEMMA ZeroSum ==
  ASSUME NEW n \in Nat, NEW c \in [1..n -> Nat], NEW t, PartialSum(t, n, c), t[n] = 0
  PROVE  \A k \in 1..n : c[k] = 0
<1>1. /\ t \in [0..n -> Nat] /\ \A k \in 1..n : t[k] = t[k - 1] + c[k]
  BY DEF PartialSum
<1> DEFINE Q == {k \in 0..n : t[n - k] = 0}
<1>2. 0 \in Q
  OBVIOUS
<1>3. \A k \in 0..n - 1 : k \in Q => k + 1 \in Q
  <2> SUFFICES ASSUME NEW k \in 0..n - 1, t[n - k] = 0 PROVE k + 1 \in 0..n /\ t[n - (k + 1)] = 0
    OBVIOUS
  <2>1. n - k \in 1..n /\ (n - k) - 1 = n - (k + 1) /\ n - (k + 1) \in 0..n
    OBVIOUS
  <2>2. t[n - k] = t[n - (k + 1)] + c[n - k] /\ t[n - (k + 1)] \in Nat /\ c[n - k] \in Nat
    BY <1>1, <2>1
  <2> QED BY <2>2
<1>4. \A k \in 0..n : k \in Q
  <2> HIDE DEF Q
  <2> QED BY <1>2, <1>3, IntervalInduction
<1>5. \A k \in 0..n : t[k] = 0
  <2> SUFFICES ASSUME NEW k \in 0..n PROVE t[k] = 0
    OBVIOUS
  <2>1. n - k \in 0..n /\ n - (n - k) = k
    OBVIOUS
  <2>2. t[n - (n - k)] = 0
    BY <1>4, <2>1
  <2> QED BY <2>1, <2>2
<1>6. \A k \in 1..n : k \in 0..n /\ k - 1 \in 0..n
  OBVIOUS
<1> QED BY <1>1, <1>5, <1>6

\* An interval above a natural number.
LEMMA Above ==
  ASSUME NEW lo \in Nat, NEW hi \in Nat
  PROVE  /\ \A x \in Int : x \in lo + 1..hi <=> lo < x /\ x <= hi
         /\ \A top \in Nat : hi <= top => lo + 1..hi \subseteq 1..top
OBVIOUS

\* The size of an interval of n numbers.
LEMMA IntervalSize ==
  ASSUME NEW a \in Int, NEW n \in Nat
  PROVE  IsFiniteSet(a..a + n - 1) /\ Cardinality(a..a + n - 1) = n
<1>1. PICK b : b = a + n - 1
  OBVIOUS
<1>2. b \in Int /\ b - a + 1 = n /\ (a > b => n = 0)
  BY <1>1
<1>3. IsFiniteSet(a..b) /\ Cardinality(a..b) = IF a > b THEN 0 ELSE b - a + 1
  BY <1>2, FS_Interval
<1> QED BY <1>1, <1>2, <1>3

-----------------------------------------------------------------------------
(* Arithmetic. *)

\* Division by a positive number, with its remainder.
LEMMA Division ==
  ASSUME NEW x \in Nat, NEW m \in Nat \ {0}
  PROVE  /\ x \div m \in Nat /\ x % m \in 0..m - 1
         /\ x = m * (x \div m) + (x % m)
<1>1. x = m * (x \div m) + (x % m)
  OBVIOUS
<1>2. x % m \in 0..m - 1
  OBVIOUS
<1>3. x \div m \in Int /\ x \div m >= 0
  OBVIOUS
<1> QED BY <1>1, <1>2, <1>3

\* A positive factor does not make a number smaller.
LEMMA FactorGrows ==
  ASSUME NEW q \in Nat, NEW m \in Nat \ {0}
  PROVE  m * q \in Nat /\ q <= m * q
<1>1. (m - 1) * q \in Nat
  <2>1. m - 1 \in Nat
    OBVIOUS
  <2> QED BY <2>1
<1>2. m * q = (m - 1) * q + q
  OBVIOUS
<1> QED BY <1>1, <1>2

\* No worker has more users than the run.
LEMMA TargetBound ==
  ASSUME NEW users \in Nat, NEW m \in Nat \ {0}, NEW w \in Nat
  PROVE  TargetFor(users, m, w) \in 0..users
<1> DEFINE q == users \div m
           r == users % m
<1>1. q \in Nat /\ r \in Nat /\ users = m * q + r
  BY Division
<1>2. m * q \in Nat /\ q <= m * q
  BY <1>1, FactorGrows
<1>3. TargetFor(users, m, w) = q + (IF w < r THEN 1 ELSE 0)
  BY DEF TargetFor
<1> HIDE DEF q, r
<1> QED BY <1>1, <1>2, <1>3

\* Multiplication by a natural number is monotone.
LEMMA MulMono ==
  ASSUME NEW a \in Nat, NEW b \in Nat, NEW c \in Nat, a <= b
  PROVE  c * a \in Nat /\ c * b \in Nat /\ c * a <= c * b
<1> DEFINE d == b - a
<1>1. d \in Nat /\ b = a + d
  OBVIOUS
<1>2. c * d \in Nat /\ c * a \in Nat
  BY <1>1
<1>3. c * b = c * a + c * d
  BY <1>1
<1> QED BY <1>2, <1>3

-----------------------------------------------------------------------------
(* The plan. *)

\* A remainder determines its number, together with the multiple it is added to.
LEMMA Remainder ==
  ASSUME NEW m \in Nat \ {0}, NEW r \in 0..m - 1, NEW j \in Nat
  PROVE  (r + m * j) % m = r
<1> DEFINE x == r + m * j
           a == x \div m
           b == x % m
<1>1. m * j \in Nat /\ x \in Nat
  OBVIOUS
<1>2. a \in Nat /\ b \in 0..m - 1 /\ x = m * a + b
  BY <1>1, Division
<1>3. r + m * j = m * a + b
  BY <1>2
<1> HIDE DEF a, b, x
<1>4. CASE a < j
  <2>1. m * (a + 1) <= m * j
    BY <1>2, <1>4, MulMono
  <2>2. m * (a + 1) = m * a + m
    BY <1>2
  <2> QED BY <1>2, <1>3, <2>1, <2>2
<1>5. CASE j < a
  <2>1. m * (j + 1) <= m * a
    BY <1>2, <1>5, MulMono
  <2>2. m * (j + 1) = m * j + m
    OBVIOUS
  <2> QED BY <1>2, <1>3, <2>1, <2>2
<1>6. CASE a = j
  BY <1>2, <1>3, <1>6
<1> QED BY <1>2, <1>4, <1>5, <1>6 DEF b, x

\* Every persona of every pool belongs to one worker and to one only (PersonaPool.partition).
THEOREM DealtOutOnceHolds ==
  ASSUME NEW pool \in Nat, NEW workers \in Nat \ {0}
  PROVE  DealtOutOnce(pool, workers)
<1> SUFFICES ASSUME NEW p \in 0..pool - 1
             PROVE  \E w \in 0..workers - 1 :
                      /\ p \in Partition(pool, workers, w)
                      /\ \A v \in 0..workers - 1 : p \in Partition(pool, workers, v) => v = w
  BY DEF DealtOutOnce
<1>1. p % workers \in 0..workers - 1
  BY Division
<1> QED BY <1>1 DEF Partition

\* The first k workers have k shares of the users, and as many of the remaining users as
\* there are, one each.
LEMMA TargetSums ==
  ASSUME NEW users \in Nat, NEW workers \in Nat \ {0}
  PROVE  /\ users \div workers \in Nat /\ users % workers \in 0..workers - 1
         /\ users = workers * (users \div workers) + (users % workers)
         /\ \A k \in Nat : (k + 1) * (users \div workers) = k * (users \div workers) + users \div workers
<1>1. /\ users \div workers \in Nat /\ users % workers \in 0..workers - 1
      /\ users = workers * (users \div workers) + (users % workers)
  BY Division
<1>2. \A q, k \in Nat : (k + 1) * q = k * q + q
  OBVIOUS
<1> QED BY <1>1, <1>2

\* The targets of the workers add up to the users (_target_users_for_worker).
THEOREM TargetsAddUpHolds ==
  ASSUME NEW users \in Nat, NEW workers \in Nat \ {0}
  PROVE  TargetsAddUp(users, workers)
<1> DEFINE q == users \div workers
           r == users % workers
           c == [i \in 1..workers |-> TargetFor(users, workers, i - 1)]
           Dealt(k) == k * q + (IF k < r THEN k ELSE r)
<1>1. /\ q \in Nat /\ r \in 0..workers - 1 /\ users = workers * q + r
      /\ \A k \in Nat : (k + 1) * q = k * q + q
      /\ \A k \in Nat : k * q \in Nat
  <2>1. /\ q \in Nat /\ r \in 0..workers - 1 /\ users = workers * q + r
        /\ \A k \in Nat : (k + 1) * q = k * q + q
    BY TargetSums
  <2> HIDE DEF q, r
  <2> QED BY <2>1
<1>2. \A i \in 1..workers : c[i] = q + (IF i - 1 < r THEN 1 ELSE 0) /\ c[i] \in Nat
  <2>1. \A i \in 1..workers : c[i] = q + (IF i - 1 < r THEN 1 ELSE 0)
    BY DEF TargetFor
  <2> HIDE DEF c, q, r
  <2> QED BY <1>1, <2>1
<1>3. c \in [1..workers -> Nat]
  BY <1>2
<1> HIDE DEF c, q, r
<1>4. PICK t \in [0..workers -> Nat] :
        /\ t[0] = 0 /\ SumOf(c) = t[workers]
        /\ \A k \in 1..workers : t[k] = t[k - 1] + c[k]
  BY <1>3, PartialSums DEF PartialSum
<1> DEFINE Q == {k \in 0..workers : t[k] = Dealt(k)}
<1>5. 0 \in Q
  BY <1>1, <1>4
<1>6. ASSUME NEW k \in 0..workers - 1, k \in Q PROVE k + 1 \in Q
  <2>1. k + 1 \in 1..workers /\ (k + 1) - 1 = k /\ k \in Nat /\ t[k] = Dealt(k)
    BY <1>6
  <2>2. t[k + 1] = t[k] + (q + (IF k < r THEN 1 ELSE 0))
    BY <1>2, <1>4, <2>1
  <2>3. (k + 1) * q = k * q + q /\ k * q \in Nat
    BY <1>1, <2>1
  <2>4. t[k + 1] = Dealt(k + 1)
    <3> DEFINE a == k * q
               b == (k + 1) * q
    <3>1. b = a + q /\ a \in Nat
      BY <2>3
    <3>2. t[k] = a + (IF k < r THEN k ELSE r)
      BY <2>1
    <3> HIDE DEF a, b
    <3>3. t[k + 1] = b + (IF k + 1 < r THEN k + 1 ELSE r)
      BY <1>1, <2>1, <2>2, <3>1, <3>2
    <3> QED BY <3>3 DEF b
  <2> QED BY <2>1, <2>4
<1>7. workers \in Q
  <2> HIDE DEF Q
  <2>1. \A k \in 0..workers : k \in Q
    BY <1>5, <1>6, IntervalInduction
  <2> QED BY <2>1
<1>8. SumOf(c) = users
  <2>1. t[workers] = workers * q + r
    BY <1>1, <1>7
  <2> QED BY <1>1, <1>4, <2>1
<1> QED BY <1>8 DEF TargetsAddUp, c

\* A pool with a persona for every user has, on each worker, one for each of its users.
THEOREM ShareSufficesHolds ==
  ASSUME NEW pool \in Nat, NEW users \in Nat, NEW workers \in Nat \ {0}
  PROVE  ShareSuffices(pool, users, workers)
<1> DEFINE q == users \div workers
           r == users % workers
<1>1. q \in Nat /\ r \in 0..workers - 1 /\ users = workers * q + r
  BY TargetSums
<1> SUFFICES ASSUME users <= pool, NEW w \in 0..workers - 1,
                    NEW j \in 0..TargetFor(users, workers, w) - 1
             PROVE  w + j * workers \in Partition(pool, workers, w)
  BY DEF ShareSuffices
<1>2. TargetFor(users, workers, w) = q + (IF w < r THEN 1 ELSE 0)
  BY DEF TargetFor
<1> HIDE DEF q, r
<1>3. j \in Nat /\ j * workers = workers * j /\ workers * j \in Nat
  BY <1>1, <1>2
<1>4. w + workers * j < users
  <2>1. CASE j < q
    <3>1. workers * (j + 1) <= workers * q
      BY <1>1, <1>3, <2>1, MulMono
    <3>2. workers * (j + 1) = workers * j + workers
      BY <1>3
    <3>3. workers * q \in Nat
      BY <1>1
    <3> QED BY <1>1, <1>3, <3>1, <3>2, <3>3
  <2>2. CASE ~(j < q)
    <3>1. j = q /\ w < r
      BY <1>1, <1>2, <2>2
    <3>2. workers * q \in Nat
      BY <1>1
    <3> QED BY <1>1, <3>1, <3>2
  <2> QED BY <2>1, <2>2
<1>5. (w + workers * j) % workers = w
  BY <1>3, Remainder
<1>6. w + j * workers = w + workers * j /\ w + workers * j \in 0..pool - 1
  BY <1>3, <1>4
<1> QED BY <1>5, <1>6 DEF Partition


-----------------------------------------------------------------------------
(* Blocks of elements, one after the other. *)

\* The elements of some blocks, in a list.
Listed(blocks) ==
  FoldLeft(LAMBDA all, block : FoldSet(LAMBDA e, list : Append(list, e), all, block), <<>>, blocks)

\* The recursion of this fold.
LEMMA ListedIs ==
  ASSUME NEW blocks
  PROVE  Listed(blocks) =
           (CHOOSE f : f = [s \in SUBSET (DOMAIN blocks) |->
              IF s = {} THEN <<>> ELSE Appended(f[s \ {Max(s)}], blocks[Max(s)])])[DOMAIN blocks]
BY DEF Listed, FoldLeft, MapThenFoldSet, Appended

\* l has the lists of the first k blocks.
Stages(l, n, b, E) ==
  /\ l \in [0..n -> Seq(E)]
  /\ l[0] = <<>> /\ Listed(b) = l[n]
  /\ \A k \in 1..n : l[k] = Appended(l[k - 1], b[k])

\* The fold over blocks of elements of E runs through lists of the first k blocks.
LEMMA ListedSteps ==
  ASSUME NEW E, NEW n \in Nat, NEW b, DOMAIN b = 1..n,
         \A k \in 1..n : b[k] \subseteq E /\ IsFiniteSet(b[k])
  PROVE  \E l : Stages(l, n, b, E)
<1> DEFINE Solves(f) == f = [s \in SUBSET (1..n) |->
                               IF s = {} THEN <<>> ELSE Appended(f[s \ {Max(s)}], b[Max(s)])]
<1>1. PICK f : Solves(f) /\ f \in [SUBSET (1..n) -> Seq(E)]
  <2>1. PICK op : \A k \in 1..n : \A a \in Seq(E) :
                    op[k][a] = Appended(a, b[k]) /\ op[k][a] \in Seq(E)
    <3> DEFINE op == [k \in 1..n |-> [a \in Seq(E) |-> Appended(a, b[k])]]
    <3>1. ASSUME NEW k \in 1..n, NEW a \in Seq(E) PROVE Appended(a, b[k]) \in Seq(E)
      <4>1. PICK S : S = b[k] /\ S \subseteq E /\ IsFiniteSet(S)
        OBVIOUS
      <4> QED BY <4>1, AppendedProperties
    <3>2. \A k \in 1..n : \A a \in Seq(E) : op[k][a] = Appended(a, b[k]) /\ op[k][a] \in Seq(E)
      BY <3>1
    <3> HIDE DEF op
    <3> QED BY <3>2
  <2>2. PICK A, base : A = Seq(E) /\ base = <<>>
    OBVIOUS
  <2>3. base \in A
    BY <2>2, EmptySeq
  <2>4. \A k \in 1..n : \A a \in A : op[k][a] \in A
    BY <2>1, <2>2
  <2>5. PICK f : PrefixFold(f, n, A, base, op)
    BY <2>3, <2>4, PrefixFoldExists
  <2>6. /\ f \in [SUBSET (1..n) -> Seq(E)]
        /\ \A s \in SUBSET (1..n) : f[s] = IF s = {} THEN <<>> ELSE op[Max(s)][f[s \ {Max(s)}]]
    BY <2>2, <2>5 DEF PrefixFold
  <2>7. ASSUME NEW s \in SUBSET (1..n)
        PROVE  f[s] = IF s = {} THEN <<>> ELSE Appended(f[s \ {Max(s)}], b[Max(s)])
    <3>1. CASE s = {}
      BY <2>6, <3>1
    <3>2. CASE s # {}
      <4>1. Max(s) \in 1..n /\ f[s \ {Max(s)}] \in Seq(E)
        BY <2>6, <3>2, PrefixSteps
      <4> QED BY <2>1, <2>6, <3>2, <4>1
    <3> QED BY <3>1, <3>2
  <2>8. f = [s \in SUBSET (1..n) |-> f[s]]
    BY <2>6
  <2>9. Solves(f)
    BY <2>7, <2>8
  <2> QED BY <2>6, <2>9
<1>2. PICK g : Solves(g) /\ Listed(b) = g[1..n]
  <2>1. Listed(b) = (CHOOSE h : Solves(h))[1..n]
    BY ListedIs
  <2> HIDE DEF Solves
  <2>2. Solves(CHOOSE h : Solves(h))
    BY <1>1
  <2> QED BY <2>1, <2>2
<1> DEFINE Q == {k \in 0..n : g[1..k] \in Seq(E)}
           l == [k \in 0..n |-> g[1..k]]
<1>3. g[1..0] = <<>>
  BY <1>2, PrefixSteps
<1>4. \A k \in 1..n : g[1..k] = Appended(g[1..k - 1], b[k])
  <2> SUFFICES ASSUME NEW k \in 1..n PROVE g[1..k] = Appended(g[1..k - 1], b[k])
    OBVIOUS
  <2>1. \A s \in SUBSET (1..n) : s # {} => g[s] = Appended(g[s \ {Max(s)}], b[Max(s)])
    BY <1>2
  <2>2. 1..k \in SUBSET (1..n) /\ 1..k # {} /\ Max(1..k) = k /\ (1..k) \ {k} = 1..k - 1
    BY PrefixSteps
  <2> HIDE DEF Solves
  <2>3. g[1..k] = Appended(g[(1..k) \ {k}], b[k])
    BY <2>1, <2>2
  <2> QED BY <2>2, <2>3
<1>5. \A k \in 0..n : k \in Q
  <2>1. 0 \in Q
    <3>1. g[1..0] \in Seq(E) /\ 0 \in 0..n
      BY <1>3, EmptySeq
    <3> QED BY <3>1
  <2>2. ASSUME NEW k \in 0..n - 1, k \in Q PROVE k + 1 \in Q
    <3>1. k + 1 \in 1..n /\ k + 1 \in 0..n /\ (k + 1) - 1 = k
      OBVIOUS
    <3>2. g[1..k] \in Seq(E)
      BY <2>2
    <3>3. g[1..k + 1] = Appended(g[1..k], b[k + 1])
      BY <1>4, <3>1
    <3>4. PICK S, r : S = b[k + 1] /\ S \subseteq E /\ IsFiniteSet(S) /\ r = g[1..k] /\ r \in Seq(E)
      BY <3>1, <3>2
    <3>5. Appended(r, S) \in Seq(E)
      BY <3>4, AppendedProperties
    <3> QED BY <3>1, <3>3, <3>4, <3>5
  <2>3. \A k \in 0..n - 1 : k \in Q => k + 1 \in Q
    BY <2>2
  <2> HIDE DEF Q
  <2> QED BY <2>1, <2>3, IntervalInduction
<1>6. l \in [0..n -> Seq(E)] /\ l[0] = <<>> /\ l[n] = g[1..n]
  BY <1>3, <1>5
<1>7. \A k \in 1..n : l[k] = Appended(l[k - 1], b[k])
  <2>1. \A k \in 1..n : k \in 0..n /\ k - 1 \in 0..n
    OBVIOUS
  <2> QED BY <1>4, <2>1
<1> HIDE DEF l
<1> QED BY <1>2, <1>6, <1>7 DEF Stages

\* No two blocks have an element in common.
DisjointBlocks(b, n, E) ==
  /\ DOMAIN b = 1..n
  /\ \A k \in 1..n : b[k] \subseteq E /\ IsFiniteSet(b[k])
  /\ \A i, j \in 1..n : i # j => b[i] \cap b[j] = {}

\* The elements of the blocks, each once.
ListedOnce(b, n, E) ==
  /\ Listed(b) \in Seq(E)
  /\ ToSet(Listed(b)) = UNION {b[i] : i \in 1..n}
  /\ Len(Listed(b)) = Cardinality(UNION {b[i] : i \in 1..n})

\* Disjoint blocks list each element of their union once.
LEMMA ListedProperties ==
  ASSUME NEW E, NEW n \in Nat, NEW b, DisjointBlocks(b, n, E)
  PROVE  ListedOnce(b, n, E)
<1>0. /\ DOMAIN b = 1..n
      /\ \A k \in 1..n : b[k] \subseteq E /\ IsFiniteSet(b[k])
      /\ \A i, j \in 1..n : i # j => b[i] \cap b[j] = {}
  BY DEF DisjointBlocks
<1>1. PICK l \in [0..n -> Seq(E)] :
        /\ l[0] = <<>> /\ Listed(b) = l[n]
        /\ \A k \in 1..n : l[k] = Appended(l[k - 1], b[k])
  <2>1. PICK l : Stages(l, n, b, E)
    BY <1>0, ListedSteps
  <2> QED BY <2>1 DEF Stages
<1> DEFINE Union(k) == UNION {b[i] : i \in 1..k}
           Good(k) == /\ IsFiniteSet(Union(k)) /\ ToSet(l[k]) = Union(k)
                      /\ Len(l[k]) = Cardinality(Union(k))
           Q == {k \in 0..n : Good(k)}
<1>2. 0 \in Q
  <2>1. Union(0) = {} /\ 0 \in 0..n
    OBVIOUS
  <2>2. ToSet(<<>>) = {} /\ Len(<<>>) = 0
    BY DEF ToSet
  <2> HIDE DEF Union
  <2>3. IsFiniteSet(Union(0)) /\ Cardinality(Union(0)) = 0
    BY <2>1, FS_EmptySet
  <2> QED BY <1>1, <2>1, <2>2, <2>3
<1>3. ASSUME NEW k \in 0..n - 1, k \in Q PROVE k + 1 \in Q
  <2>1. k + 1 \in 1..n /\ k + 1 \in 0..n /\ (k + 1) - 1 = k /\ k \in 0..n
    OBVIOUS
  <2>2. Union(k + 1) = Union(k) \cup b[k + 1]
    <3>1. 1..k + 1 = (1..k) \cup {k + 1}
      OBVIOUS
    <3> QED BY <3>1
  <2>3. Union(k) \cap b[k + 1] = {}
    <3>1. \A i \in 1..k : i \in 1..n /\ i # k + 1
      OBVIOUS
    <3>2. \A i \in 1..k : b[i] \cap b[k + 1] = {}
      BY <1>0, <2>1, <3>1
    <3> QED BY <3>2
  <2>4. Good(k)
    BY <1>3
  <2>5. PICK r, S, U : /\ r = l[k] /\ r \in Seq(E) /\ S = b[k + 1] /\ S \subseteq E /\ IsFiniteSet(S)
                       /\ U = Union(k)
    BY <1>0, <2>1
  <2>6. /\ ToSet(Appended(r, S)) = ToSet(r) \cup S
        /\ Len(Appended(r, S)) = Len(r) + Cardinality(S)
    BY <2>5, AppendedProperties
  <2>7. l[k + 1] = Appended(r, S)
    BY <1>1, <2>1, <2>5
  <2> HIDE DEF Union
  <2>8. IsFiniteSet(U) /\ ToSet(r) = U /\ Len(r) = Cardinality(U) /\ U \cap S = {}
    BY <2>3, <2>4, <2>5
  <2>9. IsFiniteSet(U \cup S) /\ Cardinality(U \cup S) = Cardinality(U) + Cardinality(S)
    <3>1. /\ IsFiniteSet(U \cup S)
          /\ Cardinality(U \cup S) = Cardinality(U) + Cardinality(S) - Cardinality(U \cap S)
      BY <2>5, <2>8, FS_Union
    <3>2. Cardinality(U) \in Nat /\ Cardinality(S) \in Nat /\ Cardinality(U \cap S) = 0
      BY <2>5, <2>8, FS_CardinalityType, FS_EmptySet
    <3> QED BY <3>1, <3>2
  <2>10. Union(k + 1) = U \cup S
    BY <2>2, <2>5
  <2>11. Good(k + 1)
    BY <2>6, <2>7, <2>8, <2>9, <2>10
  <2> QED BY <2>1, <2>11
<1>4. \A k \in 0..n : k \in Q
  <2>1. \A k \in 0..n - 1 : k \in Q => k + 1 \in Q
    BY <1>3
  <2> HIDE DEF Q
  <2> QED BY <1>2, <2>1, IntervalInduction
<1>5. Good(n)
  <2>1. n \in 0..n
    OBVIOUS
  <2> QED BY <1>4, <2>1
<1> HIDE DEF Union
<1>6. Listed(b) \in Seq(E) /\ ToSet(Listed(b)) = Union(n) /\ Len(Listed(b)) = Cardinality(Union(n))
  BY <1>1, <1>5
<1> QED BY <1>6 DEF Union, ListedOnce

-----------------------------------------------------------------------------
(* Sums. *)

\* A sum of natural numbers is one.
LEMMA SumIsNat ==
  ASSUME NEW n \in Nat, NEW c \in [1..n -> Nat]
  PROVE  SumOf(c) \in Nat
<1>1. PICK t : PartialSum(t, n, c) /\ SumOf(c) = t[n]
  BY PartialSums
<1> QED BY <1>1 DEF PartialSum

\* A sum grows with its numbers.
LEMMA SumMono ==
  ASSUME NEW n \in Nat, NEW a \in [1..n -> Nat], NEW b \in [1..n -> Nat],
         \A i \in 1..n : a[i] <= b[i]
  PROVE  SumOf(a) <= SumOf(b)
<1>1. PICK t : PartialSum(t, n, a) /\ SumOf(a) = t[n]
  BY PartialSums
<1>2. PICK u : PartialSum(u, n, b) /\ SumOf(b) = u[n]
  BY PartialSums
<1> DEFINE Q == {k \in 0..n : t[k] <= u[k]}
<1>3. 0 \in Q
  BY <1>1, <1>2 DEF PartialSum
<1>4. ASSUME NEW k \in 0..n - 1, k \in Q PROVE k + 1 \in Q
  <2>1. k + 1 \in 1..n /\ (k + 1) - 1 = k /\ k \in 0..n /\ k + 1 \in 0..n
    OBVIOUS
  <2>2. t[k + 1] = t[k] + a[k + 1] /\ u[k + 1] = u[k] + b[k + 1]
    BY <1>1, <1>2, <2>1 DEF PartialSum
  <2>3. t[k] \in Nat /\ u[k] \in Nat /\ a[k + 1] \in Nat /\ b[k + 1] \in Nat
    BY <1>1, <1>2, <2>1 DEF PartialSum
  <2> QED BY <1>4, <2>1, <2>2, <2>3
<1>5. n \in Q
  <2> HIDE DEF Q
  <2>1. \A k \in 0..n : k \in Q
    BY <1>3, <1>4, IntervalInduction
  <2> QED BY <2>1
<1> QED BY <1>1, <1>2, <1>5

\* A product over a sum.
LEMMA Distributes ==
  ASSUME NEW m \in Nat, NEW a \in Nat, NEW b \in Nat
  PROVE  m * (a + b) = m * a + m * b /\ m * a \in Nat /\ m * b \in Nat
OBVIOUS

\* A factor of all numbers is one of their sum.
LEMMA SumScaled ==
  ASSUME NEW n \in Nat, NEW c \in [1..n -> Nat], NEW m \in Nat,
         NEW d \in [1..n -> Nat], \A i \in 1..n : d[i] = m * c[i]
  PROVE  SumOf(d) = m * SumOf(c)
<1>1. PICK t : PartialSum(t, n, c) /\ SumOf(c) = t[n]
  BY PartialSums
<1>2. PICK u : PartialSum(u, n, d) /\ SumOf(d) = u[n]
  BY PartialSums
<1> DEFINE Q == {k \in 0..n : u[k] = m * t[k]}
<1>3. 0 \in Q
  BY <1>1, <1>2 DEF PartialSum
<1>4. ASSUME NEW k \in 0..n - 1, k \in Q PROVE k + 1 \in Q
  <2>1. k + 1 \in 1..n /\ (k + 1) - 1 = k /\ k \in 0..n /\ k + 1 \in 0..n
    OBVIOUS
  <2>2. t[k + 1] = t[k] + c[k + 1] /\ u[k + 1] = u[k] + m * c[k + 1]
    BY <1>1, <1>2, <2>1 DEF PartialSum
  <2>3. t[k] \in Nat /\ c[k + 1] \in Nat
    BY <1>1, <2>1 DEF PartialSum
  <2>4. m * (t[k] + c[k + 1]) = m * t[k] + m * c[k + 1]
    BY <2>3, Distributes
  <2> QED BY <1>4, <2>1, <2>2, <2>4
<1>5. n \in Q
  <2> HIDE DEF Q
  <2>1. \A k \in 0..n : k \in Q
    BY <1>3, <1>4, IntervalInduction
  <2> QED BY <2>1
<1> QED BY <1>1, <1>2, <1>5

\* One more of one number is one more in all.
LEMMA SumBumped ==
  ASSUME NEW n \in Nat, NEW c \in [1..n -> Nat], NEW x \in 1..n,
         NEW d \in [1..n -> Nat], d = [c EXCEPT ![x] = @ + 1]
  PROVE  SumOf(d) = SumOf(c) + 1
<1>1. PICK t : PartialSum(t, n, c) /\ SumOf(c) = t[n]
  BY PartialSums
<1>2. PICK u : PartialSum(u, n, d) /\ SumOf(d) = u[n]
  BY PartialSums
<1> DEFINE Q == {k \in 0..n : u[k] = t[k] + (IF k < x THEN 0 ELSE 1)}
<1>3. 0 \in Q
  BY <1>1, <1>2 DEF PartialSum
<1>4. ASSUME NEW k \in 0..n - 1, k \in Q PROVE k + 1 \in Q
  <2>1. k + 1 \in 1..n /\ (k + 1) - 1 = k /\ k \in 0..n /\ k + 1 \in 0..n
    OBVIOUS
  <2>2. t[k + 1] = t[k] + c[k + 1] /\ u[k + 1] = u[k] + d[k + 1]
    BY <1>1, <1>2, <2>1 DEF PartialSum
  <2>3. t[k] \in Nat /\ c[k + 1] \in Nat
    BY <1>1, <2>1 DEF PartialSum
  <2>4. d[k + 1] = IF k + 1 = x THEN c[k + 1] + 1 ELSE c[k + 1]
    BY <2>1
  <2> QED BY <1>4, <2>1, <2>2, <2>3, <2>4
<1>5. n \in Q
  <2> HIDE DEF Q
  <2>1. \A k \in 0..n : k \in Q
    BY <1>3, <1>4, IntervalInduction
  <2> QED BY <2>1
<1>6. t[n] \in Nat
  BY <1>1 DEF PartialSum
<1> QED BY <1>1, <1>2, <1>5, <1>6

\* A sum is at least each of its numbers.
LEMMA SumPositive ==
  ASSUME NEW n \in Nat \ {0}, NEW c \in [1..n -> Nat \ {0}]
  PROVE  SumOf(c) \in Nat \ {0}
<1>1. PICK t : PartialSum(t, n, c) /\ SumOf(c) = t[n]
  BY PartialSums
<1>2. c \in [1..n -> Nat] /\ c[1] # 0 /\ 1 \in 1..n
  OBVIOUS
<1>3. SumOf(c) # 0
  <2> SUFFICES ASSUME SumOf(c) = 0 PROVE FALSE
    OBVIOUS
  <2>1. \A k \in 1..n : c[k] = 0
    BY <1>1, <1>2, ZeroSum
  <2> QED BY <1>2, <2>1
<1> QED BY <1>2, <1>3, SumIsNat

\* The greatest of some numbers, the last one of equals.
LEMMA ArgMax ==
  ASSUME NEW n \in Nat \ {0}, NEW s \in [1..n -> Int]
  PROVE  \E i \in 1..n : \A j \in 1..n : s[j] <= s[i] /\ (s[j] = s[i] => j <= i)
<1> DEFINE Top(i, k) == i \in 1..k /\ \A j \in 1..k : s[j] <= s[i] /\ (s[j] = s[i] => j <= i)
           Q == {k \in 0..n : k = 0 \/ \E i \in 1..n : Top(i, k)}
<1>1. 0 \in Q
  OBVIOUS
<1>2. ASSUME NEW k \in 0..n - 1, k \in Q PROVE k + 1 \in Q
  <2>1. k + 1 \in 1..n /\ k + 1 \in 0..n /\ 1..k + 1 = 1..k \cup {k + 1} /\ 1..k \subseteq 1..n
    OBVIOUS
  <2>2. \A i \in 1..n : s[i] \in Int
    OBVIOUS
  <2>3. CASE k = 0
    <3>1. k + 1 \in 1..k + 1 /\ \A j \in 1..k + 1 : j = k + 1
      BY <2>3
    <3>2. Top(k + 1, k + 1)
      BY <2>2, <2>1, <3>1
    <3> QED BY <2>1, <3>2
  <2>4. CASE k # 0
    <3>1. PICK i \in 1..n : Top(i, k)
      BY <1>2, <2>4
    <3>2. CASE s[i] <= s[k + 1]
      <4>1. \A j \in 1..k : s[j] <= s[k + 1] /\ j <= k + 1
        BY <2>1, <2>2, <3>1, <3>2
      <4>2. Top(k + 1, k + 1)
        BY <2>1, <2>2, <4>1
      <4> QED BY <2>1, <4>2
    <3>3. CASE ~(s[i] <= s[k + 1])
      <4>1. Top(i, k + 1)
        BY <2>1, <2>2, <3>1, <3>3
      <4> QED BY <2>1, <4>1
    <3> QED BY <3>2, <3>3
  <2> QED BY <2>3, <2>4
<1>3. n \in Q
  <2> HIDE DEF Q
  <2>1. \A k \in 0..n : k \in Q
    BY <1>1, <1>2, IntervalInduction
  <2> QED BY <2>1
<1> QED BY <1>3

-----------------------------------------------------------------------------
(* Locales. *)

\* By how much a locale with a weight is below its share.
Missing(pool, total, weight, count) == pool * weight - count * total

\* The counts stay less than one away from the shares, in total units.
NearShares(pool, weights, counts) ==
  \A i \in DOMAIN weights :
    /\ -SumOf(weights) < Missing(pool, SumOf(weights), weights[i], counts[i])
    /\ Missing(pool, SumOf(weights), weights[i], counts[i]) < SumOf(weights)

\* There are numbers with a factor more, and so has their sum.
LEMMA Scaled ==
  ASSUME NEW n \in Nat, NEW c \in [1..n -> Nat], NEW m \in Nat
  PROVE  \E d \in [1..n -> Nat] : (\A i \in 1..n : d[i] = m * c[i]) /\ SumOf(d) = m * SumOf(c)
<1>1. PICK d : d = [i \in 1..n |-> m * c[i]]
  OBVIOUS
<1>2. d \in [1..n -> Nat] /\ \A i \in 1..n : d[i] = m * c[i]
  BY <1>1
<1> QED BY <1>2, SumScaled

\* A multiple that is at most another one has at most its factor.
LEMMA FactorLess ==
  ASSUME NEW m \in Nat \ {0}, NEW s \in Nat, NEW t \in Nat, m * s <= m * t
  PROVE  s <= t
<1> SUFFICES ASSUME t < s PROVE FALSE
  OBVIOUS
<1>1. t + 1 \in Nat /\ m \in Nat /\ t + 1 <= s
  OBVIOUS
<1>2. m * (t + 1) <= m * s
  BY <1>1, MulMono
<1>3. PICK a \in Nat, b \in Nat : a = m * s /\ b = m * t
  BY <1>1
<1>4. m * (t + 1) = b + m
  BY <1>1, <1>3
<1>5. a <= b /\ b + m <= a
  BY <1>2, <1>3, <1>4
<1> QED BY <1>5

\* The shares of a pool rounded down; one more at i; one more at the locale that misses most.
Rounded(pool, weights) == [i \in DOMAIN weights |-> (pool * weights[i]) \div SumOf(weights)]
Bumped(counts, i) == [counts EXCEPT ![i] = @ + 1]
BestBumped(pool, weights, counts, more) == more = Bumped(counts, Best(pool, weights, counts))

\* The shares rounded down are near them, and leave nobody too many.
LEMMA WholeShares ==
  ASSUME NEW pool \in Nat, NEW n \in Nat, n # 0, NEW weights \in [1..n -> Nat \ {0}],
         NEW whole, whole = Rounded(pool, weights)
  PROVE  /\ whole \in [1..n -> Nat]
         /\ NearShares(pool, weights, whole)
         /\ SumOf(whole) <= pool
<1> DEFINE total == SumOf(weights)
<1>1. total \in Nat \ {0} /\ DOMAIN weights = 1..n /\ weights \in [1..n -> Nat]
  BY SumPositive
<1> HIDE DEF total
<1>2. ASSUME NEW i \in 1..n
      PROVE  \E x \in Nat, y \in Nat :
               /\ x = pool * weights[i] /\ y = total * whole[i] /\ y = whole[i] * total
               /\ whole[i] \in Nat /\ y <= x /\ x < y + total
  <2>1. PICK x \in Nat : x = pool * weights[i]
    BY <1>1
  <2>2. /\ x \div total \in Nat /\ x % total \in 0..total - 1
        /\ x = total * (x \div total) + (x % total)
    BY <1>1, Division
  <2>3. whole[i] = x \div total
    BY <1>1, <2>1 DEF total, Rounded
  <2>4. PICK c \in Nat : c = whole[i]
    BY <2>2, <2>3
  <2>5. PICK y \in Nat : y = total * c /\ y = c * total
    BY <1>1
  <2>6. x = y + (x % total)
    BY <2>2, <2>3, <2>4, <2>5
  <2>7. y <= x /\ x < y + total
    BY <1>1, <2>2, <2>6
  <2> QED BY <2>1, <2>4, <2>5, <2>7
<1>3. whole \in [1..n -> Nat]
  <2>1. \A i \in 1..n : whole[i] \in Nat
    BY <1>2
  <2>2. whole = [i \in 1..n |-> whole[i]]
    BY <1>1 DEF Rounded
  <2> QED BY <2>1, <2>2
<1>4. NearShares(pool, weights, whole)
  <2> SUFFICES ASSUME NEW i \in 1..n
               PROVE  /\ -total < Missing(pool, total, weights[i], whole[i])
                      /\ Missing(pool, total, weights[i], whole[i]) < total
    BY <1>1 DEF NearShares, total
  <2>1. PICK x \in Nat, y \in Nat :
               /\ x = pool * weights[i] /\ y = whole[i] * total
               /\ y <= x /\ x < y + total
    BY <1>2
  <2>2. PICK z \in Int : z = Missing(pool, total, weights[i], whole[i]) /\ z = x - y
    BY <2>1 DEF Missing
  <2>3. -total < z /\ z < total
    <3>1. /\ total \in Nat /\ x \in Nat /\ y \in Nat /\ z \in Int
          /\ y <= x /\ x < y + total /\ z = x - y
      BY <1>1, <2>1, <2>2
    <3> QED BY <3>1
  <2> QED BY <2>2, <2>3
<1>5. SumOf(whole) <= pool
  <2>1. total \in Nat /\ n \in Nat
    BY <1>1
  <2>2. PICK a \in [1..n -> Nat] :
          (\A i \in 1..n : a[i] = total * whole[i]) /\ SumOf(a) = total * SumOf(whole)
    BY <1>3, <2>1, Scaled
  <2>3. PICK b \in [1..n -> Nat] :
          (\A i \in 1..n : b[i] = pool * weights[i]) /\ SumOf(b) = pool * SumOf(weights)
    BY <1>1, <2>1, Scaled
  <2>4. ASSUME NEW i \in 1..n PROVE a[i] <= b[i]
    BY <1>2, <2>2, <2>3
  <2>5. a \in [1..n -> Nat] /\ b \in [1..n -> Nat] /\ \A i \in 1..n : a[i] <= b[i]
    BY <2>2, <2>3, <2>4
  <2>6. SumOf(a) <= SumOf(b)
    BY <2>1, <2>5, SumMono
  <2>7. SumOf(whole) \in Nat /\ SumOf(weights) = total
    BY <1>3, <2>1, SumIsNat DEF total
  <2>8. total * SumOf(whole) <= total * pool
    <3>1. pool * total = total * pool
      BY <2>1
    <3> QED BY <2>2, <2>3, <2>6, <2>7, <3>1
  <2> QED BY <1>1, <2>7, <2>8, FactorLess
<1> QED BY <1>3, <1>4, <1>5

\* As long as personas are missing the best locale is one that is below its share.
LEMMA BestIs ==
  ASSUME NEW pool \in Nat, NEW n \in Nat, n # 0, NEW weights \in [1..n -> Nat \ {0}],
         NEW counts \in [1..n -> Nat], SumOf(counts) < pool
  PROVE  /\ Best(pool, weights, counts) \in 1..n
         /\ Missing(pool, SumOf(weights), weights[Best(pool, weights, counts)],
                    counts[Best(pool, weights, counts)]) > 0
<1> DEFINE total == SumOf(weights)
           score == [i \in 1..n |-> pool * weights[i] - counts[i] * total]
           best == Best(pool, weights, counts)
<1>1. total \in Nat \ {0} /\ DOMAIN weights = 1..n /\ weights \in [1..n -> Nat]
  BY SumPositive
<1> HIDE DEF total
<1>2. \A i \in 1..n : pool * weights[i] \in Nat /\ counts[i] * total \in Nat
  BY <1>1
<1>3. score \in [1..n -> Int]
  <2>1. ASSUME NEW i \in 1..n PROVE pool * weights[i] - counts[i] * total \in Int
    <3>1. PICK x \in Nat, y \in Nat : x = pool * weights[i] /\ y = counts[i] * total
      BY <1>2
    <3> QED BY <3>1
  <2> QED BY <2>1
<1>4. best \in 1..n /\ \A j \in 1..n : score[j] <= score[best]
  <2>1. \E i \in 1..n : \A j \in 1..n : score[j] <= score[i] /\ (score[j] = score[i] => j <= i)
    <3> HIDE DEF score
    <3> QED BY <1>3, ArgMax
  <2>2. best = CHOOSE i \in 1..n :
                 \A j \in 1..n : score[j] <= score[i] /\ (score[j] = score[i] => j <= i)
    BY <1>1 DEF Best, total
  <2> HIDE DEF score, best
  <2> QED BY <2>1, <2>2
<1>5. score[best] > 0
  <2> SUFFICES ASSUME ~(score[best] > 0) PROVE FALSE
    OBVIOUS
  <2>1. \A i \in 1..n : score[i] <= 0
    <3> HIDE DEF score, best
    <3>1. \A i \in 1..n : score[i] \in Int
      BY <1>3
    <3> QED BY <1>4, <3>1
  <2>2. total \in Nat /\ n \in Nat
    BY <1>1
  <2>3. PICK a \in [1..n -> Nat] :
          (\A i \in 1..n : a[i] = pool * weights[i]) /\ SumOf(a) = pool * SumOf(weights)
    BY <1>1, <2>2, Scaled
  <2>4. PICK b \in [1..n -> Nat] :
          (\A i \in 1..n : b[i] = total * counts[i]) /\ SumOf(b) = total * SumOf(counts)
    BY <2>2, Scaled
  <2>5. ASSUME NEW i \in 1..n PROVE a[i] <= b[i]
    <3>1. PICK x \in Nat, y \in Nat : x = pool * weights[i] /\ y = counts[i] * total
      BY <1>2
    <3>2. counts[i] * total = total * counts[i]
      BY <2>2
    <3>3. a[i] = x /\ b[i] = y /\ score[i] = x - y
      BY <2>3, <2>4, <3>1, <3>2
    <3>4. x \in Nat /\ y \in Nat /\ score[i] <= 0
      BY <2>1, <3>1
    <3> HIDE DEF score
    <3> QED BY <3>3, <3>4
  <2>6. a \in [1..n -> Nat] /\ b \in [1..n -> Nat] /\ \A i \in 1..n : a[i] <= b[i]
    BY <2>3, <2>4, <2>5
  <2>7. SumOf(a) <= SumOf(b)
    BY <2>2, <2>6, SumMono
  <2>9. SumOf(counts) \in Nat /\ SumOf(weights) = total
    BY <2>2, SumIsNat DEF total
  <2>10. total * pool <= total * SumOf(counts)
    <3>1. pool * total = total * pool
      BY <2>2
    <3> QED BY <2>3, <2>4, <2>7, <2>9, <3>1
  <2>11. pool <= SumOf(counts)
    BY <1>1, <2>9, <2>10, FactorLess
  <2> QED BY <2>9, <2>11
<1> QED BY <1>4, <1>5 DEF Missing, total

\* A persona more for the best locale keeps the counts near the shares.
LEMMA BestAdded ==
  ASSUME NEW pool \in Nat, NEW n \in Nat, n # 0, NEW weights \in [1..n -> Nat \ {0}],
         NEW counts \in [1..n -> Nat], SumOf(counts) < pool, NearShares(pool, weights, counts),
         NEW more, BestBumped(pool, weights, counts, more)
  PROVE  /\ more \in [1..n -> Nat]
         /\ SumOf(more) = SumOf(counts) + 1
         /\ NearShares(pool, weights, more)
<1> DEFINE total == SumOf(weights)
           best == Best(pool, weights, counts)
<1>1. total \in Nat \ {0} /\ DOMAIN weights = 1..n
  BY SumPositive
<1>2. best \in 1..n /\ Missing(pool, total, weights[best], counts[best]) > 0
  BY BestIs
<1> HIDE DEF total, best
<1>3. more \in [1..n -> Nat] /\ SumOf(more) = SumOf(counts) + 1
  <2>1. more = [counts EXCEPT ![best] = @ + 1] /\ more \in [1..n -> Nat]
    BY <1>2 DEF best, Bumped, BestBumped
  <2> QED BY <1>2, <2>1, SumBumped
<1>4. ASSUME NEW i \in 1..n
      PROVE  /\ -total < Missing(pool, total, weights[i], more[i])
             /\ Missing(pool, total, weights[i], more[i]) < total
  <2>1. /\ -total < Missing(pool, total, weights[i], counts[i])
        /\ Missing(pool, total, weights[i], counts[i]) < total
    BY <1>1 DEF NearShares, total
  <2>2. CASE i # best
    <3>1. more[i] = counts[i]
      BY <1>2, <2>2 DEF best, Bumped, BestBumped
    <3> QED BY <2>1, <3>1
  <2>3. CASE i = best
    <3>1. more[i] = counts[i] + 1
      BY <1>2, <2>3 DEF best, Bumped, BestBumped
    <3>2. PICK t, w, c, d : t = total /\ w = weights[i] /\ c = counts[i] /\ d = more[i]
      OBVIOUS
    <3>3. t \in Nat /\ w \in Nat /\ c \in Nat /\ d = c + 1
      BY <1>1, <3>1, <3>2
    <3>4. PICK x \in Nat, y \in Nat : x = pool * w /\ y = c * t
      BY <3>3
    <3>5. d * t = y + t
      BY <3>3, <3>4
    <3>6. Missing(pool, t, w, c) = x - y
      BY <3>4 DEF Missing
    <3>7. Missing(pool, t, w, d) = x - (y + t)
      BY <3>4, <3>5 DEF Missing
    <3>8. /\ x \in Nat /\ y \in Nat /\ t \in Nat
          /\ -t < x - y /\ x - y < t /\ x - y > 0
      BY <1>2, <2>1, <2>3, <3>2, <3>3, <3>4, <3>6
    <3>9. -t < x - (y + t) /\ x - (y + t) < t
      BY <3>8
    <3> QED BY <3>2, <3>7, <3>9
  <2> QED BY <2>2, <2>3
<1> QED BY <1>1, <1>3, <1>4 DEF NearShares, total

\* f is the recursion that gives m more personas to the best locales.
Gives(f, m, whole, pool, weights) ==
  f = [s \in SUBSET (1..m) |->
        IF s = {} THEN whole
        ELSE Bumped(f[s \ {Max(s)}], Best(pool, weights, f[s \ {Max(s)}]))]

\* One more at a place is a list of as many numbers.
LEMMA BumpedType ==
  ASSUME NEW n \in Nat, NEW counts \in [1..n -> Nat], NEW i
  PROVE  Bumped(counts, i) \in [1..n -> Nat]
<1>1. Bumped(counts, i) = [j \in 1..n |-> IF j = i THEN counts[i] + 1 ELSE counts[j]]
  BY DEF Bumped
<1>2. \A j \in 1..n : (IF j = i THEN counts[i] + 1 ELSE counts[j]) \in Nat
  OBVIOUS
<1> QED BY <1>1, <1>2

\* The recursion is a function, so that the CHOOSE of FoldFunction finds it.
LEMMA GivesExists ==
  ASSUME NEW m \in Nat, NEW n \in Nat, NEW whole \in [1..n -> Nat], NEW pool, NEW weights
  PROVE  \E f : Gives(f, m, whole, pool, weights)
<1> DEFINE A == [1..n -> Nat]
<1>1. PICK op : \A k \in 1..m : \A a \in A :
                  op[k][a] = Bumped(a, Best(pool, weights, a)) /\ op[k][a] \in A
  <2> DEFINE op == [k \in 1..m |-> [a \in A |-> Bumped(a, Best(pool, weights, a))]]
  <2>1. ASSUME NEW k \in 1..m, NEW a \in A
        PROVE  op[k][a] = Bumped(a, Best(pool, weights, a)) /\ op[k][a] \in A
    <3>1. Bumped(a, Best(pool, weights, a)) \in A
      BY BumpedType
    <3> QED BY <3>1
  <2> HIDE DEF op
  <2> QED BY <2>1
<1> HIDE DEF A
<1>2. PICK f : PrefixFold(f, m, A, whole, op)
  BY <1>1, PrefixFoldExists DEF A
<1>3. /\ f \in [SUBSET (1..m) -> A]
      /\ \A s \in SUBSET (1..m) : f[s] = IF s = {} THEN whole ELSE op[Max(s)][f[s \ {Max(s)}]]
  BY <1>2 DEF PrefixFold
<1>4. \A s \in SUBSET (1..m) :
        f[s] = IF s = {} THEN whole
               ELSE Bumped(f[s \ {Max(s)}], Best(pool, weights, f[s \ {Max(s)}]))
  <2> SUFFICES ASSUME NEW s \in SUBSET (1..m), s # {}
               PROVE  f[s] = Bumped(f[s \ {Max(s)}], Best(pool, weights, f[s \ {Max(s)}]))
    BY <1>3
  <2>1. Max(s) \in 1..m /\ f[s \ {Max(s)}] \in A
    BY <1>3, PrefixSteps
  <2> QED BY <1>1, <1>3, <2>1
<1> QED BY <1>3, <1>4 DEF Gives

\* The counts of the locales grow one at a time from the whole shares.
LEMMA CountSteps ==
  ASSUME NEW pool \in Nat, NEW n \in Nat, n # 0, NEW weights \in [1..n -> Nat \ {0}]
  PROVE  \E m \in Nat : \E l \in [0..m -> [1..n -> Nat]] :
           /\ l[0] = Rounded(pool, weights) /\ m = pool - SumOf(Rounded(pool, weights))
           /\ l[m] = LocaleCounts(pool, weights)
           /\ \A k \in 1..m : l[k] = Bumped(l[k - 1], Best(pool, weights, l[k - 1]))
<1>1. PICK whole : whole = Rounded(pool, weights)
  OBVIOUS
<1>2. whole \in [1..n -> Nat] /\ SumOf(whole) <= pool /\ SumOf(whole) \in Nat
  BY <1>1, WholeShares, SumIsNat
<1>3. PICK m \in Nat : m = pool - SumOf(whole)
  BY <1>2
<1> DEFINE Raw(f) == f = [s \in SUBSET (1..m) |->
                          IF s = {} THEN whole
                          ELSE [f[s \ {Max(s)}] EXCEPT ![Best(pool, weights, f[s \ {Max(s)}])] = @ + 1]]
<1>4. ASSUME NEW f PROVE Raw(f) <=> Gives(f, m, whole, pool, weights)
  BY DEF Gives, Bumped
<1>5. PICK f : Gives(f, m, whole, pool, weights) /\ LocaleCounts(pool, weights) = f[1..m]
  <2>1. LocaleCounts(pool, weights) = (CHOOSE f : Raw(f))[1..m]
    BY <1>1, <1>3 DEF LocaleCounts, FoldLeft, MapThenFoldSet, Rounded
  <2> HIDE DEF Raw
  <2>2. Raw(CHOOSE f : Raw(f))
    BY <1>2, <1>3, <1>4, GivesExists
  <2> QED BY <1>4, <2>1, <2>2
<1> HIDE DEF Raw
<1>6. \A s \in SUBSET (1..m) :
        f[s] = IF s = {} THEN whole
               ELSE Bumped(f[s \ {Max(s)}], Best(pool, weights, f[s \ {Max(s)}]))
  <2> DEFINE G(s) == IF s = {} THEN whole
                     ELSE Bumped(f[s \ {Max(s)}], Best(pool, weights, f[s \ {Max(s)}]))
  <2>1. f = [s \in SUBSET (1..m) |-> G(s)]
    BY <1>5 DEF Gives
  <2> HIDE DEF G
  <2>2. \A s \in SUBSET (1..m) : f[s] = G(s)
    BY <2>1
  <2> QED BY <2>2 DEF G
<1> DEFINE l == [k \in 0..m |-> f[1..k]]
<1>7. l[0] = whole /\ l[m] = f[1..m]
  <2>1. l[0] = f[1..0] /\ l[m] = f[1..m]
    BY <1>3
  <2>2. 1..0 = {} /\ {} \in SUBSET (1..m) /\ f[{}] = whole
    BY <1>3, <1>6, PrefixSteps
  <2> QED BY <2>1, <2>2
<1>8. \A k \in 1..m : l[k] = Bumped(l[k - 1], Best(pool, weights, l[k - 1]))
  <2> SUFFICES ASSUME NEW k \in 1..m
               PROVE  l[k] = Bumped(l[k - 1], Best(pool, weights, l[k - 1]))
    OBVIOUS
  <2>2. l[k] = f[1..k] /\ l[k - 1] = f[1..k - 1]
    BY <1>3
  <2>1. 1..k \in SUBSET (1..m) /\ 1..k # {} /\ Max(1..k) = k /\ (1..k) \ {k} = 1..k - 1
    BY <1>3, PrefixSteps
  <2> HIDE DEF l
  <2>3. f[1..k] = Bumped(f[1..k - 1], Best(pool, weights, f[1..k - 1]))
    BY <1>6, <2>1
  <2> QED BY <2>2, <2>3
<1>9. l \in [0..m -> [1..n -> Nat]]
  <2> DEFINE Q == {k \in 0..m : l[k] \in [1..n -> Nat]}
  <2>1. 0 \in Q
    BY <1>2, <1>3, <1>7
  <2>2. \A k \in 0..m - 1 : k \in Q => k + 1 \in Q
    <3> SUFFICES ASSUME NEW k \in 0..m - 1, l[k] \in [1..n -> Nat]
                 PROVE  k + 1 \in 0..m /\ l[k + 1] \in [1..n -> Nat]
      OBVIOUS
    <3>1. k + 1 \in 1..m /\ (k + 1) - 1 = k /\ k + 1 \in 0..m
      BY <1>3
    <3> HIDE DEF l
    <3>2. l[k + 1] = Bumped(l[k], Best(pool, weights, l[k]))
      BY <1>8, <3>1
    <3>3. PICK counts \in [1..n -> Nat] : counts = l[k]
      OBVIOUS
    <3>4. Bumped(counts, Best(pool, weights, counts)) \in [1..n -> Nat]
      BY <3>3, BumpedType
    <3> QED BY <3>1, <3>2, <3>3, <3>4
  <2>3. \A k \in 0..m : k \in Q
    <3> HIDE DEF Q
    <3> QED BY <1>3, <2>1, <2>2, IntervalInduction
  <2>4. \A k \in 0..m : l[k] \in [1..n -> Nat]
    BY <2>3
  <2> QED BY <2>4
<1> HIDE DEF l
<1> QED BY <1>1, <1>3, <1>5, <1>7, <1>8, <1>9

\* The counts of the locales add up to the pool and are less than one away from the shares.
LEMMA CountsAre ==
  ASSUME NEW pool \in Nat, NEW n \in Nat, n # 0, NEW weights \in [1..n -> Nat \ {0}]
  PROVE  /\ LocaleCounts(pool, weights) \in [1..n -> Nat]
         /\ SumOf(LocaleCounts(pool, weights)) = pool
         /\ NearShares(pool, weights, LocaleCounts(pool, weights))
<1>1. PICK whole : whole = Rounded(pool, weights)
  OBVIOUS
<1>2. /\ whole \in [1..n -> Nat] /\ SumOf(whole) <= pool /\ SumOf(whole) \in Nat
      /\ NearShares(pool, weights, whole)
  BY <1>1, WholeShares, SumIsNat
<1>3. PICK m \in Nat : \E l \in [0..m -> [1..n -> Nat]] :
        /\ l[0] = Rounded(pool, weights) /\ m = pool - SumOf(Rounded(pool, weights))
        /\ l[m] = LocaleCounts(pool, weights)
        /\ \A k \in 1..m : l[k] = Bumped(l[k - 1], Best(pool, weights, l[k - 1]))
  BY CountSteps, Zenon
<1>4. PICK l \in [0..m -> [1..n -> Nat]] :
        /\ l[0] = whole /\ m = pool - SumOf(whole)
        /\ l[m] = LocaleCounts(pool, weights)
        /\ \A k \in 1..m : l[k] = Bumped(l[k - 1], Best(pool, weights, l[k - 1]))
  BY <1>1, <1>3
<1> DEFINE Good(k) == SumOf(l[k]) = SumOf(whole) + k /\ NearShares(pool, weights, l[k])
           Q == {k \in 0..m : Good(k)}
<1>5. 0 \in Q
  BY <1>2, <1>3, <1>4
<1>6. ASSUME NEW k \in 0..m - 1, k \in Q PROVE k + 1 \in Q
  <2>1. k + 1 \in 1..m /\ (k + 1) - 1 = k /\ k \in 0..m /\ k + 1 \in 0..m /\ Good(k)
    BY <1>3, <1>4, <1>6
  <2>2. PICK counts, more : counts = l[k] /\ more = l[k + 1]
    OBVIOUS
  <2>3. /\ counts \in [1..n -> Nat] /\ SumOf(counts) = SumOf(whole) + k
        /\ NearShares(pool, weights, counts)
        /\ more = Bumped(counts, Best(pool, weights, counts))
    BY <1>3, <1>4, <2>1, <2>2
  <2>4. SumOf(counts) < pool
    BY <1>2, <1>3, <1>4, <2>1, <2>3
  <2>5. SumOf(more) = SumOf(counts) + 1 /\ NearShares(pool, weights, more)
    <3>1. BestBumped(pool, weights, counts, more)
      BY <2>3 DEF BestBumped
    <3>2. counts \in [1..n -> Nat] /\ NearShares(pool, weights, counts)
      BY <2>3
    <3>3. /\ more \in [1..n -> Nat]
          /\ SumOf(more) = SumOf(counts) + 1
          /\ NearShares(pool, weights, more)
      BY <2>4, <3>1, <3>2, BestAdded, Zenon
    <3> QED BY <3>3
  <2>6. Good(k + 1)
    BY <1>2, <2>1, <2>2, <2>3, <2>5
  <2> QED BY <2>1, <2>6
<1>7. m \in Q
  <2> HIDE DEF Q
  <2>1. \A k \in 0..m : k \in Q
    BY <1>3, <1>4, <1>5, <1>6, IntervalInduction
  <2> QED BY <1>3, <1>4, <2>1
<1>8. Good(m)
  BY <1>7
<1>9. SumOf(l[m]) = pool /\ l[m] \in [1..n -> Nat]
  BY <1>2, <1>3, <1>4, <1>8
<1> QED BY <1>3, <1>4, <1>8, <1>9

-----------------------------------------------------------------------------
(* Locales, listed block by block. *)

\* f is the recursion that strings the blocks b[1], ..., b[n] together.
Flattens(f, n, b) == f = [i \in 1..n |-> IF i = 1 THEN b[i] ELSE f[i - 1] \o b[i]]

\* The same of the recursion that strings blocks together.
LEMMA FlattensExists ==
  ASSUME NEW E, NEW n \in Nat, n # 0, NEW b \in [1..n -> Seq(E)]
  PROVE  \E f : Flattens(f, n, b)
<1> DEFINE A == Seq(E)
<1>1. PICK op : \A k \in 1..n : \A a \in A :
                  op[k][a] = (IF k = 1 THEN b[k] ELSE a \o b[k]) /\ op[k][a] \in A
  <2> DEFINE op == [k \in 1..n |-> [a \in A |-> IF k = 1 THEN b[k] ELSE a \o b[k]]]
  <2>1. ASSUME NEW k \in 1..n, NEW a \in A
        PROVE  op[k][a] = (IF k = 1 THEN b[k] ELSE a \o b[k]) /\ op[k][a] \in A
    <3>1. b[k] \in A /\ a \o b[k] \in A
      BY ConcatProperties
    <3> QED BY <3>1
  <2> HIDE DEF op
  <2> QED BY <2>1
<1>2. <<>> \in A
  OBVIOUS
<1> HIDE DEF A
<1>3. PICK g : PrefixFold(g, n, A, <<>>, op)
  BY <1>1, <1>2, PrefixFoldExists
<1>4. /\ g \in [SUBSET (1..n) -> A]
      /\ \A s \in SUBSET (1..n) : g[s] = IF s = {} THEN <<>> ELSE op[Max(s)][g[s \ {Max(s)}]]
  BY <1>3 DEF PrefixFold
<1>5. ASSUME NEW k \in 1..n
      PROVE  g[1..k] = IF k = 1 THEN b[k] ELSE g[1..k - 1] \o b[k]
  <2>1. 1..k \in SUBSET (1..n) /\ 1..k # {} /\ Max(1..k) = k /\ (1..k) \ {k} = 1..k - 1
    BY PrefixSteps
  <2>2. 1..k - 1 \in SUBSET (1..n)
    OBVIOUS
  <2>3. g[1..k] = op[k][g[1..k - 1]] /\ g[1..k - 1] \in A
    BY <1>4, <2>1, <2>2
  <2> QED BY <1>1, <2>3
<1> DEFINE f == [k \in 1..n |-> g[1..k]]
<1>6. \A k \in 1..n : f[k] = IF k = 1 THEN b[k] ELSE f[k - 1] \o b[k]
  <2> SUFFICES ASSUME NEW k \in 1..n PROVE f[k] = IF k = 1 THEN b[k] ELSE f[k - 1] \o b[k]
    OBVIOUS
  <2>1. f[k] = g[1..k] /\ (k # 1 => f[k - 1] = g[1..k - 1])
    OBVIOUS
  <2> HIDE DEF f
  <2> QED BY <1>5, <2>1
<1>7. f = [k \in 1..n |-> f[k]]
  OBVIOUS
<1> HIDE DEF f
<1> QED BY <1>6, <1>7 DEF Flattens

\* l[k] is what the first k blocks, lists of elements of E, make together.
Strung(l, n, b, E) ==
  /\ l \in [1..n -> Seq(E)]
  /\ l[1] = b[1] /\ FlattenSeq(b) = l[n]
  /\ \A k \in 2..n : l[k] = l[k - 1] \o b[k]

\* Blocks one after the other: each is appended to those before it.
LEMMA FlattenSteps ==
  ASSUME NEW E, NEW n \in Nat, n # 0, NEW b \in [1..n -> Seq(E)]
  PROVE  \E l : Strung(l, n, b, E)
<1>1. b \in Seq(Seq(E)) /\ Len(b) = n
  OBVIOUS
<1>2. PICK l : Flattens(l, n, b) /\ FlattenSeq(b) = l[n]
  <2>1. FlattenSeq(b) = (CHOOSE f : Flattens(f, n, b))[n]
    BY <1>1 DEF FlattenSeq, Flattens
  <2> QED BY <2>1, FlattensExists
<1>3. /\ DOMAIN l = 1..n /\ l = [k \in 1..n |-> l[k]]
      /\ \A k \in 1..n : l[k] = IF k = 1 THEN b[k] ELSE l[k - 1] \o b[k]
  BY <1>2 DEF Flattens
<1>4. l[1] = b[1] /\ \A k \in 2..n : k # 1 /\ k \in 1..n /\ l[k] = l[k - 1] \o b[k]
  <2>1. 1 \in 1..n
    OBVIOUS
  <2>2. ASSUME NEW k \in 2..n PROVE k # 1 /\ k \in 1..n
    OBVIOUS
  <2>3. ASSUME NEW k \in 2..n PROVE l[k] = l[k - 1] \o b[k]
    BY <1>3, <2>2
  <2>4. l[1] = b[1]
    BY <1>3, <2>1
  <2> QED BY <2>2, <2>3, <2>4
<1> DEFINE Q == {k \in 0..n : k = 0 \/ l[k] \in Seq(E)}
<1>5. 0 \in Q
  OBVIOUS
<1>6. ASSUME NEW k \in 0..n - 1, k \in Q PROVE k + 1 \in Q
  <2>1. k + 1 \in 1..n /\ (k + 1) - 1 = k /\ k + 1 \in 0..n /\ (k # 0 => k + 1 \in 2..n)
    OBVIOUS
  <2>2. CASE k = 0
    BY <1>4, <2>1, <2>2
  <2>3. CASE k # 0
    <3>1. l[k] \in Seq(E) /\ b[k + 1] \in Seq(E) /\ l[k + 1] = l[k] \o b[k + 1]
      BY <1>4, <1>6, <2>1, <2>3
    <3>2. l[k + 1] \in Seq(E)
      BY <3>1, ConcatProperties
    <3> QED BY <2>1, <3>2
  <2> QED BY <2>2, <2>3
<1>7. \A k \in 0..n : k \in Q
  <2> HIDE DEF Q
  <2> QED BY <1>5, <1>6, IntervalInduction
<1>8. \A k \in 1..n : l[k] \in Seq(E)
  BY <1>7
<1>9. l \in [1..n -> Seq(E)]
  BY <1>3, <1>8
<1> QED BY <1>2, <1>4, <1>9 DEF Strung

\* Partial sums do not become smaller.
LEMMA PartialMono ==
  ASSUME NEW n \in Nat, NEW c \in [1..n -> Nat], NEW t, PartialSum(t, n, c),
         NEW i \in 0..n, NEW j \in 0..n, i <= j
  PROVE  t[i] <= t[j]
<1>1. t \in [0..n -> Nat] /\ \A k \in 1..n : t[k] = t[k - 1] + c[k]
  BY DEF PartialSum
<1> DEFINE Q == {k \in 0..n : i <= k => t[i] <= t[k]}
<1>2. 0 \in Q
  BY <1>1
<1>3. ASSUME NEW k \in 0..n - 1, k \in Q PROVE k + 1 \in Q
  <2>1. k + 1 \in 1..n /\ (k + 1) - 1 = k /\ k \in 0..n /\ k + 1 \in 0..n
    OBVIOUS
  <2>2. t[k + 1] = t[k] + c[k + 1] /\ t[k] \in Nat /\ c[k + 1] \in Nat /\ t[i] \in Nat
    BY <1>1, <2>1
  <2>3. CASE i <= k
    BY <1>3, <2>1, <2>2, <2>3
  <2>4. CASE ~(i <= k)
    <3>1. i <= k + 1 => i = k + 1
      BY <2>4
    <3> QED BY <2>1, <2>2, <3>1
  <2> QED BY <2>3, <2>4
<1>4. \A k \in 0..n : k \in Q
  <2> HIDE DEF Q
  <2> QED BY <1>2, <1>3, IntervalInduction
<1> QED BY <1>4

\* c[1] ones, c[2] twos and so on, and how often i is in a list.
Blocks(n, c) == FlattenSeq([i \in 1..n |-> [k \in 1..c[i] |-> i]])

\* How often i is on the list.
Times(list, i) == Cardinality({x \in DOMAIN list : list[x] = i})

\* In a list of c[1] ones, c[2] twos and so on, the places of i are those between the
\* partial sums.
LEMMA BlocksAre ==
  ASSUME NEW n \in Nat, n # 0, NEW c \in [1..n -> Nat],
         NEW list, list = Blocks(n, c)
  PROVE  /\ list \in Seq(1..n) /\ Len(list) = SumOf(c)
         /\ \A i \in 1..n : Times(list, i) = c[i]
<1> DEFINE Block(i) == [k \in 1..c[i] |-> i]
<1>1. PICK b \in [1..n -> Seq(1..n)] :
        /\ b = [i \in 1..n |-> Block(i)]
        /\ \A i \in 1..n : Len(b[i]) = c[i] /\ \A x \in 1..c[i] : b[i][x] = i
  <2>1. ASSUME NEW i \in 1..n
        PROVE  /\ Block(i) \in Seq(1..n) /\ Len(Block(i)) = c[i]
               /\ \A x \in 1..c[i] : Block(i)[x] = i
    OBVIOUS
  <2> HIDE DEF Block
  <2>2. PICK b : b = [i \in 1..n |-> Block(i)]
    OBVIOUS
  <2>3. \A i \in 1..n : b[i] = Block(i)
    BY <2>2
  <2>4. b \in [1..n -> Seq(1..n)]
    BY <2>1, <2>2
  <2> QED BY <2>1, <2>2, <2>3, <2>4
<1>2. PICK l \in [1..n -> Seq(1..n)] :
        /\ l[1] = b[1] /\ list = l[n]
        /\ \A k \in 2..n : l[k] = l[k - 1] \o b[k]
  <2>1. list = FlattenSeq(b)
    BY <1>1 DEF Blocks
  <2> HIDE DEF Block
  <2>2. \E l \in [1..n -> Seq(1..n)] :
          /\ l[1] = b[1] /\ FlattenSeq(b) = l[n]
          /\ \A k \in 2..n : l[k] = l[k - 1] \o b[k]
    <3>1. PICK E : E = 1..n
      OBVIOUS
    <3>2. b \in [1..n -> Seq(E)]
      BY <1>1, <3>1
    <3>3. PICK l : Strung(l, n, b, E)
      BY <3>2, FlattenSteps
    <3> QED BY <3>1, <3>3 DEF Strung
  <2> QED BY <2>1, <2>2
<1> HIDE DEF Block
<1>3. PICK t : PartialSum(t, n, c) /\ SumOf(c) = t[n]
  BY PartialSums
<1>4. t \in [0..n -> Nat] /\ t[0] = 0
  BY <1>3 DEF PartialSum
<1>10. \A k \in 1..n : t[k] = t[k - 1] + c[k]
  BY <1>3 DEF PartialSum
<1> DEFINE Within1(k, x) == /\ l[k][x] \in 1..k
                           /\ t[l[k][x] - 1] < x /\ x <= t[l[k][x]]
           Good(k) == Len(l[k]) = t[k] /\ \A x \in 1..t[k] : Within1(k, x)
           Q == {k \in 0..n : k = 0 \/ Good(k)}
<1>5. 0 \in Q
  OBVIOUS
<1>6. ASSUME NEW k \in 0..n - 1, k \in Q PROVE k + 1 \in Q
  <2>1. /\ k + 1 \in 1..n /\ (k + 1) - 1 = k /\ k \in 0..n /\ k + 1 \in 0..n
        /\ (k # 0 => k + 1 \in 2..n /\ k \in 1..n)
    OBVIOUS
  <2>2. t[k + 1] = t[k] + c[k + 1] /\ t[k] \in Nat /\ c[k + 1] \in Nat
    <3>1. t[k + 1] = t[k] + c[k + 1]
      BY <1>10, <2>1
    <3> QED BY <1>4, <2>1, <3>1
  <2>3. CASE k = 0
    <3>1. k + 1 = 1 /\ l[1] = b[1] /\ t[1] = c[1] /\ t[0] = 0
      BY <1>2, <1>4, <2>2, <2>3
    <3>2. Len(b[1]) = c[1] /\ \A x \in 1..c[1] : b[1][x] = 1
      BY <1>1, <2>1, <2>3
    <3>3. ASSUME NEW x \in 1..t[1] PROVE Within1(1, x)
      <4>1. l[1][x] = 1
        BY <3>1, <3>2
      <4>2. 1 \in 1..1 /\ 1 - 1 = 0 /\ 0 < x /\ x <= t[1]
        BY <1>4
      <4>3. t[1 - 1] < x
        BY <3>1, <4>2
      <4> QED BY <4>1, <4>2, <4>3
    <3> QED BY <2>1, <3>1, <3>2, <3>3
  <2>4. CASE k # 0
    <3>1. /\ Good(k) /\ l[k + 1] = l[k] \o b[k + 1]
          /\ l[k] \in Seq(1..n) /\ b[k + 1] \in Seq(1..n)
          /\ Len(b[k + 1]) = c[k + 1] /\ \A x \in 1..c[k + 1] : b[k + 1][x] = k + 1
      BY <1>1, <1>2, <1>6, <2>1, <2>4
    <3>2. /\ Len(l[k + 1]) = t[k] + c[k + 1]
          /\ \A x \in 1..t[k] + c[k + 1] :
               l[k + 1][x] = IF x <= t[k] THEN l[k][x] ELSE b[k + 1][x - t[k]]
      <4>1. PICK s, u, w : s = l[k] /\ u = b[k + 1] /\ w = s \o u
        OBVIOUS
      <4>2. s \in Seq(1..n) /\ u \in Seq(1..n) /\ Len(s) = t[k] /\ Len(u) = c[k + 1]
        BY <3>1, <4>1
      <4>3. /\ Len(s \o u) = Len(s) + Len(u)
            /\ \A x \in 1..Len(s) + Len(u) :
                 (s \o u)[x] = IF x <= Len(s) THEN s[x] ELSE u[x - Len(s)]
        <5>1. PICK E : E = 1..n
          OBVIOUS
        <5>2. s \in Seq(E) /\ u \in Seq(E)
          BY <4>2, <5>1
        <5> QED BY <5>2, ConcatProperties
      <4>4. /\ Len(w) = t[k] + c[k + 1]
            /\ \A x \in 1..t[k] + c[k + 1] : w[x] = IF x <= t[k] THEN s[x] ELSE u[x - t[k]]
        BY <4>1, <4>2, <4>3
      <4> QED BY <3>1, <4>1, <4>4
    <3>3. ASSUME NEW x \in 1..t[k + 1] PROVE Within1(k + 1, x)
      <4>1. CASE x <= t[k]
        <5>3. x \in 1..t[k] + c[k + 1] /\ x \in 1..t[k]
          BY <2>2, <4>1
        <5>1. l[k + 1][x] = l[k][x] /\ x \in 1..t[k]
          BY <3>2, <4>1, <5>3
        <5>2. Within1(k, x)
          BY <3>1, <5>1
        <5> QED BY <5>1, <5>2
      <4>2. CASE ~(x <= t[k])
        <5>1. x - t[k] \in 1..c[k + 1]
          BY <2>2, <3>3, <4>2
        <5>2. l[k + 1][x] = k + 1
          BY <2>2, <3>1, <3>2, <3>3, <4>2, <5>1
        <5>3. t[k] < x /\ x <= t[k + 1] /\ k + 1 \in 1..k + 1
          BY <2>2, <3>3, <4>2
        <5> QED BY <2>1, <5>2, <5>3
      <4> QED BY <4>1, <4>2
    <3>4. Good(k + 1)
      <4> HIDE DEF Within1
      <4> QED BY <2>2, <3>2, <3>3
    <3> QED BY <2>1, <3>4
  <2> QED BY <2>3, <2>4
<1>7. Good(n)
  <2> HIDE DEF Q
  <2>1. \A k \in 0..n : k \in Q
    BY <1>5, <1>6, IntervalInduction
  <2>2. n \in Q
    BY <2>1
  <2> QED BY <2>2 DEF Q
<1>8. /\ list \in Seq(1..n) /\ Len(list) = t[n] /\ DOMAIN list = 1..t[n]
      /\ \A x \in 1..t[n] : list[x] \in 1..n /\ t[list[x] - 1] < x /\ x <= t[list[x]]
  BY <1>2, <1>4, <1>7
<1>9. ASSUME NEW i \in 1..n
      PROVE  Times(list, i) = c[i]
  <2>1. i - 1 \in 0..n /\ i \in 0..n
    OBVIOUS
  <2>2. t[i] = t[i - 1] + c[i] /\ t[i] \in Nat /\ t[i - 1] \in Nat /\ c[i] \in Nat /\ t[i] <= t[n]
    <3>1. t[i] <= t[n]
      <4>1. n \in 0..n /\ i <= n
        OBVIOUS
      <4> QED BY <1>3, <2>1, <4>1, PartialMono
    <3>2. t[i] = t[i - 1] + c[i]
      BY <1>10
    <3>3. t[i] \in Nat /\ t[i - 1] \in Nat /\ c[i] \in Nat
      BY <1>4, <2>1
    <3> QED BY <3>1, <3>2, <3>3
  <2>3. ASSUME NEW x \in 1..t[n] PROVE list[x] = i <=> x \in t[i - 1] + 1..t[i]
    <3>1. list[x] \in 1..n /\ t[list[x] - 1] < x /\ x <= t[list[x]]
      BY <1>8
    <3>2. PICK j : j = list[x]
      OBVIOUS
    <3>7. j \in 1..n /\ t[j - 1] < x /\ x <= t[j]
      BY <3>1, <3>2
    <3>8. j - 1 \in 0..n /\ j \in 0..n
      BY <3>7
    <3>3. /\ j - 1 \in 0..n /\ j \in 0..n /\ t[j] \in Nat /\ t[j - 1] \in Nat
          /\ t[j - 1] < x /\ x <= t[j]
      BY <1>4, <3>7, <3>8
    <3>9. x \in t[i - 1] + 1..t[i] <=> t[i - 1] < x /\ x <= t[i]
      <4>1. PICK lo \in Nat, hi \in Nat : lo = t[i - 1] /\ hi = t[i]
        BY <2>2
      <4>2. x \in Int
        OBVIOUS
      <4>3. x \in lo + 1..hi <=> lo < x /\ x <= hi
        BY <4>1, <4>2, Above
      <4> QED BY <4>1, <4>3
    <3>4. CASE j = i
      BY <3>2, <3>3, <3>4, <3>9
    <3>5. CASE j < i
      <4>1. t[j] <= t[i - 1]
        <5>1. j <= i - 1
          BY <3>7, <3>5
        <5> QED BY <1>3, <2>1, <3>3, <5>1, PartialMono
      <4>2. j # i /\ ~(t[i - 1] < x)
        <5>1. j # i
          BY <3>5, <3>7
        <5>2. PICK a, d : a = t[j] /\ d = t[i - 1]
          OBVIOUS
        <5>3. a \in Nat /\ d \in Nat /\ x \in Int /\ x <= a /\ a <= d
          BY <1>4, <2>2, <3>3, <4>1, <5>2
        <5>4. ~(d < x)
          BY <5>3
        <5> QED BY <5>1, <5>2, <5>4
      <4> QED BY <3>2, <3>9, <4>2
    <3>6. CASE i < j
      <4>1. t[i] <= t[j - 1]
        <5>1. i <= j - 1
          BY <3>7, <3>6
        <5> QED BY <1>3, <2>1, <3>3, <5>1, PartialMono
      <4>2. j # i /\ ~(x <= t[i])
        <5>1. j # i
          BY <3>6, <3>7
        <5>2. PICK a, d : a = t[j - 1] /\ d = t[i]
          OBVIOUS
        <5>3. a \in Nat /\ d \in Nat /\ x \in Int /\ a < x /\ d <= a
          BY <1>4, <2>2, <3>3, <4>1, <5>2
        <5>4. ~(x <= d)
          BY <5>3
        <5> QED BY <5>1, <5>2, <5>4
      <4> QED BY <3>2, <3>9, <4>2
    <3> QED BY <3>4, <3>5, <3>6, <3>7
  <2>4. {x \in DOMAIN list : list[x] = i} = t[i - 1] + 1..t[i]
    <3>1. \A x \in t[i - 1] + 1..t[i] : x \in 1..t[n]
      <4>1. PICK lo \in Nat, hi \in Nat : lo = t[i - 1] /\ hi = t[i] /\ hi <= t[n]
        BY <2>2
      <4>2. PICK top \in Nat : top = t[n]
        BY <1>4
      <4>3. lo + 1..hi \subseteq 1..top
        BY <4>1, <4>2, Above
      <4> QED BY <4>1, <4>2, <4>3
    <3> QED BY <1>8, <2>3, <3>1
  <2>5. Cardinality(t[i - 1] + 1..t[i]) = c[i]
    <3>1. PICK lo, hi : lo = t[i - 1] + 1 /\ hi = t[i]
      OBVIOUS
    <3>2. lo \in Int /\ hi \in Int /\ c[i] \in Nat /\ hi - lo + 1 = c[i]
      <4>1. PICK a, d : a = t[i - 1] /\ d = c[i]
        OBVIOUS
      <4>2. a \in Nat /\ d \in Nat /\ lo = a + 1 /\ hi = a + d
        BY <2>2, <3>1, <4>1
      <4>3. lo \in Int /\ hi \in Int /\ hi - lo + 1 = d
        BY <4>2
      <4> QED BY <4>1, <4>2, <4>3
    <3>3. Cardinality(lo..hi) = IF lo > hi THEN 0 ELSE hi - lo + 1
      BY <3>2, FS_Interval
    <3>4. Cardinality(lo..hi) = c[i]
      BY <3>2, <3>3
    <3> QED BY <3>1, <3>4
  <2> QED BY <2>4, <2>5 DEF Times
<1> QED BY <1>3, <1>8, <1>9

\* A pool has its size, and every locale its share of it, rounded up or down.
THEOREM LocalesFair ==
  ASSUME NEW pool \in Nat, NEW n \in Nat, n # 0, NEW weights \in [1..n -> Nat \ {0}]
  PROVE  LET list == Locales(pool, weights)
             total == SumOf(weights)
         IN /\ Len(list) = pool
            /\ \A i \in 1..n :
                 LET excess == total * Cardinality({k \in DOMAIN list : list[k] = i})
                                 - pool * weights[i]
                 IN -total < excess /\ excess < total
<1> DEFINE total == SumOf(weights)
<1>1. PICK counts : counts = LocaleCounts(pool, weights)
  OBVIOUS
<1>2. /\ counts \in [1..n -> Nat] /\ SumOf(counts) = pool
      /\ NearShares(pool, weights, counts)
  BY <1>1, CountsAre
<1>3. PICK list : list = Locales(pool, weights)
  OBVIOUS
<1>4. list = Blocks(n, counts)
  BY <1>1, <1>3 DEF Locales, Blocks
<1>5. /\ Len(list) = SumOf(counts)
      /\ \A i \in 1..n : Times(list, i) = counts[i]
  <2>1. /\ list \in Seq(1..n) /\ Len(list) = SumOf(counts)
        /\ \A i \in 1..n : Times(list, i) = counts[i]
    BY <1>2, <1>4, BlocksAre
  <2> QED BY <2>1
<1>6. total \in Nat \ {0} /\ DOMAIN weights = 1..n
  BY SumPositive
<1>7. ASSUME NEW i \in 1..n
      PROVE  LET excess == total * counts[i] - pool * weights[i]
             IN -total < excess /\ excess < total
  <2>1. /\ -total < Missing(pool, total, weights[i], counts[i])
        /\ Missing(pool, total, weights[i], counts[i]) < total
    BY <1>2, <1>6 DEF NearShares
  <2> HIDE DEF total
  <2>2. PICK c \in Nat, w \in Nat : c = counts[i] /\ w = weights[i]
    BY <1>2
  <2>3. PICK x \in Nat, y \in Nat : x = pool * w /\ y = c * total /\ y = total * c
    BY <1>6, <2>2
  <2>4. Missing(pool, total, w, c) = x - y
    BY <2>3 DEF Missing
  <2>5. total \in Nat /\ x \in Nat /\ y \in Nat /\ -total < x - y /\ x - y < total
    BY <1>6, <2>1, <2>2, <2>3, <2>4
  <2>6. -total < y - x /\ y - x < total
    BY <2>5
  <2> QED BY <2>2, <2>3, <2>6
<1> HIDE DEF total
<1> QED BY <1>2, <1>3, <1>5, <1>7 DEF total, Times

-----------------------------------------------------------------------------
(* The events of a run, in groups. *)

\* Of how many requests of a group the latency was at most, and below, a limit.
UpTo(events, group, limit) == {i \in group : events[i].ms <= limit}
Below(events, group, limit) == {i \in group : events[i].ms < limit}

\* Parts of a finite set are counted by no greater number.
LEMMA PartCounts ==
  ASSUME NEW S, IsFiniteSet(S), NEW T \in SUBSET S
  PROVE  IsFiniteSet(T) /\ Cardinality(T) \in Nat /\ Cardinality(T) <= Cardinality(S)
<1>1. IsFiniteSet(T)
  BY FS_Subset
<1>2. Cardinality(T) <= Cardinality(S)
  BY FS_Subset
<1> QED BY <1>1, <1>2, FS_CardinalityType

\* A set of natural numbers that is not empty has a least one.
LEMMA LeastNat ==
  ASSUME NEW T \in SUBSET Nat, T # {}
  PROVE  \E m \in T : \A x \in T : m <= x
<1>1. PICK m \in T : \A x \in T : ~(<<x, m>> \in OpToRel(<, Nat))
  BY NatLessThanWellFounded, WFMin
<1>2. \A x \in T : ~(x < m)
  BY <1>1 DEF OpToRel
<1>3. \A x \in T : m <= x
  BY <1>2
<1> QED BY <1>3

\* A finite set of natural numbers that is not empty has a greatest one.
LEMMA GreatestNat ==
  ASSUME NEW A, \A x \in A : x \in Nat, IsFiniteSet(A), A # {}
  PROVE  \E m \in A : \A x \in A : x <= m
<1> DEFINE Over(x) == {y \in A : x <= y}
           F == {Over(x) : x \in A}
<1>1. PICK T \in F : \A U \in F : ~(U \subseteq T /\ U # T)
  <2>1. F \subseteq SUBSET A
    OBVIOUS
  <2>2. F # {}
    OBVIOUS
  <2> HIDE DEF F
  <2> QED BY <2>1, <2>2, MinimalSubset
<1>2. PICK x \in A : T = Over(x)
  OBVIOUS
<1>3. ASSUME NEW y \in A PROVE y <= x
  <2> SUFFICES ASSUME x < y PROVE FALSE
    OBVIOUS
  <2>1. Over(y) \in F
    OBVIOUS
  <2>2. x \in Over(x) /\ x \notin Over(y)
    OBVIOUS
  <2>3. \A z \in Over(y) : z \in Over(x)
    OBVIOUS
  <2> QED BY <1>1, <1>2, <2>1, <2>2, <2>3
<1> QED BY <1>3

\* sorted(): a latency at place k is within a limit exactly if k latencies are.
LEMMA OrderedCounts ==
  ASSUME NEW events, NEW group, IsFiniteSet(group), \A i \in group : events[i].ms \in Nat,
         NEW k \in 1..Cardinality(group)
  PROVE  /\ Ordered(events, group)[k] \in Nat
         /\ \A limit \in Int : Ordered(events, group)[k] <= limit
                                 <=> k <= Cardinality(UpTo(events, group, limit))
<1> DEFINE V == {events[i].ms : i \in group}
           W == {v \in V : k <= Cardinality(UpTo(events, group, v))}
           Chosen(v) == /\ k <= Cardinality({i \in group : events[i].ms <= v})
                        /\ Cardinality({i \in group : events[i].ms < v}) < k
<1>1. Cardinality(group) \in Nat /\ k \in Nat /\ 1 <= k /\ k <= Cardinality(group)
  BY FS_CardinalityType
<1>2. V \in SUBSET Nat /\ IsFiniteSet(V) /\ V # {}
  <2>1. V \in SUBSET Nat
    OBVIOUS
  <2>2. IsFiniteSet(V)
    <3>1. V = {([j \in group |-> events[j].ms])[i] : i \in group}
      OBVIOUS
    <3>2. [i \in group |-> events[i].ms] \in Surjection(group, V)
      BY DEF Surjection
    <3> HIDE DEF V
    <3> QED BY <3>2, FS_Surjection
  <2>3. group # {}
    BY <1>1, FS_EmptySet
  <2> QED BY <2>1, <2>2, <2>3
<1>3. \A v : /\ IsFiniteSet(UpTo(events, group, v)) /\ Cardinality(UpTo(events, group, v)) \in Nat
             /\ IsFiniteSet(Below(events, group, v)) /\ Cardinality(Below(events, group, v)) \in Nat
  <2> TAKE v
  <2>1. UpTo(events, group, v) \in SUBSET group /\ Below(events, group, v) \in SUBSET group
    BY DEF UpTo, Below
  <2> QED BY <2>1, PartCounts
<1>4. W # {}
  <2>1. PICK m \in V : \A x \in V : x <= m
    <3> HIDE DEF V
    <3> QED BY <1>2, GreatestNat
  <2>2. UpTo(events, group, m) = group
    BY <2>1 DEF UpTo
  <2>3. m \in W
    BY <1>1, <2>2
  <2> QED BY <2>3
<1>5. PICK m \in W : \A x \in W : m <= x
  <2>1. W \in SUBSET Nat
    BY <1>2
  <2> HIDE DEF W
  <2> QED BY <1>4, <2>1, LeastNat
<1>6. Cardinality(Below(events, group, m)) < k
  <2>1. CASE Below(events, group, m) = {}
    BY <1>1, <2>1, FS_EmptySet
  <2>2. CASE Below(events, group, m) # {}
    <3> DEFINE B == {v \in V : v < m}
    <3>1. B \in SUBSET Nat /\ B # {}
      BY <1>2, <2>2 DEF Below
    <3>2. IsFiniteSet(B)
      <4>1. B \in SUBSET V
        OBVIOUS
      <4> HIDE DEF B, V
      <4> QED BY <1>2, <4>1, FS_Subset
    <3>3. PICK u \in B : \A x \in B : x <= u
      <4> HIDE DEF B
      <4> QED BY <3>1, <3>2, GreatestNat
    <3>4. u \in V /\ u < m /\ u \in Nat /\ m \in Nat
      BY <1>2, <3>3
    <3>5. Below(events, group, m) = UpTo(events, group, u)
      <4>1. \A i \in group : events[i].ms < m <=> events[i].ms <= u
        <5> SUFFICES ASSUME NEW i \in group PROVE events[i].ms < m <=> events[i].ms <= u
          OBVIOUS
        <5>1. events[i].ms \in V /\ events[i].ms \in Nat
          OBVIOUS
        <5>2. events[i].ms < m => events[i].ms <= u
          BY <3>3, <5>1
        <5>3. events[i].ms <= u => events[i].ms < m
          BY <3>4, <5>1
        <5> QED BY <5>2, <5>3
      <4> QED BY <4>1 DEF Below, UpTo
    <3>6. ~(k <= Cardinality(UpTo(events, group, u)))
      <4>1. u \notin W
        BY <1>5, <3>4
      <4> QED BY <3>4, <4>1
    <3> QED BY <1>1, <1>3, <3>5, <3>6
  <2> QED BY <2>1, <2>2
<1>7. PICK v \in V : Chosen(v) /\ v = Ordered(events, group)[k]
  <2>1. m \in V /\ Chosen(m)
    BY <1>5, <1>6 DEF UpTo, Below
  <2>2. Ordered(events, group)[k] = CHOOSE x \in V : Chosen(x)
    BY DEF Ordered
  <2> HIDE DEF V, Chosen
  <2> QED BY <2>1, <2>2
<1>8. /\ k <= Cardinality(UpTo(events, group, v))
      /\ Cardinality(Below(events, group, v)) < k
  BY <1>7 DEF UpTo, Below
<1>9. v \in Nat
  BY <1>2
<1>10. ASSUME NEW limit \in Int
       PROVE  v <= limit <=> k <= Cardinality(UpTo(events, group, limit))
  <2>1. CASE v <= limit
    <3>1. \A i \in group : events[i].ms <= v => events[i].ms <= limit
      BY <1>9, <2>1
    <3>2. UpTo(events, group, v) \in SUBSET UpTo(events, group, limit)
      BY <3>1 DEF UpTo
    <3>3. Cardinality(UpTo(events, group, v)) <= Cardinality(UpTo(events, group, limit))
      BY <1>3, <3>2, PartCounts
    <3> QED BY <1>1, <1>3, <1>8, <2>1, <3>3
  <2>2. CASE limit < v
    <3>1. \A i \in group : events[i].ms <= limit => events[i].ms < v
      BY <1>9, <2>2
    <3>2. UpTo(events, group, limit) \in SUBSET Below(events, group, v)
      BY <3>1 DEF UpTo, Below
    <3>3. Cardinality(UpTo(events, group, limit)) <= Cardinality(Below(events, group, v))
      BY <1>3, <3>2, PartCounts
    <3>4. ~(k <= Cardinality(UpTo(events, group, limit)))
      BY <1>1, <1>3, <1>8, <3>3
    <3> QED BY <1>9, <2>2, <3>4
  <2> QED BY <1>9, <2>1, <2>2
<1> QED BY <1>7, <1>9, <1>10

\* The list has a place for every member of the group.
LEMMA OrderedType ==
  ASSUME NEW events, NEW group, IsFiniteSet(group), \A i \in group : events[i].ms \in Nat
  PROVE  LET ordered == Ordered(events, group)
         IN /\ ordered \in [1..Cardinality(group) -> Nat]
            /\ Len(ordered) = Cardinality(group) /\ Cardinality(group) \in Nat
            /\ group # {} => Cardinality(group) # 0
<1>1. PICK n : n = Cardinality(group)
  OBVIOUS
<1>2. n \in Nat /\ (group # {} => n # 0)
  BY <1>1, FS_CardinalityType, FS_EmptySet
<1>3. PICK ordered : ordered = Ordered(events, group)
  OBVIOUS
<1>4. \A k \in 1..n : ordered[k] \in Nat
  BY <1>1, <1>3, OrderedCounts
<1>6. ordered \in [1..n -> Nat]
  <2> DEFINE At(k) == CHOOSE ms \in {events[i].ms : i \in group} :
                        /\ k <= Cardinality({i \in group : events[i].ms <= ms})
                        /\ Cardinality({i \in group : events[i].ms < ms}) < k
  <2>1. ordered = [k \in 1..n |-> At(k)]
    BY <1>1, <1>3 DEF Ordered
  <2> HIDE DEF At
  <2> QED BY <1>4, <2>1
<1>7. Len(ordered) = n
  BY <1>2, <1>6
<1> QED BY <1>1, <1>2, <1>3, <1>6, <1>7

\* Rounding a share up: the place that it comes to.
LEMMA RoundedUp ==
  ASSUME NEW q \in Nat, NEW n \in Nat, n <= q, q <= 100 * n, n # 0
  PROVE  LET rank == (q + 99) \div 100 - 1
         IN /\ rank \in 0..n - 1
            /\ \A c \in Nat : rank + 1 <= c <=> q <= 100 * c
            /\ n = 1 => rank = 0
OBVIOUS

\* The percentage of a number.
LEMMA Percentage ==
  ASSUME NEW n \in Nat, NEW p \in Percents
  PROVE  p * n \in Nat /\ n <= p * n /\ p * n <= 100 * n
BY DEF Percents

\* The p-th percentile of a group is within a limit exactly if p percent of it are.
LEMMA PercentileCounts ==
  ASSUME NEW events, NEW group, IsFiniteSet(group), \A i \in group : events[i].ms \in Nat,
         group # {}, NEW p \in Percents
  PROVE  /\ LatencySummary(events, group)[p] \in Nat
         /\ \A limit \in Int :
              LatencySummary(events, group)[p] <= limit
                <=> p * Cardinality(group) <= 100 * Cardinality(UpTo(events, group, limit))
<1>1. PICK n, ordered : n = Cardinality(group) /\ ordered = Ordered(events, group)
  OBVIOUS
<1>2. n \in Nat /\ n # 0 /\ ordered \in [1..n -> Nat] /\ Len(ordered) = n
  BY <1>1, OrderedType
<1>3. PICK q \in Nat : q = p * n /\ n <= q /\ q <= 100 * n
  BY <1>2, Percentage
<1>4. PICK rank : rank = (q + 99) \div 100 - 1
  OBVIOUS
<1>5. /\ rank \in 0..n - 1
      /\ \A c \in Nat : rank + 1 <= c <=> q <= 100 * c
      /\ n = 1 => rank = 0
  BY <1>2, <1>3, <1>4, RoundedUp
<1>6. LatencySummary(events, group)[p] = ordered[rank + 1]
  <2>1. LatencySummary(events, group)[p] = Percentile(ordered, p)
    BY <1>1 DEF LatencySummary, Percents
  <2>2. Percentile(ordered, p) =
          IF n = 1 THEN ordered[1]
          ELSE ordered[(IF rank < 0 THEN 0 ELSE IF rank > n - 1 THEN n - 1 ELSE rank) + 1]
    BY <1>2, <1>3, <1>4 DEF Percentile
  <2>3. (IF rank < 0 THEN 0 ELSE IF rank > n - 1 THEN n - 1 ELSE rank) = rank
    BY <1>2, <1>5
  <2>4. n = 1 => rank + 1 = 1
    BY <1>5
  <2> QED BY <2>1, <2>2, <2>3, <2>4
<1>7. rank + 1 \in 1..n
  BY <1>2, <1>5
<1>8. /\ ordered[rank + 1] \in Nat
      /\ \A limit \in Int :
           ordered[rank + 1] <= limit <=> rank + 1 <= Cardinality(UpTo(events, group, limit))
  BY <1>1, <1>7, OrderedCounts
<1>9. ASSUME NEW limit \in Int
      PROVE  ordered[rank + 1] <= limit <=> q <= 100 * Cardinality(UpTo(events, group, limit))
  <2>1. Cardinality(UpTo(events, group, limit)) \in Nat
    <3>1. UpTo(events, group, limit) \in SUBSET group
      BY DEF UpTo
    <3> QED BY <3>1, PartCounts
  <2> QED BY <1>5, <1>8, <2>1
<1> QED BY <1>1, <1>3, <1>6, <1>8, <1>9

\* The sum of a field over groups, in whatever order.
Total(groups, field, S) == FoldSet(LAMBDA n, sum : sum + groups[n][field], 0, S)

\* The recursion of this fold.
LEMMA TotalIs ==
  ASSUME NEW groups, NEW field, NEW S
  PROVE  Total(groups, field, S) =
           (CHOOSE iter : iter = [s \in SUBSET S |->
              IF s = {} THEN 0
              ELSE iter[s \ {CHOOSE x \in s : TRUE}] + groups[CHOOSE x \in s : TRUE][field]])[S]
BY DEF Total, FoldSet, MapThenFoldSet

\* f has the sums over all subsets: first[s] is what comes off s.
TotalsOf(f, first, groups, field, S) ==
  /\ f \in [SUBSET S -> Nat] /\ Total(groups, field, S) = f[S] /\ f[{}] = 0
  /\ \A s \in SUBSET S : s # {} => first[s] \in s /\ f[s] = f[s \ {first[s]}] + groups[first[s]][field]

\* What the fold goes through: the sums over smaller and smaller sets.
LEMMA TotalSteps ==
  ASSUME NEW S, IsFiniteSet(S), NEW groups, NEW field, \A n \in S : groups[n][field] \in Nat
  PROVE  \E f, first : TotalsOf(f, first, groups, field, S)
<1> DEFINE first == [s \in SUBSET S |-> CHOOSE x \in s : TRUE]
           op == [n \in S |-> [sum \in Nat |-> sum + groups[n][field]]]
<1>1. \A s \in SUBSET S : s # {} => first[s] \in s /\ first[s] = CHOOSE x \in s : TRUE
  OBVIOUS
<1>2. \A x \in S : \A a \in Nat : op[x][a] = a + groups[x][field] /\ op[x][a] \in Nat
  <2> SUFFICES ASSUME NEW x \in S, NEW a \in Nat PROVE op[x][a] = a + groups[x][field] /\ op[x][a] \in Nat
    OBVIOUS
  <2>1. op[x][a] = a + groups[x][field]
    OBVIOUS
  <2>2. groups[x][field] \in Nat
    OBVIOUS
  <2> QED BY <2>1, <2>2
<1> HIDE DEF first, op
<1>3. PICK f : f \in [SUBSET S -> Nat] /\ Recursion(f, S, 0, op, first)
  <2>1. 0 \in Nat
    OBVIOUS
  <2> QED BY <1>1, <1>2, <2>1, FoldExists
<1>4. \A s \in SUBSET S : f[s] = IF s = {} THEN 0 ELSE op[first[s]][f[s \ {first[s]}]]
  BY <1>3 DEF Recursion
<1>5. \A s \in SUBSET S : s # {} => f[s] = f[s \ {first[s]}] + groups[first[s]][field]
  <2> SUFFICES ASSUME NEW s \in SUBSET S, s # {} PROVE f[s] = f[s \ {first[s]}] + groups[first[s]][field]
    OBVIOUS
  <2>1. f[s] = op[first[s]][f[s \ {first[s]}]]
    BY <1>4
  <2>2. first[s] \in S /\ s \ {first[s]} \in SUBSET S
    BY <1>1
  <2>3. f[s \ {first[s]}] \in Nat
    BY <1>3, <2>2
  <2> QED BY <1>2, <2>1, <2>2, <2>3
<1>6. f[{}] = 0
  BY <1>4
<1> DEFINE Solves(g) == g = [s \in SUBSET S |->
                              IF s = {} THEN 0
                              ELSE g[s \ {CHOOSE x \in s : TRUE}] + groups[CHOOSE x \in s : TRUE][field]]
<1>7. Solves(f)
  <2>1. ASSUME NEW s \in SUBSET S
        PROVE  f[s] = IF s = {} THEN 0
                      ELSE f[s \ {CHOOSE x \in s : TRUE}] + groups[CHOOSE x \in s : TRUE][field]
    <3>1. CASE s = {}
      BY <1>6, <3>1
    <3>2. CASE s # {}
      BY <1>1, <1>5, <3>2
    <3> QED BY <3>1, <3>2
  <2> QED BY <1>3, <2>1
<1>8. Solves(CHOOSE g : Solves(g))
  <2> HIDE DEF Solves
  <2> QED BY <1>7
<1>9. Total(groups, field, S) = (CHOOSE g : Solves(g))[S]
  BY TotalIs
<1>10. ASSUME NEW g, Solves(g) PROVE g[S] = f[S]
  <2> DEFINE R == {s \in SUBSET S : g[s] = f[s]}
  <2>1. {} \in R
    BY <1>6, <1>10
  <2>2. ASSUME NEW s \in SUBSET S, s # {}
        PROVE  \E x \in s : s \ {x} \in R => s \in R
    <3>1. PICK x \in s : x = first[s] /\ x = CHOOSE y \in s : TRUE
      BY <1>1, <2>2
    <3>2. f[s] = f[s \ {x}] + groups[x][field]
      BY <1>5, <2>2, <3>1
    <3>3. g[s] = g[s \ {x}] + groups[x][field]
      BY <1>10, <2>2, <3>1
    <3>4. s \ {x} \in R => s \in R
      BY <3>2, <3>3
    <3> QED BY <3>4
  <2>3. SUBSET S \subseteq R
    <3> HIDE DEF R, Solves
    <3>1. \A s \in SUBSET S : s # {} => \E x \in s : s \ {x} \in R => s \in R
      BY <2>2
    <3> QED BY <2>1, <3>1, RemovalInduction
  <2> QED BY <2>3
<1> HIDE DEF Solves
<1>11. Total(groups, field, S) = f[S]
  BY <1>8, <1>9, <1>10
<1>12. TotalsOf(f, first, groups, field, S)
  BY <1>1, <1>3, <1>5, <1>6, <1>11 DEF TotalsOf
<1> QED BY <1>12

\* The elements of a set, counted by what they have in common.
LEMMA CountedByName ==
  ASSUME NEW I, IsFiniteSet(I), NEW name, NEW S, IsFiniteSet(S), \A i \in I : name[i] \in S,
         NEW groups, NEW field,
         \A n \in S : groups[n][field] = Cardinality({i \in I : name[i] = n})
  PROVE  Total(groups, field, S) = Cardinality(I)
<1> DEFINE Part(s) == {i \in I : name[i] \in s}
<1>1. \A s \in SUBSET S : IsFiniteSet(Part(s)) /\ Cardinality(Part(s)) \in Nat
  <2> SUFFICES ASSUME NEW s \in SUBSET S
               PROVE  IsFiniteSet(Part(s)) /\ Cardinality(Part(s)) \in Nat
    OBVIOUS
  <2>1. Part(s) \in SUBSET I
    OBVIOUS
  <2> HIDE DEF Part
  <2> QED BY <2>1, PartCounts
<1>2. ASSUME NEW n \in S PROVE groups[n][field] = Cardinality(Part({n})) /\ groups[n][field] \in Nat
  <2>1. Part({n}) = {i \in I : name[i] = n}
    OBVIOUS
  <2>2. {n} \in SUBSET S /\ groups[n][field] = Cardinality({i \in I : name[i] = n})
    OBVIOUS
  <2> HIDE DEF Part
  <2> QED BY <1>1, <2>1, <2>2
<1>0. PICK f, first : TotalsOf(f, first, groups, field, S)
  <2>1. \A n \in S : groups[n][field] \in Nat
    BY <1>2
  <2> HIDE DEF Part
  <2> QED BY <2>1, TotalSteps
<1>3. /\ f \in [SUBSET S -> Nat] /\ Total(groups, field, S) = f[S] /\ f[{}] = 0
      /\ \A s \in SUBSET S : s # {} => first[s] \in s /\ f[s] = f[s \ {first[s]}] + groups[first[s]][field]
  BY <1>0 DEF TotalsOf
<1> DEFINE Q == {s \in SUBSET S : f[s] = Cardinality(Part(s))}
<1>4. {} \in Q
  <2>1. Part({}) = {}
    OBVIOUS
  <2> HIDE DEF Part
  <2> QED BY <1>3, <2>1, FS_EmptySet
<1>5. ASSUME NEW s \in SUBSET S, s # {}
      PROVE  \E x \in s : s \ {x} \in Q => s \in Q
  <2>1. PICK x \in s : f[s] = f[s \ {x}] + groups[x][field]
    BY <1>3, <1>5
  <2>2. Part(s) = Part(s \ {x}) \cup Part({x}) /\ Part(s \ {x}) \cap Part({x}) = {}
    OBVIOUS
  <2>3. s \ {x} \in SUBSET S /\ {x} \in SUBSET S /\ x \in S
    OBVIOUS
  <2> HIDE DEF Part
  <2>4. Cardinality(Part(s)) = Cardinality(Part(s \ {x})) + Cardinality(Part({x}))
    <3>1. Cardinality(Part(s)) =
            Cardinality(Part(s \ {x})) + Cardinality(Part({x})) - Cardinality(Part(s \ {x}) \cap Part({x}))
      BY <1>1, <2>2, <2>3, FS_Union
    <3>2. Cardinality(Part(s \ {x}) \cap Part({x})) = 0
      BY <2>2, FS_EmptySet
    <3>3. Cardinality(Part(s \ {x})) \in Nat /\ Cardinality(Part({x})) \in Nat
      BY <1>1, <2>3
    <3> QED BY <3>1, <3>2, <3>3
  <2>5. s \ {x} \in Q => s \in Q
    <3>1. groups[x][field] = Cardinality(Part({x}))
      BY <1>2, <2>3
    <3> QED BY <2>1, <2>4, <3>1
  <2> QED BY <2>5
<1>6. SUBSET S \subseteq Q
  <2> HIDE DEF Q
  <2>1. \A s \in SUBSET S : s # {} => \E x \in s : s \ {x} \in Q => s \in Q
    BY <1>5
  <2> QED BY <1>4, <2>1, RemovalInduction
<1>7. Part(S) = I
  OBVIOUS
<1> HIDE DEF Part
<1> QED BY <1>3, <1>6, <1>7

-----------------------------------------------------------------------------
(* The SLO gate and the comparison of two reports. *)

\* What a summary says of a group.
Measured(g) ==
  /\ g.total \in Nat /\ g.failures \in Nat /\ g.failures <= g.total
  /\ g.latency[95] \in Nat
  /\ g.total = 0 => g.latency[95] = 0

\* A group of events with latencies is measured.
LEMMA GroupMeasured ==
  ASSUME NEW events, NEW group, IsFiniteSet(group), \A i \in group : events[i].ms \in Nat
  PROVE  /\ Measured(Group(events, group))
         /\ Group(events, group).total = Cardinality(group)
         /\ Group(events, group).failures = Cardinality(Failures(events, group))
         /\ Group(events, group).latency = LatencySummary(events, group)
<1>1. PICK g : g = Group(events, group)
  OBVIOUS
<1>2. /\ g.total = Cardinality(group) /\ g.failures = Cardinality(Failures(events, group))
      /\ g.latency = LatencySummary(events, group)
  BY <1>1 DEF Group
<1>3. Failures(events, group) \in SUBSET group
  BY DEF Failures
<1>4. /\ Cardinality(group) \in Nat /\ Cardinality(Failures(events, group)) \in Nat
      /\ Cardinality(Failures(events, group)) <= Cardinality(group)
  BY <1>3, PartCounts, FS_CardinalityType
<1>5. 95 \in Percents
  BY DEF Percents
<1>6. CASE group = {}
  <2>1. LatencySummary(events, group)[95] = 0
    BY <1>5, <1>6 DEF LatencySummary
  <2> QED BY <1>1, <1>2, <1>4, <2>1 DEF Measured
<1>7. CASE group # {}
  <2>1. LatencySummary(events, group)[95] \in Nat
    BY <1>5, <1>7, PercentileCounts
  <2>2. Cardinality(group) # 0
    BY <1>7, FS_EmptySet
  <2> QED BY <1>1, <1>2, <1>4, <2>1, <2>2 DEF Measured
<1> QED BY <1>6, <1>7

\* A limit of a group keeps if 95 percent of its requests are within the latency and no
\* more of them have failed than is allowed.
Keeps(events, limit, group) ==
  /\ limit.p95 = None \/ 95 * Cardinality(group) <= 100 * Cardinality(UpTo(events, group, limit.p95))
  /\ limit.rate = None \/ 100 * Cardinality(Failures(events, group)) <= limit.rate * Cardinality(group)

\* The gate finds nothing in a group exactly if its limit keeps.
LEMMA GateKeeps ==
  ASSUME NEW events, NEW group, IsFiniteSet(group), \A i \in group : events[i].ms \in Nat,
         NEW scope, NEW limit, limit.p95 \in Nat \cup {None}, limit.rate \in Nat \cup {None}
  PROVE  Breaches(scope, limit, Group(events, group)) = {} <=> Keeps(events, limit, group)
<1>1. PICK g : g = Group(events, group)
  OBVIOUS
<1>2. /\ Measured(g) /\ g.total = Cardinality(group)
      /\ g.failures = Cardinality(Failures(events, group))
      /\ g.latency = LatencySummary(events, group)
  BY <1>1, GroupMeasured
<1>3. None \notin Nat
  BY DEF None
<1>4. ASSUME limit.p95 # None
      PROVE  g.latency[95] > limit.p95
               <=> ~(95 * Cardinality(group) <= 100 * Cardinality(UpTo(events, group, limit.p95)))
  <2>1. limit.p95 \in Nat /\ limit.p95 \in Int
    BY <1>3, <1>4
  <2>2. CASE group = {}
    <3>1. UpTo(events, group, limit.p95) = {} /\ Cardinality(group) = 0
      BY <2>2, FS_EmptySet DEF UpTo
    <3>2. g.latency[95] = 0
      BY <1>2, <3>1 DEF Measured
    <3>3. Cardinality(UpTo(events, group, limit.p95)) = 0
      BY <3>1, FS_EmptySet
    <3> QED BY <2>1, <3>1, <3>2, <3>3
  <2>3. CASE group # {}
    <3>1. 95 \in Percents
      BY DEF Percents
    <3>2. g.latency[95] <= limit.p95
            <=> 95 * Cardinality(group) <= 100 * Cardinality(UpTo(events, group, limit.p95))
      BY <1>2, <2>1, <2>3, <3>1, PercentileCounts
    <3>3. g.latency[95] \in Nat
      BY <1>2 DEF Measured
    <3> QED BY <2>1, <3>2, <3>3
  <2> QED BY <2>2, <2>3
<1>5. ASSUME limit.rate # None
      PROVE  100 * Rate(g).num > limit.rate * Rate(g).den
               <=> ~(100 * Cardinality(Failures(events, group)) <= limit.rate * Cardinality(group))
  <2>1. PICK rate \in Nat, failures \in Nat, total \in Nat :
          /\ rate = limit.rate /\ failures = g.failures /\ total = g.total /\ failures <= total
    BY <1>2, <1>3, <1>5 DEF Measured
  <2>2. Rate(g).num = failures /\ Rate(g).den = IF total = 0 THEN 1 ELSE total
    BY <2>1 DEF Rate
  <2>3. failures = Cardinality(Failures(events, group)) /\ total = Cardinality(group)
    BY <1>2, <2>1
  <2>4. PICK d \in Nat, x \in Nat, y \in Nat :
          /\ d = (IF total = 0 THEN 1 ELSE total) /\ x = rate * d /\ y = rate * total
          /\ total # 0 => x = y
          /\ total = 0 => y = 0
    BY <2>1
  <2>5. 100 * failures > x <=> ~(100 * failures <= y)
    BY <2>1, <2>4
  <2> QED BY <2>1, <2>2, <2>3, <2>4, <2>5
<1>6. Breaches(scope, limit, g) = {}
        <=> /\ ~(limit.p95 # None /\ g.latency[95] > limit.p95)
            /\ ~(limit.rate # None /\ 100 * Rate(g).num > limit.rate * Rate(g).den)
  <2> DEFINE b1 == <<scope, "p95">>
             b2 == <<scope, "rate">>
  <2>1. b1[2] = "p95" /\ b2[2] = "rate"
    OBVIOUS
  <2>2. b1 \in Breaches(scope, limit, g) <=> limit.p95 # None /\ g.latency[95] > limit.p95
    BY DEF Breaches
  <2>3. b2 \in Breaches(scope, limit, g)
          <=> limit.rate # None /\ 100 * Rate(g).num > limit.rate * Rate(g).den
    BY DEF Breaches
  <2>4. Breaches(scope, limit, g) \subseteq {b1, b2}
    BY DEF Breaches
  <2> QED BY <2>2, <2>3, <2>4
<1> QED BY <1>1, <1>4, <1>5, <1>6 DEF Keeps

\* What is worse in one direction, by more than is allowed, is better in the other.
LEMMA WorseIsBetter ==
  ASSUME NEW scope, NEW old, NEW new, Measured(old), Measured(new),
         NEW allowed, allowed.p95 \in Nat, allowed.rate \in Nat
  PROVE  /\ Regressions(scope, old, new, allowed) \subseteq Improvements(scope, new, old)
         /\ allowed.p95 = 0 /\ allowed.rate = 0
              => Regressions(scope, old, new, allowed) = Improvements(scope, new, old)
<1>1. PICK x \in Nat, y \in Nat, p \in Nat, r \in Nat :
        x = old.latency[95] /\ y = new.latency[95] /\ p = allowed.p95 /\ r = allowed.rate
  BY DEF Measured
<1>2. /\ y - x > p => y > x
      /\ p = 0 => (y - x > p <=> y > x)
  OBVIOUS
<1>3. PICK a, b, d \in Nat :
        /\ a = Rate(new).num * Rate(old).den /\ b = Rate(old).num * Rate(new).den
        /\ d = Rate(new).den * Rate(old).den /\ a \in Nat /\ b \in Nat
  <2>1. \A g : Measured(g) => Rate(g).num \in Nat /\ Rate(g).den \in Nat
    BY DEF Measured, Rate
  <2>2. PICK i \in Nat, j \in Nat, k \in Nat, l \in Nat :
          /\ i = Rate(new).num /\ j = Rate(old).den /\ k = Rate(old).num /\ l = Rate(new).den
    BY <2>1
  <2>3. i * j \in Nat /\ k * l \in Nat /\ l * j \in Nat
    OBVIOUS
  <2> QED BY <2>2, <2>3
<1>4. /\ RateDelta(old, new).num = a - b /\ RateDelta(old, new).den = d
      /\ RateDelta(new, old).num = b - a
  BY <1>3 DEF RateDelta
<1>5. PICK e \in Nat : e = r * d
  OBVIOUS
<1>6. /\ 100 * (a - b) > e => b - a < 0
      /\ e = 0 => (100 * (a - b) > e <=> b - a < 0)
  BY <1>3
<1>7. r = 0 => e = 0
  BY <1>5
<1> DEFINE c1 == <<scope, "p95">>
           c2 == <<scope, "rate">>
<1>8. /\ c1 \in Regressions(scope, old, new, allowed) <=> y - x > p
      /\ c2 \in Regressions(scope, old, new, allowed) <=> 100 * (a - b) > e
      /\ Regressions(scope, old, new, allowed) \subseteq {c1, c2}
  <2>1. /\ c1 \in Regressions(scope, old, new, allowed)
             <=> new.latency[95] - old.latency[95] > allowed.p95
        /\ c2 \in Regressions(scope, old, new, allowed)
             <=> 100 * RateDelta(old, new).num > allowed.rate * RateDelta(old, new).den
        /\ Regressions(scope, old, new, allowed) \subseteq {c1, c2}
    BY DEF Regressions
  <2> QED BY <1>1, <1>4, <1>5, <2>1
<1>9. /\ c1 \in Improvements(scope, new, old) <=> x < y
      /\ c2 \in Improvements(scope, new, old) <=> b - a < 0
      /\ Improvements(scope, new, old) \subseteq {c1, c2}
  <2>1. /\ c1 \in Improvements(scope, new, old) <=> old.latency[95] < new.latency[95]
        /\ c2 \in Improvements(scope, new, old) <=> RateDelta(new, old).num < 0
        /\ Improvements(scope, new, old) \subseteq {c1, c2}
    BY DEF Improvements
  <2> QED BY <1>1, <1>4, <2>1
<1> HIDE DEF c1, c2
<1>10. Regressions(scope, old, new, allowed) \subseteq Improvements(scope, new, old)
  BY <1>2, <1>6, <1>8, <1>9
<1>11. ASSUME p = 0, r = 0
       PROVE  Regressions(scope, old, new, allowed) = Improvements(scope, new, old)
  <2>1. y - x > p <=> x < y
    BY <1>2, <1>11
  <2>2. 100 * (a - b) > e <=> b - a < 0
    BY <1>6, <1>7, <1>11
  <2> QED BY <1>8, <1>9, <2>1, <2>2
<1> QED BY <1>1, <1>10, <1>11

=============================================================================
