------------------------------ MODULE PlanMath ------------------------------
(***************************************************************************)
(* The arithmetic of a run: how personas and users are dealt out to the    *)
(* workers (data.py, distributed.py), and how the locales of a pool are    *)
(* weighted (data.py).                                                     *)
(*                                                                         *)
(* Personas are named by their index in the pool; worker indices start     *)
(* with 0.  Weights are integers.                                          *)
(***************************************************************************)
EXTENDS Integers, Sequences, SequencesExt

-----------------------------------------------------------------------------
(* Workers. *)

\* Mutant: blocks of neighbouring personas, of equal length.
Partition_Blocks(pool, workers, w) ==
  {p \in 0..pool - 1 : p \div ((pool + workers - 1) \div workers) = w}

\* PersonaPool.partition
Partition(pool, workers, w) == {p \in 0..pool - 1 : p % workers = w}

\* _target_users_for_worker
TargetFor(users, workers, w) ==
  users \div workers + (IF w < users % workers THEN 1 ELSE 0)

-----------------------------------------------------------------------------
(* Locales. *)

SumOf(counts) == FoldLeft(+, 0, counts)

\* Mutant: what is missing goes to the heaviest locale.
Best_Heaviest(pool, weights, counts) ==
  CHOOSE i \in DOMAIN weights :
    \A j \in DOMAIN weights : weights[j] <= weights[i] /\ (weights[j] = weights[i] => j <= i)

\* The locale that is furthest below its share, the last one of equals.
Best(pool, weights, counts) ==
  LET Score(i) == pool * weights[i] - counts[i] * SumOf(weights)
  IN CHOOSE i \in DOMAIN weights :
       \A j \in DOMAIN weights : Score(j) <= Score(i) /\ (Score(j) = Score(i) => j <= i)

\* The counts of _expand_locales: whole shares first, then one at a time.
LocaleCounts(pool, weights) ==
  LET whole == [i \in DOMAIN weights |-> (pool * weights[i]) \div SumOf(weights)]
      Add(counts, k) == [counts EXCEPT ![Best(pool, weights, counts)] = @ + 1]
  IN FoldLeft(Add, whole, [k \in 1..pool - SumOf(whole) |-> k])

\* PersonaPool.generate: the locale of every persona, the locales in their order.
Locales(pool, weights) ==
  FlattenSeq([i \in DOMAIN weights |-> [k \in 1..LocaleCounts(pool, weights)[i] |-> i]])

-----------------------------------------------------------------------------
(* What the plan promises. *)

\* Every persona belongs to one worker and to one only.
DealtOutOnce(pool, workers) ==
  \A p \in 0..pool - 1 : \E w \in 0..workers - 1 :
    /\ p \in Partition(pool, workers, w)
    /\ \A v \in 0..workers - 1 : p \in Partition(pool, workers, v) => v = w

\* The targets of the workers add up to the users.
TargetsAddUp(users, workers) ==
  SumOf([i \in 1..workers |-> TargetFor(users, workers, i - 1)]) = users

\* A pool that has a persona for every user has one on each worker for each of its users:
\* the partition of w holds w, w + workers, ..., one per user at least.
ShareSuffices(pool, users, workers) ==
  users <= pool =>
    \A w \in 0..workers - 1 : \A j \in 0..TargetFor(users, workers, w) - 1 :
      w + j * workers \in Partition(pool, workers, w)

=============================================================================
