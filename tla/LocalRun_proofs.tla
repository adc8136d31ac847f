--------------------------- MODULE LocalRun_proofs ---------------------------
(***************************************************************************)
(* Theorems about LocalRun, for every profile, rate, pool and number of    *)
(* users: types, the arithmetic of the spawn budget, the bound on live     *)
(* users, and that nothing is left behind by a run that returns.           *)
(***************************************************************************)
EXTENDS LocalRun, FiniteSetTheorems, TLAPS

-----------------------------------------------------------------------------
(* Arithmetic. *)

\* What the integer division of the spawn budget gives.
LEMMA DivBound ==
  ASSUME NEW x \in Nat, NEW u \in Nat \ {0}
  PROVE  x \div u \in Nat /\ (x \div u) * u <= x
<1>1. x = u * (x \div u) + (x % u)
  OBVIOUS
<1>2. x % u \in 0..u - 1
  OBVIOUS
<1>3. x \div u \in Int /\ x \div u >= 0
  OBVIOUS
<1> QED BY <1>1, <1>2, <1>3

\* Multiplication by a natural number is monotone.
LEMMA MulMono ==
  ASSUME NEW a \in Nat, NEW b \in Nat, NEW c \in Nat, a <= b
  PROVE  a * c <= b * c /\ c * a <= c * b /\ a * c \in Nat
<1> DEFINE d == b - a
<1>1. d \in Nat /\ b = a + d
  OBVIOUS
<1>2. d * c \in Nat /\ c * d \in Nat
  BY <1>1
<1>3. b * c = a * c + d * c /\ c * b = c * a + c * d
  BY <1>1
<1> QED BY <1>2, <1>3

\* A fraction of something is not more than the whole.
LEMMA DivLe ==
  ASSUME NEW x \in Nat, NEW b \in Nat, NEW u \in Nat \ {0}, x <= b * u
  PROVE  x \div u <= b
<1> DEFINE q == x \div u
<1>1. q \in Nat /\ q * u <= x
  BY DivBound
<1> SUFFICES ASSUME q >= b + 1 PROVE FALSE
  BY <1>1
<1>2. (b + 1) * u <= q * u
  BY <1>1, MulMono
<1>3. (b + 1) * u = b * u + u
  OBVIOUS
<1> HIDE DEF q
<1>4. b * u \in Nat /\ q * u \in Nat
  BY <1>1
<1> QED BY <1>1, <1>2, <1>3, <1>4

\* The indices between two counts are indices below any bound of the larger count.
LEMMA Subinterval ==
  ASSUME NEW n \in Int, NEW s \in Nat, NEW t \in Nat, t <= n
  PROVE  s..t - 1 \subseteq 0..n - 1
OBVIOUS

-----------------------------------------------------------------------------
(* The profile. *)

\* The number of ticks of a soak.
LEMMA SoakTicksType == SoakTicks \in Nat
<1>1. CASE TickSeconds = 0
  BY <1>1 DEF SoakTicks
<1>2. CASE TickSeconds # 0
  <2>1. TickSeconds \in Nat \ {0} /\ Duration + TickSeconds - 1 \in Nat
    BY <1>2, LocalAssumption
  <2> QED BY <2>1, <1>2, DivBound DEF SoakTicks
<1> QED BY <1>1, <1>2

\* The number of ticks of a ramp, which end with its duration.
LEMMA RampTicksType ==
  /\ RampTicks \in Nat
  /\ \A i \in 1..RampTicks : (i - 1) * TickSeconds \in Nat /\ (i - 1) * TickSeconds <= Duration
<1>1. CASE TickSeconds = 0
  BY <1>1, LocalAssumption DEF RampTicks
<1>2. CASE TickSeconds # 0
  <2> DEFINE q == Duration \div TickSeconds
  <2>1. TickSeconds \in Nat \ {0} /\ Duration \in Nat
    BY <1>2, LocalAssumption
  <2>2. q \in Nat /\ q * TickSeconds <= Duration
    BY <2>1, DivBound
  <2>3. RampTicks = q + 1
    BY <1>2 DEF RampTicks
  <2> HIDE DEF q
  <2>4. ASSUME NEW i \in 1..q + 1
        PROVE  (i - 1) * TickSeconds \in Nat /\ (i - 1) * TickSeconds <= Duration
    <3>1. i - 1 \in Nat /\ i - 1 <= q
      BY <2>2
    <3>2. (i - 1) * TickSeconds <= q * TickSeconds /\ (i - 1) * TickSeconds \in Nat
      BY <3>1, <2>1, <2>2, MulMono
    <3>3. q * TickSeconds \in Nat
      BY <2>1, <2>2
    <3> QED BY <3>2, <3>3, <2>1, <2>2
  <2> QED BY <2>2, <2>3, <2>4
<1> QED BY <1>1, <1>2

\* No point of a profile asks for more than run.users, and the last one asks for none.
LEMMA PointsType ==
  /\ Len(Points) \in Nat \ {0}
  /\ \A i \in 1..Len(Points) : Points[i] \in 0..Users
  /\ Points[Len(Points)] = 0
<1>1. SoakPoints \in Seq(0..Users)
  BY SoakTicksType, LocalAssumption DEF SoakPoints
<1>2. RampPoints \in Seq(0..Users)
  <2>1. ASSUME NEW i \in 1..RampTicks
        PROVE  (Users * ((i - 1) * TickSeconds)) \div Duration \in 0..Users
    <3> DEFINE t == (i - 1) * TickSeconds
    <3>1. t \in Nat /\ t <= Duration
      BY RampTicksType
    <3>2. Users \in Nat /\ Duration \in Nat \ {0}
      BY LocalAssumption
    <3> HIDE DEF t
    <3>3. Users * t <= Users * Duration /\ Users * t \in Nat
      BY <3>1, <3>2, MulMono
    <3>4. (Users * t) \div Duration <= Users /\ (Users * t) \div Duration \in Nat
      BY <3>2, <3>3, DivLe, DivBound
    <3> QED BY <3>2, <3>4 DEF t
  <2> QED BY <2>1, RampTicksType DEF RampPoints
<1> DEFINE P == IF Profile = "ramp" THEN RampPoints ELSE SoakPoints
<1>3. P \in Seq(0..Users)
  BY <1>1, <1>2
<1>4. Points = Append(P, 0)
  BY DEF Points
<1> HIDE DEF P
<1> QED BY <1>3, <1>4, LocalAssumption

-----------------------------------------------------------------------------
(* The inductive invariant. *)

\* Never more users than the ticks so far could have asked for.
StartedInv == started <= Users * Least(tick - 1, Len(Points) - 1)

\* User indices are used in order, and run() holds on to every user that is not done.
TasksInv ==
  /\ Live \subseteq tasks
  /\ tasks \subseteq 0..started - 1
  /\ \A u \in User : pc[u] = "none" <=> started <= u
  /\ rpc = "returned" => Live = {}

\* Nobody is cancelled unless the run has failed.
CancelInv ==
  /\ \A u \in User : cancel[u] => rpc = "failed"
  /\ \A u \in User : outcome[u] # "none" <=> pc[u] = "done"

\* What is left to clean up, and what is known of trouble, at each point of _run_user.
TeardownAt(u) ==
  /\ pc[u] \in {"none", "created"} =>
       actions[u] = 0 /\ persona[u] = None /\ u \notin troubled
  /\ pc[u] \in {"none", "created", "on_start", "loop", "run_once", "on_stop"} => todo[u] = 0
  /\ pc[u] \in {"on_start", "loop", "run_once", "on_stop"} =>
       (u \in troubled => noted[u] > 0)
  /\ pc[u] = "cleanup" =>
       todo[u] > 0 /\ actions[u] = 0 /\ (u \in troubled => failed[u] > 0)
  /\ pc[u] \in {"aclose_http", "aclose_db", "done"} => actions[u] = 0
  /\ pc[u] \in {"aclose_http", "aclose_db", "done"} /\ rpc # "failed" =>
       /\ todo[u] = 0
       /\ u \in troubled => reported[u] > 0
  /\ pc[u] \in {"aclose_http", "aclose_db"} /\ rpc # "failed" => reported[u] # None
  /\ pc[u] = "done" /\ persona[u] # None /\ rpc # "failed" => reported[u] # None

\* All users.
TeardownInv == \A u \in User : TeardownAt(u)

\* The inductive invariant.
IInv ==
  /\ TypeOK
  /\ StartedInv
  /\ TasksInv
  /\ ConcurrencyBound
  /\ StartsPaid
  /\ CancelInv
  /\ TeardownInv

-----------------------------------------------------------------------------
(* The runner. *)

\* There are finitely many users, and no tick but the last one can start Users of them.
LEMMA UserFinite ==
  /\ IsFiniteSet(User)
  /\ Users \in Nat
  /\ Users * (Len(Points) - 1) \in Nat
<1>1. Users \in Nat /\ Len(Points) - 1 \in Nat
  BY LocalAssumption, PointsType
<1>2. Users * (Len(Points) - 1) \in Nat
  BY <1>1
<1>3. IsFiniteSet(0..Users * (Len(Points) - 1) - 1)
  BY <1>2, FS_Interval
<1> QED BY <1>1, <1>2, <1>3 DEF User

\* A budget that is limited never grows by more than a tick's worth, nor above the cap.
LEMMA ReplenishedType ==
  ASSUME NEW saved \in Nat
  PROVE  /\ Replenished(saved) \in Nat
         /\ Replenished(saved) <= saved + SpawnRate * TickSeconds
         /\ Replenished(saved) <= Greatest(SpawnRate, Unit)
<1> DEFINE g == SpawnRate * TickSeconds
<1>1. g \in Nat /\ SpawnRate \in Nat /\ Unit \in Nat
  BY LocalAssumption
<1> HIDE DEF g
<1>2. Least(saved + g, Greatest(SpawnRate, Unit)) \in Nat
  BY <1>1 DEF Least, Greatest
<1>3. /\ Least(saved + g, Greatest(SpawnRate, Unit)) <= saved + g
      /\ Least(saved + g, Greatest(SpawnRate, Unit)) <= Greatest(SpawnRate, Unit)
  BY <1>1 DEF Least, Greatest
<1> QED BY <1>2, <1>3 DEF Replenished, g

\* One tick: what it starts is paid from the budget and fits below the target.
LEMMA TickFacts ==
  ASSUME IInv, Tick
  PROVE  \E saved \in Nat, count \in Nat :
           /\ Limited => /\ saved <= budget + SpawnRate * TickSeconds
                         /\ saved <= Greatest(SpawnRate, Unit)
                         /\ count * Unit <= saved
           /\ Limited \/ saved = budget
           /\ budget' = IF Limited THEN saved - count * Unit ELSE saved
           /\ count = 0 \/ count + Cardinality(ActiveTasks) <= Points[tick]
           /\ count <= Points[tick]
           /\ started' = started + count
           /\ tasks' = ActiveTasks \cup started .. started + count - 1
           /\ pc' = [u \in User |-> IF u \in started .. started + count - 1
                                  THEN "created" ELSE pc[u]]
<1> DEFINE saved == IF Limited THEN Replenished(budget) ELSE budget
           deficit == Deficit(Points[tick])
           count == IF Limited THEN Least(deficit, saved \div Unit) ELSE deficit
<1>1. budget \in Nat /\ tick \in 1..Len(Points) /\ tasks \subseteq User
  BY PointsType DEF IInv, TypeOK, Tick
<1>2. IsFiniteSet(ActiveTasks)
  BY <1>1, UserFinite, FS_Subset DEF ActiveTasks
<1>3. Cardinality(ActiveTasks) \in Nat
  BY <1>2, FS_CardinalityType
<1>4. Points[tick] \in Nat
  BY <1>1, PointsType
<1>5. /\ deficit \in Nat
      /\ deficit <= Points[tick]
      /\ deficit = 0 \/ deficit + Cardinality(ActiveTasks) <= Points[tick]
  BY <1>3, <1>4 DEF Deficit, Greatest
<1>6. /\ saved \in Nat
      /\ Limited => /\ saved <= budget + SpawnRate * TickSeconds
                    /\ saved <= Greatest(SpawnRate, Unit)
  BY <1>1, ReplenishedType
<1> HIDE DEF deficit, saved
<1>7. Unit \in Nat \ {0}
  BY LocalAssumption
<1>8. saved \div Unit \in Nat /\ (saved \div Unit) * Unit <= saved
  BY <1>6, <1>7, DivBound
<1>9. count \in Nat /\ count <= deficit /\ (Limited => count <= saved \div Unit)
  BY <1>5, <1>8 DEF Least
<1> HIDE DEF count
<1>10. Limited => count * Unit <= saved
  <2> SUFFICES ASSUME Limited PROVE count * Unit <= saved
    OBVIOUS
  <2>1. count * Unit <= (saved \div Unit) * Unit /\ count * Unit \in Nat
    BY <1>7, <1>8, <1>9, MulMono
  <2>2. (saved \div Unit) * Unit \in Nat
    BY <1>7, <1>8
  <2> QED BY <2>1, <2>2, <1>6, <1>8
<1>11. count = 0 \/ count + Cardinality(ActiveTasks) <= Points[tick]
  BY <1>3, <1>4, <1>5, <1>9
<1>12. count <= Points[tick]
  BY <1>4, <1>5, <1>9
<1>13. /\ budget' = IF Limited THEN saved - count * Unit ELSE saved
       /\ started' = started + count
       /\ tasks' = ActiveTasks \cup started .. started + count - 1
       /\ pc' = [u \in User |-> IF u \in started .. started + count - 1
                                THEN "created" ELSE pc[u]]
  BY DEF Tick, saved, count, deficit, Remaining
<1>14. Limited \/ saved = budget
  BY DEF saved
<1> QED BY <1>6, <1>9, <1>10, <1>11, <1>12, <1>13, <1>14

\* The users a tick starts exist: the last tick, whose target is 0, starts none.
LEMMA TickStarts ==
  ASSUME IInv, Tick
  PROVE  /\ StartedInv'
         /\ started' \in Nat
         /\ started..started' - 1 \subseteq User
<1>1. PICK saved \in Nat, count \in Nat :
        /\ count <= Points[tick]
        /\ started' = started + count
  BY TickFacts
<1> DEFINE N == Len(Points)
<1>2. /\ tick \in 1..N /\ N \in Nat \ {0} /\ Users \in Nat /\ started \in Nat
      /\ tick' = tick + 1 /\ Points[N] = 0 /\ Points[tick] \in 0..Users
      /\ started <= Users * Least(tick - 1, N - 1)
  BY PointsType, LocalAssumption DEF IInv, TypeOK, StartedInv, Tick
<1> HIDE DEF N
<1>5. started' <= Users * Least(tick' - 1, N - 1)
  <2>1. CASE tick < N
    <3>1. Least(tick - 1, N - 1) = tick - 1 /\ Least(tick' - 1, N - 1) = tick
      BY <1>2, <2>1 DEF Least
    <3>2. Users * tick = Users * (tick - 1) + Users
      BY <1>2
    <3>3. Users * tick \in Nat /\ Users * (tick - 1) \in Nat
      BY <1>2
    <3>4. started' <= Users * tick
      BY <1>1, <1>2, <3>1, <3>2, <3>3
    <3> QED BY <3>1, <3>4
  <2>2. CASE tick = N
    <3>1. Least(tick - 1, N - 1) = N - 1 /\ Least(tick' - 1, N - 1) = N - 1
      BY <1>2, <2>2 DEF Least
    <3>2. started' = started
      BY <1>1, <1>2, <2>2
    <3> QED BY <3>1, <3>2, <1>2
  <2> QED BY <1>2, <2>1, <2>2
<1>6. Users * Least(tick' - 1, N - 1) <= Users * (N - 1)
  <2>1. Least(tick' - 1, N - 1) \in Nat /\ N - 1 \in Nat /\ Least(tick' - 1, N - 1) <= N - 1
    BY <1>2 DEF Least
  <2> QED BY <2>1, <1>2, MulMono
<1>7. Users * Least(tick' - 1, N - 1) \in Int /\ Users * (N - 1) \in Int
  BY <1>2 DEF Least
<1>8. started' \in Nat /\ started' <= Users * (N - 1)
  BY <1>1, <1>2, <1>5, <1>6, <1>7
<1>9. started..started' - 1 \subseteq User
  <2> DEFINE M == Users * (N - 1)
  <2>1. M \in Int /\ started' <= M
    BY <1>7, <1>8
  <2>2. User = 0..M - 1
    BY DEF User, N
  <2>3. started \in Nat /\ started' \in Nat
    BY <1>2, <1>8
  <2> HIDE DEF M
  <2> QED BY <2>1, <2>2, <2>3, Subinterval
<1> QED BY <1>5, <1>8, <1>9 DEF StartedInv, N

\* A tick neither loses sight of a user nor exceeds the target.
LEMMA TickTasks ==
  ASSUME IInv, Tick
  PROVE  /\ tasks' \subseteq User
         /\ TasksInv'
         /\ ConcurrencyBound'
<1>1. PICK saved \in Nat, count \in Nat :
        /\ count = 0 \/ count + Cardinality(ActiveTasks) <= Points[tick]
        /\ started' = started + count
        /\ tasks' = ActiveTasks \cup started .. started + count - 1
        /\ pc' = [u \in User |-> IF u \in started .. started + count - 1
                               THEN "created" ELSE pc[u]]
  BY TickFacts
<1> DEFINE new == started .. started + count - 1
<1>2. /\ started \in Nat /\ tasks \subseteq User /\ pc \in [User -> UserAt]
      /\ Live \subseteq tasks /\ tasks \subseteq 0..started - 1
      /\ \A u \in User : pc[u] = "none" <=> started <= u
  BY DEF IInv, TypeOK, TasksInv
<1>3. User \subseteq Int
  BY UserFinite DEF User
<1>4. new \subseteq User
  <2>1. started' - 1 = started + count - 1
    BY <1>1, <1>2
  <2> QED BY <2>1, TickStarts
<1>5. ActiveTasks = Live
  <2>1. \A u \in tasks : pc[u] # "none"
    BY <1>2, <1>3
  <2> QED BY <1>2, <2>1 DEF ActiveTasks, Live
<1>6. Live' = Live \cup new
  <2>1. ASSUME NEW u \in User PROVE u \in Live' <=> u \in Live \cup new
    BY <1>1, <1>2, <1>4 DEF Live
  <2>2. Live' \subseteq User /\ Live \cup new \subseteq User
    BY <1>4 DEF Live
  <2> QED BY <2>1, <2>2
<1>7. TasksInv'
  <2>1. Live' \subseteq tasks'
    BY <1>1, <1>5, <1>6
  <2>2. tasks' \subseteq 0..started' - 1
    BY <1>1, <1>2, <1>3, <1>5
  <2>3. \A u \in User : pc'[u] = "none" <=> started' <= u
    BY <1>1, <1>2, <1>3
  <2>4. rpc' # "returned"
    BY DEF Tick
  <2> QED BY <2>1, <2>2, <2>3, <2>4 DEF TasksInv, Live
<1>8. ConcurrencyBound'
  <2>1. IsFiniteSet(Live) /\ IsFiniteSet(new)
    BY <1>2, <1>4, UserFinite, FS_Subset
  <2>2. /\ Cardinality(Live) \in Nat /\ Cardinality(new) \in Nat
        /\ Cardinality(Live \cup new) \in Nat
    BY <2>1, FS_CardinalityType, FS_Union
  <2>3. Cardinality(Live \cup new) <= Cardinality(Live) + Cardinality(new)
    <3>1. /\ Cardinality(Live \cup new)
               = Cardinality(Live) + Cardinality(new) - Cardinality(Live \cap new)
          /\ Cardinality(Live \cap new) \in Nat
      BY <2>1, FS_Union, FS_Intersection, FS_CardinalityType
    <3> QED BY <2>2, <3>1
  <2>4. Cardinality(new) = count
    <3>1. Cardinality(started .. started + count - 1)
            = IF started > started + count - 1 THEN 0 ELSE started + count - 1 - started + 1
      BY <1>1, <1>2, FS_Interval
    <3> QED BY <3>1, <1>1, <1>2
  <2>5. Points[tick] \in Nat /\ Points[tick] <= Users /\ Users \in Nat
    BY PointsType, LocalAssumption DEF IInv, TypeOK, Tick
  <2>6. CASE count = 0
    <3>1. new = {}
      BY <2>6, <1>2
    <3> QED BY <3>1, <1>6 DEF IInv, ConcurrencyBound
  <2>7. CASE count + Cardinality(ActiveTasks) <= Points[tick]
    BY <2>2, <2>3, <2>4, <2>5, <2>7, <1>5, <1>6 DEF ConcurrencyBound
  <2> QED BY <1>1, <2>6, <2>7
<1> QED BY <1>1, <1>4, <1>5, <1>2, <1>7, <1>8

\* A tick pays for what it starts, from a budget that is capped.
LEMMA TickBudget ==
  ASSUME IInv, Tick
  PROVE  /\ budget' \in Nat
         /\ StartsPaid'
         /\ Limited => (started' - started) * Unit <= Greatest(SpawnRate, Unit)
<1>1. PICK saved \in Nat, count \in Nat :
        /\ Limited => /\ saved <= budget + SpawnRate * TickSeconds
                      /\ saved <= Greatest(SpawnRate, Unit)
                      /\ count * Unit <= saved
        /\ budget' = IF Limited THEN saved - count * Unit ELSE saved
        /\ started' = started + count
  BY TickFacts
<1> DEFINE g == SpawnRate * TickSeconds
           c == count * Unit
           s == started * Unit
<1>2. /\ started \in Nat /\ budget \in Nat /\ tick \in Nat \ {0} /\ tick' = tick + 1
      /\ Limited => s + budget <= g * (tick - 1)
  BY PointsType DEF IInv, TypeOK, StartsPaid, Tick
<1>3. /\ SpawnRate \in Nat /\ Unit \in Nat /\ g \in Nat /\ c \in Nat /\ s \in Nat
  BY <1>1, <1>2, LocalAssumption
<1>4. /\ started' * Unit = s + c
      /\ (started' - started) * Unit = c
  BY <1>1, <1>2, <1>3
<1>5. g * (tick' - 1) = g * (tick - 1) + g /\ g * (tick - 1) \in Nat
  <2> HIDE DEF g
  <2> QED BY <1>2, <1>3
<1>6. Greatest(SpawnRate, Unit) \in Nat
  BY <1>3 DEF Greatest
<1> HIDE DEF g, c, s
<1>7. ASSUME Limited
      PROVE  saved \in Nat /\ saved <= budget + g /\ c <= saved
             /\ saved <= Greatest(SpawnRate, Unit) /\ budget' = saved - c
  BY <1>1, <1>7 DEF g, c
<1>8. budget' \in Nat
  BY <1>1, <1>3, <1>7
<1>9. ASSUME Limited PROVE started' * Unit + budget' <= g * (tick' - 1)
  BY <1>2, <1>3, <1>4, <1>5, <1>7, <1>9
<1>10. Limited' = Limited
  BY DEF Limited
<1>11. StartsPaid'
  BY <1>9, <1>10 DEF StartsPaid, g
<1> QED BY <1>3, <1>4, <1>6, <1>7, <1>8, <1>11

-----------------------------------------------------------------------------
(* The users. *)

\* The part of the type invariant that the steps of a user can change.
UserTypes ==
  /\ nextPersona \in 0..PoolSize
  /\ pc \in [User -> UserAt]
  /\ persona \in [User -> 0..PoolSize - 1 \cup {None}]
  /\ stopped \in [User -> BOOLEAN]
  /\ raising \in [User -> Outcomes]
  /\ outcome \in [User -> Outcomes \cup {"none"}]
  /\ cancel \in [User -> BOOLEAN]
  /\ actions \in [User -> Nat]
  /\ noted \in [User -> Nat]
  /\ todo \in [User -> Nat]
  /\ failed \in [User -> Nat]
  /\ reported \in [User -> Nat \cup {None}]
  /\ troubled \subseteq User

\* A step of a user leaves the run and the other users alone.
Frame(u) ==
  /\ UNCHANGED <<runner, stopFile>>
  /\ pc[u] \notin {"none", "done"} /\ pc'[u] \notin {"none", "created"}
  /\ outcome'[u] # "none" <=> pc'[u] = "done"
  /\ cancel'[u] => cancel[u]
  /\ \A x \in User \ {u} :
       /\ pc'[x] = pc[x] /\ persona'[x] = persona[x] /\ outcome'[x] = outcome[x]
       /\ cancel'[x] = cancel[x]
       /\ actions'[x] = actions[x] /\ noted'[x] = noted[x] /\ todo'[x] = todo[x]
       /\ failed'[x] = failed[x] /\ reported'[x] = reported[x]
       /\ x \in troubled' <=> x \in troubled

\* What user code leaves with the cleanup manager.
LEMMA CreatesFacts ==
  ASSUME NEW u \in User, UserTypes, Creates(u)
  PROVE  /\ actions' \in [User -> Nat] /\ noted' \in [User -> Nat] /\ troubled' \subseteq User
         /\ \A x \in User \ {u} : /\ actions'[x] = actions[x] /\ noted'[x] = noted[x]
                                  /\ x \in troubled' <=> x \in troubled
         /\ (u \in troubled => noted[u] > 0) => (u \in troubled' => noted'[u] > 0)
<1>1. PICK registered \in 0..MaxResources, unidentified \in 0..MaxResources :
        /\ actions' = [actions EXCEPT ![u] = @ + registered]
        /\ noted' = [noted EXCEPT ![u] = @ + unidentified]
        /\ troubled' = IF unidentified > 0 THEN troubled \cup {u} ELSE troubled
  BY DEF Creates
<1>2. registered \in Nat /\ unidentified \in Nat
  BY LocalAssumption
<1>3. actions \in [User -> Nat] /\ noted \in [User -> Nat] /\ troubled \subseteq User
  BY DEF UserTypes
<1> QED BY <1>1, <1>2, <1>3

\* TeardownAt after the beginning of a user.
LEMMA BeginStep ==
  ASSUME NEW u \in User, UserTypes, TeardownInv, CancelInv, Begin(u)
  PROVE  UserTypes' /\ Frame(u) /\ TeardownAt(u)'
<1>1. PoolSize \in Nat
  BY LocalAssumption
<1>2. UserTypes'
  <2>1. nextPersona' \in 0..PoolSize /\ persona' \in [User -> 0..PoolSize - 1 \cup {None}]
    <3>1. CASE PersonaLeft
      <4>1. nextPersona \in 0..PoolSize - 1 /\ nextPersona + 1 \in 0..PoolSize
        BY <1>1, <3>1 DEF UserTypes, PersonaLeft
      <4>2. nextPersona' = nextPersona + 1
            /\ persona' \in {persona, [persona EXCEPT ![u] = nextPersona]}
        BY <3>1 DEF Begin
      <4> QED BY <4>1, <4>2 DEF UserTypes
    <3>2. CASE ~PersonaLeft
      BY <3>2 DEF Begin, UserTypes
    <3> QED BY <3>1, <3>2
  <2>2. /\ pc' \in [User -> UserAt] /\ outcome' \in [User -> Outcomes \cup {"none"}]
    <3>1. (Goes(u, "on_start") /\ UNCHANGED outcome) \/ Ends(u, FALSE)
      BY DEF Begin
    <3> QED BY <3>1 DEF Goes, Ends, Raised, UserTypes, UserAt, Outcomes
  <2> QED BY <2>1, <2>2 DEF Begin, UserTypes, manager
<1>3. Frame(u)
  BY DEF Begin, Runs, Goes, Ends, Raised, UserTypes, Frame, CancelInv, manager, runner
<1>4. TeardownAt(u)'
  BY DEF Begin, Runs, Goes, Ends, Raised, UserTypes, TeardownInv, TeardownAt, manager, runner
<1> QED BY <1>2, <1>3, <1>4

\* TeardownAt after a hook or a task.
LEMMA UserCodeStep ==
  ASSUME NEW u \in User, UserTypes, TeardownInv, CancelInv,
         OnStart(u) \/ LoopHead(u) \/ RunOnce(u)
  PROVE  UserTypes' /\ Frame(u) /\ TeardownAt(u)'
<1>1. CASE OnStart(u)
  <2>1. UserTypes'
    BY <1>1, CreatesFacts DEF OnStart, Runs, Goes, Raised, UserCode, UserTypes, UserAt, Outcomes
  <2>2. Frame(u)
    BY <1>1, CreatesFacts DEF OnStart, Runs, Goes, UserTypes, Frame, CancelInv, runner
  <2>3. TeardownAt(u)'
    <3>1. todo'[u] = 0 /\ (u \in troubled => noted[u] > 0)
      BY <1>1 DEF OnStart, Runs, TeardownInv, TeardownAt
    <3>2. pc'[u] \in {"loop", "on_stop"}
      BY <1>1 DEF OnStart, Goes, UserTypes
    <3> QED BY <1>1, <3>1, <3>2, CreatesFacts DEF OnStart, TeardownAt
  <2> QED BY <2>1, <2>2, <2>3
<1>2. CASE LoopHead(u)
  <2>1. UserTypes'
    BY <1>2 DEF LoopHead, Runs, Goes, UserTypes, UserAt, manager
  <2>2. Frame(u)
    BY <1>2 DEF LoopHead, Runs, Goes, UserTypes, Frame, CancelInv, manager
  <2>3. TeardownAt(u)'
    BY <1>2 DEF LoopHead, Runs, Goes, UserTypes, TeardownInv, TeardownAt, manager
  <2> QED BY <2>1, <2>2, <2>3
<1>3. CASE RunOnce(u)
  <2>1. UserTypes'
    BY <1>3, CreatesFacts DEF RunOnce, Runs, Goes, Raised, UserCode, UserTypes, UserAt, Outcomes
  <2>2. Frame(u)
    BY <1>3, CreatesFacts DEF RunOnce, Runs, Goes, UserTypes, Frame, CancelInv, runner
  <2>3. TeardownAt(u)'
    <3>1. todo'[u] = 0 /\ (u \in troubled => noted[u] > 0)
      BY <1>3 DEF RunOnce, Runs, TeardownInv, TeardownAt
    <3>2. pc'[u] \in {"loop", "on_stop"}
      BY <1>3 DEF RunOnce, Goes, UserTypes
    <3> QED BY <1>3, <3>1, <3>2, CreatesFacts DEF RunOnce, TeardownAt
  <2> QED BY <2>1, <2>2, <2>3
<1> QED BY <1>1, <1>2, <1>3

\* The user starts its cleanup, whether on_stop returned, raised or was cancelled.
LEMMA CleanupBeginsFacts ==
  ASSUME NEW u \in User, UserTypes, TeardownInv, pc[u] = "on_stop",
         CleanupBegins(u), CleanupGoesOn(u, TRUE),
         UNCHANGED <<troubled, rpc>>
  PROVE  /\ pc' \in [User -> UserAt] /\ actions' \in [User -> Nat] /\ noted' \in [User -> Nat]
         /\ todo' \in [User -> Nat] /\ failed' \in [User -> Nat]
         /\ reported' \in [User -> Nat \cup {None}]
         /\ pc'[u] \in {"cleanup", "aclose_http"}
         /\ \A x \in User \ {u} :
              /\ pc'[x] = pc[x] /\ actions'[x] = actions[x] /\ noted'[x] = noted[x]
              /\ todo'[x] = todo[x] /\ failed'[x] = failed[x] /\ reported'[x] = reported[x]
         /\ TeardownAt(u)'
<1>1. /\ actions' \in [User -> Nat] /\ noted' \in [User -> Nat]
      /\ todo' \in [User -> Nat] /\ failed' \in [User -> Nat]
      /\ actions'[u] = 0 /\ failed'[u] = noted[u]
      /\ \A x \in User \ {u} :
           /\ actions'[x] = actions[x] /\ noted'[x] = noted[x]
           /\ todo'[x] = todo[x] /\ failed'[x] = failed[x]
  BY DEF CleanupBegins, UserTypes
<1>2. u \in troubled => noted[u] > 0
  BY DEF TeardownInv, TeardownAt
<1>3. CASE todo'[u] = 0
  <2>1. pc' = [pc EXCEPT ![u] = "aclose_http"] /\ reported' = [reported EXCEPT ![u] = failed'[u]]
    BY <1>3 DEF CleanupGoesOn, CleanupOver, Goes
  <2>2. /\ pc' \in [User -> UserAt] /\ reported' \in [User -> Nat \cup {None}]
        /\ pc'[u] = "aclose_http" /\ reported'[u] = failed'[u]
        /\ \A x \in User \ {u} : pc'[x] = pc[x] /\ reported'[x] = reported[x]
    BY <1>1, <2>1 DEF UserTypes, UserAt
  <2>3. TeardownAt(u)'
    BY <1>1, <1>2, <1>3, <2>2 DEF TeardownAt, None
  <2> QED BY <1>1, <2>2, <2>3
<1>4. CASE todo'[u] # 0
  <2>1. pc' = [pc EXCEPT ![u] = "cleanup"] /\ reported' = reported
    BY <1>4 DEF CleanupGoesOn, CleanupOver, Goes
  <2>2. /\ pc' \in [User -> UserAt] /\ reported' \in [User -> Nat \cup {None}]
        /\ pc'[u] = "cleanup"
        /\ \A x \in User \ {u} : pc'[x] = pc[x] /\ reported'[x] = reported[x]
    BY <2>1 DEF UserTypes, UserAt
  <2>3. TeardownAt(u)'
    BY <1>1, <1>2, <1>4, <2>2 DEF TeardownAt
  <2> QED BY <1>1, <2>2, <2>3
<1> QED BY <1>3, <1>4

\* A cancellation is told to its user once.
LEMMA CancelledFacts ==
  ASSUME NEW u \in User, NEW at, UserTypes, CancelInv, CancelledAt(u, at)
  PROVE  /\ rpc = "failed" /\ pc[u] \in at
         /\ cancel' \in [User -> BOOLEAN] /\ raising' \in [User -> Outcomes]
         /\ ~cancel'[u]
         /\ \A x \in User \ {u} : cancel'[x] = cancel[x]
BY DEF CancelledAt, UserTypes, CancelInv, Outcomes

\* TeardownAt after on_stop.
LEMMA OnStopStep ==
  ASSUME NEW u \in User, UserTypes, TeardownInv, CancelInv, OnStop(u) \/ CancelOnStop(u)
  PROVE  UserTypes' /\ Frame(u) /\ TeardownAt(u)'
<1>1. CASE OnStop(u)
  <2>1. pc[u] = "on_stop" /\ raising' \in [User -> Outcomes]
    BY <1>1 DEF OnStop, Runs, UserCode, Raised, UserTypes, Outcomes
  <2>2. UserTypes'
    BY <1>1, <2>1, CleanupBeginsFacts DEF OnStop, runner, UserTypes
  <2>3. Frame(u)
    BY <1>1, <2>1, CleanupBeginsFacts DEF OnStop, runner, Frame, CancelInv
  <2>4. TeardownAt(u)'
    BY <1>1, <2>1, CleanupBeginsFacts DEF OnStop, runner
  <2> QED BY <2>2, <2>3, <2>4
<1>2. CASE CancelOnStop(u)
  <2>1. pc[u] = "on_stop"
    BY <1>2, CancelledFacts DEF CancelOnStop
  <2>2. UserTypes'
    BY <1>2, <2>1, CleanupBeginsFacts, CancelledFacts DEF CancelOnStop, runner, UserTypes
  <2>3. Frame(u)
    BY <1>2, <2>1, CleanupBeginsFacts, CancelledFacts DEF CancelOnStop, runner, Frame, CancelInv
  <2>4. TeardownAt(u)'
    BY <1>2, <2>1, CleanupBeginsFacts DEF CancelOnStop, runner
  <2> QED BY <2>2, <2>3, <2>4
<1> QED BY <1>1, <1>2

\* TeardownAt after a cleanup action.
LEMMA CleanupActionStep ==
  ASSUME NEW u \in User, UserTypes, TeardownInv, CancelInv, CleanupAction(u)
  PROVE  UserTypes' /\ Frame(u) /\ TeardownAt(u)'
<1>1. PICK returns \in BOOLEAN :
        /\ todo' = [todo EXCEPT ![u] = @ - 1]
        /\ failed' = [failed EXCEPT ![u] = IF returns THEN @ ELSE @ + 1]
        /\ troubled' = IF returns THEN troubled ELSE troubled \cup {u}
        /\ CleanupGoesOn(u, returns)
  BY DEF CleanupAction, UserCode
<1>2. /\ pc[u] = "cleanup" /\ todo[u] > 0 /\ actions[u] = 0
      /\ u \in troubled => failed[u] > 0
  BY DEF CleanupAction, Runs, TeardownInv, TeardownAt
<1>3. /\ UNCHANGED <<rpc, tick, started, budget, tasks, stopFile, nextPersona>>
      /\ persona' = persona /\ stopped' = stopped /\ raising' = raising
      /\ outcome' = outcome /\ cancel' = cancel /\ actions' = actions /\ noted' = noted
  BY DEF CleanupAction, runner
<1>4. /\ todo' \in [User -> Nat] /\ failed' \in [User -> Nat] /\ troubled' \subseteq User
      /\ u \in troubled' => failed'[u] > 0
      /\ \A x \in User \ {u} : /\ todo'[x] = todo[x] /\ failed'[x] = failed[x]
                               /\ x \in troubled' <=> x \in troubled
  BY <1>1, <1>2 DEF UserTypes
<1>5. /\ pc' \in [User -> UserAt] /\ reported' \in [User -> Nat \cup {None}]
      /\ \/ pc'[u] = "cleanup" /\ todo'[u] # 0 /\ reported' = reported
         \/ pc'[u] = "aclose_http" /\ todo'[u] = 0 /\ reported'[u] = failed'[u]
      /\ \A x \in User \ {u} : pc'[x] = pc[x] /\ reported'[x] = reported[x]
  <2>1. CASE todo'[u] = 0
    BY <1>1, <1>4, <2>1 DEF CleanupGoesOn, CleanupOver, Goes, UserTypes, UserAt
  <2>2. CASE todo'[u] # 0
    BY <1>1, <2>2 DEF CleanupGoesOn, CleanupOver, Goes, UserTypes, UserAt
  <2> QED BY <2>1, <2>2
<1>6. UserTypes'
  BY <1>3, <1>4, <1>5 DEF UserTypes
<1>7. Frame(u)
  BY <1>2, <1>3, <1>4, <1>5 DEF Frame, CancelInv, runner
<1>8. TeardownAt(u)'
  BY <1>2, <1>3, <1>4, <1>5 DEF TeardownAt, None
<1> QED BY <1>6, <1>7, <1>8

\* TeardownAt after the close of a client.
LEMMA CloseStep ==
  ASSUME NEW u \in User, UserTypes, TeardownInv, CancelInv, CloseHttp(u) \/ CloseDb(u)
  PROVE  UserTypes' /\ Frame(u) /\ TeardownAt(u)'
<1>1. /\ pc[u] \in {"aclose_http", "aclose_db"}
      /\ pc' \in [User -> UserAt] /\ pc'[u] \in {"aclose_db", "done"}
      /\ outcome' \in [User -> Outcomes \cup {"none"}]
      /\ outcome'[u] # "none" <=> pc'[u] = "done"
      /\ \A x \in User \ {u} : pc'[x] = pc[x] /\ outcome'[x] = outcome[x]
  BY DEF CloseHttp, CloseDb, Runs, Goes, Ends, Raised, UserCode, UserTypes, UserAt, Outcomes, CancelInv
<1>2. /\ UNCHANGED <<rpc, tick, started, budget, tasks, stopFile, nextPersona>>
      /\ persona' = persona /\ stopped' = stopped /\ raising' = raising
      /\ cancel' = cancel /\ actions' = actions /\ noted' = noted /\ todo' = todo
      /\ failed' = failed /\ reported' = reported /\ troubled' = troubled
  BY DEF CloseHttp, CloseDb, runner, manager
<1>3. UserTypes'
  BY <1>1, <1>2 DEF UserTypes
<1>4. Frame(u)
  BY <1>1, <1>2 DEF Frame, runner
<1>5. TeardownAt(u)'
  BY <1>1, <1>2 DEF TeardownInv, TeardownAt
<1> QED BY <1>3, <1>4, <1>5

\* TeardownAt after a cancellation.
LEMMA CancelStep ==
  ASSUME NEW u \in User, UserTypes, TeardownInv, CancelInv,
         CancelEnds(u) \/ CancelUserCode(u) \/ CancelCleanup(u)
  PROVE  UserTypes' /\ Frame(u) /\ TeardownAt(u)'
<1>1. /\ rpc = "failed" /\ cancel' \in [User -> BOOLEAN] /\ raising' \in [User -> Outcomes]
      /\ ~cancel'[u] /\ \A x \in User \ {u} : cancel'[x] = cancel[x]
  BY CancelledFacts DEF CancelEnds, CancelUserCode, CancelCleanup
<1>2. /\ UNCHANGED <<rpc, tick, started, budget, tasks, stopFile, nextPersona>>
      /\ persona' = persona /\ stopped' = stopped
      /\ actions' = actions /\ noted' = noted /\ todo' = todo
      /\ failed' = failed /\ reported' = reported /\ troubled' = troubled
  BY DEF CancelEnds, CancelUserCode, CancelCleanup, runner, manager
<1>3. /\ pc[u] \notin {"none", "done"} /\ pc'[u] \notin {"none", "created"}
      /\ pc' \in [User -> UserAt] /\ outcome' \in [User -> Outcomes \cup {"none"}]
      /\ outcome'[u] # "none" <=> pc'[u] = "done"
      /\ \A x \in User \ {u} : pc'[x] = pc[x] /\ outcome'[x] = outcome[x]
  BY DEF CancelEnds, CancelUserCode, CancelCleanup, CancelledAt, Goes, UserTypes, UserAt,
         Outcomes, CancelInv
<1>4. TeardownAt(u)'
  <2>1. CASE CancelEnds(u)
    <3>1. pc[u] \in {"created", "aclose_http", "aclose_db"} /\ pc'[u] = "done"
      BY <2>1 DEF CancelEnds, CancelledAt, Goes, UserTypes
    <3> QED BY <3>1, <1>1, <1>2 DEF TeardownInv, TeardownAt
  <2>2. CASE CancelUserCode(u)
    <3>1. pc[u] \in {"on_start", "loop", "run_once"} /\ pc'[u] = "on_stop"
      BY <2>2 DEF CancelUserCode, CancelledAt, Goes, UserTypes
    <3> QED BY <3>1, <1>1, <1>2 DEF TeardownInv, TeardownAt
  <2>3. CASE CancelCleanup(u)
    <3>1. pc[u] = "cleanup" /\ pc'[u] = "aclose_http"
      BY <2>3 DEF CancelCleanup, CancelledAt, Goes, UserTypes
    <3> QED BY <3>1, <1>1, <1>2 DEF TeardownInv, TeardownAt
  <2> QED BY <2>1, <2>2, <2>3
<1>5. UserTypes'
  BY <1>1, <1>2, <1>3 DEF UserTypes
<1>6. Frame(u)
  BY <1>1, <1>2, <1>3 DEF Frame, runner
<1> QED BY <1>4, <1>5, <1>6

\* Whatever step a user takes, its own teardown stays in order and nobody else notices.
LEMMA UserStepFacts ==
  ASSUME NEW u \in User, IInv, UserStep(u)
  PROVE  UserTypes' /\ Frame(u) /\ TeardownAt(u)'
<1>1. UserTypes /\ TeardownInv /\ CancelInv
  BY DEF IInv, TypeOK, UserTypes
<1> QED BY <1>1, BeginStep, UserCodeStep, OnStopStep, CleanupActionStep, CloseStep, CancelStep
        DEF UserStep

\* A step of a user preserves the invariant.
LEMMA UserStepInv ==
  ASSUME NEW u \in User, IInv, UserStep(u)
  PROVE  IInv'
<1>1. UserTypes' /\ Frame(u) /\ TeardownAt(u)'
  BY UserStepFacts
<1>2. /\ rpc' = rpc /\ tick' = tick /\ started' = started /\ budget' = budget
      /\ tasks' = tasks /\ stopFile' = stopFile
  BY <1>1 DEF Frame, runner
<1>3. TypeOK'
  BY <1>1, <1>2 DEF IInv, TypeOK, UserTypes
<1>4. StartedInv' /\ StartsPaid'
  BY <1>2 DEF IInv, StartedInv, StartsPaid, Limited
<1>5. Live' \subseteq Live /\ u \in Live
  BY <1>1 DEF Frame, Live
<1>6. TasksInv'
  <2>1. \A x \in User : pc'[x] = "none" <=> pc[x] = "none"
    BY <1>1 DEF Frame
  <2> QED BY <2>1, <1>2, <1>5 DEF IInv, TasksInv
<1>7. ConcurrencyBound'
  <2>1. IsFiniteSet(Live)
    BY UserFinite, FS_Subset DEF Live
  <2>2. /\ Cardinality(Live') <= Cardinality(Live)
        /\ Cardinality(Live) \in Nat /\ Cardinality(Live') \in Nat
    BY <2>1, <1>5, FS_Subset, FS_CardinalityType
  <2>3. Users \in Nat
    BY LocalAssumption
  <2> QED BY <2>2, <2>3 DEF IInv, ConcurrencyBound
<1>8. CancelInv'
  BY <1>1, <1>2 DEF Frame, IInv, CancelInv
<1>9. TeardownInv'
  <2>1. ASSUME NEW x \in User \ {u} PROVE TeardownAt(x)'
    <3>1. TeardownAt(x)
      BY DEF IInv, TeardownInv
    <3> QED BY <3>1, <1>1, <1>2 DEF Frame, TeardownAt
  <2> QED BY <2>1, <1>1 DEF TeardownInv
<1> QED BY <1>3, <1>4, <1>6, <1>7, <1>8, <1>9 DEF IInv

-----------------------------------------------------------------------------
(* The invariant is inductive. *)

\* The first state has the invariant.
LEMMA InitInv == ASSUME Init PROVE IInv
<1>1. /\ User \subseteq Nat /\ Live = {} /\ None = -1
      /\ Len(Points) \in Nat \ {0} /\ Users \in Nat /\ PoolSize \in Nat
  BY UserFinite, PointsType, LocalAssumption DEF User, Live, Init, None
<1>2. TypeOK
  BY <1>1 DEF Init, TypeOK, UserAt, Outcomes, Over
<1>3. StartedInv
  <2>1. tick = 1 /\ started = 0
    BY DEF Init
  <2> DEFINE n == Len(Points)
  <2>2. n \in Nat \ {0}
    BY <1>1
  <2> HIDE DEF n
  <2>3. Least(tick - 1, n - 1) = 0
    BY <2>1, <2>2 DEF Least
  <2> QED BY <2>1, <2>3, <1>1 DEF StartedInv, n
<1>4. TasksInv
  BY <1>1 DEF Init, TasksInv
<1>5. ConcurrencyBound
  BY <1>1, FS_EmptySet DEF ConcurrencyBound
<1>6. StartsPaid
  <2>1. SpawnRate * TickSeconds \in Nat /\ Unit \in Nat
    BY LocalAssumption
  <2> QED BY <2>1 DEF Init, StartsPaid
<1>7. CancelInv
  BY DEF Init, CancelInv
<1>8. TeardownInv
  BY DEF Init, TeardownInv, TeardownAt
<1> QED BY <1>2, <1>3, <1>4, <1>5, <1>6, <1>7, <1>8 DEF IInv

\* A tick keeps the invariant.
LEMMA TickInv == ASSUME IInv, Tick PROVE IInv'
<1>1. PICK count \in Nat :
        pc' = [u \in User |-> IF u \in started .. started + count - 1 THEN "created" ELSE pc[u]]
        /\ started' = started + count
  BY TickFacts
<1>2. /\ tick \in 1..Len(Points) /\ tick' = tick + 1 /\ rpc' \in {"tick", "sleep"}
      /\ rpc \in {"tick", "sleep"}
      /\ UNCHANGED <<stopFile, nextPersona, persona, stopped, raising, outcome, cancel, actions,
                    noted, todo, failed, reported, troubled>>
  BY PointsType DEF Tick, manager, IInv, TypeOK
<1>3. TypeOK'
  <2>1. started' \in Nat /\ budget' \in Nat /\ tasks' \subseteq User
    BY TickStarts, TickBudget, TickTasks
  <2>2. pc' \in [User -> UserAt]
    BY <1>1 DEF IInv, TypeOK, UserAt
  <2>3. tick' \in 1..Len(Points) + 1
    BY <1>2, PointsType
  <2> QED BY <2>1, <2>2, <2>3, <1>2 DEF IInv, TypeOK
<1>4. ASSUME NEW u \in User
      PROVE  pc'[u] = pc[u] \/ (pc[u] = "none" /\ pc'[u] = "created")
  <2>1. (pc[u] = "none" <=> started <= u) /\ pc \in [User -> UserAt] /\ started \in Nat
    BY DEF IInv, TasksInv, TypeOK
  <2>2. u \in Int
    BY UserFinite DEF User
  <2> QED BY <1>1, <2>1, <2>2
<1>5. CancelInv'
  BY <1>2, <1>4 DEF IInv, CancelInv
<1>6. TeardownInv'
  <2>1. ASSUME NEW u \in User PROVE TeardownAt(u)'
    <3>1. TeardownAt(u)
      BY DEF IInv, TeardownInv
    <3> QED BY <3>1, <1>2, <1>4 DEF TeardownAt
  <2> QED BY <2>1 DEF TeardownInv
<1> QED BY <1>3, <1>5, <1>6, TickStarts, TickTasks, TickBudget DEF IInv

\* The other steps of the runner, and the stop file, change rpc, cancel and stopFile only.
LEMMA QuietStepInv ==
  ASSUME IInv,
         LoopEnds \/ GatherReturns \/ GatherRaises \/ RunnerFails \/ StopFileAppears
  PROVE  IInv'
<1>1. /\ UNCHANGED <<tick, started, budget, tasks, nextPersona, pc, persona, stopped, raising,
                    outcome, actions, noted, todo, failed, reported, troubled>>
  BY DEF LoopEnds, GatherReturns, GatherRaises, RunnerFails, StopFileAppears, manager, runner
<1>2. rpc' \in {"tick", "sleep", "gather", "raised"} \cup Over /\ stopFile' \in BOOLEAN
  BY DEF LoopEnds, GatherReturns, GatherRaises, RunnerFails, StopFileAppears, IInv, TypeOK,
         Over, runner
<1>3. cancel' \in [User -> BOOLEAN]
  <2>1. CASE RunnerFails
    <3>1. cancel' = [u \in User |-> u \in Live]
      BY <2>1 DEF RunnerFails
    <3>2. \A u \in User : (u \in Live) \in BOOLEAN
      OBVIOUS
    <3> QED BY <3>1, <3>2, Zenon
  <2>2. CASE LoopEnds \/ GatherReturns \/ GatherRaises \/ StopFileAppears
    BY <2>2 DEF LoopEnds, GatherReturns, GatherRaises, StopFileAppears, IInv, TypeOK
  <2> QED BY <2>1, <2>2
<1>4. TypeOK'
  BY <1>1, <1>2, <1>3 DEF IInv, TypeOK
<1>5. StartedInv' /\ ConcurrencyBound' /\ StartsPaid'
  BY <1>1 DEF IInv, StartedInv, ConcurrencyBound, StartsPaid, Live, Limited
<1>6. Live' = Live
  BY <1>1 DEF Live
<1>7. rpc' = "returned" => Live = {}
  <2>1. CASE GatherReturns
    <3>1. \A u \in tasks : outcome[u] = "ok"
      BY <2>1 DEF GatherReturns
    <3>2. \A u \in Live : pc[u] = "done"
      BY <3>1 DEF IInv, TasksInv, CancelInv, Live
    <3> QED BY <3>2 DEF Live
  <2>2. CASE LoopEnds \/ GatherRaises \/ RunnerFails
    BY <2>2 DEF LoopEnds, GatherRaises, RunnerFails
  <2>3. CASE StopFileAppears
    BY <2>3 DEF StopFileAppears, runner, IInv, TasksInv
  <2> QED BY <2>1, <2>2, <2>3
<1>8. TasksInv'
  BY <1>1, <1>6, <1>7 DEF IInv, TasksInv
<1>9. (rpc = "failed" => rpc' = "failed") /\ \A u \in User : cancel'[u] => rpc' = "failed"
  BY DEF LoopEnds, GatherReturns, GatherRaises, RunnerFails, StopFileAppears, runner, IInv,
         CancelInv
<1>10. CancelInv'
  BY <1>1, <1>9 DEF IInv, CancelInv
<1>11. TeardownInv'
  <2>1. ASSUME NEW u \in User PROVE TeardownAt(u)'
    <3>1. TeardownAt(u)
      BY DEF IInv, TeardownInv
    <3> QED BY <3>1, <1>1, <1>9 DEF TeardownAt
  <2> QED BY <2>1 DEF TeardownInv
<1> QED BY <1>4, <1>5, <1>8, <1>10, <1>11 DEF IInv

\* Every step keeps the invariant.
LEMMA NextInv == IInv /\ [Next]_vars => IInv'
<1> SUFFICES ASSUME IInv, [Next]_vars PROVE IInv'
  OBVIOUS
<1>1. CASE RunnerStep
  BY <1>1, TickInv, QuietStepInv DEF RunnerStep
<1>2. CASE \E u \in User : UserStep(u)
  BY <1>2, UserStepInv
<1>3. CASE StopFileAppears
  BY <1>3, QuietStepInv
<1>4. CASE UNCHANGED vars
  <2>1. /\ UNCHANGED <<rpc, tick, started, budget, tasks, stopFile, nextPersona, pc, persona>>
        /\ UNCHANGED <<stopped, raising, outcome, cancel, actions, noted, todo, failed, reported,
                      troubled>>
    BY <1>4 DEF vars, runner, manager
  <2>2. TypeOK' /\ StartedInv' /\ StartsPaid' /\ CancelInv'
    BY <2>1 DEF IInv, TypeOK, StartedInv, StartsPaid, Limited, CancelInv
  <2>3. TasksInv' /\ ConcurrencyBound' /\ TeardownInv'
    BY <2>1 DEF IInv, TasksInv, ConcurrencyBound, TeardownInv, TeardownAt, Live
  <2> QED BY <2>2, <2>3 DEF IInv
<1>5. CASE Terminated
  BY <1>4, <1>5 DEF Terminated
<1> QED BY <1>1, <1>2, <1>3, <1>4, <1>5 DEF Next

LEMMA Invariance == Spec => []IInv
<1>1. Init => IInv
  BY InitInv
<1> QED BY <1>1, NextInv, PTL DEF Spec

-----------------------------------------------------------------------------
(* The theorems. *)

\* Every variable has its type; in particular no user index outgrows what the profile can
\* ask for, and the allocator never hands out a persona that does not exist.
THEOREM TypeCorrect == Spec => []TypeOK
<1>1. IInv => TypeOK
  BY DEF IInv
<1> QED BY <1>1, Invariance, PTL

\* For every profile, spawn rate and pool, never more than run.users users are alive
\* (the count of active tasks in LocalRunner.run).
THEOREM ConcurrencyBoundHolds == Spec => []ConcurrencyBound
<1>1. IInv => ConcurrencyBound
  BY DEF IInv
<1> QED BY <1>1, Invariance, PTL

\* For every rate and tick, the users started so far are paid for by the time passed
\* (the spawn budget of LocalRunner.run).
THEOREM StartsPaidHolds == Spec => []StartsPaid
<1>1. IInv => StartsPaid
  BY DEF IInv
<1> QED BY <1>1, Invariance, PTL

\* For every rate and tick, no tick starts more than the cap of the budget allows.
THEOREM NoBurstHolds == Spec => NoBurst
<1>1. IInv /\ [Next]_vars
        => [Limited => (started' - started) * Unit <= Greatest(SpawnRate, Unit)]_vars
  <2> SUFFICES ASSUME IInv, Next
               PROVE  Limited => (started' - started) * Unit <= Greatest(SpawnRate, Unit)
    OBVIOUS
  <2>1. CASE Tick
    BY <2>1, TickBudget
  <2>2. CASE started' = started
    <3>1. (started' - started) * Unit = 0
      BY <2>2, LocalAssumption DEF IInv, TypeOK
    <3>2. Greatest(SpawnRate, Unit) \in Nat
      BY LocalAssumption DEF Greatest
    <3> QED BY <3>1, <3>2
  <2>3. CASE RunnerStep
    BY <2>1, <2>2, <2>3 DEF RunnerStep, LoopEnds, GatherReturns, GatherRaises, RunnerFails
  <2>4. CASE \E u \in User : UserStep(u)
    <3>1. started' = started
      BY <2>4, UserStepFacts DEF Frame, runner
    <3> QED BY <3>1, <2>2
  <2>5. CASE StopFileAppears \/ Terminated
    BY <2>2, <2>5 DEF StopFileAppears, Terminated, vars, runner
  <2> QED BY <2>3, <2>4, <2>5 DEF Next
<1> QED BY <1>1, Invariance, PTL DEF Spec, NoBurst

\* Whatever raises in a user, its cleanup is complete when it is done, as long as nothing
\* is cancelled (the nested finally blocks of _run_user).
THEOREM CleanupSurvivesFailureHolds == Spec => []CleanupSurvivesFailure
<1>1. IInv => CleanupSurvivesFailure
  BY DEF IInv, TeardownInv, TeardownAt, CleanupSurvivesFailure
<1> QED BY <1>1, Invariance, PTL

\* A run that returns leaves no user behind and reports every cleanup problem.
THEOREM NothingLeftBehindHolds == Spec => []NothingLeftBehind
<1>1. IInv => NothingLeftBehind
  <2> SUFFICES ASSUME IInv, rpc = "returned"
               PROVE  /\ \A u \in 0..started - 1 : pc[u] = "done" /\ actions[u] + todo[u] = 0
                      /\ troubled # {} => ~CleanupPassed
    BY DEF NothingLeftBehind
  <2>1. \A u \in User : pc[u] \in {"none", "done"}
    BY DEF IInv, TasksInv, Live
  <2>2. ASSUME NEW u \in 0..started - 1 PROVE u \in User
    <3>1. StartedInv /\ started \in Nat /\ tick \in 1..Len(Points) + 1
      BY DEF IInv, TypeOK
    <3>2. Least(tick - 1, Len(Points) - 1) \in Nat /\ Len(Points) - 1 \in Nat
          /\ Least(tick - 1, Len(Points) - 1) <= Len(Points) - 1
      BY <3>1, PointsType DEF Least
    <3>3. /\ Users * Least(tick - 1, Len(Points) - 1) <= Users * (Len(Points) - 1)
          /\ Users * Least(tick - 1, Len(Points) - 1) \in Nat
      BY <3>2, LocalAssumption, MulMono
    <3>4. started <= Users * (Len(Points) - 1)
      BY <3>1, <3>3, UserFinite DEF StartedInv
    <3> QED BY <3>1, <3>4, UserFinite, Subinterval DEF User
  <2>3. ASSUME NEW u \in 0..started - 1
        PROVE  pc[u] = "done" /\ actions[u] + todo[u] = 0
    <3>1. pc[u] = "done"
      BY <2>1, <2>2 DEF IInv, TypeOK, TasksInv
    <3>2. actions[u] = 0 /\ todo[u] = 0
      BY <2>2, <3>1 DEF IInv, TeardownInv, TeardownAt
    <3> QED BY <3>1, <3>2
  <2>4. ASSUME NEW u \in troubled PROVE ~(reported[u] <= 0)
    <3>1. u \in User /\ pc[u] = "done" /\ reported[u] \in Nat \cup {None}
      BY <2>1 DEF IInv, TypeOK, TeardownInv, TeardownAt
    <3>2. reported[u] > 0
      BY <3>1 DEF IInv, TeardownInv, TeardownAt
    <3> QED BY <3>1, <3>2 DEF None
  <2>5. troubled \subseteq User
    BY DEF IInv, TypeOK
  <2> QED BY <2>3, <2>4, <2>5 DEF CleanupPassed
<1> QED BY <1>1, Invariance, PTL

=============================================================================
