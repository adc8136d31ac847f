-------------------------- MODULE SplitRun_proofs --------------------------
(***************************************************************************)
(* Theorems about SplitRun, for any number of workers, users, personas and *)
(* ticks.                                                                  *)
(***************************************************************************)
EXTENDS SplitRun, PlanMath_proofs

-----------------------------------------------------------------------------
(* Types. *)

\* Users are numbered from 0, at most run.users per tick: what keeps user_index in its type.
StartedInv == \A w \in 0..MaxWorkers - 1 : started[w] <= Users * (tick[w] - 1)

\* The inductive type invariant.
Typed == TypeOK /\ StartedInv

\* The users can be counted.
LEMMA UserFinite == IsFiniteSet(User)
<1>1. MaxWorkers - 1 \in Int /\ Users * Ticks - 1 \in Int
  BY SplitAssumption
<1>2. IsFiniteSet(0..MaxWorkers - 1) /\ IsFiniteSet(0..Users * Ticks - 1)
  BY <1>1, FS_Interval
<1> QED BY <1>2, FS_Product DEF User

\* The workers of a run are among the possible ones.
LEMMA WorkerIndex == TypeOK => Worker \subseteq 0..MaxWorkers - 1
BY SplitAssumption DEF TypeOK, Worker

\* The first state is well typed.
LEMMA InitTypes == Init => Typed
<1> SUFFICES ASSUME Init PROVE Typed
  OBVIOUS
<1>1. sink \in [0..MaxWorkers - 1 -> SUBSET Event]
      /\ \A w \in 0..MaxWorkers - 1 : IsFiniteSet(sink[w])
  BY FS_EmptySet DEF Init
<1>2. blocks \in Seq(SUBSET Event)
  BY EmptySeq DEF Init
<1>3. /\ 1 \in 1..Ticks + 1 /\ Users * Ticks \in Nat /\ 0 \in 0..Users * Ticks
      /\ Users * (1 - 1) = 0
  BY SplitAssumption
<1>4. tick \in [0..MaxWorkers - 1 -> 1..Ticks + 1] /\ started \in [0..MaxWorkers - 1 -> 0..Users * Ticks]
      /\ StartedInv
  BY <1>3 DEF Init, StartedInv
<1> QED BY <1>1, <1>2, <1>4 DEF Init, Typed, TypeOK

\* A tick keeps the users in their numbers.
LEMMA TickTypes ==
  ASSUME Typed, NEW w \in Worker, Tick(w)
  PROVE  Typed'
<1> USE DEF Typed
<1>1. w \in 0..MaxWorkers - 1 /\ w \in Nat
  BY WorkerIndex, SplitAssumption DEF Worker
<1>2. held[w] \subseteq User /\ tick[w] \in 1..Ticks + 1 /\ tick[w] <= Ticks /\ at[w] = "tick"
  BY <1>1 DEF Tick, TypeOK
<1>3. Target(w) \in 0..Users
  <2>1. workers \in Nat \ {0} /\ Users \in Nat
    BY SplitAssumption DEF TypeOK
  <2> QED BY <1>1, <2>1, TargetBound DEF Target
<1>4. Cardinality(held[w] \ Done(w)) \in Nat
  <2>1. IsFiniteSet(held[w] \ Done(w))
    BY <1>2, UserFinite, FS_Subset
  <2> QED BY <2>1, FS_CardinalityType
<1> DEFINE missing == Target(w) - Cardinality(held[w] \ Done(w))
<1>5. missing \in Int /\ missing <= Users
  BY <1>3, <1>4, SplitAssumption
<1>6. PICK n \in 0..missing :
        /\ held' = [held EXCEPT ![w] = (@ \ Done(w)) \cup {<<w, i>> : i \in started[w]..started[w] + n - 1}]
        /\ user' = [u \in User |-> IF u \in {<<w, i>> : i \in started[w]..started[w] + n - 1}
                                   THEN "created" ELSE user[u]]
        /\ started' = [started EXCEPT ![w] = @ + n]
  BY DEF Tick
<1> HIDE DEF missing
<1>7. n \in Nat /\ n <= Users
  BY <1>5, SplitAssumption
<1>8. started[w] \in Nat /\ started[w] <= Users * (tick[w] - 1)
  BY <1>1, SplitAssumption DEF TypeOK, StartedInv
<1>9. started[w] + n <= Users * tick[w]
  <2>1. Users * tick[w] = Users * (tick[w] - 1) + Users /\ Users * (tick[w] - 1) \in Int
    BY <1>2, SplitAssumption
  <2> QED BY <1>7, <1>8, <2>1, SplitAssumption
<1>10. Users * tick[w] \in Nat /\ Users * tick[w] <= Users * Ticks /\ Users * Ticks \in Nat
  BY <1>2, SplitAssumption, MulMono
<1>11. started[w] + n \in 0..Users * Ticks
  BY <1>7, <1>8, <1>9, <1>10
<1>12. {<<w, i>> : i \in started[w]..started[w] + n - 1} \subseteq User
  <2> SUFFICES ASSUME NEW i \in started[w]..started[w] + n - 1 PROVE <<w, i>> \in User
    OBVIOUS
  <2>1. i \in 0..Users * Ticks - 1
    BY <1>7, <1>8, <1>10, <1>11
  <2> QED BY <1>1, <2>1 DEF User
<1>13. held' \in [0..MaxWorkers - 1 -> SUBSET User]
  BY <1>1, <1>2, <1>6, <1>12 DEF TypeOK
<1>14. user' \in [User -> {"none", "created", "running", "over"}]
  BY <1>6 DEF TypeOK
<1>15. started' \in [0..MaxWorkers - 1 -> 0..Users * Ticks] /\ started'[w] = started[w] + n
  <2>1. PICK most : most = 0..Users * Ticks
    OBVIOUS
  <2>2. started \in [0..MaxWorkers - 1 -> most] /\ started[w] + n \in most
    BY <1>11, <2>1 DEF TypeOK
  <2>3. started' \in [0..MaxWorkers - 1 -> most] /\ started'[w] = started[w] + n
    BY <1>1, <1>6, <2>2
  <2> QED BY <2>1, <2>3
<1>16. tick' \in [0..MaxWorkers - 1 -> 1..Ticks + 1] /\ tick'[w] = tick[w] + 1
  <2>1. tick[w] + 1 \in 1..Ticks + 1
    BY <1>2, SplitAssumption
  <2>2. tick \in [0..MaxWorkers - 1 -> 1..Ticks + 1] /\ tick' = [tick EXCEPT ![w] = @ + 1]
    BY DEF Tick, TypeOK
  <2> QED BY <1>1, <2>1, <2>2
<1>17. StartedInv'
  <2> SUFFICES ASSUME NEW v \in 0..MaxWorkers - 1
               PROVE  started'[v] <= Users * (tick'[v] - 1)
    BY DEF StartedInv
  <2>1. CASE v = w
    BY <2>1, <1>2, <1>9, <1>15, <1>16
  <2>2. CASE v # w
    BY <2>2, <1>6 DEF Tick, TypeOK, StartedInv
  <2> QED BY <2>1, <2>2
<1> QED BY <1>13, <1>14, <1>15, <1>16, <1>17 DEF Tick, TypeOK

\* The other steps of a worker.
LEMMA WorkerTypes ==
  ASSUME Typed, NEW w \in Worker, WorkerStep(w)
  PROVE  Typed'
<1> USE DEF Typed
<1>1. w \in 0..MaxWorkers - 1
  BY WorkerIndex
<1>2. CASE Tick(w)
  BY <1>2, TickTypes
<1>3. CASE LastTick(w)
  BY <1>1, <1>3 DEF LastTick, TypeOK, StartedInv, people
<1>4. CASE LeaveTicks(w)
  BY <1>1, <1>4 DEF LeaveTicks, TypeOK, StartedInv, people
<1>5. CASE WorkerReturns(w)
  <2>1. sink[w] \in SUBSET Event
    BY <1>1 DEF TypeOK
  <2>2. blocks' \in Seq(SUBSET Event)
    BY <1>5, <2>1, AppendProperties DEF WorkerReturns, TypeOK
  <2> QED BY <1>1, <1>5, <2>2 DEF WorkerReturns, TypeOK, StartedInv, people
<1>6. CASE WorkerRaises(w)
  BY <1>1, <1>6 DEF WorkerRaises, TypeOK, StartedInv, people
<1> QED BY <1>2, <1>3, <1>4, <1>5, <1>6 DEF WorkerStep

\* The steps of the command.
LEMMA CommandTypes ==
  ASSUME Typed, CommandStep \/ Gates \/ StopFileAppears \/ Terminated \/ UNCHANGED vars
  PROVE  Typed'
<1> USE DEF Typed, StartedInv
<1>1. CASE Assemble
  BY <1>1 DEF Assemble, TypeOK, people
<1>2. CASE AssembleFails
  BY <1>2 DEF AssembleFails, Exits, TypeOK, runner, people
<1>3. CASE RunReturns
  BY <1>3 DEF RunReturns, TypeOK, runner, people
<1>4. CASE RunRaises
  BY <1>4 DEF RunRaises, TypeOK, people
<1>5. CASE RunFailed
  BY <1>5 DEF RunFailed, Exits, TypeOK, runner, people
<1>6. CASE WriteReport
  BY <1>6 DEF WriteReport, TypeOK, runner, people
<1>7. CASE WriteFails
  BY <1>7 DEF WriteFails, Exits, TypeOK, runner, people
<1>8. CASE Gates
  BY <1>8 DEF Gates, Exits, TypeOK, runner, people
<1>9. CASE UNCHANGED vars
  BY <1>9 DEF TypeOK, vars, runner, people
<1>10. CASE StopFileAppears
  BY <1>10 DEF StopFileAppears, TypeOK, runner, people
<1> QED BY <1>1, <1>2, <1>3, <1>4, <1>5, <1>6, <1>7, <1>8, <1>9, <1>10 DEF CommandStep, Terminated

\* The steps of a user.
LEMMA UserTypes ==
  ASSUME Typed, NEW u \in User, UserStep(u)
  PROVE  Typed'
<1> USE DEF Typed, StartedInv
<1>1. CASE Acquire(u)
  <2>1. CASE Free(u[1]) = {}
    BY <1>1, <2>1 DEF Acquire, TypeOK, runner
  <2>2. CASE Free(u[1]) # {}
    <3>1. PICK p \in Free(u[1]) : persona' = [persona EXCEPT ![u] = p]
      BY <1>1, <2>2 DEF Acquire
    <3>2. p \in 0..Pool - 1 \cup {Nobody}
      BY DEF Free, Partition
    <3>3. persona' \in [User -> 0..Pool - 1 \cup {Nobody}]
      BY <3>1, <3>2 DEF TypeOK
    <3> QED BY <1>1, <2>2, <3>3 DEF Acquire, SetUp, TypeOK, runner
  <2> QED BY <2>1, <2>2
<1>2. CASE Emit(u)
  <2>1. u[1] \in 0..MaxWorkers - 1
    BY DEF User
  <2>2. PICK k \in Kinds :
          sink' = [sink EXCEPT ![u[1]] =
                     @ \cup {[user |-> u, n |-> Cardinality({e \in @ : e.user = u}), kind |-> k]}]
    BY <1>2 DEF Emit
  <2> DEFINE own == {e \in sink[u[1]] : e.user = u}
             new == [user |-> u, n |-> Cardinality(own), kind |-> k]
  <2>3. IsFiniteSet(own)
    BY <2>1, FS_Subset DEF TypeOK
  <2>4. new \in Event
    BY <2>3, FS_CardinalityType DEF Event
  <2>5. sink[u[1]] \cup {new} \in SUBSET Event /\ IsFiniteSet(sink[u[1]] \cup {new})
    BY <2>1, <2>4, FS_AddElement DEF TypeOK
  <2>6. sink' = [sink EXCEPT ![u[1]] = sink[u[1]] \cup {new}]
    BY <2>1, <2>2 DEF TypeOK
  <2> HIDE DEF own, new
  <2>7. /\ sink' \in [0..MaxWorkers - 1 -> SUBSET Event]
        /\ \A w \in 0..MaxWorkers - 1 : IsFiniteSet(sink'[w])
    BY <2>1, <2>5, <2>6 DEF TypeOK
  <2> QED BY <1>2, <2>7 DEF Emit, TypeOK, runner, people
<1>3. CASE End(u)
  BY <1>3 DEF End, TypeOK, runner
<1>4. CASE EndCancelled(u)
  BY <1>4 DEF EndCancelled, TypeOK, runner
<1> QED BY <1>1, <1>2, <1>3, <1>4 DEF UserStep

\* Every step keeps the types.
LEMMA TypedStep == Typed /\ [Next]_vars => Typed'
BY WorkerTypes, CommandTypes, UserTypes DEF Next

\* Every reachable state is well typed, and users are numbered below run.users times the
\* ticks that have passed.
THEOREM TypeCorrect == Spec => [](TypeOK /\ StartedInv)
BY InitTypes, TypedStep, PTL DEF Spec, Typed

-----------------------------------------------------------------------------
(* Personas. *)

\* Every user has its persona from the partition of its worker: what keeps personas apart
\* across workers, since the allocators know nothing of each other.
Shares ==
  \A u \in User : persona[u] # Nobody => persona[u] \in Partition(Pool, workers, u[1])

\* The inductive invariant of the personas.
PersonaInv == DisjointPersonas /\ Shares

\* Nobody has a persona at first.
LEMMA InitPersonas == Init => PersonaInv
BY DEF Init, PersonaInv, DisjointPersonas, Shares

\* Acquiring a persona leaves the personas apart.
LEMMA AcquirePersonas ==
  ASSUME TypeOK, PersonaInv, NEW u \in User, Acquire(u)
  PROVE  PersonaInv'
<1>1. CASE UNCHANGED persona
  BY <1>1 DEF Acquire, PersonaInv, DisjointPersonas, Shares
<1>2. CASE ~UNCHANGED persona
  <2>1. PICK p \in Free(u[1]) : persona' = [persona EXCEPT ![u] = p]
    BY <1>2 DEF Acquire
  <2>2. p \in Partition(Pool, workers, u[1]) /\ p \notin Taken(u[1])
    BY DEF Free
  <2>3. p \in Nat /\ p # Nobody /\ p % workers = u[1]
    BY <2>2, SplitAssumption DEF Partition, Nobody
  <2>4. ASSUME NEW v \in User, v # u PROVE persona[v] # p
    <3> SUFFICES ASSUME persona[v] = p PROVE FALSE
      OBVIOUS
    <3>1. p \in Partition(Pool, workers, v[1])
      BY <2>3 DEF PersonaInv, Shares
    <3>2. v[1] = u[1]
      BY <2>3, <3>1 DEF Partition
    <3>3. v \in Of(u[1])
      BY <3>2 DEF Of
    <3> QED BY <2>2, <2>3, <3>3 DEF Taken
  <2>5. persona'[u] = p /\ \A v \in User : v # u => persona'[v] = persona[v]
    BY <2>1 DEF TypeOK
  <2>6. workers' = workers
    BY DEF Acquire
  <2>7. DisjointPersonas'
    BY <2>4, <2>5 DEF PersonaInv, DisjointPersonas
  <2>8. Shares'
    BY <2>2, <2>5, <2>6 DEF PersonaInv, Shares
  <2> QED BY <2>7, <2>8 DEF PersonaInv
<1> QED BY <1>1, <1>2

\* Nothing else hands out a persona.
LEMMA PersonaStep == TypeOK /\ PersonaInv /\ [Next]_vars => PersonaInv'
<1> SUFFICES ASSUME TypeOK, PersonaInv, [Next]_vars PROVE PersonaInv'
  OBVIOUS
<1>1. ASSUME NEW u \in User, Acquire(u) PROVE PersonaInv'
  BY <1>1, AcquirePersonas
<1>2. CASE UNCHANGED <<persona, workers>>
  BY <1>2 DEF PersonaInv, DisjointPersonas, Shares
<1>3. CASE CommandStep \/ Gates \/ StopFileAppears \/ Terminated \/ UNCHANGED vars
  <2>1. UNCHANGED <<persona, workers>>
    BY <1>3 DEF CommandStep, Assemble, AssembleFails, RunReturns, RunRaises, RunFailed,
                WriteReport, WriteFails, Gates, StopFileAppears, Terminated, vars, people
  <2> QED BY <2>1, <1>2
<1>4. ASSUME NEW w \in Worker, WorkerStep(w) PROVE PersonaInv'
  <2>1. UNCHANGED <<persona, workers>>
    BY <1>4 DEF WorkerStep, Tick, LastTick, WorkerReturns, WorkerRaises, LeaveTicks, people
  <2> QED BY <2>1, <1>2
<1>5. ASSUME NEW u \in User, Emit(u) \/ End(u) \/ EndCancelled(u) PROVE PersonaInv'
  <2>1. UNCHANGED <<persona, workers>>
    BY <1>5 DEF Emit, End, EndCancelled, people
  <2> QED BY <2>1, <1>2
<1> QED BY <1>1, <1>3, <1>4, <1>5 DEF Next, UserStep

\* No two users of a run ever have the same persona, however many workers share the pool
\* (PersonaPool.partition, PersonaAllocator.acquire).
THEOREM PersonasDisjoint == Spec => []DisjointPersonas
<1>1. Spec => []TypeOK
  BY TypeCorrect, PTL
<1> QED BY <1>1, InitPersonas, PersonaStep, PTL DEF Spec, PersonaInv

-----------------------------------------------------------------------------
(* The end of the run. *)

\* A user at work is held by its worker, which has not returned; there is none before the
\* workers start and after they have returned or been cancelled.
LiveInv ==
  /\ \A u \in User : user[u] \in {"created", "running"} =>
       /\ u[1] \in Worker /\ u \in held[u[1]] /\ at[u[1]] # "returned"
       /\ phase \in {"run", "cancelled"}
  /\ exit # None => phase = "over"

\* A command that is over has no user at work.
NobodyAfter == exit # None => Live = {}

\* Nobody is at work at first.
LEMMA InitLive == Init => LiveInv
BY DEF Init, LiveInv

\* LiveInv after a step of the command.
LEMMA CommandLive ==
  ASSUME TypeOK, LiveInv, CommandStep \/ Gates \/ StopFileAppears \/ Terminated \/ UNCHANGED vars
  PROVE  LiveInv'
<1>1. CASE Assemble
  BY <1>1 DEF Assemble, LiveInv, people
<1>2. CASE AssembleFails
  BY <1>2 DEF AssembleFails, Exits, LiveInv, runner, people
<1>3. CASE RunReturns
  BY <1>3 DEF RunReturns, LiveInv, runner, people
<1>4. CASE RunRaises
  <2>1. \A w \in 0..MaxWorkers - 1 : at'[w] = "returned" => at[w] = "returned"
    BY <1>4 DEF RunRaises, TypeOK
  <2>2. \A u \in User : u[1] \in 0..MaxWorkers - 1
    BY DEF User
  <2> QED BY <1>4, <2>1, <2>2 DEF RunRaises, LiveInv, people, Worker
<1>5. CASE RunFailed
  BY <1>5 DEF RunFailed, Exits, LiveInv, Live, runner, people
<1>6. CASE WriteReport
  BY <1>6 DEF WriteReport, LiveInv, Worker, runner, people
<1>7. CASE WriteFails
  BY <1>7 DEF WriteFails, Exits, LiveInv, runner, people
<1>8. CASE Gates
  BY <1>8 DEF Gates, Exits, LiveInv, runner, people
<1>9. CASE UNCHANGED vars
  BY <1>9 DEF LiveInv, Worker, vars, runner, people
<1>10. CASE StopFileAppears
  BY <1>10 DEF StopFileAppears, LiveInv, Worker, runner, people
<1> QED BY <1>1, <1>2, <1>3, <1>4, <1>5, <1>6, <1>7, <1>8, <1>9, <1>10 DEF CommandStep, Terminated

\* LiveInv after a step of a worker.
LEMMA WorkerLive ==
  ASSUME TypeOK, LiveInv, NEW w \in Worker, WorkerStep(w)
  PROVE  LiveInv'
<1>1. w \in 0..MaxWorkers - 1
  BY WorkerIndex
<1>2. \A u \in User : u[1] \in 0..MaxWorkers - 1
  BY DEF User
<1>3. CASE Tick(w)
  <2> PICK n \in 0..Target(w) - Cardinality(held[w] \ Done(w)) :
        LET new == {<<w, i>> : i \in started[w]..started[w] + n - 1}
        IN /\ held' = [held EXCEPT ![w] = (@ \ Done(w)) \cup new]
           /\ user' = [u \in User |-> IF u \in new THEN "created" ELSE user[u]]
    BY <1>3 DEF Tick
  <2> DEFINE new == {<<w, i>> : i \in started[w]..started[w] + n - 1}
  <2>1. /\ \A u \in new : u[1] = w
        /\ held' = [held EXCEPT ![w] = (@ \ Done(w)) \cup new]
        /\ user' = [u \in User |-> IF u \in new THEN "created" ELSE user[u]]
    OBVIOUS
  <2> HIDE DEF new
  <2>2. held'[w] = (held[w] \ Done(w)) \cup new
        /\ \A v \in 0..MaxWorkers - 1 : v # w => held'[v] = held[v]
    BY <1>1, <2>1 DEF TypeOK
  <2>3. phase = "run" /\ at[w] = "tick" /\ UNCHANGED <<phase, at, workers, exit>>
    BY <1>3 DEF Tick
  <2>4. ASSUME NEW u \in User, user'[u] \in {"created", "running"}
        PROVE  u[1] \in Worker /\ u \in held'[u[1]] /\ at[u[1]] # "returned"
    <3>1. CASE u \in new
      BY <3>1, <2>1, <2>2, <2>3
    <3>2. CASE u \notin new
      <4>1. user[u] \in {"created", "running"}
        BY <3>2, <2>1, <2>4
      <4>2. u[1] \in Worker /\ u \in held[u[1]] /\ at[u[1]] # "returned"
        BY <4>1 DEF LiveInv
      <4>3. u \notin Done(w)
        BY <4>1 DEF Done
      <4> QED BY <1>2, <2>2, <4>2, <4>3
    <3> QED BY <3>1, <3>2
  <2> QED BY <2>3, <2>4 DEF LiveInv, Worker
<1>4. CASE LastTick(w)
  <2>1. /\ held'[w] = held[w] \ Done(w) /\ at'[w] = "gather"
        /\ \A v \in 0..MaxWorkers - 1 : v # w => held'[v] = held[v] /\ at'[v] = at[v]
    BY <1>1, <1>4 DEF LastTick, TypeOK
  <2>2. UNCHANGED <<user, phase, workers, exit>>
    BY <1>4 DEF LastTick, people
  <2> QED BY <1>2, <2>1, <2>2 DEF LiveInv, Worker, Done
<1>5. CASE LeaveTicks(w) \/ WorkerRaises(w)
  <2>1. at' = [at EXCEPT ![w] = "gather"] \/ at' = [at EXCEPT ![w] = "raised"]
    BY <1>5 DEF LeaveTicks, WorkerRaises
  <2>2. \A v \in 0..MaxWorkers - 1 : at'[v] = "returned" => at[v] = "returned"
    BY <1>1, <2>1 DEF TypeOK
  <2>3. UNCHANGED <<user, phase, workers, exit, held>>
    BY <1>5 DEF LeaveTicks, WorkerRaises, people
  <2> QED BY <1>2, <2>2, <2>3 DEF LiveInv, Worker
<1>6. CASE WorkerReturns(w)
  <2>1. \A v \in 0..MaxWorkers - 1 : v # w => at'[v] = at[v]
    BY <1>1, <1>6 DEF WorkerReturns, TypeOK
  <2>2. UNCHANGED <<user, phase, workers, exit, held>> /\ \A u \in held[w] : user[u] = "over"
    BY <1>6 DEF WorkerReturns, people
  <2> QED BY <1>2, <2>1, <2>2 DEF LiveInv, Worker
<1> QED BY <1>3, <1>4, <1>5, <1>6 DEF WorkerStep

\* LiveInv after a step of a user.
LEMMA UserLive ==
  ASSUME TypeOK, LiveInv, NEW u \in User, UserStep(u)
  PROVE  LiveInv'
<1>1. \A v \in User : user'[v] \in {"created", "running"} => user[v] \in {"created", "running"}
  BY DEF UserStep, Acquire, SetUp, Emit, End, EndCancelled, people, TypeOK
<1>2. UNCHANGED <<held, at, phase, workers, exit>>
  BY DEF UserStep, Acquire, Emit, End, EndCancelled, runner
<1> QED BY <1>1, <1>2 DEF LiveInv, Worker

\* No user is at work once the command has exited, whether it has reported, failed before
\* the run or been cancelled in it (asyncio.run cancels and awaits what is left).
THEOREM NobodyAfterTheEnd == Spec => []NobodyAfter
<1>1. TypeOK /\ LiveInv /\ [Next]_vars => LiveInv'
  BY CommandLive, WorkerLive, UserLive DEF Next
<1>2. LiveInv => NobodyAfter
  BY DEF LiveInv, NobodyAfter, Live
<1>3. Spec => []TypeOK
  BY TypeCorrect, PTL
<1> QED BY <1>1, <1>2, <1>3, InitLive, PTL DEF Spec

-----------------------------------------------------------------------------
(* The number of users. *)

\* No worker holds more tasks than its target, finished ones included.
HeldInv == \A w \in 0..MaxWorkers - 1 :
             IsFiniteSet(held[w]) /\ Cardinality(held[w]) <= Target(w)

\* A worker's target is a number.
LEMMA TargetNat == TypeOK => \A w \in Nat : TargetFor(Users, workers, w) \in Nat
<1> SUFFICES ASSUME TypeOK, NEW w \in Nat PROVE TargetFor(Users, workers, w) \in Nat
  OBVIOUS
<1>1. Users \in Nat /\ workers \in Nat \ {0}
  BY SplitAssumption DEF TypeOK
<1>2. TargetFor(Users, workers, w) \in 0..Users
  BY <1>1, TargetBound
<1> QED BY <1>1, <1>2

\* Nothing but its own ticks adds to the tasks of a worker.
LEMMA HeldShrinks ==
  ASSUME TypeOK, HeldInv, \A w \in 0..MaxWorkers - 1 : held'[w] \subseteq held[w],
         UNCHANGED workers
  PROVE  HeldInv'
<1> SUFFICES ASSUME NEW w \in 0..MaxWorkers - 1
             PROVE  IsFiniteSet(held'[w]) /\ Cardinality(held'[w]) <= TargetFor(Users, workers', w)
  BY DEF HeldInv, Target
<1>1. /\ IsFiniteSet(held[w]) /\ Cardinality(held[w]) \in Nat
      /\ Cardinality(held[w]) <= TargetFor(Users, workers, w)
  BY FS_CardinalityType DEF HeldInv, Target
<1>2. IsFiniteSet(held'[w]) /\ Cardinality(held'[w]) <= Cardinality(held[w])
  BY <1>1, FS_Subset
<1>3. Cardinality(held'[w]) \in Nat /\ TargetFor(Users, workers, w) \in Nat
  BY <1>2, TargetNat, FS_CardinalityType
<1> QED BY <1>1, <1>2, <1>3

\* A tick starts no more users than are missing.
LEMMA TickHeld ==
  ASSUME TypeOK, HeldInv, NEW w \in Worker, Tick(w)
  PROVE  HeldInv'
<1> DEFINE kept == held[w] \ Done(w)
<1>1. PICK n \in 0..Target(w) - Cardinality(kept) :
        held' = [held EXCEPT ![w] = kept \cup {<<w, i>> : i \in started[w]..started[w] + n - 1}]
  BY DEF Tick
<1> DEFINE new == {<<w, i>> : i \in started[w]..started[w] + n - 1}
<1>2. w \in 0..MaxWorkers - 1 /\ started[w] \in Nat /\ UNCHANGED workers
  <2>1. w \in 0..MaxWorkers - 1 /\ UNCHANGED workers
    BY WorkerIndex DEF Tick
  <2>2. started[w] \in 0..Users * Ticks
    BY <2>1 DEF TypeOK
  <2> QED BY <2>1, <2>2
<1>3. IsFiniteSet(held[w]) /\ IsFiniteSet(kept) /\ Cardinality(kept) \in Nat
  <2>1. IsFiniteSet(held[w])
    BY <1>2 DEF HeldInv
  <2>2. kept \subseteq held[w]
    OBVIOUS
  <2> HIDE DEF kept
  <2>3. IsFiniteSet(kept)
    BY <2>1, <2>2, FS_Subset
  <2> QED BY <2>1, <2>3, FS_CardinalityType
<1>4. Target(w) \in Nat
  BY <1>2, TargetNat DEF Target
<1>5. n \in Nat /\ n <= Target(w) - Cardinality(kept)
  <2>1. n \in 0..Target(w) - Cardinality(kept)
    OBVIOUS
  <2> HIDE DEF kept
  <2> QED BY <1>3, <1>4, <2>1
<1>6. IsFiniteSet(new) /\ Cardinality(new) <= n
  <2> DEFINE I == started[w]..started[w] + n - 1
             f == [i \in I |-> <<w, i>>]
  <2>1. IsFiniteSet(I) /\ Cardinality(I) = n
    <3>1. PICK a \in Int : a = started[w]
      BY <1>2
    <3>2. IsFiniteSet(a..a + n - 1) /\ Cardinality(a..a + n - 1) = n
      BY <1>5, IntervalSize
    <3> QED BY <3>1, <3>2
  <2>2. f \in Surjection(I, new)
    BY DEF Surjection
  <2> HIDE DEF I, f, new
  <2> QED BY <2>1, <2>2, FS_Surjection
<1> HIDE DEF kept, new
<1>7. IsFiniteSet(kept \cup new) /\ Cardinality(kept \cup new) <= Target(w)
  <2>1. /\ IsFiniteSet(kept \cup new)
        /\ Cardinality(kept \cup new)
             = Cardinality(kept) + Cardinality(new) - Cardinality(kept \cap new)
    BY <1>3, <1>6, FS_Union
  <2>2. Cardinality(kept \cap new) \in Nat /\ Cardinality(new) \in Nat
    BY <1>6, FS_CardinalityType, FS_Intersection
  <2> QED BY <1>3, <1>4, <1>5, <1>6, <2>1, <2>2
<1>8. held'[w] = kept \cup new /\ \A v \in 0..MaxWorkers - 1 : v # w => held'[v] = held[v]
  BY <1>1, <1>2 DEF TypeOK, new
<1>9. ASSUME NEW v \in 0..MaxWorkers - 1
      PROVE  IsFiniteSet(held'[v]) /\ Cardinality(held'[v]) <= TargetFor(Users, workers', v)
  <2>1. CASE v = w
    BY <1>2, <1>7, <1>8, <2>1 DEF Target
  <2>2. CASE v # w
    BY <1>2, <1>8, <2>2 DEF HeldInv, Target
  <2> QED BY <2>1, <2>2
<1> QED BY <1>9 DEF HeldInv, Target

\* Every step keeps the number of tasks within the target.
LEMMA HeldStep == TypeOK /\ HeldInv /\ [Next]_vars => HeldInv'
<1> SUFFICES ASSUME TypeOK, HeldInv, [Next]_vars PROVE HeldInv'
  OBVIOUS
<1>1. CASE CommandStep \/ Gates \/ StopFileAppears \/ Terminated \/ UNCHANGED vars
  <2>1. UNCHANGED <<held, workers>>
    BY <1>1 DEF CommandStep, Assemble, AssembleFails, RunReturns, RunRaises, RunFailed,
                WriteReport, WriteFails, Gates, StopFileAppears, Terminated, vars, runner
  <2> QED BY <2>1, HeldShrinks
<1>2. ASSUME NEW u \in User, UserStep(u) PROVE HeldInv'
  <2>1. UNCHANGED <<held, workers>>
    BY <1>2 DEF UserStep, Acquire, Emit, End, EndCancelled, runner
  <2> QED BY <2>1, HeldShrinks
<1>3. ASSUME NEW w \in Worker, WorkerStep(w) PROVE HeldInv'
  <2>1. CASE Tick(w)
    BY <2>1, TickHeld
  <2>2. CASE LastTick(w)
    <3>1. held' = [held EXCEPT ![w] = @ \ Done(w)] /\ UNCHANGED workers
      BY <2>2 DEF LastTick
    <3>2. \A v \in 0..MaxWorkers - 1 : held'[v] \subseteq held[v]
      BY <3>1 DEF TypeOK
    <3> QED BY <3>1, <3>2, HeldShrinks
  <2>3. CASE WorkerReturns(w) \/ WorkerRaises(w) \/ LeaveTicks(w)
    <3>1. UNCHANGED <<held, workers>>
      BY <2>3 DEF WorkerReturns, WorkerRaises, LeaveTicks
    <3> QED BY <3>1, HeldShrinks
  <2> QED BY <1>3, <2>1, <2>2, <2>3 DEF WorkerStep
<1> QED BY <1>1, <1>2, <1>3 DEF Next

\* The users at work of the first k workers are no more than their targets, which add up
\* to run.users.
LEMMA LiveBound ==
  ASSUME TypeOK, LiveInv, HeldInv
  PROVE  Cardinality(Live) <= Users
<1> DEFINE c == [i \in 1..workers |-> TargetFor(Users, workers, i - 1)]
           Part(k) == {u \in Live : u[1] < k}
<1>1. Users \in Nat /\ workers \in Nat \ {0} /\ MaxWorkers \in Nat
      /\ \A w \in 0..workers - 1 : w \in 0..MaxWorkers - 1
  BY SplitAssumption DEF TypeOK
<1>2. c \in [1..workers -> Nat]
  <2>1. \A i \in 1..workers : i - 1 \in Nat
    BY <1>1
  <2> QED BY <2>1, TargetNat
<1>3. SumOf(c) = Users
  BY <1>1, TargetsAddUpHolds DEF TargetsAddUp
<1>4. PICK t \in [0..workers -> Nat] :
        /\ t[0] = 0 /\ SumOf(c) = t[workers]
        /\ \A k \in 1..workers : t[k] = t[k - 1] + c[k]
  <2> HIDE DEF c
  <2> QED BY <1>1, <1>2, PartialSums DEF PartialSum
<1>5. \A u \in Live : u[1] \in 0..workers - 1 /\ u \in held[u[1]]
  BY DEF Live, LiveInv, Worker
<1>6. IsFiniteSet(Live)
  <2>1. Live \subseteq User
    BY DEF Live
  <2> QED BY <2>1, UserFinite, FS_Subset
<1> DEFINE Q == {k \in 0..workers : Cardinality(Part(k)) <= t[k]}
<1>7. 0 \in Q
  <2>1. Part(0) = {}
    BY <1>1, <1>5
  <2> HIDE DEF Part
  <2>2. 0 \in 0..workers
    BY <1>1
  <2>3. Cardinality(Part(0)) = 0
    <3>1. Cardinality({}) = 0
      BY FS_EmptySet
    <3> QED BY <2>1, <3>1
  <2> QED BY <1>4, <2>2, <2>3
<1>8. ASSUME NEW k \in 0..workers - 1, k \in Q PROVE k + 1 \in Q
  <2> DEFINE Own == {u \in Live : u[1] = k}
  <2>1. Part(k + 1) = Part(k) \cup Own
    BY <1>1, <1>5
  <2>2. IsFiniteSet(Part(k)) /\ IsFiniteSet(Own)
    <3>1. Part(k) \subseteq Live /\ Own \subseteq Live
      OBVIOUS
    <3> HIDE DEF Part, Own
    <3> QED BY <1>6, <3>1, FS_Subset
  <2>3. Cardinality(Own) <= TargetFor(Users, workers, k)
    <3>1. Own \subseteq held[k] /\ k \in 0..MaxWorkers - 1
      <4>1. Own \subseteq held[k]
        BY <1>5
      <4> QED BY <1>1, <4>1
    <3> HIDE DEF Own
    <3>2. /\ IsFiniteSet(held[k]) /\ Cardinality(held[k]) \in Nat
          /\ Cardinality(held[k]) <= TargetFor(Users, workers, k)
      BY <3>1, FS_CardinalityType DEF HeldInv, Target
    <3>3. Cardinality(Own) <= Cardinality(held[k]) /\ Cardinality(Own) \in Nat
      BY <2>2, <3>1, <3>2, FS_Subset, FS_CardinalityType
    <3>4. TargetFor(Users, workers, k) \in Nat
      BY <3>1, TargetNat
    <3> QED BY <3>2, <3>3, <3>4
  <2>4. c[k + 1] = TargetFor(Users, workers, k) /\ c[k + 1] \in Nat
    <3>1. k + 1 \in 1..workers /\ (k + 1) - 1 = k
      BY <1>1
    <3> QED BY <1>2, <3>1
  <2>5. t[k + 1] = t[k] + c[k + 1] /\ t[k] \in Nat /\ Cardinality(Part(k)) <= t[k]
    <3>1. k + 1 \in 1..workers /\ (k + 1) - 1 = k /\ k \in 0..workers
      BY <1>1
    <3>2. Cardinality(Part(k)) <= t[k]
      BY <1>8
    <3> HIDE DEF c, Part
    <3>3. t[k + 1] = t[(k + 1) - 1] + c[k + 1]
      BY <1>4, <3>1
    <3> QED BY <1>4, <3>1, <3>2, <3>3
  <2> HIDE DEF Part, Own, c
  <2>6. /\ Cardinality(Part(k) \cup Own)
             = Cardinality(Part(k)) + Cardinality(Own) - Cardinality(Part(k) \cap Own)
        /\ Cardinality(Part(k) \cap Own) \in Nat
        /\ Cardinality(Part(k)) \in Nat /\ Cardinality(Own) \in Nat
    BY <2>2, FS_Union, FS_Intersection, FS_CardinalityType
  <2>7. Cardinality(Part(k + 1)) <= t[k + 1]
    <3>1. Cardinality(Part(k + 1)) <= Cardinality(Part(k)) + Cardinality(Own)
      <4>1. Cardinality(Part(k + 1)) = Cardinality(Part(k) \cup Own)
        BY <2>1
      <4> QED BY <2>6, <4>1
    <3>2. Cardinality(Own) <= c[k + 1] /\ c[k + 1] \in Nat
      BY <2>3, <2>4
    <3>3. Cardinality(Part(k + 1)) \in Int
      <4>1. Cardinality(Part(k) \cup Own) \in Int
        BY <2>6
      <4> QED BY <2>1, <4>1
    <3> QED BY <2>5, <2>6, <3>1, <3>2, <3>3
  <2>8. k + 1 \in 0..workers
    BY <1>1
  <2> QED BY <2>7, <2>8
<1>9. workers \in Q
  <2> HIDE DEF Q
  <2>1. \A k \in 0..workers : k \in Q
    BY <1>1, <1>7, <1>8, IntervalInduction
  <2> QED BY <1>1, <2>1
<1>10. Part(workers) = Live
  BY <1>1, <1>5
<1> HIDE DEF Part, c
<1> QED BY <1>3, <1>4, <1>9, <1>10

\* All workers together never have more users at work than run.users, however the ticks of
\* their profiles fall, and a command that is over has none.
THEOREM NobodyLeftHolds == Spec => []NobodyLeft
<1>1. TypeOK /\ LiveInv /\ [Next]_vars => LiveInv'
  BY CommandLive, WorkerLive, UserLive DEF Next
<1>2. Init => TypeOK
  BY InitTypes DEF Typed
<1>3. Init => HeldInv
  <2> SUFFICES ASSUME Init, NEW w \in 0..MaxWorkers - 1
               PROVE  IsFiniteSet(held[w]) /\ Cardinality(held[w]) <= Target(w)
    BY DEF HeldInv
  <2>1. held[w] = {}
    BY DEF Init
  <2>2. Target(w) \in Nat
    <3>1. Users \in Nat /\ workers \in Nat \ {0} /\ w \in Nat
      BY SplitAssumption DEF Init
    <3> QED BY <3>1, TargetBound DEF Target
  <2> QED BY <2>1, <2>2, FS_EmptySet
<1>4. TypeOK /\ LiveInv /\ HeldInv => NobodyLeft
  BY LiveBound DEF NobodyLeft, LiveInv, Live
<1>5. Spec => []TypeOK
  BY TypeCorrect, PTL
<1> QED BY <1>1, <1>3, <1>4, <1>5, InitLive, HeldStep, PTL DEF Spec


-----------------------------------------------------------------------------
(* The events of the run. *)

\* A sink has the events of its worker's users.
OwnEvents == \A w \in 0..MaxWorkers - 1 : \A e \in sink[w] : e.user[1] = w /\ w \in Worker

\* The blocks are the sinks of the workers that have returned, each of them once.
Merged(who) ==
  /\ who \in [DOMAIN blocks -> 0..MaxWorkers - 1]
  /\ \A i, j \in DOMAIN blocks : who[i] = who[j] => i = j
  /\ \A i \in DOMAIN blocks : at[who[i]] = "returned" /\ blocks[i] = sink[who[i]]
  /\ \A w \in 0..MaxWorkers - 1 : at[w] = "returned" => \E i \in DOMAIN blocks : who[i] = w

\* It can be said which block is whose.
MergedOnce == \E who : Merged(who)

\* Reports are written of workers that have all returned, none of which had before the run.
Late ==
  /\ phase = "report" \/ (\E r \in Reports : files[r] = "new") =>
       \A w \in Worker : at[w] = "returned"
  /\ (\E r \in Reports : files[r] = "new") => phase \in {"report", "over"}
  /\ phase = "load" => \A w \in 0..MaxWorkers - 1 : at[w] # "returned"

\* The inductive invariant of the events.
WholeInv == OwnEvents /\ MergedOnce /\ Late

\* Nothing has been recorded at first.
LEMMA InitWhole == Init => WholeInv
<1> SUFFICES ASSUME Init PROVE WholeInv
  OBVIOUS
<1>1. OwnEvents /\ Late
  BY DEF Init, OwnEvents, Late
<1>2. Merged(<<>>)
  BY DEF Init, Merged
<1> QED BY <1>1, <1>2 DEF WholeInv, MergedOnce

\* The merging is undisturbed by steps that keep the sinks of those who have returned.
LEMMA MergedKept ==
  ASSUME TypeOK, MergedOnce, UNCHANGED blocks,
         \A w \in 0..MaxWorkers - 1 : at'[w] = "returned" <=> at[w] = "returned",
         \A w \in 0..MaxWorkers - 1 : at[w] = "returned" => sink'[w] = sink[w]
  PROVE  MergedOnce'
<1>1. PICK who : Merged(who)
  BY DEF MergedOnce
<1>2. \A i \in DOMAIN blocks : who[i] \in 0..MaxWorkers - 1
  BY <1>1 DEF Merged
<1>3. Merged(who)'
  BY <1>1, <1>2 DEF Merged
<1> QED BY <1>3 DEF MergedOnce

\* WholeInv after a step of the command.
LEMMA CommandWhole ==
  ASSUME TypeOK, WholeInv, CommandStep \/ Gates \/ StopFileAppears \/ Terminated \/ UNCHANGED vars
  PROVE  WholeInv'
<1>1. UNCHANGED <<sink, blocks, workers>>
  BY DEF CommandStep, Assemble, AssembleFails, RunReturns, RunRaises, RunFailed,
         WriteReport, WriteFails, Gates, StopFileAppears, Terminated, vars
<1>2. \A w \in 0..MaxWorkers - 1 : at'[w] = "returned" <=> at[w] = "returned"
  <2>1. CASE Assemble
    BY <2>1 DEF Assemble, WholeInv, Late, TypeOK
  <2>2. CASE RunRaises
    BY <2>2 DEF RunRaises, TypeOK
  <2>3. CASE ~Assemble /\ ~RunRaises
    <3>1. UNCHANGED at
      BY <2>3 DEF CommandStep, AssembleFails, RunReturns, RunFailed, WriteReport, WriteFails,
                  Gates, StopFileAppears, Terminated, vars, runner
    <3> QED BY <3>1
  <2> QED BY <2>1, <2>2, <2>3
<1>3. Worker' = Worker /\ Worker \subseteq 0..MaxWorkers - 1
  BY <1>1, WorkerIndex DEF Worker
<1>4. Late'
  <2>1. CASE Assemble \/ AssembleFails \/ RunRaises \/ RunFailed
    <3>1. UNCHANGED files /\ phase \in {"load", "run", "cancelled"} /\ phase' \notin {"load", "report"}
      BY <2>1 DEF Assemble, AssembleFails, RunRaises, RunFailed, Exits
    <3> QED BY <3>1 DEF WholeInv, Late
  <2>2. CASE RunReturns
    BY <2>2, <1>3 DEF RunReturns, WholeInv, Late, runner
  <2>3. CASE WriteReport \/ WriteFails \/ Gates
    <3>1. phase = "report" /\ phase' \in {"report", "over"} /\ UNCHANGED at
      BY <2>3 DEF WriteReport, WriteFails, Gates, Exits, runner
    <3> QED BY <1>3, <3>1 DEF WholeInv, Late
  <2>4. CASE UNCHANGED vars \/ StopFileAppears
    BY <1>3, <2>4 DEF vars, StopFileAppears, runner, WholeInv, Late
  <2> QED BY <2>1, <2>2, <2>3, <2>4 DEF CommandStep, Terminated
<1>5. OwnEvents'
  BY <1>1, <1>3 DEF WholeInv, OwnEvents
<1>6. MergedOnce'
  BY <1>1, <1>2, MergedKept DEF WholeInv
<1> QED BY <1>4, <1>5, <1>6 DEF WholeInv

\* WholeInv after a step of a user.
LEMMA UserWhole ==
  ASSUME TypeOK, LiveInv, WholeInv, NEW u \in User, UserStep(u)
  PROVE  WholeInv'
<1>1. UNCHANGED <<blocks, workers, at, phase, files>> /\ Worker' = Worker
  BY DEF UserStep, Acquire, Emit, End, EndCancelled, runner, Worker
<1>2. Late'
  BY <1>1 DEF WholeInv, Late
<1>3. CASE Emit(u)
  <2>1. u[1] \in Worker /\ at[u[1]] # "returned" /\ u[1] \in 0..MaxWorkers - 1
    BY <1>3, WorkerIndex DEF Emit, LiveInv
  <2>2. PICK new : new.user = u /\ sink' = [sink EXCEPT ![u[1]] = @ \cup {new}]
    <3>1. PICK k \in Kinds :
            sink' = [sink EXCEPT ![u[1]] =
                       @ \cup {[user |-> u, n |-> Cardinality({e \in @ : e.user = u}), kind |-> k]}]
      BY <1>3 DEF Emit
    <3>2. PICK num : num = Cardinality({e \in sink[u[1]] : e.user = u})
      OBVIOUS
    <3>3. PICK new : new = [user |-> u, n |-> num, kind |-> k]
      OBVIOUS
    <3> QED BY <3>1, <3>2, <3>3
  <2>3. /\ sink'[u[1]] = sink[u[1]] \cup {new}
        /\ \A w \in 0..MaxWorkers - 1 : w # u[1] => sink'[w] = sink[w]
    BY <2>1, <2>2 DEF TypeOK
  <2>4. OwnEvents'
    BY <1>1, <2>1, <2>2, <2>3 DEF WholeInv, OwnEvents
  <2>5. \A w \in 0..MaxWorkers - 1 : at[w] = "returned" => sink'[w] = sink[w]
    BY <2>1, <2>3
  <2>6. MergedOnce'
    BY <1>1, <2>5, MergedKept DEF WholeInv
  <2> QED BY <1>2, <2>4, <2>6 DEF WholeInv
<1>4. CASE Acquire(u) \/ End(u) \/ EndCancelled(u)
  <2>1. UNCHANGED sink
    BY <1>4 DEF Acquire, End, EndCancelled
  <2>2. OwnEvents'
    BY <1>1, <2>1 DEF WholeInv, OwnEvents
  <2>3. MergedOnce'
    BY <1>1, <2>1, MergedKept DEF WholeInv
  <2> QED BY <1>2, <2>2, <2>3 DEF WholeInv
<1> QED BY <1>3, <1>4 DEF UserStep

\* A worker's sink is merged when it returns, which it does once.
LEMMA ReturnsWhole ==
  ASSUME TypeOK, WholeInv, NEW w \in Worker, WorkerReturns(w)
  PROVE  MergedOnce'
<1>1. /\ w \in 0..MaxWorkers - 1 /\ at[w] = "gather"
      /\ at'[w] = "returned" /\ \A v \in 0..MaxWorkers - 1 : v # w => at'[v] = at[v]
      /\ blocks' = Append(blocks, sink[w]) /\ UNCHANGED sink
  BY WorkerIndex DEF WorkerReturns, TypeOK
<1> DEFINE n == Len(blocks)
<1>2. /\ blocks \in Seq(SUBSET Event) /\ n \in Nat /\ DOMAIN blocks = 1..n
      /\ sink[w] \in SUBSET Event
  BY <1>1 DEF TypeOK
<1>3. /\ DOMAIN blocks' = 1..n + 1
      /\ \A i \in 1..n : blocks'[i] = blocks[i]
      /\ blocks'[n + 1] = sink[w]
  BY <1>1, <1>2, AppendProperties
<1>4. PICK who : Merged(who)
  BY DEF WholeInv, MergedOnce
<1>5. /\ \A i \in 1..n : who[i] \in 0..MaxWorkers - 1 /\ who[i] # w
      /\ \A i \in 1..n : at[who[i]] = "returned" /\ blocks[i] = sink[who[i]]
      /\ \A i, j \in 1..n : who[i] = who[j] => i = j
      /\ \A v \in 0..MaxWorkers - 1 : at[v] = "returned" => \E i \in 1..n : who[i] = v
  BY <1>1, <1>2, <1>4 DEF Merged
<1> HIDE DEF n
<1>6. PICK now : /\ now \in [1..n + 1 -> 0..MaxWorkers - 1]
                 /\ now[n + 1] = w /\ \A i \in 1..n : now[i] = who[i]
  <2> DEFINE f == [i \in 1..n + 1 |-> IF i = n + 1 THEN w ELSE who[i]]
  <2>1. \A i \in 1..n + 1 : i # n + 1 => i \in 1..n
    BY <1>2
  <2>2. n + 1 \in 1..n + 1 /\ \A i \in 1..n : i \in 1..n + 1 /\ i # n + 1
    BY <1>2
  <2>3. f \in [1..n + 1 -> 0..MaxWorkers - 1]
    BY <1>1, <1>5, <2>1
  <2>4. f[n + 1] = w /\ \A i \in 1..n : f[i] = who[i]
    BY <2>2
  <2> HIDE DEF f
  <2> QED BY <2>3, <2>4
<1>7. \A i \in 1..n + 1 : i = n + 1 \/ i \in 1..n
  BY <1>2
<1>8. Merged(now)'
  <2>1. \A i, j \in 1..n + 1 : now[i] = now[j] => i = j
    BY <1>5, <1>6, <1>7
  <2>2. \A i \in 1..n + 1 : at'[now[i]] = "returned" /\ blocks'[i] = sink[now[i]]
    <3> SUFFICES ASSUME NEW i \in 1..n + 1
                 PROVE  at'[now[i]] = "returned" /\ blocks'[i] = sink[now[i]]
      OBVIOUS
    <3>1. CASE i = n + 1
      BY <1>1, <1>3, <1>6, <3>1
    <3>2. CASE i # n + 1
      <4>1. i \in 1..n /\ now[i] = who[i] /\ who[i] \in 0..MaxWorkers - 1 /\ who[i] # w
        BY <1>5, <1>6, <1>7, <3>2
      <4>2. at[now[i]] = "returned" /\ blocks[i] = sink[now[i]]
        BY <1>5, <4>1
      <4> QED BY <1>1, <1>3, <4>1, <4>2
    <3> QED BY <3>1, <3>2
  <2>3. ASSUME NEW v \in 0..MaxWorkers - 1, at'[v] = "returned"
        PROVE  \E i \in 1..n + 1 : now[i] = v
    <3>1. CASE v = w
      <4>1. n + 1 \in 1..n + 1
        BY <1>2
      <4> QED BY <3>1, <4>1, <1>6
    <3>2. CASE v # w
      <4>1. PICK i \in 1..n : who[i] = v
        BY <1>1, <1>5, <2>3, <3>2
      <4>2. i \in 1..n + 1
        BY <1>2
      <4> QED BY <1>6, <4>1, <4>2
    <3> QED BY <3>1, <3>2
  <2>4. \A i, j \in DOMAIN blocks' : now[i] = now[j] => i = j
    BY <1>3, <2>1
  <2>5. \A i \in DOMAIN blocks' : at'[now[i]] = "returned" /\ blocks'[i] = sink'[now[i]]
    BY <1>1, <1>3, <2>2
  <2>6. \A v \in 0..MaxWorkers - 1 : at'[v] = "returned" => \E i \in DOMAIN blocks' : now[i] = v
    BY <1>3, <2>3
  <2>7. now \in [DOMAIN blocks' -> 0..MaxWorkers - 1]
    BY <1>3, <1>6
  <2> QED BY <2>4, <2>5, <2>6, <2>7 DEF Merged
<1> QED BY <1>8 DEF MergedOnce

\* WholeInv after a step of a worker.
LEMMA WorkerWhole ==
  ASSUME TypeOK, WholeInv, NEW w \in Worker, WorkerStep(w)
  PROVE  WholeInv'
<1>1. /\ UNCHANGED <<sink, workers, phase, files>> /\ Worker' = Worker
      /\ phase = "run" /\ at[w] \in {"tick", "gather"} /\ w \in 0..MaxWorkers - 1
  BY WorkerIndex DEF WorkerStep, Tick, LastTick, LeaveTicks, WorkerReturns, WorkerRaises, Worker
<1>2. OwnEvents'
  BY <1>1 DEF WholeInv, OwnEvents
<1>3. Late'
  BY <1>1 DEF WholeInv, Late
<1>4. MergedOnce'
  <2>1. CASE WorkerReturns(w)
    BY <2>1, ReturnsWhole
  <2>2. CASE ~WorkerReturns(w)
    <3>1. UNCHANGED blocks /\ \/ UNCHANGED at
                              \/ at' = [at EXCEPT ![w] = "gather"]
                              \/ at' = [at EXCEPT ![w] = "raised"]
      BY <2>2 DEF WorkerStep, Tick, LastTick, LeaveTicks, WorkerRaises
    <3>2. \A v \in 0..MaxWorkers - 1 : at'[v] = "returned" <=> at[v] = "returned"
      BY <1>1, <3>1 DEF TypeOK
    <3> QED BY <1>1, <3>1, <3>2, MergedKept DEF WholeInv
  <2> QED BY <2>1, <2>2
<1> QED BY <1>2, <1>3, <1>4 DEF WholeInv

\* Once all workers have returned, the events of the run are those of its workers.
LEMMA WholeEvents ==
  ASSUME TypeOK, WholeInv, \A w \in Worker : at[w] = "returned"
  PROVE  /\ Events \in Seq(Event)
         /\ ToSet(Events) = Recorded /\ Len(Events) = Cardinality(Recorded)
<1> DEFINE n == Len(blocks)
<1>1. blocks \in Seq(SUBSET Event) /\ n \in Nat /\ DOMAIN blocks = 1..n
  BY DEF TypeOK
<1>2. PICK who : Merged(who)
  BY DEF WholeInv, MergedOnce
<1>3. \A k \in 1..n : blocks[k] \subseteq Event /\ IsFiniteSet(blocks[k])
  <2> SUFFICES ASSUME NEW k \in 1..n PROVE blocks[k] \subseteq Event /\ IsFiniteSet(blocks[k])
    OBVIOUS
  <2>1. who[k] \in 0..MaxWorkers - 1 /\ blocks[k] = sink[who[k]]
    BY <1>1, <1>2 DEF Merged
  <2> QED BY <2>1 DEF TypeOK
<1>4. \A i, j \in 1..n : i # j => blocks[i] \cap blocks[j] = {}
  <2> SUFFICES ASSUME NEW i \in 1..n, NEW j \in 1..n, i # j,
                      NEW e \in blocks[i] \cap blocks[j]
               PROVE  FALSE
    OBVIOUS
  <2>1. /\ who[i] \in 0..MaxWorkers - 1 /\ who[j] \in 0..MaxWorkers - 1 /\ who[i] # who[j]
        /\ e \in sink[who[i]] /\ e \in sink[who[j]]
    BY <1>1, <1>2 DEF Merged
  <2> QED BY <2>1 DEF WholeInv, OwnEvents
<1>5. UNION {blocks[i] : i \in 1..n} = Recorded
  <2>1. \A i \in 1..n : who[i] \in DOMAIN sink /\ blocks[i] = sink[who[i]]
    <3>1. DOMAIN sink = 0..MaxWorkers - 1
      BY DEF TypeOK
    <3> QED BY <1>1, <1>2, <3>1 DEF Merged
  <2>2. ASSUME NEW w \in DOMAIN sink, NEW e \in sink[w]
        PROVE  \E i \in 1..n : e \in blocks[i]
    <3>1. w \in 0..MaxWorkers - 1 /\ w \in Worker
      BY <2>2 DEF TypeOK, WholeInv, OwnEvents
    <3>2. PICK i \in 1..n : who[i] = w
      BY <1>1, <1>2, <3>1 DEF Merged
    <3> QED BY <2>1, <2>2, <3>2
  <2> QED BY <2>1, <2>2 DEF Recorded
<1>6. PICK b : b = blocks
  OBVIOUS
<1>7. /\ Listed(b) \in Seq(Event)
      /\ ToSet(Listed(b)) = UNION {b[i] : i \in 1..n}
      /\ Len(Listed(b)) = Cardinality(UNION {b[i] : i \in 1..n})
  <2>1. DisjointBlocks(b, n, Event)
    BY <1>1, <1>3, <1>4, <1>6 DEF DisjointBlocks
  <2> HIDE DEF n
  <2>2. ListedOnce(b, n, Event)
    BY <1>1, <2>1, ListedProperties
  <2> QED BY <2>2 DEF ListedOnce
<1>8. Events = Listed(blocks)
  BY DEF Events, Listed
<1> QED BY <1>5, <1>6, <1>7, <1>8

\* Every step keeps WholeInv.
LEMMA WholeStep == TypeOK /\ LiveInv /\ WholeInv /\ [Next]_vars => WholeInv'
BY CommandWhole, WorkerWhole, UserWhole DEF Next

\* Only a run whose workers have all returned is reported, and it reports every event of its
\* workers, each of them once (DistributedRunner.run merges a worker's sink when it returns).
THEOREM AggregateIsWholeHolds == Spec => []AggregateIsWhole
<1>1. TypeOK /\ LiveInv /\ [Next]_vars => LiveInv'
  BY CommandLive, WorkerLive, UserLive DEF Next
<1>2. TypeOK /\ WholeInv => AggregateIsWhole
  BY WholeEvents DEF AggregateIsWhole, WholeInv, Late
<1>3. Spec => []TypeOK
  BY TypeCorrect, PTL
<1> QED BY <1>1, <1>2, <1>3, InitLive, InitWhole, WholeStep, PTL DEF Spec

-----------------------------------------------------------------------------
(* What becomes of the users. *)

\* Users are created in the order of their numbers.
Fresh == \A u \in User : u[2] >= started[u[1]] => user[u] = "none"

\* A user has its persona from the moment it runs.
Named == \A u \in User : /\ user[u] \in {"none", "created"} => persona[u] = Nobody
                         /\ user[u] = "running" => persona[u] # Nobody

\* A user with a persona leaves a cleanup summary, unless its set-up has raised or it has been
\* cancelled.
Told == \A u \in User : user[u] = "over" /\ persona[u] # Nobody =>
                          cleanups[u] # None \/ outcome[u] \in {"error", "cancelled"}

\* Users are cancelled in a run that has failed.
Failed == \A u \in User : outcome[u] = "cancelled" =>
                            phase = "cancelled" \/ (phase = "over" /\ exit # 0)

\* The users a worker held when it returned had ended well.
DoneWell == \A w \in 0..MaxWorkers - 1 : at[w] = "returned" =>
              \A u \in held[w] : user[u] = "over" /\ outcome[u] = "ok"

\* The inductive invariant of what becomes of the users.
FateInv == Fresh /\ Named /\ Told /\ Failed /\ DoneWell

\* No user has been created at first.
LEMMA InitFate == Init => FateInv
<1> SUFFICES ASSUME Init PROVE FateInv
  OBVIOUS
<1>1. Fresh /\ Named /\ Told /\ Failed /\ DoneWell
  BY DEF Init, Fresh, Named, Told, Failed, DoneWell
<1> QED BY <1>1 DEF FateInv

\* FateInv after a step of the command.
LEMMA CommandFate ==
  ASSUME TypeOK, FateInv, CommandStep \/ Gates \/ StopFileAppears \/ Terminated \/ UNCHANGED vars
  PROVE  FateInv'
<1>1. UNCHANGED <<started, held, user, outcome, persona, cleanups, sink>>
  BY DEF CommandStep, Assemble, AssembleFails, RunReturns, RunRaises, RunFailed,
         WriteReport, WriteFails, Gates, StopFileAppears, Terminated, vars, runner, people
<1>2. \A w \in 0..MaxWorkers - 1 : at'[w] = "returned" => at[w] = "returned"
  <2>1. CASE Assemble
    BY <2>1 DEF Assemble, TypeOK
  <2>2. CASE RunRaises
    BY <2>2 DEF RunRaises, TypeOK
  <2>3. CASE ~Assemble /\ ~RunRaises
    <3>1. UNCHANGED at
      BY <2>3 DEF CommandStep, AssembleFails, RunReturns, RunFailed, WriteReport, WriteFails,
                  Gates, StopFileAppears, Terminated, vars, runner
    <3> QED BY <3>1
  <2> QED BY <2>1, <2>2, <2>3
<1>3. \/ phase \notin {"cancelled", "over"}
      \/ phase = "cancelled" /\ phase' = "over" /\ exit' = 1
      \/ UNCHANGED <<phase, exit>>
  BY DEF CommandStep, Assemble, AssembleFails, RunReturns, RunRaises, RunFailed, Exits,
         WriteReport, WriteFails, Gates, StopFileAppears, Terminated, vars
<1>4. Fresh' /\ Named' /\ Told'
  BY <1>1 DEF FateInv, Fresh, Named, Told
<1>5. Failed'
  BY <1>1, <1>3 DEF FateInv, Failed
<1>6. DoneWell'
  BY <1>1, <1>2 DEF FateInv, DoneWell
<1> QED BY <1>4, <1>5, <1>6 DEF FateInv

\* FateInv after a tick, which creates users.
LEMMA TickFate ==
  ASSUME TypeOK, FateInv, NEW w \in Worker, Tick(w)
  PROVE  FateInv'
<1>1. PICK n \in 0..Target(w) - Cardinality(held[w] \ Done(w)) :
        LET new == {<<w, i>> : i \in started[w]..started[w] + n - 1}
        IN /\ held' = [held EXCEPT ![w] = (@ \ Done(w)) \cup new]
           /\ user' = [u \in User |-> IF u \in new THEN "created" ELSE user[u]]
           /\ started' = [started EXCEPT ![w] = @ + n]
  BY DEF Tick
<1> DEFINE new == {<<w, i>> : i \in started[w]..started[w] + n - 1}
<1>2. w \in 0..MaxWorkers - 1 /\ started[w] \in Nat /\ n \in Nat
  <2>1. w \in 0..MaxWorkers - 1
    BY WorkerIndex
  <2>2. started[w] \in 0..Users * Ticks
    BY <2>1 DEF TypeOK
  <2> QED BY <2>1, <2>2
<1>3. /\ UNCHANGED <<phase, exit, at, outcome, persona, cleanups, sink>>
      /\ at[w] = "tick"
  BY DEF Tick
<1>4. /\ \A u \in new : u[1] = w /\ u[2] >= started[w] /\ u[2] < started[w] + n
      /\ \A u \in User : u \in new => user'[u] = "created"
      /\ \A u \in User : u \notin new => user'[u] = user[u]
      /\ \A v \in 0..MaxWorkers - 1 : v # w => held'[v] = held[v] /\ started'[v] = started[v]
      /\ started'[w] = started[w] + n
  <2>1. \A u \in new : u[1] = w /\ u[2] >= started[w] /\ u[2] < started[w] + n
    BY <1>2
  <2>2. /\ \A u \in User : u \in new => user'[u] = "created"
        /\ \A u \in User : u \notin new => user'[u] = user[u]
    BY <1>1
  <2>3. /\ \A v \in 0..MaxWorkers - 1 : v # w => held'[v] = held[v] /\ started'[v] = started[v]
        /\ started'[w] = started[w] + n
    BY <1>1, <1>2 DEF TypeOK
  <2> QED BY <2>1, <2>2, <2>3
<1> HIDE DEF new
<1>5. \A u \in User : u[1] \in 0..MaxWorkers - 1 /\ u[2] \in Int
  BY DEF User
<1>6. \A u \in User : u \in new => user[u] = "none"
  BY <1>4 DEF FateInv, Fresh
<1>7. Fresh'
  <2> SUFFICES ASSUME NEW u \in User, u[2] >= started'[u[1]] PROVE user'[u] = "none"
    BY DEF Fresh
  <2>1. CASE u[1] = w
    <3>1. u[2] >= started[w] + n /\ u[2] >= started[w] /\ u \notin new
      BY <1>2, <1>4, <1>5, <2>1
    <3> QED BY <1>4, <2>1, <3>1 DEF FateInv, Fresh
  <2>2. CASE u[1] # w
    BY <1>4, <1>5, <2>2 DEF FateInv, Fresh
  <2> QED BY <2>1, <2>2
<1>8. Named' /\ Told'
  BY <1>3, <1>4, <1>6 DEF FateInv, Named, Told
<1>9. Failed'
  BY <1>3 DEF FateInv, Failed
<1>10. DoneWell'
  <2> SUFFICES ASSUME NEW v \in 0..MaxWorkers - 1, at'[v] = "returned", NEW u \in held'[v]
               PROVE  user'[u] = "over" /\ outcome'[u] = "ok"
    BY DEF DoneWell
  <2>1. v # w /\ u \in held[v] /\ u \in User
    BY <1>3, <1>4 DEF TypeOK
  <2>2. user[u] = "over" /\ outcome[u] = "ok"
    BY <1>3, <2>1 DEF FateInv, DoneWell
  <2>3. u \notin new
    BY <1>6, <2>1, <2>2
  <2> QED BY <1>3, <1>4, <2>1, <2>2, <2>3
<1> QED BY <1>7, <1>8, <1>9, <1>10 DEF FateInv

\* FateInv after any other step of a worker.
LEMMA WorkerFate ==
  ASSUME TypeOK, FateInv, NEW w \in Worker, WorkerStep(w)
  PROVE  FateInv'
<1>1. CASE Tick(w)
  BY <1>1, TickFate
<1>2. CASE ~Tick(w)
  <2>1. w \in 0..MaxWorkers - 1
    BY WorkerIndex
  <2>2. UNCHANGED <<phase, exit, started, user, outcome, persona, cleanups, sink>>
    BY <1>2 DEF WorkerStep, LastTick, LeaveTicks, WorkerReturns, WorkerRaises, people
  <2>3. Fresh' /\ Named' /\ Told' /\ Failed'
    BY <2>2 DEF FateInv, Fresh, Named, Told, Failed
  <2>4. DoneWell'
    <3>1. CASE LastTick(w)
      <4>1. /\ at' = [at EXCEPT ![w] = "gather"] /\ held' = [held EXCEPT ![w] = @ \ Done(w)]
        BY <3>1 DEF LastTick
      <4>2. \A v \in 0..MaxWorkers - 1 : at'[v] = "returned" => at[v] = "returned" /\ held'[v] \subseteq held[v]
        BY <2>1, <4>1 DEF TypeOK
      <4> QED BY <2>2, <4>2 DEF FateInv, DoneWell
    <3>2. CASE LeaveTicks(w) \/ WorkerRaises(w)
      <4>1. UNCHANGED held /\ \/ at' = [at EXCEPT ![w] = "gather"]
                              \/ at' = [at EXCEPT ![w] = "raised"]
        BY <3>2 DEF LeaveTicks, WorkerRaises
      <4>2. \A v \in 0..MaxWorkers - 1 : at'[v] = "returned" => at[v] = "returned"
        BY <2>1, <4>1 DEF TypeOK
      <4> QED BY <2>2, <4>1, <4>2 DEF FateInv, DoneWell
    <3>3. CASE WorkerReturns(w)
      <4>1. /\ UNCHANGED held /\ at' = [at EXCEPT ![w] = "returned"]
            /\ \A u \in held[w] : user[u] = "over" /\ outcome[u] = "ok"
        BY <3>3 DEF WorkerReturns
      <4>2. \A v \in 0..MaxWorkers - 1 : at'[v] = "returned" => v = w \/ at[v] = "returned"
        BY <2>1, <4>1 DEF TypeOK
      <4> QED BY <2>2, <4>1, <4>2 DEF FateInv, DoneWell
    <3> QED BY <1>2, <3>1, <3>2, <3>3 DEF WorkerStep
  <2> QED BY <2>3, <2>4 DEF FateInv
<1> QED BY <1>1, <1>2

\* FateInv after a step of a user.
LEMMA UserFate ==
  ASSUME TypeOK, FateInv, NEW u \in User, UserStep(u)
  PROVE  FateInv'
<1>1. /\ UNCHANGED <<phase, exit, started, held, at>>
      /\ \A v \in User : v # u => /\ user'[v] = user[v] /\ outcome'[v] = outcome[v]
                                  /\ persona'[v] = persona[v] /\ cleanups'[v] = cleanups[v]
      /\ user[u] \in {"created", "running"} /\ user'[u] \in {"running", "over"}
  <2>1. CASE Acquire(u)
    <3>1. CASE Free(u[1]) = {}
      BY <2>1, <3>1 DEF Acquire, TypeOK, runner
    <3>2. CASE Free(u[1]) # {}
      BY <2>1, <3>2 DEF Acquire, SetUp, TypeOK, runner
    <3> QED BY <3>1, <3>2
  <2>2. CASE Emit(u)
    BY <2>2 DEF Emit, people, runner
  <2>3. CASE End(u)
    BY <2>3 DEF End, TypeOK, runner
  <2>4. CASE EndCancelled(u)
    BY <2>4 DEF EndCancelled, Live, TypeOK, runner
  <2> QED BY <2>1, <2>2, <2>3, <2>4 DEF UserStep
<1>2. Fresh'
  BY <1>1 DEF FateInv, Fresh
<1>3. DoneWell'
  <2> SUFFICES ASSUME NEW v \in 0..MaxWorkers - 1, at[v] = "returned", NEW x \in held[v]
               PROVE  user'[x] = "over" /\ outcome'[x] = "ok"
    BY <1>1 DEF DoneWell
  <2>1. x \in User /\ user[x] = "over" /\ outcome[x] = "ok"
    BY DEF FateInv, DoneWell, TypeOK
  <2>2. x # u
    BY <1>1, <2>1
  <2> QED BY <1>1, <2>1, <2>2
<1>4. CASE Acquire(u)
  <2>1. CASE Free(u[1]) = {}
    <3>1. /\ user' = [user EXCEPT ![u] = "over"] /\ outcome' = [outcome EXCEPT ![u] = "error"]
          /\ UNCHANGED <<persona, cleanups, sink>> /\ user[u] = "created"
      BY <1>4, <2>1 DEF Acquire
    <3>2. user'[u] = "over" /\ outcome'[u] = "error" /\ persona[u] = Nobody
      BY <3>1 DEF FateInv, Named, TypeOK
    <3>3. Named' /\ Told' /\ Failed'
      BY <1>1, <3>1, <3>2 DEF FateInv, Named, Told, Failed
    <3> QED BY <1>2, <1>3, <3>3 DEF FateInv
  <2>2. CASE Free(u[1]) # {}
    <3>1. PICK p \in Free(u[1]) : persona' = [persona EXCEPT ![u] = p]
      BY <1>4, <2>2 DEF Acquire
    <3>2. p # Nobody
      BY DEF Free, Partition, Nobody
    <3>3. UNCHANGED cleanups /\ SetUp(u)
      BY <1>4, <2>2 DEF Acquire
    <3>4. /\ persona'[u] = p
          /\ \/ user'[u] = "running" /\ UNCHANGED outcome
             \/ user'[u] = "over" /\ outcome'[u] = "error"
      BY <3>1, <3>3 DEF SetUp, TypeOK
    <3>5. Named' /\ Told' /\ Failed'
      BY <1>1, <3>2, <3>3, <3>4 DEF FateInv, Named, Told, Failed
    <3> QED BY <1>2, <1>3, <3>5 DEF FateInv
  <2> QED BY <2>1, <2>2
<1>5. CASE Emit(u)
  <2>1. UNCHANGED people /\ user[u] = "running" /\ u[1] \in 0..MaxWorkers - 1
    BY <1>5 DEF Emit, User
  <2>2. Named' /\ Told' /\ Failed'
    BY <1>1, <2>1 DEF people, FateInv, Named, Told, Failed
  <2> QED BY <1>2, <1>3, <2>2 DEF FateInv
<1>6. CASE End(u)
  <2>1. PICK how \in {"ok", "error"}, failed \in 0..1 :
          outcome' = [outcome EXCEPT ![u] = how] /\ cleanups' = [cleanups EXCEPT ![u] = failed]
    BY <1>6 DEF End
  <2>2. user'[u] = "over" /\ outcome'[u] # "cancelled" /\ cleanups'[u] # None
        /\ UNCHANGED <<persona, sink>>
    BY <1>6, <2>1 DEF End, TypeOK, None
  <2>3. Named' /\ Told' /\ Failed'
    BY <1>1, <2>2 DEF FateInv, Named, Told, Failed
  <2> QED BY <1>2, <1>3, <2>3 DEF FateInv
<1>7. CASE EndCancelled(u)
  <2>1. phase = "cancelled" /\ user'[u] = "over" /\ outcome'[u] = "cancelled"
        /\ UNCHANGED <<persona, sink>>
    BY <1>7 DEF EndCancelled, TypeOK
  <2>2. Named' /\ Told' /\ Failed'
    BY <1>1, <2>1 DEF FateInv, Named, Told, Failed
  <2> QED BY <1>2, <1>3, <2>2 DEF FateInv
<1> QED BY <1>4, <1>5, <1>6, <1>7 DEF UserStep

\* Every step keeps FateInv.
LEMMA FateStep == TypeOK /\ FateInv /\ [Next]_vars => FateInv'
BY CommandFate, WorkerFate, UserFate DEF Next

-----------------------------------------------------------------------------
(* The exit code. *)

\* The sum of the failures that cleanup summaries report.
FailedSum(summaries) == FoldLeft(LAMBDA sum, s : sum + s.failed, 0, summaries)

\* It is a natural number, and 0 only if no summary reports a failure.
LEMMA FailedSumZero ==
  ASSUME NEW n \in Nat, NEW s, DOMAIN s = 1..n, \A k \in 1..n : s[k].failed \in Nat
  PROVE  FailedSum(s) \in Nat /\ (FailedSum(s) = 0 => \A k \in 1..n : s[k].failed = 0)
<1>1. PICK c \in [1..n -> Nat] : \A k \in 1..n : c[k] = s[k].failed
  <2> DEFINE c == [k \in 1..n |-> s[k].failed]
  <2>1. c \in [1..n -> Nat] /\ \A k \in 1..n : c[k] = s[k].failed
    OBVIOUS
  <2> HIDE DEF c
  <2> QED BY <2>1
<1> DEFINE Solves(f) == f = [x \in SUBSET (1..n) |->
                               IF x = {} THEN 0 ELSE f[x \ {Max(x)}] + s[Max(x)].failed]
<1>2. \A f : Solves(f) <=> Adds(f, n, c)
  <2>1. \A x \in SUBSET (1..n) : x # {} => c[Max(x)] = s[Max(x)].failed
    BY <1>1, PrefixSteps
  <2> SUFFICES ASSUME NEW f PROVE Solves(f) <=> Adds(f, n, c)
    OBVIOUS
  <2>2. [x \in SUBSET (1..n) |-> IF x = {} THEN 0 ELSE f[x \ {Max(x)}] + s[Max(x)].failed]
          = [x \in SUBSET (1..n) |-> IF x = {} THEN 0 ELSE f[x \ {Max(x)}] + c[Max(x)]]
    BY <2>1
  <2> QED BY <2>2 DEF Adds
<1>3. PICK f : Adds(f, n, c) /\ FailedSum(s) = f[1..n]
  <2>1. FailedSum(s) = (CHOOSE f : Solves(f))[1..n]
    BY DEF FailedSum, FoldLeft, MapThenFoldSet
  <2> HIDE DEF Solves
  <2>2. \E g : Adds(g, n, c)
    BY AddsExists
  <2>3. Solves(CHOOSE f : Solves(f))
    BY <1>2, <2>2
  <2>4. Adds((CHOOSE f : Solves(f)), n, c)
    BY <1>2, <2>3
  <2> QED BY <2>1, <2>4
<1>4. PICK t : PartialSum(t, n, c) /\ f[1..n] = t[n]
  BY <1>3, AddsStages
<1>5. FailedSum(s) = t[n] /\ t[n] \in Nat
  BY <1>3, <1>4 DEF PartialSum
<1>6. t[n] = 0 => \A k \in 1..n : c[k] = 0
  BY <1>4, ZeroSum
<1> QED BY <1>1, <1>5, <1>6

\* SetToSeq lists the elements of a finite set.
LEMMA SetToSeqLists ==
  ASSUME NEW S, IsFiniteSet(S)
  PROVE  /\ SetToSeq(S) \in [1..Cardinality(S) -> S] /\ Cardinality(S) \in Nat
         /\ \A x \in S : \E i \in 1..Cardinality(S) : SetToSeq(S)[i] = x
<1> DEFINE n == Cardinality(S)
           Lists(f) == f \in [1..n -> S] /\ IsInjective(f)
<1>1. n \in Nat /\ ExistsBijection(1..n, S)
  BY FS_CardinalityType
<1>2. PICK g : Lists(g)
  BY <1>1 DEF ExistsBijection, Bijection, Injection, IsInjective
<1>3. SetToSeq(S) = CHOOSE f \in [1..n -> S] : IsInjective(f)
  BY DEF SetToSeq
<1>4. SetToSeq(S) \in [1..n -> S] /\ IsInjective(SetToSeq(S))
  BY <1>2, <1>3
<1>5. PICK f : f = SetToSeq(S)
  OBVIOUS
<1>6. f \in Injection(1..n, S)
  BY <1>4, <1>5 DEF Injection, IsInjective
<1>7. f \in Surjection(1..n, S)
  <2> HIDE DEF n
  <2>1. IsFiniteSet(1..n) /\ Cardinality(1..n) = n
    BY <1>1, FS_Interval
  <2>2. n = Cardinality(S)
    BY DEF n
  <2> QED BY <1>6, <2>1, <2>2, FS_Injection
<1> QED BY <1>1, <1>4, <1>5, <1>7 DEF Surjection

\* A run whose merged cleanup summary reports no failure has no user that reports one.
LEMMA CleanupZero ==
  ASSUME TypeOK, Cleanup.failed = 0, NEW u \in User, u[1] \in Worker, cleanups[u] # None
  PROVE  cleanups[u] = 0
<1> DEFINE S(w) == {x \in Of(w) : cleanups[x] # None}
           T(w) == [i \in DOMAIN SetToSeq(S(w)) |->
                      [attempted |-> 1, failed |-> cleanups[SetToSeq(S(w))[i]]]]
           all == [i \in 1..workers |-> MergeCleanup(T(i - 1))]
<1>1. Cleanup.failed = FailedSum(all)
  BY DEF Cleanup, MergeCleanup, FailedSum
<1>2. \A i \in 1..workers : all[i].failed = FailedSum(T(i - 1))
  BY DEF MergeCleanup, FailedSum
<1>3. workers \in Nat /\ u[1] + 1 \in 1..workers /\ (u[1] + 1) - 1 = u[1]
  <2>1. MaxWorkers \in Nat /\ workers \in 1..MaxWorkers /\ u[1] \in 0..workers - 1
    BY SplitAssumption DEF TypeOK, Worker
  <2> QED BY <2>1
<1>4. \A w : IsFiniteSet(S(w)) /\ S(w) \subseteq User
  <2> SUFFICES ASSUME NEW w PROVE IsFiniteSet(S(w)) /\ S(w) \subseteq User
    OBVIOUS
  <2>1. S(w) \subseteq User
    BY DEF Of
  <2> HIDE DEF S
  <2> QED BY <2>1, UserFinite, FS_Subset
<1>5. \A w : \A x \in S(w) : cleanups[x] \in {0, 1}
  BY DEF Of, TypeOK
<1>6. u \in S(u[1])
  BY DEF Of
<1> HIDE DEF S
<1>7. ASSUME NEW w
      PROVE  FailedSum(T(w)) \in Nat /\ (FailedSum(T(w)) = 0 => \A x \in S(w) : cleanups[x] = 0)
  <2>1. PICK n, l : /\ n = Cardinality(S(w)) /\ l = SetToSeq(S(w))
                    /\ n \in Nat /\ l \in [1..n -> S(w)]
                    /\ \A x \in S(w) : \E i \in 1..n : l[i] = x
    BY <1>4, SetToSeqLists
  <2>2. PICK s : s = T(w)
    OBVIOUS
  <2>3. s = [i \in 1..n |-> [attempted |-> 1, failed |-> cleanups[l[i]]]]
    BY <2>1, <2>2
  <2>4. DOMAIN s = 1..n /\ \A k \in 1..n : s[k].failed = cleanups[l[k]] /\ s[k].failed \in Nat
    BY <1>5, <2>1, <2>3
  <2>5. FailedSum(s) \in Nat /\ (FailedSum(s) = 0 => \A k \in 1..n : s[k].failed = 0)
    BY <2>1, <2>4, FailedSumZero
  <2> HIDE DEF T
  <2> QED BY <2>1, <2>2, <2>4, <2>5
<1> HIDE DEF T
<1>8. \A i \in 1..workers : all[i].failed = 0
  <2>1. PICK s : s = all
    OBVIOUS
  <2>2. DOMAIN s = 1..workers /\ \A i \in 1..workers : s[i].failed \in Nat
    BY <1>2, <1>7, <2>1
  <2> HIDE DEF all
  <2>3. FailedSum(s) = 0 => \A i \in 1..workers : s[i].failed = 0
    BY <1>3, <2>2, FailedSumZero
  <2> QED BY <1>1, <2>1, <2>3
<1>9. FailedSum(T(u[1])) = 0
  <2> HIDE DEF all
  <2>1. all[u[1] + 1].failed = FailedSum(T((u[1] + 1) - 1))
    BY <1>2, <1>3
  <2> QED BY <1>3, <1>8, <2>1
<1> QED BY <1>6, <1>7, <1>9

\* The summary of a run counts all requests and no fewer failures than there were.
LEMMA SummaryIs ==
  ASSUME TypeOK, WholeInv, \A w \in Worker : at[w] = "returned"
  PROVE  LET broken == {e \in Recorded : e.kind.failed}
         IN /\ IsFiniteSet(broken) /\ Cardinality(broken) <= Summary.global.failures
            /\ Summary.global.failures \in Nat /\ Cardinality(broken) \in Nat
            /\ Summary.global.total = Cardinality(Recorded) /\ Cardinality(Recorded) \in Nat
            /\ Summary.global.total = 0 => broken = {}
<1> DEFINE n == Len(Events)
           kinds == [i \in DOMAIN Events |-> Events[i].kind]
           F == Failures(kinds, DOMAIN kinds)
           broken == {e \in Recorded : e.kind.failed}
<1>1. /\ Events \in Seq(Event) /\ n \in Nat /\ DOMAIN Events = 1..n
      /\ ToSet(Events) = Recorded /\ n = Cardinality(Recorded)
  <2>1. Events \in Seq(Event) /\ ToSet(Events) = Recorded /\ n = Cardinality(Recorded)
    BY WholeEvents
  <2> HIDE DEF Events
  <2> QED BY <2>1
<1>2. Summary.global = Group(kinds, DOMAIN kinds)
  BY DEF Summary, Summarize
<1>3. Summary.global.total = Cardinality(DOMAIN kinds) /\ Summary.global.failures = Cardinality(F)
  <2> HIDE DEF kinds
  <2> QED BY <1>2 DEF Group
<1>4. Cardinality(DOMAIN kinds) = n
  <2>1. DOMAIN kinds = 1..n
    BY <1>1
  <2> HIDE DEF kinds, n
  <2>2. Cardinality(1..1 + n - 1) = n
    BY <1>1, IntervalSize
  <2>3. 1..1 + n - 1 = 1..n
    BY <1>1
  <2> QED BY <2>1, <2>2, <2>3
<1>5. F = {i \in 1..n : Events[i].kind.failed}
  BY <1>1 DEF Failures
<1>6. IsFiniteSet(F) /\ Cardinality(F) \in Nat
  <2>1. F \subseteq 1..n
    BY <1>5
  <2> HIDE DEF F, n
  <2>2. IsFiniteSet(1..n)
    BY <1>1, FS_Interval
  <2>3. IsFiniteSet(F)
    BY <2>1, <2>2, FS_Subset
  <2> QED BY <2>3, FS_CardinalityType
<1>7. IsFiniteSet(broken) /\ Cardinality(broken) <= Cardinality(F)
  <2> DEFINE g == [i \in F |-> Events[i]]
  <2>1. \A i \in F : Events[i] \in broken
    BY <1>1, <1>5 DEF ToSet
  <2>2. \A e \in broken : \E i \in F : Events[i] = e
    BY <1>1, <1>5 DEF ToSet
  <2>3. g \in Surjection(F, broken)
    <3> HIDE DEF F, broken
    <3> QED BY <2>1, <2>2 DEF Surjection
  <2> HIDE DEF F, broken, g
  <2> QED BY <1>6, <2>3, FS_Surjection
<1>8. Cardinality(broken) \in Nat
  BY <1>7, FS_CardinalityType
<1>9. n = 0 => broken = {}
  <2>1. n = 0 => ToSet(Events) = {}
    BY <1>1 DEF ToSet
  <2> QED BY <1>1, <2>1
<1> HIDE DEF F, kinds, n
<1> QED BY <1>1, <1>3, <1>4, <1>6, <1>7, <1>8, <1>9

\* What exit code 0 says (the consequent of ZeroMeansGood).
Good ==
  /\ Live = {} /\ \A u \in User : persona[u] # Nobody => CleanedUp(u)
  /\ \A w \in Worker : \A u \in held[w] : outcome[u] = "ok"
  /\ LET broken == {e \in Recorded : e.kind.failed}
     IN Slo.global.rate # None =>
          100 * Cardinality(broken) <= Slo.global.rate * Cardinality(Recorded)
  /\ \A r \in Configured : files[r] = "new"

\* The gates let only good runs pass.
LEMMA GatesGood ==
  ASSUME TypeOK, LiveInv, WholeInv, FateInv, PersonaInv,
         phase = "report", Unwritten = {}, Cleanup.failed = 0, EvaluateSlos(Slo, Summary) = {}
  PROVE  Good
<1>1. \A w \in Worker : at[w] = "returned"
  BY DEF WholeInv, Late
<1>2. Live = {}
  BY DEF Live, LiveInv
<1>3. ASSUME NEW u \in User, persona[u] # Nobody PROVE CleanedUp(u)
  <2>1. user[u] = "over"
    BY <1>2, <1>3 DEF Live, FateInv, Named, TypeOK
  <2>2. outcome[u] # "cancelled"
    BY DEF FateInv, Failed
  <2>3. cleanups[u] # None \/ outcome[u] = "error"
    BY <1>3, <2>1, <2>2 DEF FateInv, Told
  <2>4. u[1] \in Worker
    <3>1. persona[u] \in Partition(Pool, workers, u[1])
      BY <1>3 DEF PersonaInv, Shares
    <3>2. persona[u] \in Nat /\ persona[u] % workers = u[1] /\ workers \in Nat \ {0}
      BY <3>1, SplitAssumption DEF Partition, TypeOK
    <3>3. persona[u] % workers \in 0..workers - 1
      BY <3>2, Division
    <3> QED BY <3>2, <3>3 DEF Worker
  <2> QED BY <2>3, <2>4, CleanupZero DEF CleanedUp
<1>4. \A w \in Worker : \A u \in held[w] : outcome[u] = "ok"
  BY <1>1, WorkerIndex DEF FateInv, DoneWell
<1>5. ASSUME Slo.global.rate # None
      PROVE  100 * Cardinality({e \in Recorded : e.kind.failed})
               <= Slo.global.rate * Cardinality(Recorded)
  <2> DEFINE broken == {e \in Recorded : e.kind.failed}
  <2>1. PICK b, total, failures, rate :
          /\ b = Cardinality(broken) /\ total = Cardinality(Recorded)
          /\ failures = Summary.global.failures /\ rate = Slo.global.rate
    OBVIOUS
  <2>2. /\ b \in Nat /\ total \in Nat /\ failures \in Nat /\ rate \in Nat
        /\ b <= failures /\ Summary.global.total = total /\ (total = 0 => b = 0)
    <3>1. total = 0 => broken = {}
      BY <1>1, <2>1, SummaryIs
    <3>2. /\ b \in Nat /\ total \in Nat /\ failures \in Nat
          /\ b <= failures /\ Summary.global.total = total
      BY <1>1, <2>1, SummaryIs
    <3>3. rate \in Nat
      BY <1>5, <2>1, SplitAssumption
    <3> HIDE DEF broken
    <3>4. total = 0 => b = 0
      BY <2>1, <3>1, FS_EmptySet
    <3> QED BY <3>2, <3>3, <3>4
  <2>3. ~(100 * Rate(Summary.global).num > rate * Rate(Summary.global).den)
    <3>1. Breaches("global", Slo.global, Summary.global) = {}
      BY DEF EvaluateSlos
    <3> DEFINE x == <<"global", "rate">>
    <3>2. x \notin Breaches("global", Slo.global, Summary.global)
      BY <3>1
    <3>3. x \in {<<"global", "p95">>, <<"global", "rate">>} /\ x[2] = "rate"
      OBVIOUS
    <3> HIDE DEF x
    <3> QED BY <1>5, <2>1, <3>2, <3>3 DEF Breaches
  <2>4. Rate(Summary.global).num = failures
        /\ Rate(Summary.global).den = IF total = 0 THEN 1 ELSE total
    BY <2>1, <2>2 DEF Rate
  <2>5. 100 * b <= rate * total
    <3>1. CASE total = 0
      BY <2>2, <3>1
    <3>2. CASE total # 0
      <4>1. 100 * failures <= rate * total
        <5>1. rate * total \in Nat
          BY <2>2
        <5> QED BY <2>2, <2>3, <2>4, <3>2, <5>1
      <4>2. rate * total \in Nat
        BY <2>2
      <4> QED BY <2>2, <4>1, <4>2
    <3> QED BY <3>1, <3>2
  <2> QED BY <2>1, <2>5
<1>6. \A r \in Configured : files[r] = "new"
  <2> SUFFICES ASSUME NEW r \in Configured PROVE files[r] = "new"
    OBVIOUS
  <2>1. PICK i \in DOMAIN Order : Order[i] = r
    BY SplitAssumption DEF Order, Reports
  <2>2. files[r] # "old" /\ r \in Reports
    BY <2>1, SplitAssumption DEF Unwritten
  <2> QED BY <2>2 DEF TypeOK
<1> QED BY <1>2, <1>3, <1>4, <1>5, <1>6 DEF Good

\* Nothing happens after the command.
LEMMA NothingAfter ==
  ASSUME TypeOK, LiveInv, exit # None, [Next]_vars
  PROVE  UNCHANGED vars
<1>1. phase = "over" /\ \A u \in User : user[u] \notin {"created", "running"}
  BY DEF LiveInv
<1>2. ~CommandStep /\ ~Gates
  BY <1>1 DEF CommandStep, Assemble, AssembleFails, RunReturns, RunRaises, RunFailed,
              WriteReport, WriteFails, Gates
<1>5. ~StopFileAppears
  BY <1>1 DEF StopFileAppears
<1>3. ~\E w \in Worker : WorkerStep(w)
  BY <1>1 DEF WorkerStep, Tick, LastTick, LeaveTicks, WorkerReturns, WorkerRaises
<1>4. ~\E u \in User : UserStep(u)
  BY <1>1 DEF UserStep, Acquire, Emit, End, EndCancelled
<1> QED BY <1>2, <1>3, <1>4, <1>5 DEF Next, Terminated

\* Exit code 0 is given where it is deserved, and nothing happens after it.
LEMMA ZeroStep ==
  ASSUME TypeOK, LiveInv, WholeInv, FateInv, PersonaInv, exit = 0 => Good, [Next]_vars
  PROVE  (exit = 0 => Good)'
<1>1. CASE exit # None
  <2>1. UNCHANGED vars
    BY <1>1, NothingAfter
  <2> QED BY <2>1 DEF vars, runner, people, Good, CleanedUp, Live, Worker, Recorded
<1>2. CASE exit = None
  <2> SUFFICES ASSUME exit' = 0 PROVE Good'
    OBVIOUS
  <2>1. Gates
    <3>1. ~UNCHANGED exit
      BY <1>2 DEF None
    <3>2. ~Terminated /\ ~UNCHANGED vars /\ ~StopFileAppears
      BY <3>1 DEF Terminated, StopFileAppears, vars
    <3>3. ~CommandStep
      BY <1>2, <3>1 DEF CommandStep, Assemble, AssembleFails, RunReturns, RunRaises, RunFailed,
                        WriteReport, WriteFails, Exits
    <3>4. \A w \in Worker : ~WorkerStep(w)
      BY <3>1 DEF WorkerStep, Tick, LastTick, LeaveTicks, WorkerReturns, WorkerRaises
    <3>5. \A u \in User : ~UserStep(u)
      BY <3>1 DEF UserStep, Acquire, Emit, End, EndCancelled
    <3> QED BY <3>2, <3>3, <3>4, <3>5 DEF Next
  <2>2. /\ phase = "report" /\ Unwritten = {}
        /\ Cleanup.failed = 0 /\ EvaluateSlos(Slo, Summary) = {}
        /\ UNCHANGED <<workers, runner, people, sink, blocks, files>>
    BY <2>1 DEF Gates, Exits
  <2>3. Good
    BY <2>2, GatesGood
  <2> QED BY <2>2, <2>3 DEF runner, people, Good, CleanedUp, Live, Worker, Recorded
<1> QED BY <1>1, <1>2

\* Exit code 0 says that every user has ended with all of its cleanup done, that no more
\* requests have failed than the SLO of the run allows, and that every report asked for is of
\* this run (run_command: the gates come after the reports and judge all workers).
THEOREM ZeroMeansGoodHolds == Spec => []ZeroMeansGood
<1>1. TypeOK /\ LiveInv /\ [Next]_vars => LiveInv'
  BY CommandLive, WorkerLive, UserLive DEF Next
<1>2. Init => (exit = 0 => Good)
  BY DEF Init, None
<1>3. TypeOK /\ LiveInv /\ WholeInv /\ FateInv /\ PersonaInv /\ (exit = 0 => Good) /\ [Next]_vars
        => (exit = 0 => Good)'
  BY ZeroStep
<1>4. (exit = 0 => Good) => ZeroMeansGood
  BY DEF Good, ZeroMeansGood
<1>5. Spec => []TypeOK
  BY TypeCorrect, PTL
<1> QED BY <1>1, <1>2, <1>3, <1>4, <1>5, InitLive, InitWhole, WholeStep, InitFate, FateStep,
           InitPersonas, PersonaStep, PTL DEF Spec
=============================================================================
