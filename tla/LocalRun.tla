------------------------------ MODULE LocalRun ------------------------------
(***************************************************************************)
(* One run of the local engine (LocalRunner in engine.py): the tick loop   *)
(* that starts users along a load profile, the asyncio task of every user  *)
(* (_run_user) with its allocator (data.py) and cleanup manager            *)
(* (cleanup.py), the gather at the end, and the cancellation by            *)
(* asyncio.run of whatever still runs when gather has raised.              *)
(*                                                                         *)
(* A user is named by its user_index.  Time is counted in ticks and whole  *)
(* seconds; the spawn budget, a float in the code, in 1/Unit of a user.    *)
(***************************************************************************)
EXTENDS Integers, Sequences, FiniteSets

CONSTANTS
  Profile,       \* "soak" (SpikeProfile emits the same points) or "ramp"
  Users,         \* run.users, the target of the profile
  Duration,      \* duration_seconds (hold_seconds of a spike)
  TickSeconds,   \* tick_seconds
  RateLimited,   \* spawn_rate is not None
  SpawnRate,     \* spawn_rate in 1/Unit users per second
  Unit,          \* resolution of the spawn budget
  PoolSize,      \* personas of the allocator, mode "unique"
  MaxResources,  \* bound: resources one user creates
  Flaky          \* users whose hooks, tasks and clients may raise

ASSUME LocalAssumption ==
  /\ Profile \in {"soak", "ramp"}
  /\ Users \in Nat /\ Duration \in Nat \ {0} /\ TickSeconds \in Nat
  /\ RateLimited \in BOOLEAN
  /\ SpawnRate \in Nat /\ Unit \in Nat \ {0}
  /\ PoolSize \in Nat
  /\ MaxResources \in Nat
  /\ Flaky \subseteq Nat

-----------------------------------------------------------------------------
(* The points of a profile: the target of every tick. *)

\* Iterations of "while elapsed < Duration".
SoakTicks == IF TickSeconds = 0 THEN 1 ELSE (Duration + TickSeconds - 1) \div TickSeconds
SoakPoints == [i \in 1..SoakTicks |-> Users]

\* Iterations of "while elapsed <= Duration".
RampTicks == IF TickSeconds = 0 THEN 1 ELSE Duration \div TickSeconds + 1
RampPoints == [i \in 1..RampTicks |-> (Users * ((i - 1) * TickSeconds)) \div Duration]

\* Both drop to 0 at the end.
Points == Append(IF Profile = "ramp" THEN RampPoints ELSE SoakPoints, 0)

\* Every tick but the last, whose target is 0, starts at most Users users.
User == 0..Users * (Len(Points) - 1) - 1

VARIABLES
  rpc,         \* where LocalRunner.run is; at "tick" it has not awaited yet
  tick,        \* the point of the profile that comes next
  started,     \* user_index
  budget,      \* spawn_budget
  tasks,       \* the tasks run() holds on to
  stopFile,    \* the stop file exists
  nextPersona, \* _next_index of the allocator
  pc,          \* where _run_user is
  persona,     \* the persona of a user, None without a user object
  stopped,     \* stop() was called
  raising,     \* what is on its way out of _run_user: "ok" if nothing is
  outcome,     \* how the task of a user ended
  cancel,      \* the task has been cancelled and not yet been told
  actions,     \* len(_actions) of the cleanup manager
  noted,       \* len(_failures) of the cleanup manager
  todo,        \* actions cleanup() has taken over and not attempted yet
  failed,      \* len(failures) in cleanup()
  reported,    \* "failed" of the summary of a user, once it is appended
  troubled     \* history: the users that met a cleanup problem

runner  == <<rpc, tick, started, budget, tasks>>
manager == <<actions, noted, todo, failed>>
vars == <<runner, stopFile, nextPersona, pc, persona, stopped, raising, outcome,
          cancel, manager, reported, troubled>>

-----------------------------------------------------------------------------

None == -1

Over == {"returned", "failed"}
Outcomes == {"ok", "error", "cancelled"}
UserAt == {"none", "created", "on_start", "loop", "run_once", "on_stop", "cleanup",
           "aclose_http", "aclose_db", "done"}

Live == {u \in User : pc[u] \notin {"none", "done"}}
Least(a, b) == IF a < b THEN a ELSE b
Greatest(a, b) == IF a > b THEN a ELSE b

Init ==
  /\ rpc = "tick" /\ tick = 1 /\ started = 0 /\ budget = 0 /\ tasks = {}
  /\ stopFile \in BOOLEAN
  /\ nextPersona = 0
  /\ pc = [u \in User |-> "none"]
  /\ persona = [u \in User |-> None]
  /\ stopped = [u \in User |-> FALSE]
  /\ raising = [u \in User |-> "ok"]
  /\ outcome = [u \in User |-> "none"]
  /\ cancel = [u \in User |-> FALSE]
  /\ actions = [u \in User |-> 0]
  /\ noted = [u \in User |-> 0]
  /\ todo = [u \in User |-> 0]
  /\ failed = [u \in User |-> 0]
  /\ reported = [u \in User |-> None]
  /\ troubled = {}

-----------------------------------------------------------------------------
(* LocalRunner.run. *)

Limited == RateLimited /\ TickSeconds > 0

\* Mutant: what was not used is saved without a limit.
Replenished_NoCap(saved) == saved + SpawnRate * TickSeconds

Replenished(saved) ==
  Least(saved + SpawnRate * TickSeconds, Greatest(SpawnRate, Unit))

\* Mutant: only the users that have begun are counted.
ActiveTasks_Begun == {u \in tasks : pc[u] \notin {"created", "done"}}

ActiveTasks == {u \in tasks : pc[u] # "done"}

Deficit(desired) == Greatest(desired - Cardinality(ActiveTasks), 0)

\* Mutant: the started users are not paid for.
Remaining_Unpaid(saved, count) == saved

Remaining(saved, count) == saved - count * Unit

\* The loop goes round: sleep, or straight to the next point.
Tick ==
  /\ rpc \in {"tick", "sleep"}
  /\ tick <= Len(Points)
  /\ ~stopFile
  /\ LET saved == IF Limited THEN Replenished(budget) ELSE budget
         deficit == Deficit(Points[tick])
         count == IF Limited THEN Least(deficit, saved \div Unit) ELSE deficit
         new == started .. started + count - 1
     IN /\ budget' = IF Limited THEN Remaining(saved, count) ELSE saved
        /\ started' = started + count
        /\ tasks' = ActiveTasks \cup new
        /\ pc' = [u \in User |-> IF u \in new THEN "created" ELSE pc[u]]
  /\ tick' = tick + 1
  /\ rpc' = IF TickSeconds = 0 THEN "tick" ELSE "sleep"
  /\ UNCHANGED <<stopFile, nextPersona, persona, stopped, raising, outcome, cancel,
                 manager, reported, troubled>>

\* The profile is over, or "break" because of the stop file.
LoopEnds ==
  /\ rpc \in {"tick", "sleep"}
  /\ tick > Len(Points) \/ stopFile
  /\ rpc' = "gather"
  /\ UNCHANGED <<tick, started, budget, tasks, stopFile, nextPersona, pc, persona,
                 stopped, raising, outcome, cancel, manager, reported, troubled>>

GatherReturns ==
  /\ rpc = "gather"
  /\ \A u \in tasks : outcome[u] = "ok"
  /\ rpc' = "returned"
  /\ UNCHANGED <<tick, started, budget, tasks, stopFile, nextPersona, pc, persona,
                 stopped, raising, outcome, cancel, manager, reported, troubled>>

\* The first exception of a task; the other tasks go on.
GatherRaises ==
  /\ rpc = "gather"
  /\ \E u \in tasks : outcome[u] = "error"
  /\ rpc' = "raised"
  /\ UNCHANGED <<tick, started, budget, tasks, stopFile, nextPersona, pc, persona,
                 stopped, raising, outcome, cancel, manager, reported, troubled>>

\* asyncio.run cancels all tasks and waits for them.
RunnerFails ==
  /\ rpc = "raised"
  /\ rpc' = "failed"
  /\ cancel' = [u \in User |-> u \in Live]
  /\ UNCHANGED <<tick, started, budget, tasks, stopFile, nextPersona, pc, persona,
                 stopped, raising, outcome, manager, reported, troubled>>

-----------------------------------------------------------------------------
(* LocalRunner._run_user, a task per user. *)

\* A task runs only while run() waits.
Runs(u, at) == rpc # "tick" /\ pc[u] = at /\ ~cancel[u]

Goes(u, to) == pc' = [pc EXCEPT ![u] = to]

\* Code of the user returns (TRUE) or raises (FALSE).
UserCode(u) == IF u \in Flaky THEN BOOLEAN ELSE {TRUE}

\* User code creates resources; each leaves an action with the cleanup manager or, when
\* the response has no identity, a failure (register_http_response).
Creates(u) ==
  \E registered, unidentified \in 0..MaxResources :
    /\ actions[u] + noted[u] + registered + unidentified <= MaxResources
    /\ actions' = [actions EXCEPT ![u] = @ + registered]
    /\ noted' = [noted EXCEPT ![u] = @ + unidentified]
    /\ troubled' = IF unidentified > 0 THEN troubled \cup {u} ELSE troubled

\* A call of user code: what it raises replaces what was on its way out.
Raised(u, returns) == IF returns THEN raising[u] ELSE "error"

\* The task is over, with the exception that is on its way out.
Ends(u, returns) ==
  /\ Goes(u, "done")
  /\ outcome' = [outcome EXCEPT ![u] = Raised(u, returns)]

PersonaLeft == nextPersona < PoolSize

\* acquire, the user and its clients, then on_start.  An exhausted pool ends the task at
\* once, and so does what the construction of the user or of a client raises, which no
\* "finally" surrounds: there is no user then to clean up for.
Begin(u) ==
  /\ Runs(u, "created")
  /\ IF PersonaLeft
     THEN /\ nextPersona' = nextPersona + 1
          /\ \/ /\ persona' = [persona EXCEPT ![u] = nextPersona]
                /\ Goes(u, "on_start")
                /\ UNCHANGED outcome
             \/ FALSE \in UserCode(u) /\ Ends(u, FALSE) /\ UNCHANGED persona
     ELSE /\ Ends(u, FALSE)
          /\ UNCHANGED <<persona, nextPersona>>
  /\ UNCHANGED <<runner, stopFile, stopped, raising, cancel, manager, reported, troubled>>

OnStart(u) ==
  /\ Runs(u, "on_start")
  /\ Creates(u)
  /\ \E returns \in UserCode(u) :
       /\ Goes(u, IF returns THEN "loop" ELSE "on_stop")
       /\ raising' = [raising EXCEPT ![u] = Raised(u, returns)]
  /\ UNCHANGED <<runner, stopFile, nextPersona, persona, stopped, outcome, cancel,
                 todo, failed, reported>>

\* Mutant: a user looks at its own flag only.
LoopGoesOn_NoStopFile(u) == ~stopped[u]

LoopGoesOn(u) == ~stopped[u] /\ ~stopFile

LoopHead(u) ==
  /\ Runs(u, "loop")
  /\ Goes(u, IF LoopGoesOn(u) THEN "run_once" ELSE "on_stop")
  /\ UNCHANGED <<runner, stopFile, nextPersona, persona, stopped, raising, outcome,
                 cancel, manager, reported, troubled>>

RunOnce(u) ==
  /\ Runs(u, "run_once")
  /\ Creates(u)
  /\ \E stops \in BOOLEAN : stopped' = [stopped EXCEPT ![u] = @ \/ stops]
  /\ \E returns \in UserCode(u) :
       /\ Goes(u, IF returns THEN "loop" ELSE "on_stop")
       /\ raising' = [raising EXCEPT ![u] = Raised(u, returns)]
  /\ UNCHANGED <<runner, stopFile, nextPersona, persona, outcome, cancel, todo, failed,
                 reported>>

\* Mutant: the failures of the manager are reset before they are taken over.
CleanupBegins_ResetFirst(u) ==
  /\ todo' = [todo EXCEPT ![u] = actions[u]]
  /\ failed' = [failed EXCEPT ![u] = 0]
  /\ actions' = [actions EXCEPT ![u] = 0]
  /\ noted' = [noted EXCEPT ![u] = 0]

\* cleanup() takes over the actions and the failures of the manager.
CleanupBegins(u) ==
  /\ todo' = [todo EXCEPT ![u] = actions[u]]
  /\ failed' = [failed EXCEPT ![u] = noted[u]]
  /\ actions' = [actions EXCEPT ![u] = 0]
  /\ noted' = [noted EXCEPT ![u] = 0]

\* Mutant: the first action that fails ends the loop of cleanup().
CleanupOver_AtFailure(left, returns) == left = 0 \/ ~returns

CleanupOver(left, returns) == left = 0

\* The loop of cleanup() goes on or, with no action left, its summary is appended and
\* the HTTP client closed next.
CleanupGoesOn(u, returns) ==
  IF CleanupOver(todo'[u], returns)
  THEN Goes(u, "aclose_http") /\ reported' = [reported EXCEPT ![u] = failed'[u]]
  ELSE Goes(u, "cleanup") /\ UNCHANGED reported

OnStop(u) ==
  /\ Runs(u, "on_stop")
  /\ \E returns \in UserCode(u) : raising' = [raising EXCEPT ![u] = Raised(u, returns)]
  /\ CleanupBegins(u)
  /\ CleanupGoesOn(u, TRUE)
  /\ UNCHANGED <<runner, stopFile, nextPersona, persona, stopped, outcome, cancel, troubled>>

\* One cleanup action; "except Exception" turns what it raises into a failure.
CleanupAction(u) ==
  /\ Runs(u, "cleanup")
  /\ \E returns \in UserCode(u) :
       /\ todo' = [todo EXCEPT ![u] = @ - 1]
       /\ failed' = [failed EXCEPT ![u] = IF returns THEN @ ELSE @ + 1]
       /\ troubled' = IF returns THEN troubled ELSE troubled \cup {u}
       /\ CleanupGoesOn(u, returns)
  /\ UNCHANGED <<runner, stopFile, nextPersona, persona, stopped, raising, outcome,
                 cancel, actions, noted>>

\* If the HTTP client raises on closing, the database client is never closed.
CloseHttp(u) ==
  /\ Runs(u, "aclose_http")
  /\ \E returns \in UserCode(u) :
       IF returns THEN Goes(u, "aclose_db") /\ UNCHANGED outcome
                  ELSE Ends(u, FALSE)
  /\ UNCHANGED <<runner, stopFile, nextPersona, persona, stopped, raising, cancel,
                 manager, reported, troubled>>

CloseDb(u) ==
  /\ Runs(u, "aclose_db")
  /\ \E returns \in UserCode(u) : Ends(u, returns)
  /\ UNCHANGED <<runner, stopFile, nextPersona, persona, stopped, raising, cancel,
                 manager, reported, troubled>>

-----------------------------------------------------------------------------
(* A cancelled task: CancelledError is raised where it waits.  It is no Exception, so
   cleanup() does not catch it. *)

CancelledAt(u, at) ==
  /\ cancel[u]
  /\ pc[u] \in at
  /\ cancel' = [cancel EXCEPT ![u] = FALSE]
  /\ raising' = [raising EXCEPT ![u] = "cancelled"]

\* A task that has not begun never does; one that closes its clients gives up.
CancelEnds(u) ==
  /\ CancelledAt(u, {"created", "aclose_http", "aclose_db"})
  /\ Goes(u, "done")
  /\ outcome' = [outcome EXCEPT ![u] = "cancelled"]
  /\ UNCHANGED <<runner, stopFile, nextPersona, persona, stopped, manager, reported, troubled>>

CancelUserCode(u) ==
  /\ CancelledAt(u, {"on_start", "loop", "run_once"})
  /\ Goes(u, "on_stop")
  /\ UNCHANGED <<runner, stopFile, nextPersona, persona, stopped, outcome, manager, reported, troubled>>

CancelOnStop(u) ==
  /\ CancelledAt(u, {"on_stop"})
  /\ CleanupBegins(u)
  /\ CleanupGoesOn(u, TRUE)
  /\ UNCHANGED <<runner, stopFile, nextPersona, persona, stopped, outcome, troubled>>

\* The actions taken over are lost, no summary is appended; the clients are closed.
CancelCleanup(u) ==
  /\ CancelledAt(u, {"cleanup"})
  /\ Goes(u, "aclose_http")
  /\ UNCHANGED <<runner, stopFile, nextPersona, persona, stopped, outcome, manager, reported, troubled>>

\* Somebody creates the stop file.
StopFileAppears ==
  /\ rpc # "tick"
  /\ ~stopFile
  /\ stopFile' = TRUE
  /\ UNCHANGED <<runner, nextPersona, pc, persona, stopped, raising, outcome, cancel,
                 manager, reported, troubled>>

-----------------------------------------------------------------------------

RunnerStep == Tick \/ LoopEnds \/ GatherReturns \/ GatherRaises \/ RunnerFails

UserStep(u) ==
  \/ Begin(u) \/ OnStart(u) \/ LoopHead(u) \/ RunOnce(u) \/ OnStop(u)
  \/ CleanupAction(u) \/ CloseHttp(u) \/ CloseDb(u)
  \/ CancelEnds(u) \/ CancelUserCode(u) \/ CancelOnStop(u) \/ CancelCleanup(u)

Terminated ==
  /\ rpc \in Over
  /\ Live = {}
  /\ UNCHANGED vars

Next ==
  \/ RunnerStep
  \/ \E u \in User : UserStep(u)
  \/ StopFileAppears
  \/ Terminated

Spec == Init /\ [][Next]_vars

\* The event loop runs every task that can run, and every hook, task method and client
\* call of a user returns or raises.  That a user ever stops is not assumed.
Fairness == WF_vars(RunnerStep) /\ \A u \in User : WF_vars(UserStep(u))

FairSpec == Spec /\ Fairness

-----------------------------------------------------------------------------
(* Properties. *)

\* Every variable has its type.
TypeOK ==
  /\ rpc \in {"tick", "sleep", "gather", "raised"} \cup Over
  /\ tick \in 1..Len(Points) + 1
  /\ started \in Nat
  /\ budget \in Nat
  /\ tasks \subseteq User
  /\ stopFile \in BOOLEAN
  /\ nextPersona \in 0..PoolSize
  /\ pc \in [User -> UserAt]
  /\ persona \in [User -> 0..PoolSize - 1 \cup {None}]
  /\ stopped \in [User -> BOOLEAN]
  /\ raising \in [User -> Outcomes]
  /\ outcome \in [User -> Outcomes \cup {"none"}]
  /\ cancel \in [User -> BOOLEAN]
  /\ actions \in [User -> Nat]
  /\ noted \in [User -> Nat]
  /\ todo \in [User -> Nat]
  /\ failed \in [User -> Nat]
  /\ reported \in [User -> Nat \cup {None}]
  /\ troubled \subseteq User

\* However users finish, fail and are replaced, at most run.users of them are alive:
\* the tick loop counts every task it has created and that is not done.
ConcurrencyBound == Cardinality(Live) <= Users

\* Over any number of ticks no more users are started than the spawn rate allows for
\* the time that has passed: the budget neither leaks nor is spent twice.
StartsPaid ==
  Limited => started * Unit + budget <= SpawnRate * TickSeconds * (tick - 1)

\* Idle ticks do not save up for a burst: one tick starts at most what the rate gives
\* in a second, and always may start one.
NoBurst ==
  [][Limited => (started' - started) * Unit <= Greatest(SpawnRate, Unit)]_vars

\* As long as nothing is cancelled, a user that is done has attempted every cleanup
\* action it registered, and its summary is in, whichever of on_start, its tasks,
\* on_stop, the actions themselves and the clients raised.
CleanupSurvivesFailure ==
  rpc # "failed" =>
    \A u \in User : pc[u] = "done" /\ persona[u] # None =>
      todo[u] = 0 /\ reported[u] # None

\* merge_cleanup_summaries(...).passed of the run.
CleanupPassed == \A u \in User : reported[u] <= 0

\* When the run returns, nobody is left: every user that was ever started is done, none
\* has cleanup actions left, and a cleanup problem any of them met, also one noted long
\* before its cleanup, makes the cleanup of the run fail.
NothingLeftBehind ==
  rpc = "returned" =>
    /\ \A u \in 0..started - 1 : pc[u] = "done" /\ actions[u] + todo[u] = 0
    /\ troubled # {} => ~CleanupPassed

\* The emergency stop: once the stop file exists the run ends, even if no user ever
\* stops by itself; and a run that has failed, like one that was stopped, still tears down
\* every user.
StopFileEndsRun == (stopFile \/ rpc = "failed") ~> (rpc \in Over /\ Live = {})

=============================================================================
