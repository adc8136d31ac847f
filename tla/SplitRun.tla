------------------------------ MODULE SplitRun ------------------------------
(***************************************************************************)
(* The command "veriload run" (cli_commands/core.py) from the loading of   *)
(* the config to its exit code: the assembly (runtime.py), the workers in  *)
(* one process, each a LocalRunner with its own share of the personas and  *)
(* of the users and its own sink (distributed.py, engine.py), the merging  *)
(* of their events and cleanup summaries, the reports (reporting.py,       *)
(* replay.py), the cleanup gate and the SLO gate.                          *)
(*                                                                         *)
(* A user is <<worker, user_index>>.  The life of a user, which LocalRun   *)
(* has in detail, is reduced to what it gives to the rest: the persona it  *)
(* takes, its events, how it ends and how many of its cleanup actions      *)
(* failed.                                                                 *)
(***************************************************************************)
EXTENDS RunMetrics, PlanMath

CONSTANTS
  MaxWorkers,   \* bound: workers (--workers)
  Users,        \* run.users
  Pool,         \* data.pool_size
  Ticks,        \* ticks of the profile before its last one, whose target is 0
  MaxEvents,    \* bound: events of all users together
  MaxTroubled,  \* bound: users that raise or whose cleanup fails
  Slo,          \* the slo section
  Configured    \* the reports that are asked for

Reports == {"json", "junit", "trace", "replay"}

ASSUME SplitAssumption ==
  /\ {MaxWorkers, Users, Pool, Ticks} \subseteq Nat \ {0}
  /\ {MaxEvents, MaxTroubled} \subseteq Nat
  /\ Configured \subseteq Reports
  /\ Slo.global.rate \in Nat \cup {None}

\* What a request may come to.
Kinds == {[name |-> "a", failed |-> FALSE, ms |-> 1], [name |-> "b", failed |-> TRUE, ms |-> 5]}

\* No worker starts more users than its target at every tick.
User == (0..MaxWorkers - 1) \X (0..Users * Ticks - 1)
Nobody == -1

\* A metric event: whose it is, its number in its sink, and what the request came to.
Event == [user : User, n : Nat, kind : Kinds]

VARIABLES
  phase,     \* where run_command is
  workers,   \* --workers
  stop,      \* the stop file exists
  at,        \* where the LocalRunner of a worker is
  tick,      \* the point of its profile that comes next
  started,   \* its user_index
  held,      \* the tasks its run() holds on to
  user,      \* where a user is
  outcome,   \* how it ended
  persona,   \* its persona
  sink,      \* the events of a worker's sink: <<user, number>> and what it came to
  cleanups,  \* "failed" of the cleanup summary of a user, None without one
  blocks,    \* what the sink of the run holds, one block of events per merge
  files,     \* the report files: "old" is from before this run
  exit       \* exit code

runner == <<at, tick, started, held>>
people == <<user, outcome, persona, cleanups>>
vars == <<phase, workers, stop, runner, people, sink, blocks, files, exit>>

Worker == 0..workers - 1
Live == {u \in User : user[u] \in {"created", "running"}}
Of(w) == {u \in User : u[1] = w}

Init ==
  /\ phase = "load" /\ exit = None
  /\ workers \in 1..MaxWorkers /\ stop = FALSE
  /\ at = [w \in 0..MaxWorkers - 1 |-> "none"]
  /\ tick = [w \in 0..MaxWorkers - 1 |-> 1]
  /\ started = [w \in 0..MaxWorkers - 1 |-> 0]
  /\ held = [w \in 0..MaxWorkers - 1 |-> {}]
  /\ user = [u \in User |-> "none"]
  /\ outcome = [u \in User |-> "none"]
  /\ persona = [u \in User |-> Nobody]
  /\ cleanups = [u \in User |-> None]
  /\ sink = [w \in 0..MaxWorkers - 1 |-> {}]
  /\ blocks = <<>>
  /\ files = [r \in Reports |-> "old"]

-----------------------------------------------------------------------------
(* run_command and execute_config. *)

Exits(code) == phase' = "over" /\ exit' = code

\* Config, scenario and pool are loaded and checked, then the workers are created.
Assemble ==
  /\ phase = "load"
  /\ phase' = "run" /\ at' = [w \in DOMAIN at |-> IF w \in Worker THEN "tick" ELSE "none"]
  /\ UNCHANGED <<exit, workers, stop, tick, started, held, people, sink, blocks, files>>

\* One of the checks fails, or anything raises on the way.
AssembleFails ==
  /\ phase = "load"
  /\ Exits(1)
  /\ UNCHANGED <<workers, stop, runner, people, sink, blocks, files>>

\* All workers have returned; gather of DistributedRunner.run returns.
RunReturns ==
  /\ phase = "run" /\ \A w \in Worker : at[w] = "returned"
  /\ phase' = "report"
  /\ UNCHANGED <<exit, workers, stop, runner, people, sink, blocks, files>>

\* Mutant: the command does not wait for the users it has cancelled.
RunRaises_AtOnce ==
  /\ phase = "run" /\ \E w \in Worker : at[w] = "raised"
  /\ Exits(1)
  /\ UNCHANGED <<workers, stop, runner, people, sink, blocks, files>>

\* Mutant: the failure is seen once all workers are back.
RunRaises_Waits ==
  /\ phase = "run" /\ \A w \in Worker : at[w] = "raised"
  /\ phase' = "cancelled"
  /\ UNCHANGED <<exit, workers, stop, runner, people, sink, blocks, files>>

\* A worker has raised: gather raises, asyncio.run cancels the other workers and the users.
RunRaises ==
  /\ phase = "run" /\ \E w \in Worker : at[w] = "raised"
  /\ phase' = "cancelled"
  /\ at' = [w \in DOMAIN at |-> IF at[w] \in {"tick", "gather"} THEN "cancelled" ELSE at[w]]
  /\ UNCHANGED <<exit, workers, stop, tick, started, held, people, sink, blocks, files>>

\* All cancelled tasks are over; asyncio.run raises what gather has raised.
RunFailed ==
  /\ phase = "cancelled" /\ Live = {}
  /\ Exits(1)
  /\ UNCHANGED <<workers, stop, runner, people, sink, blocks, files>>

-----------------------------------------------------------------------------
(* LocalRunner.run of a worker, and DistributedRunner._run_worker. *)

Target(w) == TargetFor(Users, workers, w)

Done(w) == {u \in held[w] : user[u] = "over"}

\* A tick forgets the tasks that are done and starts users for those that are missing, as
\* many as its spawn budget allows.
Tick(w) ==
  /\ phase = "run" /\ at[w] = "tick" /\ ~stop /\ tick[w] <= Ticks
  /\ LET missing == Target(w) - Cardinality(held[w] \ Done(w))
     IN \E n \in 0..missing :
          LET new == {<<w, i>> : i \in started[w]..started[w] + n - 1}
          IN /\ held' = [held EXCEPT ![w] = (@ \ Done(w)) \cup new]
             /\ user' = [u \in User |-> IF u \in new THEN "created" ELSE user[u]]
             /\ started' = [started EXCEPT ![w] = @ + n]
  /\ tick' = [tick EXCEPT ![w] = @ + 1]
  /\ UNCHANGED <<phase, exit, workers, stop, at, outcome, persona, cleanups, sink, blocks, files>>

\* The last tick, which starts nobody.
LastTick(w) ==
  /\ phase = "run" /\ at[w] = "tick" /\ ~stop /\ tick[w] = Ticks + 1
  /\ held' = [held EXCEPT ![w] = @ \ Done(w)]
  /\ at' = [at EXCEPT ![w] = "gather"]
  /\ UNCHANGED <<phase, exit, workers, stop, tick, started, people, sink, blocks, files>>

\* Somebody writes the stop file.
StopFileAppears ==
  /\ phase = "run" /\ ~stop
  /\ stop' = TRUE
  /\ UNCHANGED <<phase, exit, workers, runner, people, sink, blocks, files>>

\* The stop file is found at a tick: the loop is left with the tasks as they are.
LeaveTicks(w) ==
  /\ phase = "run" /\ at[w] = "tick" /\ stop
  /\ at' = [at EXCEPT ![w] = "gather"]
  /\ UNCHANGED <<phase, exit, workers, stop, tick, started, held, people, sink, blocks, files>>

\* Mutant: a worker that is awaited by nobody yet is passed over.
WorkerReturns_Early(w) ==
  /\ phase = "run" /\ at[w] = "gather"
  /\ \A u \in held[w] : user[u] = "over" => outcome[u] = "ok"
  /\ at' = [at EXCEPT ![w] = "returned"]
  /\ blocks' = Append(blocks, sink[w])
  /\ UNCHANGED <<phase, exit, workers, stop, tick, started, held, people, sink, files>>

\* Every task of the worker has ended well; its events are recorded once more, in the sink
\* of the run.
WorkerReturns(w) ==
  /\ phase = "run" /\ at[w] = "gather"
  /\ \A u \in held[w] : user[u] = "over" /\ outcome[u] = "ok"
  /\ at' = [at EXCEPT ![w] = "returned"]
  /\ blocks' = Append(blocks, sink[w])
  /\ UNCHANGED <<phase, exit, workers, stop, tick, started, held, people, sink, files>>

\* gather raises as soon as one of its tasks has failed.
WorkerRaises(w) ==
  /\ phase = "run" /\ at[w] = "gather"
  /\ \E u \in held[w] : user[u] = "over" /\ outcome[u] # "ok"
  /\ at' = [at EXCEPT ![w] = "raised"]
  /\ UNCHANGED <<phase, exit, workers, stop, tick, started, held, people, sink, blocks, files>>

-----------------------------------------------------------------------------
(* The users. *)

Taken(w) == {persona[u] : u \in Of(w)} \ {Nobody}

\* Mutant: the allocator of a worker has the whole pool.
Free_WholePool(w) == (0..Pool - 1) \ Taken(w)

\* The personas of the worker's partition nobody has acquired.
Free(w) == Partition(Pool, workers, w) \ Taken(w)

Troubled == {u \in User : outcome[u] = "error" \/ cleanups[u] = 1}

\* A user begins its work, unless the construction of the user or of its clients raises,
\* which no "finally" surrounds.
SetUp(u) ==
  \/ user' = [user EXCEPT ![u] = "running"] /\ UNCHANGED outcome
  \/ /\ Cardinality(Troubled) < MaxTroubled
     /\ user' = [user EXCEPT ![u] = "over"]
     /\ outcome' = [outcome EXCEPT ![u] = "error"]

\* acquire, in the mode "unique", gives the first one or raises PoolExhausted.
Acquire(u) ==
  /\ user[u] = "created" /\ phase = "run"
  /\ IF Free(u[1]) = {}
     THEN /\ user' = [user EXCEPT ![u] = "over"]
          /\ outcome' = [outcome EXCEPT ![u] = "error"]
          /\ UNCHANGED persona
     ELSE /\ \E p \in Free(u[1]) :
               /\ \A q \in Free(u[1]) : p <= q
               /\ persona' = [persona EXCEPT ![u] = p]
          /\ SetUp(u)
  /\ UNCHANGED <<phase, exit, workers, stop, runner, cleanups, sink, blocks, files>>

Recorded == UNION {sink[w] : w \in DOMAIN sink}

\* A request of a user, in its tasks or its teardown, is over.
Emit(u) ==
  /\ user[u] = "running"
  /\ Cardinality(Recorded) < MaxEvents
  /\ \E k \in Kinds :
       sink' = [sink EXCEPT ![u[1]] =
                  @ \cup {[user |-> u, n |-> Cardinality({e \in @ : e.user = u}), kind |-> k]}]
  /\ UNCHANGED <<phase, exit, workers, stop, runner, people, blocks, files>>

\* Its tasks, its teardown and its cleanup are over.
End(u) ==
  /\ user[u] = "running"
  /\ user' = [user EXCEPT ![u] = "over"]
  /\ \E how \in {"ok", "error"}, failed \in 0..1 :
       /\ (how = "ok" /\ failed = 0) \/ Cardinality(Troubled) < MaxTroubled
       /\ outcome' = [outcome EXCEPT ![u] = how]
       /\ cleanups' = [cleanups EXCEPT ![u] = failed]
  /\ UNCHANGED <<phase, exit, workers, stop, runner, persona, sink, blocks, files>>

\* A cancelled user ends, without any cleanup summary if it was in its cleanup; one that
\* had not begun does nothing.
EndCancelled(u) ==
  /\ phase = "cancelled" /\ u \in Live
  /\ user' = [user EXCEPT ![u] = "over"]
  /\ outcome' = [outcome EXCEPT ![u] = "cancelled"]
  /\ UNCHANGED <<phase, exit, workers, stop, runner, persona, cleanups, sink, blocks, files>>

-----------------------------------------------------------------------------
(* The reports and the gates. *)

\* The events of the run as the sink lists them.
Events ==
  FoldLeft(LAMBDA all, block : FoldSet(LAMBDA e, list : Append(list, e), all, block), <<>>, blocks)
Summary == LET events == Events IN Summarize([i \in DOMAIN events |-> events[i].kind])

\* The cleanup summaries of a worker's users, merged per worker and once more.
Cleanup ==
  LET Told(w) == LET told == SetToSeq({u \in Of(w) : cleanups[u] # None})
                 IN [i \in DOMAIN told |-> [attempted |-> 1, failed |-> cleanups[told[i]]]]
  IN MergeCleanup([i \in 1..workers |-> MergeCleanup(Told(i - 1))])

Order == <<"json", "junit", "trace", "replay">>
Unwritten == {i \in DOMAIN Order : Order[i] \in Configured /\ files[Order[i]] = "old"}

\* The next configured report is written.
WriteReport ==
  /\ phase = "report"
  /\ \E i \in Unwritten :
       /\ \A j \in Unwritten : i <= j
       /\ files' = [files EXCEPT ![Order[i]] = "new"]
  /\ UNCHANGED <<phase, exit, workers, stop, runner, people, sink, blocks>>

\* It cannot be written: nobody catches the OSError.
WriteFails ==
  /\ phase = "report" /\ Unwritten # {}
  /\ Exits(1)
  /\ UNCHANGED <<workers, stop, runner, people, sink, blocks, files>>

\* Mutant: the cleanup gate is passed over.
Gates_SloOnly ==
  /\ phase = "report" /\ Unwritten = {}
  /\ Exits(IF EvaluateSlos(Slo, Summary) = {} THEN 0 ELSE 1)
  /\ UNCHANGED <<workers, stop, runner, people, sink, blocks, files>>

\* The gates, after the reports: first the cleanup, then the SLOs.
Gates ==
  /\ phase = "report" /\ Unwritten = {}
  /\ Exits(IF Cleanup.failed = 0 /\ EvaluateSlos(Slo, Summary) = {} THEN 0 ELSE 1)
  /\ UNCHANGED <<workers, stop, runner, people, sink, blocks, files>>

-----------------------------------------------------------------------------

CommandStep ==
  \/ Assemble \/ AssembleFails
  \/ RunReturns \/ RunRaises \/ RunFailed
  \/ WriteReport \/ WriteFails

WorkerStep(w) ==
  Tick(w) \/ LastTick(w) \/ LeaveTicks(w) \/ WorkerReturns(w) \/ WorkerRaises(w)

UserStep(u) == Acquire(u) \/ Emit(u) \/ End(u) \/ EndCancelled(u)

Terminated == phase = "over" /\ UNCHANGED vars

Next ==
  \/ CommandStep
  \/ Gates
  \/ StopFileAppears
  \/ \E w \in Worker : WorkerStep(w)
  \/ \E u \in User : UserStep(u)
  \/ Terminated

Spec == Init /\ [][Next]_vars

\* The event loop resumes one of the tasks that can go on: fairness of each kind of task as
\* a whole is enough.  A user begins, and ends once it is cancelled or finds the stop file;
\* nothing makes it end before.  The gates are Gates, whatever the exit code.
FairSpec ==
  /\ Spec
  /\ WF_vars(CommandStep)
  /\ WF_phase(phase = "report" /\ Unwritten = {} /\ phase' = "over")
  /\ WF_vars(\E w \in Worker : WorkerStep(w))
  /\ WF_vars(\E u \in User : Acquire(u) \/ EndCancelled(u) \/ (stop /\ End(u)))

-----------------------------------------------------------------------------
(* Properties. *)

\* Every variable has its type.
TypeOK ==
  /\ phase \in {"load", "run", "cancelled", "report", "over"}
  /\ workers \in 1..MaxWorkers /\ stop \in BOOLEAN /\ exit \in {None, 0, 1}
  /\ at \in [0..MaxWorkers - 1 ->
               {"none", "tick", "gather", "returned", "raised", "cancelled"}]
  /\ tick \in [0..MaxWorkers - 1 -> 1..Ticks + 1]
  /\ started \in [0..MaxWorkers - 1 -> 0..Users * Ticks]
  /\ held \in [0..MaxWorkers - 1 -> SUBSET User]
  /\ user \in [User -> {"none", "created", "running", "over"}]
  /\ outcome \in [User -> {"none", "ok", "error", "cancelled"}]
  /\ persona \in [User -> 0..Pool - 1 \cup {Nobody}]
  /\ cleanups \in [User -> {None, 0, 1}]
  /\ sink \in [0..MaxWorkers - 1 -> SUBSET Event]
  /\ \A w \in 0..MaxWorkers - 1 : IsFiniteSet(sink[w])
  /\ blocks \in Seq(SUBSET Event)
  /\ files \in [Reports -> {"old", "new"}]

\* No two users of a run, of whichever workers, ever have the same persona: "workers
\* execute isolated persona shards".
DisjointPersonas ==
  \A u, v \in User : u # v /\ persona[u] # Nobody => persona[u] # persona[v]

\* Only a run whose workers have all returned is reported, and it reports every event of
\* its workers, each of them once.
AggregateIsWhole ==
  phase = "report" \/ (\E r \in Reports : files[r] = "new") =>
    LET events == Events
    IN /\ \A w \in Worker : at[w] = "returned"
       /\ ToSet(events) = Recorded /\ Len(events) = Cardinality(Recorded)

\* Its cleanup is complete: nothing has failed, or it failed before there was any.
CleanedUp(u) == cleanups[u] = 0 \/ (cleanups[u] = None /\ outcome[u] = "error")

\* Exit code 0 says that every user has ended with all of its cleanup done, that the events
\* of all users are within the SLOs, and that every report asked for is of this run.
ZeroMeansGood ==
  exit = 0 =>
    /\ Live = {} /\ \A u \in User : persona[u] # Nobody => CleanedUp(u)
    /\ \A w \in Worker : \A u \in held[w] : outcome[u] = "ok"
    /\ LET broken == {e \in Recorded : e.kind.failed}
       IN Slo.global.rate # None =>
            100 * Cardinality(broken) <= Slo.global.rate * Cardinality(Recorded)
    /\ \A r \in Configured : files[r] = "new"

\* All workers together never have more users at work than run.users, and a command that is
\* over, however it ended, has none.
NobodyLeft ==
  Cardinality(Live) <= Users /\ (exit # None => Live = {})

\* A worker whose profile has drained awaits a user that goes on: neither has it stopped,
\* nor is there a stop file.
AwaitsUser ==
  /\ phase = "run" /\ ~stop
  /\ \E w \in Worker : at[w] = "gather" /\ \E u \in held[w] : user[u] = "running"

\* The command ends, but for users that never stop: "tasks until the user stops or the
\* profile drains" does not hold of the draining, since the loop of a user
\* (LocalRunner._run_user) asks for its own flag and the stop file only.
CommandEnds == <>(exit # None) \/ <>[]AwaitsUser

=============================================================================
