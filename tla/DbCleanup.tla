------------------------------ MODULE DbCleanup ------------------------------
(***************************************************************************)
(* The database client of one user (protocols/database.py): calls of the   *)
(* user's tasks on the event loop, their statements on the single thread   *)
(* of the executor, the connection with its transaction, the raw insert    *)
(* tracking, the SQL model workloads (model_workloads.py) and the cleanup  *)
(* of both, by DELETE or by rollback, up to the closing of the client.     *)
(*                                                                         *)
(* A call inserts at most one row, named by the call.  The database keeps  *)
(* no more of a row than whether it is there and which rows have the same  *)
(* values.  Calls are made in the order of their numbers.                  *)
(***************************************************************************)
EXTENDS Integers, Sequences, FiniteSets

CONSTANTS
  Strategies, \* what cleanup.database.strategy may be: "delete", "rollback"
  Calls,      \* 1..n, bound: the calls of the user's tasks
  Kinds,      \* what the calls may be, a subset of CallKinds
  Overlap,    \* strategies under which a call may start while another is in flight
  Flaky,      \* statements may fail
  MayCancel,  \* strategies under which the task of the user may be cancelled
  Twins       \* the calls whose row has the values of the row that was there before

\* insert: a raw INSERT into a configured table; statement: any other statement;
\* query: DatabaseClient.query; workload: insert() of a SQLModelWorkload whose table is
\* not configured; workload_tracked: one whose table is.
CallKinds == {"insert", "statement", "query", "workload", "workload_tracked"}

ASSUME DbAssumption ==
  /\ Strategies \subseteq {"delete", "rollback"} /\ Overlap \subseteq Strategies
  /\ Calls \subseteq Nat \ {0} /\ IsFiniteSet(Calls)
  /\ Kinds \subseteq CallKinds
  /\ Flaky \in BOOLEAN /\ MayCancel \subseteq Strategies
  /\ Twins \subseteq Calls

User == 0     \* the coroutine that runs the teardown of the user
Nobody == -1  \* whoever awaited the statement has been cancelled
Old == 0      \* the row that was in the table before the run

Rows == Calls \cup {Old}
Same(r, s) == r = s \/ {r, s} \subseteq Twins \cup {Old}

Tracked(k) == k \in {"insert", "workload_tracked"}
Workload(k) == k \in {"workload", "workload_tracked"}
Inserts(k) == Tracked(k) \/ Workload(k)

\* A cleanup action: a DELETE by primary key or by all values, or a rollback.
Cleanups == {"delete_row", "delete_values", "rollback"}

CleanupActions == [what : Cleanups, row : Rows]
Action(what, row) == [what |-> what, row |-> row]

\* A statement for the executor, and the coroutine that awaits it.
Ops == {"insert", "statement", "query", "close"} \cup Cleanups
Jobs == [by : Calls \cup {User, Nobody}, op : Ops, row : Rows, commit : BOOLEAN]
Job(by, op, row, commit) == [by |-> by, op |-> op, row |-> row, commit |-> commit]

VARIABLES
  strategy,    \* cleanup.database.strategy
  phase,       \* where the task of the user is: its tasks or its teardown
  at,          \* where a call is
  kind,        \* what a call is
  jobs,        \* work queue of the executor
  reply,       \* result of the statement a coroutine awaits
  found,       \* the rows the look-up of a workload has selected
  committed,   \* rows every connection sees
  tx,          \* rows inserted and not committed
  open,        \* the connection is open
  actions,     \* _actions of the cleanup manager
  todo,        \* actions cleanup() has not attempted yet
  registered,  \* _rollback_cleanup_registered
  pending,     \* _rollback_cleanup_pending
  closed,      \* _closed
  failures,    \* some cleanup action failed
  cancelled,   \* history: the task of the user was cancelled
  abandoned,   \* history: its teardown began with calls in flight
  raced        \* history: the tracked inserts in flight when a statement that commits was called

db == <<committed, tx, open>>
executor == <<jobs, reply>>
client == <<registered, pending, closed>>
history == <<cancelled, abandoned, raced>>
moving == <<phase, at, kind, executor, found, db, actions, todo, client, failures, history>>
vars == <<strategy, moving>>

InFlight == {c \in Calls : at[c] \in {"execute", "lookup"}}

Init ==
  /\ strategy \in Strategies
  /\ phase = "tasks"
  /\ at = [c \in Calls |-> "none"]
  /\ kind = [c \in Calls |-> "none"]
  /\ jobs = <<>>
  /\ reply = [w \in Calls \cup {User} |-> "none"]
  /\ found = [c \in Calls |-> {}]
  /\ committed = {Old} /\ tx = {} /\ open = FALSE
  /\ actions = <<>> /\ todo = <<>>
  /\ registered = FALSE /\ pending = FALSE /\ closed = FALSE
  /\ failures = FALSE /\ cancelled = FALSE /\ abandoned = FALSE /\ raced = {}

-----------------------------------------------------------------------------
(* Calls of the user's tasks. *)

\* Closing the client ends in executor.shutdown(wait=True), which blocks the event loop.
LoopRuns == phase # "shutdown"

Goes(c, to) == at' = [at EXCEPT ![c] = to]

\* _run_db hands a statement to the executor.
Submit(job) ==
  /\ jobs' = Append(jobs, job)
  /\ reply' = [reply EXCEPT ![job.by] = "none"]

\* Is the statement committed?  A query never is, inserts to be rolled back neither, a
\* workload commits otherwise.
Commits(k, asked) ==
  /\ k # "query"
  /\ asked \/ Workload(k)
  /\ ~(Inserts(k) /\ strategy = "rollback")

\* Mutant: statements that commit are never refused.
Refused_Never(k, commit) == FALSE

\* The guard of DatabaseClient.execute against a commit of inserts to be rolled back.
Refused(k, commit) == pending /\ commit /\ ~Tracked(k)

\* A tracked insert sets the pending flag when its statement is back.  While it is in
\* flight, the guard lets a statement commit that will be executed after it.
Races(k, asked) ==
  raced' = IF strategy = "rollback" /\ k = "statement" /\ Commits(k, asked)
           THEN raced \cup {b \in Calls : at[b] = "execute" /\ Tracked(kind[b])}
           ELSE raced

\* A call up to its first await.
Call(c) ==
  /\ phase = "tasks"
  /\ at[c] = "none" /\ \A b \in Calls : b < c => at[b] # "none"
  /\ strategy \in Overlap \/ InFlight = {}
  /\ \E k \in Kinds, asked \in BOOLEAN :
       /\ kind' = [kind EXCEPT ![c] = k]
       /\ IF Refused(k, Commits(k, asked))
          THEN Goes(c, "raised") /\ UNCHANGED <<executor, raced>>
          ELSE /\ Goes(c, "execute")
               /\ Races(k, asked)
               /\ Submit(Job(c, IF Inserts(k) THEN "insert" ELSE k, c, Commits(k, asked)))
  /\ UNCHANGED <<phase, found, db, actions, todo, client, failures, cancelled, abandoned>>

\* Mutant: deletes are registered once, as the rollback is.
Registers_Once(c) ==
  /\ actions' = IF registered THEN actions
                ELSE Append(actions, Action(IF strategy = "delete" THEN "delete_values"
                                            ELSE "rollback", c))
  /\ registered' = TRUE /\ pending' = TRUE
  /\ UNCHANGED closed

\* What execute does after a tracked insert: a DELETE each, or one rollback for all.
Registers(c) ==
  IF strategy = "delete"
  THEN /\ actions' = Append(actions, Action("delete_values", c))
       /\ UNCHANGED client
  ELSE /\ actions' = IF registered THEN actions ELSE Append(actions, Action("rollback", c))
       /\ registered' = TRUE /\ pending' = TRUE
       /\ UNCHANGED closed

\* The statement of a call is back: register, then look the row up or return.
Executed(c) ==
  /\ LoopRuns
  /\ at[c] = "execute" /\ reply[c] # "none"
  /\ IF reply[c] = "ok" /\ Tracked(kind[c]) THEN Registers(c) ELSE UNCHANGED <<actions, client>>
  /\ IF reply[c] = "ok" /\ Workload(kind[c]) /\ ~closed
     THEN Goes(c, "lookup") /\ Submit(Job(c, "query", c, FALSE))
     ELSE /\ Goes(c, IF reply[c] = "ok" /\ ~Workload(kind[c]) THEN "returned" ELSE "raised")
          /\ UNCHANGED executor
  /\ UNCHANGED <<phase, kind, found, db, todo, failures, history>>

\* The look-up of a workload is back: register the cleanup of the row it has selected.
LookedUp(c) ==
  /\ LoopRuns
  /\ at[c] = "lookup" /\ reply[c] # "none"
  /\ IF reply[c] = "ok" /\ found[c] # {}
     THEN /\ Goes(c, "returned")
          /\ \E r \in found[c] :
               actions' = Append(actions, Action(IF strategy = "rollback" THEN "rollback"
                                                 ELSE "delete_row", r))
     ELSE Goes(c, "raised") /\ UNCHANGED actions
  /\ UNCHANGED <<phase, kind, executor, found, db, todo, client, failures, history>>

-----------------------------------------------------------------------------
(* The executor thread and the connection. *)

Visible == committed \cup tx

\* Mutant: the DELETE by values has no condition.
After_NoWhere(job) ==
  CASE job.op = "insert" -> Visible \cup {job.row}
    [] job.op = "delete_row" -> Visible \ {job.row}
    [] job.op = "delete_values" -> {}
    [] OTHER -> Visible

\* The rows of the connection after a statement.
After(job) ==
  CASE job.op = "insert" -> Visible \cup {job.row}
    [] job.op = "delete_row" -> Visible \ {job.row}
    [] job.op = "delete_values" -> {r \in Visible : ~Same(r, job.row)}
    [] OTHER -> Visible

\* _execute_sync opens the connection, executes, and commits if asked to.
Executes(job) ==
  /\ committed' = IF job.commit THEN After(job) ELSE committed
  /\ tx' = IF job.commit THEN {} ELSE After(job) \ committed
  /\ open' = TRUE

\* The statement, or opening the connection, fails: the transaction is rolled back.
StatementFails == tx' = {} /\ open' \in {open, TRUE} /\ UNCHANGED committed

\* Mutant: closing forgets to close what is open.
Closes_Nothing == UNCHANGED db

Closes == tx' = {} /\ open' = FALSE /\ UNCHANGED committed

\* One statement of the queue.  Closing swallows errors, a rollback may fail.
RunJob ==
  /\ jobs # <<>>
  /\ LET job == Head(jobs)
         Replies(r) == reply' = [w \in DOMAIN reply |-> IF w = job.by THEN r ELSE reply[w]]
     IN /\ jobs' = Tail(jobs)
        /\ \/ job.op = "close" /\ Closes /\ Replies("ok")
           \/ job.op = "rollback" /\ tx' = {} /\ UNCHANGED <<committed, open>> /\ Replies("ok")
           \/ job.op = "rollback" /\ Flaky /\ UNCHANGED db /\ Replies("error")
           \/ job.op \notin {"close", "rollback"} /\ Executes(job) /\ Replies("ok")
           \/ job.op \notin {"close", "rollback"} /\ Flaky /\ StatementFails /\ Replies("error")
        /\ found' = IF job.op = "query" /\ job.by \in Calls
                    THEN [found EXCEPT ![job.by] = {r \in Visible : Same(r, job.by)}]
                    ELSE found
  /\ UNCHANGED <<phase, at, kind, actions, todo, client, failures, history>>

-----------------------------------------------------------------------------
(* The teardown of the user (_run_user, AutoCleanupManager.cleanup, aclose). *)

\* The user's tasks are over: nothing of them is in flight, or a concurrent call has raised
\* and left the others running (asyncio.gather).
LeaveTasks ==
  /\ phase = "tasks"
  /\ InFlight = {} \/ (strategy \in Overlap /\ \E c \in Calls : at[c] = "raised")
  /\ phase' = "on_stop"
  /\ abandoned' = (InFlight # {})
  /\ UNCHANGED <<at, kind, executor, found, db, actions, todo, client, failures, cancelled,
                 raced>>

\* cleanup() attempts its actions in reverse order and awaits each.
Attempts(rest) ==
  IF rest = <<>>
  THEN phase' = "clients" /\ todo' = <<>> /\ UNCHANGED executor
  ELSE LET a == rest[Len(rest)]
       IN /\ phase' = "cleanup"
          /\ todo' = rest
          /\ Submit(Job(User, a.what, a.row, TRUE))

BeginCleanup ==
  /\ phase = "on_stop"
  /\ Attempts(actions)
  /\ actions' = <<>>
  /\ UNCHANGED <<at, kind, found, db, client, failures, history>>

\* Mutant: an action that has failed is tried again.
ActionDone_Retries ==
  /\ phase = "cleanup" /\ reply[User] # "none"
  /\ failures' = (failures \/ reply[User] = "error")
  /\ UNCHANGED pending
  /\ Attempts(IF reply[User] = "error" THEN todo ELSE SubSeq(todo, 1, Len(todo) - 1))
  /\ UNCHANGED <<at, kind, found, db, actions, registered, closed, history>>

\* An action has succeeded or failed, the next one begins.
ActionDone ==
  /\ phase = "cleanup" /\ reply[User] # "none"
  /\ failures' = (failures \/ reply[User] = "error")
  /\ pending' = (pending /\ ~(todo[Len(todo)].what = "rollback" /\ reply[User] = "ok"))
  /\ Attempts(SubSeq(todo, 1, Len(todo) - 1))
  /\ UNCHANGED <<at, kind, found, db, actions, registered, closed, history>>

\* The HTTP client is closed; aclose() of the database client begins.
CloseBegins ==
  /\ phase = "clients"
  /\ phase' = "aclose"
  /\ Submit(Job(User, "close", Old, FALSE))
  /\ UNCHANGED <<at, kind, found, db, actions, todo, client, failures, history>>

CloseDone ==
  /\ phase = "aclose" /\ reply[User] # "none"
  /\ phase' = "shutdown"
  /\ closed' = TRUE
  /\ UNCHANGED <<at, kind, executor, found, db, actions, todo, registered, pending, failures,
                 history>>

\* executor.shutdown(wait=True) returns when the queue is empty.
ShutDown ==
  /\ phase = "shutdown" /\ jobs = <<>>
  /\ phase' = "over"
  /\ UNCHANGED <<at, kind, executor, found, db, actions, todo, client, failures, history>>

\* asyncio.run cancels the user and the calls in flight.  A statement the executor has
\* begun is carried out, the others are dropped from its queue.
Cancel ==
  /\ strategy \in MayCancel /\ ~cancelled
  /\ phase \notin {"shutdown", "over"}
  /\ cancelled' = TRUE
  /\ at' = [c \in Calls |-> IF c \in InFlight THEN "cancelled" ELSE at[c]]
  /\ jobs' \in {<<>>} \cup {<<[Head(jobs) EXCEPT !.by = Nobody]>> : j \in {1} \cap DOMAIN jobs}
  /\ phase' = CASE phase \in {"tasks", "on_stop"} -> "on_stop"
                [] phase = "cleanup" -> "clients"
                [] phase = "clients" -> "over"
                [] phase = "aclose" -> "shutdown"
  /\ todo' = <<>>
  /\ closed' = (closed \/ phase = "aclose")
  /\ UNCHANGED <<kind, reply, found, db, actions, registered, pending, failures, abandoned,
                 raced>>

-----------------------------------------------------------------------------

CallStep(c) == Call(c) \/ Executed(c) \/ LookedUp(c)
Teardown == BeginCleanup \/ ActionDone \/ CloseBegins \/ CloseDone \/ ShutDown

Terminated ==
  /\ phase = "over" /\ jobs = <<>> /\ InFlight = {}
  /\ UNCHANGED vars

Next ==
  /\ \/ \E c \in Calls : CallStep(c)
     \/ RunJob
     \/ LeaveTasks \/ Teardown
     \/ Cancel
     \/ Terminated
  /\ UNCHANGED strategy

Spec == Init /\ [][Next]_vars

\* The executor works, the event loop resumes who has a result, the user's tasks end.
FairSpec ==
  /\ Spec
  /\ WF_moving(RunJob) /\ WF_moving(LeaveTasks) /\ WF_moving(Teardown)
  /\ \A c \in Calls : WF_moving(Executed(c) \/ LookedUp(c))

-----------------------------------------------------------------------------
(* Properties. *)

\* Every variable has its type.
TypeOK ==
  /\ strategy \in Strategies
  /\ phase \in {"tasks", "on_stop", "cleanup", "clients", "aclose", "shutdown", "over"}
  /\ at \in [Calls -> {"none", "execute", "lookup", "returned", "raised", "cancelled"}]
  /\ kind \in [Calls -> Kinds \cup {"none"}]
  /\ jobs \in Seq(Jobs)
  /\ reply \in [Calls \cup {User} -> {"none", "ok", "error"}]
  /\ found \in [Calls -> SUBSET Rows]
  /\ committed \subseteq Rows /\ tx \subseteq Rows /\ open \in BOOLEAN
  /\ actions \in Seq(CleanupActions) /\ todo \in Seq(CleanupActions)
  /\ registered \in BOOLEAN /\ pending \in BOOLEAN /\ closed \in BOOLEAN
  /\ failures \in BOOLEAN /\ cancelled \in BOOLEAN /\ abandoned \in BOOLEAN /\ raced \subseteq Calls

\* The rows of tracked inserts and workloads that everybody sees.
Left == {c \in Calls \cap committed : Inserts(kind[c])}

\* The rows whose cleanup is known to go wrong: one with the values of another row may be
\* mistaken for it, a workload into a table that is not configured registers nothing when
\* its look-up fails and may be committed before the rollback, and so may a tracked insert
\* that has raced with a statement that commits.
Excepted ==
  Twins \cup raced
    \cup {c \in Calls : kind[c] = "workload" /\ (at[c] = "raised" \/ strategy = "rollback")}

\* Whatever fails and whichever calls overlap, a user that was not cancelled, left no call
\* running and reports no cleanup failure has left no other row behind.
CleanExit ==
  phase = "over" /\ ~cancelled /\ ~abandoned /\ ~failures => Left \subseteq Excepted

\* With strategy rollback, whichever calls overlap, the only rows of tracked inserts that
\* others ever see are those of inserts that were still in flight when a statement that
\* commits was called: "rollback cleanup cannot commit while tracked inserts are pending",
\* and an insert is pending from its return on.
RollbackNeverCommits ==
  strategy = "rollback" => \A c \in Left : Tracked(kind[c]) => c \in raced

\* Nor is one of a workload: "generated model workloads, then cleans them with ... DB
\* rollback".
WorkloadsRollBack == strategy = "rollback" => Left = {}

\* A teardown that is not cancelled, of a user that left no call running, leaves no
\* connection open behind a closed client.
ConnectionClosed == phase = "over" /\ ~cancelled /\ ~abandoned => ~open

\* Cleanup never deletes a row of others, except one with the values of a row the user
\* has inserted.
OthersSurvive == Old \in committed \/ \E c \in Twins : Inserts(kind[c])

\* The teardown ends: nobody waits for a statement that is not carried out.
TeardownEnds == <>(phase = "over" /\ InFlight = {})

=============================================================================
