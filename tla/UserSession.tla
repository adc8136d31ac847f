---------------------------- MODULE UserSession ----------------------------
(***************************************************************************)
(* What one virtual user creates on the target, and who removes it again:  *)
(* its tasks under @retryable (users.py), the protocol clients and their   *)
(* metric events (protocols/), the fixture ledger with its connectors      *)
(* (fixtures/), and the auto cleanup of HTTP responses (cleanup.py) that   *)
(* the engine runs after on_stop.                                          *)
(*                                                                         *)
(* The target is outside the repository: a call may succeed, be refused,   *)
(* fail before or after it took effect, and a resource that another one    *)
(* refers to cannot be deleted.  A resource is named by its creation       *)
(* order.                                                                  *)
(***************************************************************************)
EXTENDS Integers, Sequences, SequencesExt

CONSTANTS
  MaxRes,       \* bound: resources the user creates
  MaxCalls,     \* bound: protocol calls of the tasks
  MaxAttempts,  \* max_attempts of @retryable
  Tracked,      \* auto cleanup is enabled and has the path of the POSTs as a target
  MayCancel     \* the task of the user may be cancelled, once

ASSUME SessionAssumption ==
  /\ MaxRes \in Nat /\ MaxCalls \in Nat
  /\ MaxAttempts \in Nat \ {0}
  /\ Tracked \in BOOLEAN /\ MayCancel \in BOOLEAN

Res == 1..MaxRes
None == 0   \* no parent; the identity "" of a fixture record

VARIABLES
  pc,          \* where _run_user is
  attempt,     \* attempt of the present task
  raising,     \* what is on its way out of _run_user
  cancelled,   \* the cancellation has been delivered
  made,        \* resources created so far
  server,      \* resources that exist
  parent,      \* the resource a resource refers to
  origin,      \* how it was created: raw "post", fixture "api" or "orm"
  records,     \* _records of the fixtures
  fixTodo,     \* records cleanup() of the fixtures has taken over
  cutShort,    \* history: a deletion raised out of that cleanup()
  actions,     \* HTTP actions of the cleanup manager
  noted,       \* its failures so far
  todo,        \* actions its cleanup() has taken over
  reported,    \* "failed" of its summary, -1 before
  calls,       \* client calls begun
  events,      \* RequestFinished and RequestFailed events
  lost         \* history: resources whose creator was never told

world   == <<made, server, parent, origin, lost>>
ledger  == <<records, fixTodo, cutShort>>
manager == <<actions, noted, todo, reported>>
metrics == <<calls, events>>
vars == <<pc, attempt, raising, cancelled, world, ledger, manager, metrics>>

Init ==
  /\ pc = "idle" /\ attempt = 0 /\ raising = "ok" /\ cancelled = FALSE
  /\ made = 0 /\ server = {} /\ lost = {}
  /\ parent = [r \in Res |-> None]
  /\ origin = [r \in Res |-> "none"]
  /\ records = <<>> /\ fixTodo = <<>> /\ cutShort = FALSE
  /\ actions = <<>> /\ noted = 0 /\ todo = <<>> /\ reported = -1
  /\ calls = 0 /\ events = 0

-----------------------------------------------------------------------------
(* The target. *)

\* How a request ends: with an answer below 400 that names the resource ("ok") or does
\* not ("anonymous", or "garbled" if it is not even JSON), with a status from 400 on, with
\* an exception before or after it took effect, or cancelled likewise.
Answered == {"ok", "anonymous", "garbled"}
Effective == Answered \cup {"lost", "cancelled_late"}
Cancelling == {"cancelled", "cancelled_late"}
Ends == Answered \cup {"refused", "unsent", "lost"}
        \cup IF MayCancel /\ ~cancelled THEN Cancelling ELSE {}

Child(r) == {c \in server : parent[c] = r}

\* The target drops a resource by itself.
Expire ==
  /\ pc = "on_stop"
  /\ \E r \in server : Child(r) = {} /\ server' = server \ {r}
  /\ UNCHANGED <<pc, attempt, raising, cancelled, made, parent, origin, lost, ledger,
                 manager, metrics>>

\* The target comes to hold a new resource, which may refer to an older one.
Create(kind) ==
  /\ made < MaxRes
  /\ made' = made + 1
  /\ server' = server \cup {made + 1}
  /\ \E p \in server \cup {None} : parent' = [parent EXCEPT ![made + 1] = p]
  /\ origin' = [origin EXCEPT ![made + 1] = kind]

-----------------------------------------------------------------------------
(* The clients: one metric event per call, none if it is cancelled. *)

Emits(end) ==
  /\ calls' = calls + 1
  /\ events' = IF end \in Cancelling THEN events ELSE events + 1

\* Mutant: an answer without an identity is passed over.
Register_Quiet(end, r) ==
  IF Tracked /\ end = "ok" THEN actions' = Append(actions, r) /\ UNCHANGED noted
  ELSE UNCHANGED <<actions, noted>>

\* register_http_response: an answer below 400 leaves an action, or a failure if no
\* identity can be found in it.
Register(end, r) ==
  IF ~Tracked \/ end \notin Answered THEN UNCHANGED <<actions, noted>>
  ELSE IF end = "ok" THEN actions' = Append(actions, r) /\ UNCHANGED noted
       ELSE noted' = noted + 1 /\ UNCHANGED actions

\* Mutant: every exception, a cancellation too, is a failed attempt.
Continue_AnyException(raised, cancelling) ==
  /\ cancelled' = (cancelled \/ cancelling)
  /\ IF ~raised /\ ~cancelling THEN UNCHANGED <<pc, attempt, raising>>
     ELSE IF attempt < MaxAttempts
          THEN attempt' = attempt + 1 /\ UNCHANGED <<pc, raising>>
          ELSE pc' = "on_stop" /\ raising' = "error" /\ UNCHANGED attempt

\* After a call of a task: what it raises is a failed attempt, and the last one leaves
\* run_once; a cancellation leaves at once.
Continue(raised, cancelling) ==
  /\ cancelled' = (cancelled \/ cancelling)
  /\ IF cancelling THEN pc' = "on_stop" /\ raising' = "cancelled" /\ UNCHANGED attempt
     ELSE IF ~raised THEN UNCHANGED <<pc, attempt, raising>>
     ELSE IF attempt < MaxAttempts
          THEN attempt' = attempt + 1 /\ UNCHANGED <<pc, raising>>
          ELSE pc' = "on_stop" /\ raising' = "error" /\ UNCHANGED attempt

\* The effect of a creating POST on the target, and whether anybody was told.
PostEffect(kind, end) ==
  IF end \in Effective
  THEN /\ Create(kind)
       /\ lost' = IF end \in Answered THEN lost ELSE lost \cup {made + 1}
  ELSE UNCHANGED world

-----------------------------------------------------------------------------
(* Tasks. *)

InTask == pc = "task" /\ calls < MaxCalls

StartTask ==
  /\ pc = "idle"
  /\ pc' = "task" /\ attempt' = 1
  /\ UNCHANGED <<raising, cancelled, world, ledger, manager, metrics>>

TaskReturns ==
  /\ pc = "task"
  /\ pc' = "idle" /\ attempt' = 0
  /\ UNCHANGED <<raising, cancelled, world, ledger, manager, metrics>>

\* The code of the task itself raises.
TaskRaises ==
  /\ pc = "task"
  /\ Continue(TRUE, FALSE)
  /\ UNCHANGED <<world, ledger, manager, metrics>>

\* A raw POST: HttpClient.request; a status from 400 on raises nothing.
Post ==
  /\ InTask
  /\ \E end \in Ends :
       /\ PostEffect("post", end)
       /\ Emits(end)
       /\ Register(end, made + 1)
       /\ Continue(end \in {"unsent", "lost"}, end \in Cancelling)
  /\ UNCHANGED <<ledger, todo, reported>>

\* A call that creates nothing.
Query(ends) ==
  /\ InTask
  /\ \E end \in ends \cap Ends :
       /\ Emits(end)
       /\ Continue(end \in {"unsent", "garbled"}, end = "cancelled")
  /\ UNCHANGED <<world, ledger, manager>>

Get == Query({"ok", "refused", "unsent", "cancelled"})

\* An answer with GraphQL errors counts as refused, and raises as little.
Graphql == Query({"ok", "refused", "unsent", "cancelled"})

\* The answer is decoded after its event: one that is no JSON raises all the same.
WebSocket == Query({"ok", "garbled", "unsent", "cancelled"})

\* A status other than OK is an exception of the stub.
Grpc == Query({"ok", "unsent", "cancelled"})

\* ModelFixtures.create by OpenAPIConnector: the POST again, but any JSON answer, an error
\* too, becomes a record, with the identity "" if it has none.
ApiCreate ==
  /\ InTask
  /\ \E end \in Ends :
       /\ PostEffect("api", end)
       /\ Emits(end)
       /\ Register(end, made + 1)
       /\ records' = CASE end = "ok" -> Append(records, made + 1)
                       [] end \in {"anonymous", "refused"} -> Append(records, None)
                       [] OTHER -> records
       /\ Continue(end \in {"unsent", "lost", "garbled"}, end \in Cancelling)
  /\ UNCHANGED <<fixTodo, cutShort, todo, reported>>

\* By SQLModelConnector or DjangoORMConnector, without awaiting: the insert may fail, and so
\* may the reading of its identity, after the commit.
OrmCreate ==
  /\ pc = "task"
  /\ \E end \in {"ok", "unsent", "lost"} :
       /\ PostEffect("orm", end)
       /\ records' = IF end = "ok" THEN Append(records, made + 1) ELSE records
       /\ Continue(end # "ok", FALSE)
  /\ UNCHANGED <<fixTodo, cutShort, manager, metrics>>

\* stop() was called, or the stop file exists.
LoopEnds ==
  /\ pc = "idle"
  /\ pc' = "on_stop"
  /\ UNCHANGED <<attempt, raising, cancelled, world, ledger, manager, metrics>>

-----------------------------------------------------------------------------
(* on_stop, which may clean the fixtures up. *)

\* Mutant: in the order of their creation.
DeletionOrder_Forward(s) == s

\* Both clean-ups go through what they took over in reverse.
DeletionOrder(s) == Reverse(s)

\* The manager takes over its actions.
AutoBegins ==
  /\ pc' = "auto"
  /\ todo' = DeletionOrder(actions)
  /\ actions' = <<>>
  /\ UNCHANGED <<noted, reported>>

OnStopWithout ==
  /\ pc = "on_stop"
  /\ AutoBegins
  /\ UNCHANGED <<attempt, raising, cancelled, world, ledger, metrics>>

\* ModelFixtures.cleanup forgets the records first.
FixturesBegin ==
  /\ pc = "on_stop"
  /\ pc' = "fixtures"
  /\ fixTodo' = DeletionOrder(records)
  /\ records' = <<>>
  /\ UNCHANGED <<attempt, raising, cancelled, world, cutShort, manager, metrics>>

FixturesEnd ==
  /\ pc = "fixtures"
  /\ fixTodo = <<>>
  /\ AutoBegins
  /\ UNCHANGED <<attempt, raising, cancelled, world, ledger, metrics>>

\* The deletion of one record returns, or raises, and the other records are forgotten.
FixtureReturns ==
  /\ fixTodo' = Tail(fixTodo)
  /\ UNCHANGED <<pc, raising, cutShort, manager>>

FixtureRaises(exception) ==
  /\ fixTodo' = <<>>
  /\ cutShort' = TRUE
  /\ raising' = exception
  /\ AutoBegins

\* A request to delete r takes effect if the resource exists and nothing refers to it.
Deletable(r) == r \in server /\ Child(r) = {}
DeleteEnds(r) ==
  {IF Deletable(r) THEN "ok" ELSE "refused", "unsent"}
    \cup (IF Deletable(r) THEN {"lost"} ELSE {})
    \cup (IF MayCancel /\ ~cancelled THEN {"cancelled"} ELSE {})

Deletes(r, end) ==
  /\ server' = IF end \in {"ok", "lost"} THEN server \ {r} ELSE server
  /\ UNCHANGED <<made, parent, origin, lost>>

\* By OpenAPIConnector: the status is not looked at.
ApiDelete ==
  /\ pc = "fixtures" /\ fixTodo # <<>>
  /\ LET r == Head(fixTodo) IN
     /\ r # None => origin[r] = "api"
     /\ \E end \in DeleteEnds(r) :
          /\ Deletes(r, end)
          /\ Emits(end)
          /\ cancelled' = (cancelled \/ end = "cancelled")
          /\ CASE end \in {"ok", "refused"} -> FixtureReturns
               [] end = "cancelled" -> FixtureRaises("cancelled")
               [] OTHER -> FixtureRaises("error")
  /\ UNCHANGED <<attempt, records>>

\* The look-up of an ORM connector finds no row, which is no error, or has the row deleted.
RowEnds(r) == IF r \in server THEN DeleteEnds(r) \ {"cancelled"} ELSE {"ok", "unsent"}

\* By an ORM connector, without awaiting: a row that others refer to is an error.
OrmDelete ==
  /\ pc = "fixtures" /\ fixTodo # <<>>
  /\ LET r == Head(fixTodo) IN
     /\ r # None /\ origin[r] = "orm"
     /\ \E end \in RowEnds(r) :
          /\ Deletes(r, end)
          /\ IF end = "ok" THEN FixtureReturns ELSE FixtureRaises("error")
  /\ UNCHANGED <<attempt, cancelled, records, metrics>>

-----------------------------------------------------------------------------
(* AutoCleanupManager.cleanup. *)

ActionFails(end) == end # "ok"

\* Mutant: cleanup requests go through the metered request().
CleanupRequest_Metered(end) == events' = events + 1 /\ UNCHANGED calls

\* _cleanup_request goes past the metrics.
CleanupRequest(end) == UNCHANGED metrics

ActionOver(end) ==
  /\ todo' = Tail(todo)
  /\ noted' = IF ActionFails(end) THEN noted + 1 ELSE noted

\* A cancelled action ends the user, without a summary.
AutoDelete ==
  /\ pc = "auto" /\ todo # <<>>
  /\ \E end \in DeleteEnds(Head(todo)) :
       /\ Deletes(Head(todo), end)
       /\ CleanupRequest(end)
       /\ IF end = "cancelled"
          THEN /\ pc' = "done" /\ cancelled' = TRUE /\ raising' = "cancelled" /\ todo' = <<>>
               /\ UNCHANGED noted
          ELSE ActionOver(end) /\ UNCHANGED <<pc, cancelled, raising>>
  /\ UNCHANGED <<attempt, ledger, actions, reported>>

AutoEnds ==
  /\ pc = "auto" /\ todo = <<>>
  /\ pc' = "done"
  /\ reported' = noted
  /\ UNCHANGED <<attempt, raising, cancelled, world, ledger, actions, noted, todo, metrics>>

-----------------------------------------------------------------------------

TaskStep ==
  \/ StartTask \/ TaskReturns \/ TaskRaises
  \/ Post \/ Get \/ Graphql \/ WebSocket \/ Grpc \/ ApiCreate \/ OrmCreate
OnStopStep == OnStopWithout \/ FixturesBegin \/ FixturesEnd \/ ApiDelete \/ OrmDelete
AutoStep == AutoDelete \/ AutoEnds
Terminated == pc = "done" /\ UNCHANGED vars

Next == TaskStep \/ LoopEnds \/ Expire \/ OnStopStep \/ AutoStep \/ Terminated

Spec == Init /\ [][Next]_vars

\* Every request ends: the coroutine of a user that is torn down goes on.
FairSpec == Spec /\ WF_vars(OnStopStep) /\ WF_vars(AutoStep)

-----------------------------------------------------------------------------
(* Properties. *)

\* Every variable has its type.
TypeOK ==
  /\ pc \in {"idle", "task", "on_stop", "fixtures", "auto", "done"}
  /\ attempt \in 0..MaxAttempts
  /\ raising \in {"ok", "error", "cancelled"}
  /\ cancelled \in BOOLEAN /\ cutShort \in BOOLEAN
  /\ made \in 0..MaxRes
  /\ server \subseteq 1..made /\ lost \subseteq 1..made
  /\ parent \in [Res -> Res \cup {None}]
  /\ origin \in [Res -> {"none", "post", "api", "orm"}]
  /\ records \in Seq(Res \cup {None}) /\ fixTodo \in Seq(Res \cup {None})
  /\ actions \in Seq(Res) /\ todo \in Seq(Res)
  /\ noted \in Nat /\ reported \in Nat \cup {-1}
  /\ calls \in Nat /\ events \in Nat

\* With auto cleanup on, nothing the user created stays behind unnoticed, however calls,
\* retries, on_stop and deletions failed: what still exists after a summary without
\* failures was never acknowledged to its creator, or is an ORM row that the user never
\* asked to clean up or whose clean-up raised, and then the user itself has failed.
NoSilentLeak ==
  Tracked /\ reported = 0 =>
    /\ \A r \in server \ lost :
         origin[r] = "orm" /\ (cutShort \/ Contains(records, r))
    /\ cutShort => raising # "ok"

\* "in reverse creation order, so parent/child records can be torn down safely"
\* (README.md:269): no deletion comes before that of a resource of the same ledger that
\* refers to it, through retries that created parts of the ledger twice.
ChildrenFirst ==
  \A s \in {fixTodo, todo} : \A i \in 2..Len(s) :
    s[1] # None /\ s[i] # None => parent[s[i]] # s[1]

\* "Cleanup attempts and failures ... do not count toward SLO metrics" (README.md:422), and
\* every call of the user counts once, whether it was answered, refused or raised, also
\* when it was retried; only a cancelled one leaves no event.
EventsAreCalls ==
  /\ events <= calls
  /\ calls <= events + (IF cancelled THEN 1 ELSE 0)

\* A user that is cancelled makes no further attempt at its task, and no deletion, failed
\* or refused, keeps it or any other user from ending.
CancelIsFinal ==
  /\ [][cancelled => pc' \notin {"idle", "task"}]_vars
  /\ (cancelled \/ pc = "on_stop") ~> (pc = "done")

=============================================================================
