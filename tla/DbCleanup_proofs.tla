--------------------------- MODULE DbCleanup_proofs ---------------------------
(***************************************************************************)
(* Theorems about DbCleanup, for every set of calls, both strategies, any  *)
(* overlap of calls, failing statements and cancellations.                 *)
(***************************************************************************)
EXTENDS DbCleanup, SequenceTheorems, TLAPS

-----------------------------------------------------------------------------
(* Types. *)

\* Handing a well-formed statement over keeps queue and replies well typed.
LEMMA SubmitTypes ==
  ASSUME TypeOK, NEW job \in Jobs, job.by \in Calls \cup {User}, Submit(job)
  PROVE  jobs' \in Seq(Jobs) /\ reply' \in [Calls \cup {User} -> {"none", "ok", "error"}]
<1>1. jobs' \in Seq(Jobs)
  BY AppendProperties DEF Submit, TypeOK
<1>2. reply' \in [Calls \cup {User} -> {"none", "ok", "error"}]
  BY DEF Submit, TypeOK
<1> QED BY <1>1, <1>2

\* A call that goes on keeps its type.
LEMMA GoesTypes ==
  ASSUME TypeOK, NEW c \in Calls, NEW to, Goes(c, to),
         to \in {"execute", "lookup", "returned", "raised"}
  PROVE  at' \in [Calls -> {"none", "execute", "lookup", "returned", "raised", "cancelled"}]
BY DEF Goes, TypeOK

\* A cleanup action is well typed.
LEMMA ActionType ==
  ASSUME NEW what \in Cleanups, NEW r \in Rows
  PROVE  Action(what, r) \in CleanupActions
BY DEF Action, CleanupActions

\* Attempting the rest of the actions keeps everything well typed.
LEMMA AttemptsTypes ==
  ASSUME TypeOK, NEW rest \in Seq(CleanupActions), Attempts(rest)
  PROVE  /\ phase' \in {"cleanup", "clients"}
         /\ todo' \in Seq(CleanupActions)
         /\ jobs' \in Seq(Jobs)
         /\ reply' \in [Calls \cup {User} -> {"none", "ok", "error"}]
<1>1. CASE rest = <<>>
  BY <1>1 DEF Attempts, TypeOK, executor
<1>2. CASE rest # <<>>
  <2> DEFINE a == rest[Len(rest)]
             job == Job(User, a.what, a.row, TRUE)
  <2>1. Len(rest) \in 1..Len(rest)
    BY <1>2, EmptySeq, LenProperties
  <2>2. a \in CleanupActions
    BY <2>1, ElementOfSeq
  <2>3. job \in Jobs /\ job.by = User
    BY <2>2 DEF CleanupActions, Jobs, Job, Ops
  <2>4. phase' = "cleanup" /\ todo' = rest /\ Submit(job)
    BY <1>2 DEF Attempts
  <2> QED BY <2>3, <2>4, SubmitTypes
<1> QED BY <1>1, <1>2

\* The first state is well typed.
LEMMA InitTypes == Init => TypeOK
<1> SUFFICES ASSUME Init PROVE TypeOK
  OBVIOUS
<1>1. jobs \in Seq(Jobs) /\ actions \in Seq(CleanupActions) /\ todo \in Seq(CleanupActions)
  BY EmptySeq DEF Init
<1>2. found \in [Calls -> SUBSET Rows] /\ committed \subseteq Rows /\ tx \subseteq Rows
  BY DEF Init, Rows
<1> QED BY <1>1, <1>2 DEF Init, TypeOK

\* TypeOK after a call.
LEMMA CallTypes ==
  ASSUME TypeOK, NEW c \in Calls, Call(c)
  PROVE  (strategy' = strategy) => TypeOK'
<1> SUFFICES ASSUME strategy' = strategy PROVE TypeOK'
  OBVIOUS
<1>1. PICK k \in Kinds, asked \in BOOLEAN :
        /\ kind' = [kind EXCEPT ![c] = k]
        /\ IF Refused(k, Commits(k, asked))
           THEN Goes(c, "raised") /\ UNCHANGED <<executor, raced>>
           ELSE /\ Goes(c, "execute")
                /\ Races(k, asked)
                /\ Submit(Job(c, IF Inserts(k) THEN "insert" ELSE k, c, Commits(k, asked)))
  BY DEF Call
<1> DEFINE job == Job(c, IF Inserts(k) THEN "insert" ELSE k, c, Commits(k, asked))
<1>2. kind' \in [Calls -> Kinds \cup {"none"}]
  BY <1>1 DEF TypeOK
<1>3. at' \in [Calls -> {"none", "execute", "lookup", "returned", "raised", "cancelled"}]
  BY <1>1, GoesTypes
<1>4. jobs' \in Seq(Jobs) /\ reply' \in [Calls \cup {User} -> {"none", "ok", "error"}]
  <2>1. CASE Refused(k, Commits(k, asked))
    BY <1>1, <2>1 DEF executor, TypeOK
  <2>2. CASE ~Refused(k, Commits(k, asked))
    <3>1. (IF Inserts(k) THEN "insert" ELSE k) \in Ops
      BY DbAssumption DEF Inserts, Tracked, Workload, Ops, CallKinds
    <3>2. Commits(k, asked) \in BOOLEAN
      BY Zenon DEF Commits
    <3>3. job \in Jobs /\ job.by = c
      BY <3>1, <3>2 DEF Job, Jobs, Rows
    <3> HIDE DEF job
    <3>4. Submit(job)
      BY <1>1, <2>2 DEF job
    <3> QED BY <3>3, <3>4, SubmitTypes
  <2> QED BY <2>1, <2>2
<1>5. UNCHANGED <<phase, found, db, actions, todo, client, failures, cancelled, abandoned>>
  BY DEF Call
<1>6. raced' \subseteq Calls
  BY <1>1 DEF Races, TypeOK
<1> QED BY <1>2, <1>3, <1>4, <1>5, <1>6 DEF TypeOK, db, client

\* TypeOK after a call whose statement has come back.
LEMMA ExecutedTypes ==
  ASSUME TypeOK, NEW c \in Calls, Executed(c), strategy' = strategy
  PROVE  TypeOK'
<1>1. actions' \in Seq(CleanupActions)
      /\ registered' \in BOOLEAN /\ pending' \in BOOLEAN /\ closed' \in BOOLEAN
  <2>1. CASE Registers(c)
    <3>1. Action("delete_values", c) \in CleanupActions /\ Action("rollback", c) \in CleanupActions
      BY ActionType DEF Cleanups, Rows
    <3>2. /\ Append(actions, Action("delete_values", c)) \in Seq(CleanupActions)
          /\ Append(actions, Action("rollback", c)) \in Seq(CleanupActions)
      BY <3>1, AppendProperties DEF TypeOK
    <3> QED BY <2>1, <3>2 DEF Registers, TypeOK, client
  <2>2. CASE UNCHANGED <<actions, client>>
    BY <2>2 DEF TypeOK, client
  <2> QED BY <2>1, <2>2 DEF Executed
<1>2. /\ at' \in [Calls -> {"none", "execute", "lookup", "returned", "raised", "cancelled"}]
      /\ jobs' \in Seq(Jobs)
      /\ reply' \in [Calls \cup {User} -> {"none", "ok", "error"}]
  <2>1. CASE reply[c] = "ok" /\ Workload(kind[c]) /\ ~closed
    <3> DEFINE job == Job(c, "query", c, FALSE)
    <3>1. job \in Jobs /\ job.by = c
      BY DEF Job, Jobs, Rows, Ops
    <3>2. Goes(c, "lookup") /\ Submit(job)
      BY <2>1 DEF Executed
    <3> HIDE DEF job
    <3> QED BY <3>1, <3>2, SubmitTypes, GoesTypes
  <2>2. CASE ~(reply[c] = "ok" /\ Workload(kind[c]) /\ ~closed)
    <3>1. Goes(c, "returned") \/ Goes(c, "raised")
      BY <2>2 DEF Executed
    <3>2. UNCHANGED executor
      BY <2>2 DEF Executed
    <3> QED BY <3>1, <3>2, GoesTypes DEF executor, TypeOK
  <2> QED BY <2>1, <2>2
<1>3. UNCHANGED <<phase, kind, found, db, todo, failures, history>>
  BY DEF Executed
<1> QED BY <1>1, <1>2, <1>3 DEF TypeOK, db, history

\* TypeOK after a call whose look-up has come back.
LEMMA LookedUpTypes ==
  ASSUME TypeOK, NEW c \in Calls, LookedUp(c), strategy' = strategy
  PROVE  TypeOK'
<1>1. actions' \in Seq(CleanupActions)
      /\ at' \in [Calls -> {"none", "execute", "lookup", "returned", "raised", "cancelled"}]
  <2>1. CASE reply[c] = "ok" /\ found[c] # {}
    <3>1. PICK r \in found[c] :
            actions' = Append(actions, Action(IF strategy = "rollback" THEN "rollback"
                                              ELSE "delete_row", r))
      BY <2>1 DEF LookedUp
    <3>2. r \in Rows
      BY DEF TypeOK
    <3>3. Action(IF strategy = "rollback" THEN "rollback" ELSE "delete_row", r) \in CleanupActions
      BY <3>2, ActionType DEF Cleanups
    <3>4. actions' \in Seq(CleanupActions)
      BY <3>1, <3>3, AppendProperties DEF TypeOK
    <3>5. Goes(c, "returned")
      BY <2>1 DEF LookedUp
    <3> QED BY <3>4, <3>5, GoesTypes
  <2>2. CASE ~(reply[c] = "ok" /\ found[c] # {})
    <3>1. Goes(c, "raised") /\ UNCHANGED actions
      BY <2>2 DEF LookedUp
    <3> QED BY <3>1, GoesTypes DEF TypeOK
  <2> QED BY <2>1, <2>2
<1>2. UNCHANGED <<phase, kind, executor, found, db, todo, client, failures, history>>
  BY DEF LookedUp
<1> QED BY <1>1, <1>2 DEF TypeOK, executor, db, client, history

\* TypeOK after a statement in the executor.
LEMMA RunJobTypes ==
  ASSUME TypeOK, RunJob, strategy' = strategy
  PROVE  TypeOK'
<1> DEFINE job == Head(jobs)
<1>1. job \in Jobs /\ jobs' \in Seq(Jobs)
  BY HeadTailProperties DEF TypeOK, RunJob
<1>2. job.by \in Calls \cup {User, Nobody} /\ job.row \in Rows
  BY <1>1 DEF Jobs
<1>3. Visible \subseteq Rows /\ After(job) \subseteq Rows
  BY <1>2 DEF TypeOK, Visible, After
<1>4. found' \in [Calls -> SUBSET Rows]
  <2>1. {r \in Visible : Same(r, job.by)} \subseteq Rows
    BY <1>3
  <2> HIDE DEF job
  <2>2. found' = IF job.op = "query" /\ job.by \in Calls
                 THEN [found EXCEPT ![job.by] = {r \in Visible : Same(r, job.by)}]
                 ELSE found
    BY DEF RunJob, job
  <2> QED BY <2>1, <2>2 DEF TypeOK
<1>5. reply' \in [Calls \cup {User} -> {"none", "ok", "error"}]
  <2>1. \E r \in {"ok", "error"} :
          reply' = [w \in DOMAIN reply |-> IF w = job.by THEN r ELSE reply[w]]
    BY DEF RunJob
  <2> QED BY <2>1 DEF TypeOK
<1>6. committed' \subseteq Rows /\ tx' \subseteq Rows /\ open' \in BOOLEAN
  <2>1. CASE Executes(job)
    BY <1>3, <2>1 DEF Executes, TypeOK
  <2>2. CASE StatementFails
    BY <2>2 DEF StatementFails, TypeOK
  <2>3. CASE Closes
    BY <2>3 DEF Closes, TypeOK
  <2>4. CASE UNCHANGED db
    BY <2>4 DEF db, TypeOK
  <2>5. CASE tx' = {} /\ UNCHANGED <<committed, open>>
    BY <2>5 DEF TypeOK
  <2> QED BY <2>1, <2>2, <2>3, <2>4, <2>5 DEF RunJob
<1>7. UNCHANGED <<phase, at, kind, actions, todo, client, failures, history>>
  BY DEF RunJob
<1> HIDE DEF job
<1> QED BY <1>1, <1>4, <1>5, <1>6, <1>7 DEF TypeOK, client, history

\* TypeOK after a step of the teardown.
LEMMA TeardownTypes ==
  ASSUME TypeOK, Teardown \/ LeaveTasks, strategy' = strategy
  PROVE  TypeOK'
<1>1. CASE LeaveTasks
  <2>1. abandoned' \in BOOLEAN
    BY <1>1, Zenon DEF LeaveTasks
  <2> QED BY <1>1, <2>1 DEF LeaveTasks, TypeOK, executor, db, client
<1>2. CASE BeginCleanup
  <2>1. actions \in Seq(CleanupActions) /\ Attempts(actions) /\ actions' \in Seq(CleanupActions)
    BY <1>2, EmptySeq DEF BeginCleanup, TypeOK
  <2>2. UNCHANGED <<at, kind, found, db, client, failures, history>>
    BY <1>2 DEF BeginCleanup
  <2> QED BY <2>1, <2>2, AttemptsTypes DEF TypeOK, db, client, history
<1>3. CASE ActionDone
  <2> DEFINE rest == SubSeq(todo, 1, Len(todo) - 1)
  <2>1. rest \in Seq(CleanupActions)
    <3>1. Len(todo) \in Nat /\ \A i \in 1..Len(todo) - 1 : todo[i] \in CleanupActions
      BY LenProperties, ElementOfSeq DEF TypeOK
    <3> QED BY <3>1, SubSeqProperties
  <2> HIDE DEF rest
  <2>2. Attempts(rest)
    BY <1>3 DEF ActionDone, rest
  <2>3. failures' \in BOOLEAN /\ pending' \in BOOLEAN
    BY <1>3, Zenon DEF ActionDone
  <2>4. UNCHANGED <<at, kind, found, db, actions, registered, closed, history>>
    BY <1>3 DEF ActionDone
  <2> QED BY <2>1, <2>2, <2>3, <2>4, AttemptsTypes DEF TypeOK, db, history
<1>4. CASE CloseBegins
  <2> DEFINE job == Job(User, "close", Old, FALSE)
  <2>1. job \in Jobs /\ job.by = User
    BY DEF Job, Jobs, Rows, Ops
  <2> HIDE DEF job
  <2>2. Submit(job)
    BY <1>4 DEF CloseBegins, job
  <2>3. phase' = "aclose" /\ UNCHANGED <<at, kind, found, db, actions, todo, client, failures, history>>
    BY <1>4 DEF CloseBegins
  <2> QED BY <2>1, <2>2, <2>3, SubmitTypes DEF TypeOK, db, client, history
<1>5. CASE CloseDone
  BY <1>5 DEF CloseDone, TypeOK, executor, db, history
<1>6. CASE ShutDown
  BY <1>6 DEF ShutDown, TypeOK, executor, db, client, history
<1> QED BY <1>1, <1>2, <1>3, <1>4, <1>5, <1>6 DEF Teardown

\* TypeOK after a cancellation.
LEMMA CancelTypes ==
  ASSUME TypeOK, Cancel, strategy' = strategy
  PROVE  TypeOK'
<1>1. jobs' \in Seq(Jobs)
  <2>1. CASE jobs' = <<>>
    BY <2>1, EmptySeq
  <2>2. CASE jobs' = <<[Head(jobs) EXCEPT !.by = Nobody]>> /\ 1 \in DOMAIN jobs
    <3>1. Head(jobs) \in Jobs
      BY <2>2, HeadTailProperties DEF TypeOK
    <3>2. [Head(jobs) EXCEPT !.by = Nobody] \in Jobs
      BY <3>1 DEF Jobs
    <3> QED BY <2>2, <3>2
  <2> QED BY <2>1, <2>2 DEF Cancel
<1>2. phase' \in {"on_stop", "clients", "over", "shutdown"}
  BY DEF Cancel, TypeOK
<1>3. at' \in [Calls -> {"none", "execute", "lookup", "returned", "raised", "cancelled"}]
  BY DEF Cancel, TypeOK
<1>4. todo' \in Seq(CleanupActions)
  BY EmptySeq DEF Cancel
<1>5. cancelled' \in BOOLEAN /\ closed' \in BOOLEAN
  BY Zenon DEF Cancel
<1>6. UNCHANGED <<kind, reply, found, db, actions, registered, pending, failures, abandoned,
                 raced>>
  BY DEF Cancel
<1> QED BY <1>1, <1>2, <1>3, <1>4, <1>5, <1>6 DEF TypeOK, db

LEMMA TypeInductive == TypeOK /\ [Next]_vars => TypeOK'
<1> SUFFICES ASSUME TypeOK, [Next]_vars PROVE TypeOK'
  OBVIOUS
<1>1. CASE UNCHANGED vars
  BY <1>1 DEF TypeOK, vars, moving, executor, db, client, history
<1>2. CASE Next
  <2>1. strategy' = strategy
    BY <1>2 DEF Next
  <2>2. CASE \E c \in Calls : CallStep(c)
    BY <2>1, <2>2, CallTypes, ExecutedTypes, LookedUpTypes DEF CallStep
  <2> QED BY <1>1, <1>2, <2>1, <2>2, RunJobTypes, TeardownTypes, CancelTypes
          DEF Next, Terminated
<1> QED BY <1>1, <1>2

\* Every reachable state is well typed.
THEOREM TypeCorrect == Spec => []TypeOK
BY TypeInductive, InitTypes, PTL DEF Spec

-----------------------------------------------------------------------------
(* The queue of the executor and the teardown. *)

\* What a statement in the queue says of whoever awaits it.
JobInv(job) ==
  /\ job.by \in Calls => at[job.by] \in {"execute", "lookup"} /\ reply[job.by] = "none"
  /\ job.by \in Calls /\ at[job.by] = "lookup" => job.op = "query"
  /\ job.by = User =>
       /\ reply[User] = "none" /\ phase \in {"cleanup", "aclose"}
       /\ phase = "cleanup" => /\ job.op = todo[Len(todo)].what
                               /\ job.row = todo[Len(todo)].row
                               /\ job.commit
       /\ phase = "aclose" => job.op = "close"
  /\ job.by = Nobody => cancelled
  /\ job.op = "insert" =>
       /\ job.row \in Calls /\ at[job.row] # "none"
       /\ job.by \in Calls => job.row = job.by /\ at[job.by] = "execute"

\* Nobody awaits two statements.
QueueInv ==
  /\ \A i \in 1..Len(jobs) : JobInv(jobs[i])
  /\ \A i, j \in 1..Len(jobs) : jobs[i].by = jobs[j].by => i = j

\* The teardown begins when the tasks are over.
TeardownInv ==
  /\ phase = "tasks" => ~cancelled /\ ~abandoned
  /\ phase # "tasks" /\ ~abandoned => InFlight = {}
  /\ phase = "cleanup" => todo # <<>>

\* A call that has not been made is of no kind and has no row.
UnmadeInv ==
  \A c \in Calls : at[c] = "none" => kind[c] = "none" /\ c \notin Visible

\* Behind a client that has been closed in order no connection is open.
ClosedInv ==
  ~cancelled /\ ~abandoned =>
    /\ phase = "aclose" /\ reply[User] # "none" => ~open
    /\ phase \in {"shutdown", "over"} => ~open

UserInv == QueueInv /\ TeardownInv /\ UnmadeInv /\ ClosedInv

\* A statement that is handed over comes last.
LEMMA Submitted ==
  ASSUME TypeOK, NEW job \in Jobs, job.by \in Calls \cup {User}, Submit(job)
  PROVE  /\ Len(jobs) \in Nat /\ Len(jobs') = Len(jobs) + 1
         /\ \A i \in 1..Len(jobs) : jobs'[i] = jobs[i]
         /\ jobs'[Len(jobs) + 1] = job
         /\ \A i \in 1..Len(jobs') : i \in 1..Len(jobs) \/ i = Len(jobs) + 1
         /\ \A w \in Calls \cup {User} : reply'[w] = IF w = job.by THEN "none" ELSE reply[w]
BY DEF TypeOK, Submit

\* The thread takes the first statement; the others move up.
LEMMA TakenOff ==
  ASSUME TypeOK, RunJob
  PROVE  /\ Head(jobs) = jobs[1] /\ jobs[1] \in Jobs /\ Len(jobs) \in Nat \ {0}
         /\ Len(jobs') = Len(jobs) - 1
         /\ \A i \in 1..Len(jobs') : jobs'[i] = jobs[i + 1] /\ i + 1 \in 1..Len(jobs)
         /\ \E r \in {"ok", "error"} : \A w \in Calls \cup {User} :
              reply'[w] = IF w = jobs[1].by THEN r ELSE reply[w]
<1>1. jobs \in Seq(Jobs) /\ jobs # <<>> /\ jobs' = Tail(jobs)
  BY DEF TypeOK, RunJob
<1>2. /\ Head(jobs) = jobs[1] /\ jobs[1] \in Jobs /\ Len(jobs) \in Nat \ {0}
      /\ Len(jobs') = Len(jobs) - 1
      /\ \A i \in 1..Len(jobs') : jobs'[i] = jobs[i + 1]
  BY <1>1, HeadTailProperties, EmptySeq
<1>3. \A i \in 1..Len(jobs') : i + 1 \in 1..Len(jobs)
  BY <1>2
<1>4. \E r \in {"ok", "error"} :
        reply' = [w \in DOMAIN reply |-> IF w = Head(jobs).by THEN r ELSE reply[w]]
  BY DEF RunJob
<1>5. DOMAIN reply = Calls \cup {User}
  BY DEF TypeOK
<1> QED BY <1>2, <1>3, <1>4, <1>5

\* QueueInv where the queue and what it depends on do not change.
LEMMA QueueKept ==
  ASSUME TypeOK, QueueInv, jobs' = jobs, \A j \in Jobs : JobInv(j) => JobInv(j)'
  PROVE  QueueInv'
<1>1. \A i \in 1..Len(jobs) : jobs[i] \in Jobs
  BY ElementOfSeq DEF TypeOK
<1>2. ASSUME NEW i \in 1..Len(jobs) PROVE JobInv(jobs[i])'
  <2>1. PICK j \in Jobs : j = jobs[i]
    BY <1>1
  <2>2. JobInv(j)'
    BY <2>1 DEF QueueInv
  <2> QED BY <2>1, <2>2 DEF JobInv
<1> QED BY <1>2 DEF QueueInv

\* QueueInv after somebody who awaits nothing has added a statement.
LEMMA QueueSubmit ==
  ASSUME TypeOK, QueueInv, NEW job \in Jobs, job.by \in Calls \cup {User}, Submit(job),
         \A i \in 1..Len(jobs) : jobs[i].by # job.by,
         \A j \in Jobs : JobInv(j) /\ j.by # job.by => JobInv(j)',
         JobInv(job)'
  PROVE  QueueInv'
<1>1. \A i \in 1..Len(jobs) : jobs[i] \in Jobs
  BY ElementOfSeq DEF TypeOK
<1>2. ASSUME NEW i \in 1..Len(jobs) PROVE JobInv(jobs[i])'
  <2>1. PICK j \in Jobs : j = jobs[i]
    BY <1>1
  <2>2. JobInv(j)'
    BY <2>1 DEF QueueInv
  <2>3. jobs'[i] = j
    BY <2>1, Submitted
  <2> QED BY <2>2, <2>3 DEF JobInv
<1>3. ASSUME NEW i \in 1..Len(jobs') PROVE JobInv(jobs[i])'
  <2>1. CASE i \in 1..Len(jobs)
    BY <1>2, <2>1
  <2>2. CASE i = Len(jobs) + 1
    <3>1. jobs'[i] = job
      BY <2>2, Submitted
    <3> QED BY <3>1 DEF JobInv
  <2> QED BY <2>1, <2>2, Submitted
<1>4. \A i, j \in 1..Len(jobs') : jobs'[i].by = jobs'[j].by => i = j
  BY Submitted DEF QueueInv
<1> QED BY <1>3, <1>4 DEF QueueInv

\* QueueInv after the first statement has been carried out.
LEMMA QueueRun ==
  ASSUME TypeOK, QueueInv, RunJob
  PROVE  QueueInv'
<1>1. ASSUME NEW i \in 1..Len(jobs') PROVE JobInv(jobs[i])'
  <2>1. i + 1 \in 1..Len(jobs) /\ jobs'[i] = jobs[i + 1] /\ jobs[i + 1].by # jobs[1].by
    BY TakenOff DEF QueueInv
  <2>2. JobInv(jobs[i + 1]) /\ jobs[i + 1] \in Jobs
    BY <2>1, ElementOfSeq DEF QueueInv, TypeOK
  <2>3. jobs[i + 1].by \in Calls \cup {User} => reply'[jobs[i + 1].by] = reply[jobs[i + 1].by]
    BY <2>1, TakenOff
  <2>4. UNCHANGED <<at, phase, todo, cancelled>>
    BY DEF RunJob, history
  <2> QED BY <2>1, <2>2, <2>3, <2>4 DEF JobInv
<1>2. \A i, j \in 1..Len(jobs') : jobs'[i].by = jobs'[j].by => i = j
  <2>1. ASSUME NEW i \in 1..Len(jobs'), NEW j \in 1..Len(jobs'), jobs'[i].by = jobs'[j].by
        PROVE  i = j
    <3>1. /\ jobs[i + 1].by = jobs[j + 1].by
          /\ i + 1 \in 1..Len(jobs) /\ j + 1 \in 1..Len(jobs)
      BY <2>1, TakenOff
    <3>2. i + 1 = j + 1
      BY <3>1 DEF QueueInv
    <3> QED BY <3>2
  <2> QED BY <2>1
<1> QED BY <1>1, <1>2 DEF QueueInv

\* UserInv after a call.
LEMMA CallUser ==
  ASSUME TypeOK, UserInv, NEW c \in Calls, Call(c), strategy' = strategy
  PROVE  UserInv'
<1>1. PICK k \in Kinds, asked \in BOOLEAN :
        /\ kind' = [kind EXCEPT ![c] = k]
        /\ IF Refused(k, Commits(k, asked))
           THEN Goes(c, "raised") /\ UNCHANGED <<executor, raced>>
           ELSE /\ Goes(c, "execute")
                /\ Races(k, asked)
                /\ Submit(Job(c, IF Inserts(k) THEN "insert" ELSE k, c, Commits(k, asked)))
  BY DEF Call
<1>2. /\ phase = "tasks" /\ at[c] = "none"
      /\ UNCHANGED <<phase, found, db, actions, todo, client, failures, cancelled, abandoned>>
  BY DEF Call
<1>3. \A i \in 1..Len(jobs) : jobs[i].by # c
  BY <1>2 DEF UserInv, QueueInv, JobInv
<1>4. /\ \A x \in Calls \ {c} : at'[x] = at[x] /\ kind'[x] = kind[x]
      /\ at'[c] \in {"execute", "raised"}
  BY <1>1 DEF Goes, TypeOK
<1>5. QueueInv'
  <2>1. CASE Refused(k, Commits(k, asked))
    <3>1. jobs' = jobs /\ reply' = reply
      BY <1>1, <2>1 DEF executor
    <3>2. \A j \in Jobs : JobInv(j) => JobInv(j)'
      BY <1>2, <1>4, <3>1 DEF JobInv, history
    <3> QED BY <3>1, <3>2, QueueKept DEF UserInv
  <2>2. CASE ~Refused(k, Commits(k, asked))
    <3>1. /\ (IF Inserts(k) THEN "insert" ELSE k) \in Ops
          /\ Commits(k, asked) \in BOOLEAN
      <4>1. (IF Inserts(k) THEN "insert" ELSE k) \in Ops
        BY DbAssumption DEF Inserts, Tracked, Workload, Ops, CallKinds
      <4>2. Commits(k, asked) \in BOOLEAN
        BY Zenon DEF Commits
      <4> QED BY <4>1, <4>2
    <3>2. Job(c, IF Inserts(k) THEN "insert" ELSE k, c, Commits(k, asked)) \in Jobs
      BY <3>1 DEF Job, Jobs, Rows
    <3>3. PICK job \in Jobs :
            job = Job(c, IF Inserts(k) THEN "insert" ELSE k, c, Commits(k, asked))
      BY <3>2
    <3>4. job.by = c /\ job.row = c
      BY <3>3 DEF Job
    <3>5. Submit(job) /\ at'[c] = "execute"
      BY <1>1, <2>2, <3>3 DEF Goes, TypeOK
    <3>6. \A w \in Calls \cup {User} : reply'[w] = IF w = c THEN "none" ELSE reply[w]
      BY <3>4, <3>5, Submitted
    <3>7. ASSUME NEW j \in Jobs, JobInv(j), j.by # c PROVE JobInv(j)'
      <4>1. j.by \in Calls \cup {User} => reply'[j.by] = reply[j.by]
        BY <3>6, <3>7
      <4>2. j.by \in Calls => at'[j.by] = at[j.by]
        BY <1>4, <3>7
      <4>3. j.row \in Calls /\ at[j.row] # "none" => at'[j.row] # "none"
        BY <1>4
      <4>4. phase' = phase /\ todo' = todo /\ cancelled' = cancelled
        BY <1>2 DEF history
      <4> QED BY <3>7, <4>1, <4>2, <4>3, <4>4 DEF JobInv
    <3>8. JobInv(job)'
      BY <3>4, <3>5, <3>6, DbAssumption DEF JobInv, User, Nobody
    <3> QED BY <1>3, <3>4, <3>5, <3>7, <3>8, QueueSubmit DEF UserInv
  <2> QED BY <2>1, <2>2
<1>6. TeardownInv' /\ ClosedInv'
  BY <1>2 DEF UserInv, TeardownInv, ClosedInv, history
<1>7. UnmadeInv'
  BY <1>2, <1>4 DEF UserInv, UnmadeInv, Visible, db
<1> QED BY <1>5, <1>6, <1>7 DEF UserInv

\* UserInv after a call whose statement has come back.
LEMMA ExecutedUser ==
  ASSUME TypeOK, UserInv, NEW c \in Calls, Executed(c), strategy' = strategy
  PROVE  UserInv'
<1>1. /\ phase # "shutdown" /\ at[c] = "execute" /\ reply[c] # "none"
      /\ UNCHANGED <<phase, kind, found, db, todo, failures, history>>
  BY DEF Executed, LoopRuns
<1>2. \A i \in 1..Len(jobs) : jobs[i].by # c
  BY <1>1 DEF UserInv, QueueInv, JobInv
<1>3. /\ \A x \in Calls \ {c} : at'[x] = at[x]
      /\ at'[c] \in {"lookup", "returned", "raised"}
  BY DEF Executed, Goes, TypeOK
<1>4. QueueInv'
  <2>1. CASE reply[c] = "ok" /\ Workload(kind[c]) /\ ~closed
    <3>1. Job(c, "query", c, FALSE) \in Jobs
      BY DEF Job, Jobs, Rows, Ops
    <3>2. PICK job \in Jobs : job = Job(c, "query", c, FALSE)
      BY <3>1
    <3>3. job.by = c /\ job.op = "query"
      BY <3>2 DEF Job
    <3>4. Submit(job) /\ at'[c] = "lookup"
      BY <2>1, <3>2 DEF Executed, Goes, TypeOK
    <3>5. \A w \in Calls \cup {User} : reply'[w] = IF w = c THEN "none" ELSE reply[w]
      BY <3>3, <3>4, Submitted
    <3>6. ASSUME NEW j \in Jobs, JobInv(j), j.by # c PROVE JobInv(j)'
      <4>1. j.by \in Calls \cup {User} => reply'[j.by] = reply[j.by]
        BY <3>5, <3>6
      <4>2. j.by \in Calls => at'[j.by] = at[j.by]
        BY <1>3, <3>6
      <4>3. j.row \in Calls /\ at[j.row] # "none" => at'[j.row] # "none"
        BY <1>3
      <4>4. phase' = phase /\ todo' = todo /\ cancelled' = cancelled
        BY <1>1 DEF history
      <4> QED BY <3>6, <4>1, <4>2, <4>3, <4>4 DEF JobInv
    <3>7. JobInv(job)'
      BY <3>3, <3>4, <3>5, DbAssumption DEF JobInv, User, Nobody
    <3> QED BY <1>2, <3>3, <3>4, <3>6, <3>7, QueueSubmit DEF UserInv
  <2>2. CASE ~(reply[c] = "ok" /\ Workload(kind[c]) /\ ~closed)
    <3>1. jobs' = jobs /\ reply' = reply
      BY <2>2 DEF Executed, executor
    <3>2. \A j \in Jobs : JobInv(j) => JobInv(j)'
      BY <1>1, <1>3, <3>1 DEF JobInv, history
    <3> QED BY <3>1, <3>2, QueueKept DEF UserInv
  <2> QED BY <2>1, <2>2
<1>5. TeardownInv' /\ ClosedInv'
  <2>1. InFlight = {} => FALSE
    BY <1>1 DEF InFlight
  <2> QED BY <1>1, <2>1 DEF UserInv, TeardownInv, ClosedInv, history
<1>6. UnmadeInv'
  BY <1>1, <1>3 DEF UserInv, UnmadeInv, Visible, db
<1> QED BY <1>4, <1>5, <1>6 DEF UserInv

\* UserInv after a call whose look-up has come back.
LEMMA LookedUpUser ==
  ASSUME TypeOK, UserInv, NEW c \in Calls, LookedUp(c), strategy' = strategy
  PROVE  UserInv'
<1>1. /\ at[c] = "lookup" /\ reply[c] # "none"
      /\ UNCHANGED <<phase, kind, executor, found, db, todo, client, failures, history>>
  BY DEF LookedUp
<1>2. /\ \A x \in Calls \ {c} : at'[x] = at[x]
      /\ at'[c] \in {"returned", "raised"}
  BY DEF LookedUp, Goes, TypeOK
<1>3. jobs' = jobs /\ reply' = reply
  BY <1>1 DEF executor
<1>4. \A j \in Jobs : JobInv(j) => JobInv(j)'
  BY <1>1, <1>2, <1>3 DEF JobInv, history
<1>5. TeardownInv' /\ ClosedInv'
  <2>1. InFlight = {} => FALSE
    BY <1>1 DEF InFlight
  <2> QED BY <1>1, <1>3, <2>1 DEF UserInv, TeardownInv, ClosedInv, history, db
<1>6. UnmadeInv'
  BY <1>1, <1>2 DEF UserInv, UnmadeInv, Visible, db
<1> QED BY <1>3, <1>4, <1>5, <1>6, QueueKept DEF UserInv

\* What a statement does to the rows of the connection.
LEMMA RunRows ==
  ASSUME TypeOK, RunJob
  PROVE  /\ committed' \subseteq Visible \cup {jobs[1].row}
         /\ Visible' \subseteq Visible \cup {jobs[1].row}
         /\ jobs[1].op # "insert" => Visible' \subseteq Visible
         /\ ~jobs[1].commit => committed' = committed
BY TakenOff DEF RunJob, Executes, StatementFails, Closes, After, Visible, db

\* UserInv after a statement in the executor.
LEMMA RunUser ==
  ASSUME TypeOK, UserInv, RunJob, strategy' = strategy
  PROVE  UserInv'
<1>1. UNCHANGED <<phase, at, kind, actions, todo, client, failures, history>>
  BY DEF RunJob
<1>2. QueueInv'
  BY QueueRun DEF UserInv
<1>3. TeardownInv'
  BY <1>1 DEF UserInv, TeardownInv, InFlight, history
<1>4. UnmadeInv'
  <2>1. jobs[1].op = "insert" => jobs[1].row \in Calls /\ at[jobs[1].row] # "none"
    <3>1. 1 \in 1..Len(jobs)
      BY TakenOff
    <3> QED BY <3>1 DEF UserInv, QueueInv, JobInv
  <2> QED BY <1>1, <2>1, RunRows DEF UserInv, UnmadeInv
<1>5. ClosedInv'
  <2>1. SUFFICES ASSUME ~cancelled, ~abandoned, phase \in {"aclose", "shutdown", "over"}
                 PROVE  /\ phase = "aclose" /\ ~open'
    BY <1>1 DEF ClosedInv, history
  <2>2. JobInv(jobs[1]) /\ jobs[1].by \in Calls \cup {User, Nobody}
    <3>1. 1 \in 1..Len(jobs) /\ jobs[1] \in Jobs
      BY TakenOff
    <3> QED BY <3>1 DEF UserInv, QueueInv, Jobs
  <2>3. jobs[1].by = User
    BY <2>1, <2>2 DEF JobInv, UserInv, TeardownInv, InFlight
  <2>4. phase = "aclose" /\ Head(jobs).op = "close"
    BY <2>1, <2>2, <2>3, TakenOff DEF JobInv
  <2>5. Closes
    BY <2>4 DEF RunJob
  <2> QED BY <2>4, <2>5 DEF Closes
<1> QED BY <1>2, <1>3, <1>4, <1>5 DEF UserInv

\* No statement of the teardown is waited for.
LEMMA AttemptsQueue ==
  ASSUME TypeOK, UserInv, NEW rest \in Seq(CleanupActions), Attempts(rest),
         phase # "aclose", phase = "cleanup" => reply[User] # "none",
         UNCHANGED <<at, cancelled>>
  PROVE  /\ QueueInv'
         /\ rest = <<>> => phase' = "clients" /\ todo' = <<>> /\ UNCHANGED executor
         /\ rest # <<>> => /\ phase' = "cleanup" /\ todo' = rest
                           /\ \A w \in Calls \cup {User} :
                                reply'[w] = IF w = User THEN "none" ELSE reply[w]
                           /\ Len(jobs') = Len(jobs) + 1 /\ Len(jobs) \in Nat
                           /\ \A i \in 1..Len(jobs) : jobs'[i] = jobs[i]
                           /\ jobs'[Len(jobs) + 1]
                                = Job(User, rest[Len(rest)].what, rest[Len(rest)].row, TRUE)
                           /\ Len(rest) \in 1..Len(rest)
<1>1. \A i \in 1..Len(jobs) : jobs[i].by # User
  BY DEF UserInv, QueueInv, JobInv
<1>2. CASE rest = <<>>
  <2>1. jobs' = jobs /\ reply' = reply /\ phase' = "clients" /\ todo' = <<>>
    BY <1>2 DEF Attempts, executor
  <2>2. ASSUME NEW i \in 1..Len(jobs) PROVE JobInv(jobs[i])'
    BY <1>1, <2>1 DEF UserInv, QueueInv, JobInv
  <2>3. QueueInv'
    BY <2>1, <2>2 DEF UserInv, QueueInv
  <2> QED BY <1>2, <2>1, <2>3 DEF executor
<1>3. CASE rest # <<>>
  <2>1. Len(rest) \in 1..Len(rest)
    BY <1>3, EmptySeq, LenProperties
  <2>2. rest[Len(rest)] \in CleanupActions
    BY <2>1, ElementOfSeq
  <2>3. Job(User, rest[Len(rest)].what, rest[Len(rest)].row, TRUE) \in Jobs
    BY <2>2 DEF CleanupActions, Jobs, Job, Ops
  <2>4. PICK job \in Jobs : job = Job(User, rest[Len(rest)].what, rest[Len(rest)].row, TRUE)
    BY <2>3
  <2>5. /\ job.by = User /\ job.op = rest[Len(rest)].what /\ job.row = rest[Len(rest)].row
        /\ job.commit /\ job.op \in Cleanups
    BY <2>2, <2>4 DEF Job, CleanupActions
  <2>6. Submit(job) /\ phase' = "cleanup" /\ todo' = rest
    BY <1>3, <2>4 DEF Attempts
  <2>7. \A w \in Calls \cup {User} : reply'[w] = IF w = User THEN "none" ELSE reply[w]
    BY <2>5, <2>6, Submitted
  <2>8. ASSUME NEW j \in Jobs, JobInv(j), j.by # User PROVE JobInv(j)'
    <3>1. j.by \in Calls => reply'[j.by] = reply[j.by]
      BY <2>7, <2>8
    <3> QED BY <2>8, <3>1 DEF JobInv
  <2>9. JobInv(job)'
    BY <2>5, <2>6, <2>7, DbAssumption DEF JobInv, User, Nobody, Cleanups
  <2>10. QueueInv'
    BY <1>1, <2>5, <2>6, <2>8, <2>9, QueueSubmit DEF UserInv
  <2> QED BY <1>3, <2>1, <2>4, <2>5, <2>6, <2>7, <2>10, Submitted
<1> QED BY <1>2, <1>3

\* The last action of a cleanup is one.
LEMMA TodoAction ==
  ASSUME TypeOK, UserInv, phase = "cleanup"
  PROVE  todo[Len(todo)] \in CleanupActions
<1>1. todo # <<>> /\ todo \in Seq(CleanupActions)
  BY DEF UserInv, TeardownInv, TypeOK
<1>2. Len(todo) \in 1..Len(todo)
  BY <1>1, EmptySeq, LenProperties
<1> QED BY <1>1, <1>2, ElementOfSeq

\* When the last action is over, the actions before it are left.
LEMMA RestOfTodo ==
  ASSUME TypeOK, ActionDone
  PROVE  \E rest \in Seq(CleanupActions) :
           /\ Attempts(rest)
           /\ Len(todo) \in Nat
           /\ Len(rest) = IF Len(todo) = 0 THEN 0 ELSE Len(todo) - 1
           /\ \A i \in 1..Len(rest) : rest[i] = todo[i] /\ i \in 1..Len(todo)
<1> DEFINE rest == SubSeq(todo, 1, Len(todo) - 1)
<1>1. Len(todo) \in Nat /\ \A i \in 1..Len(todo) - 1 : todo[i] \in CleanupActions
  BY LenProperties, ElementOfSeq DEF TypeOK
<1>2. /\ rest \in Seq(CleanupActions)
      /\ Len(rest) = IF 1 <= Len(todo) - 1 THEN Len(todo) - 1 - 1 + 1 ELSE 0
      /\ \A i \in 1..Len(todo) - 1 - 1 + 1 : rest[i] = todo[1 + i - 1]
  BY <1>1, SubSeqProperties
<1>3. /\ Len(rest) = IF Len(todo) = 0 THEN 0 ELSE Len(todo) - 1
      /\ \A i \in 1..Len(rest) : rest[i] = todo[i] /\ i \in 1..Len(todo)
  BY <1>1, <1>2
<1>4. Attempts(rest)
  BY DEF ActionDone
<1> HIDE DEF rest
<1> QED BY <1>1, <1>2, <1>3, <1>4

\* Of the queue of a user that is cancelled the first statement is left, if any.
LEMMA CancelledQueue ==
  ASSUME TypeOK, Cancel
  PROVE  \A i \in 1..Len(jobs') :
           /\ i = 1 /\ 1 \in 1..Len(jobs) /\ jobs'[i] \in Jobs /\ jobs'[i].by = Nobody
           /\ jobs'[i].op = jobs[1].op /\ jobs'[i].row = jobs[1].row
           /\ jobs'[i].commit = jobs[1].commit
<1>1. jobs' = <<>> \/ (jobs # <<>> /\ jobs' = <<[Head(jobs) EXCEPT !.by = Nobody]>>)
  BY DEF Cancel
<1>2. CASE jobs' = <<>>
  BY <1>2
<1>3. CASE jobs # <<>> /\ jobs' = <<[Head(jobs) EXCEPT !.by = Nobody]>>
  <2>1. Head(jobs) = jobs[1] /\ jobs[1] \in Jobs /\ 1 \in 1..Len(jobs)
    BY <1>3, HeadTailProperties, EmptySeq, ElementOfSeq DEF TypeOK
  <2>2. PICK j \in Jobs : j = jobs[1]
    BY <2>1
  <2>3. PICK n \in Jobs : n = [j EXCEPT !.by = Nobody]
    BY DEF Jobs
  <2>4. n.by = Nobody /\ n.op = j.op /\ n.row = j.row /\ n.commit = j.commit
    BY <2>3 DEF Jobs
  <2>5. jobs' = <<n>>
    BY <1>3, <2>1, <2>2, <2>3
  <2>6. \A i \in 1..Len(jobs') : i = 1 /\ jobs'[i] = n
    BY <2>5
  <2> QED BY <2>1, <2>2, <2>4, <2>6
<1> QED BY <1>1, <1>2, <1>3

\* UserInv after a cleanup action that has come back.
LEMMA CleanupUser ==
  ASSUME TypeOK, UserInv, BeginCleanup \/ ActionDone, strategy' = strategy
  PROVE  UserInv'
<1>1. PICK rest \in Seq(CleanupActions) : Attempts(rest)
  <2>1. CASE BeginCleanup
    BY <2>1 DEF BeginCleanup, TypeOK
  <2>2. CASE ActionDone
    BY <2>2, RestOfTodo
  <2> QED BY <2>1, <2>2
<1>2. /\ phase \in {"on_stop", "cleanup"}
      /\ phase = "cleanup" => reply[User] # "none"
      /\ UNCHANGED <<at, kind, found, db, registered, closed, history>>
  BY DEF BeginCleanup, ActionDone, client
<1>3. QueueInv' /\ phase' \in {"clients", "cleanup"} /\ (phase' = "cleanup" => todo' # <<>>)
  <2>1. phase # "aclose" /\ UNCHANGED <<at, cancelled>>
    BY <1>2 DEF history
  <2> QED BY <1>1, <1>2, <2>1, AttemptsQueue
<1>4. TeardownInv' /\ ClosedInv' /\ UnmadeInv'
  BY <1>2, <1>3 DEF UserInv, TeardownInv, ClosedInv, UnmadeInv, InFlight, Visible, db, history
<1> QED BY <1>3, <1>4 DEF UserInv

\* UserInv after the tasks.
LEMMA LeaveUser ==
  ASSUME TypeOK, UserInv, LeaveTasks, strategy' = strategy
  PROVE  UserInv'
<1>1. /\ phase = "tasks" /\ phase' = "on_stop" /\ abandoned' = (InFlight # {})
      /\ UNCHANGED <<at, kind, executor, found, db, actions, todo, client, failures, cancelled,
                   raced>>
  BY DEF LeaveTasks
<1>2. \A j \in Jobs : JobInv(j) => JobInv(j)'
  BY <1>1 DEF JobInv, executor
<1>3. QueueInv'
  BY <1>1, <1>2, QueueKept DEF UserInv, executor
<1>4. TeardownInv' /\ ClosedInv' /\ UnmadeInv'
  BY <1>1 DEF UserInv, TeardownInv, ClosedInv, UnmadeInv, InFlight, Visible, db
<1> QED BY <1>3, <1>4 DEF UserInv

\* UserInv after a step of the close.
LEMMA CloseUser ==
  ASSUME TypeOK, UserInv, CloseBegins, strategy' = strategy
  PROVE  UserInv'
<1>1. /\ phase = "clients" /\ phase' = "aclose"
      /\ UNCHANGED <<at, kind, found, db, actions, todo, client, failures, history>>
  BY DEF CloseBegins
<1>2. Job(User, "close", Old, FALSE) \in Jobs
  BY DEF Job, Jobs, Rows, Ops
<1>3. PICK job \in Jobs : job = Job(User, "close", Old, FALSE)
  BY <1>2
<1>4. job.by = User /\ job.op = "close" /\ Submit(job)
  BY <1>3 DEF Job, CloseBegins
<1>5. \A i \in 1..Len(jobs) : jobs[i].by # User
  BY <1>1 DEF UserInv, QueueInv, JobInv
<1>6. \A w \in Calls \cup {User} : reply'[w] = IF w = User THEN "none" ELSE reply[w]
  BY <1>4, Submitted
<1>7. ASSUME NEW j \in Jobs, JobInv(j), j.by # User PROVE JobInv(j)'
  <2>1. j.by \in Calls => reply'[j.by] = reply[j.by]
    BY <1>6, <1>7
  <2>2. UNCHANGED <<at, cancelled>>
    BY <1>1 DEF history
  <2> QED BY <1>7, <2>1, <2>2 DEF JobInv
<1>8. JobInv(job)'
  BY <1>1, <1>4, <1>6, DbAssumption DEF JobInv, User, Nobody
<1>9. QueueInv'
  BY <1>4, <1>5, <1>7, <1>8, QueueSubmit DEF UserInv
<1>10. TeardownInv' /\ ClosedInv' /\ UnmadeInv'
  BY <1>1, <1>6 DEF UserInv, TeardownInv, ClosedInv, UnmadeInv, InFlight, Visible, db, history
<1> QED BY <1>9, <1>10 DEF UserInv

\* UserInv after the shutdown of the executor.
LEMMA ShutDownUser ==
  ASSUME TypeOK, UserInv, CloseDone \/ ShutDown, strategy' = strategy
  PROVE  UserInv'
<1>1. /\ \/ phase = "aclose" /\ reply[User] # "none" /\ phase' = "shutdown"
         \/ phase = "shutdown" /\ phase' = "over"
      /\ UNCHANGED <<at, kind, executor, found, db, actions, todo, failures, history>>
  BY DEF CloseDone, ShutDown
<1>2. ASSUME NEW i \in 1..Len(jobs) PROVE JobInv(jobs[i])'
  BY <1>1 DEF UserInv, QueueInv, JobInv, executor, history
<1>3. QueueInv'
  BY <1>1, <1>2 DEF UserInv, QueueInv, executor
<1>4. TeardownInv' /\ ClosedInv' /\ UnmadeInv'
  BY <1>1 DEF UserInv, TeardownInv, ClosedInv, UnmadeInv, InFlight, Visible, db, history
<1> QED BY <1>3, <1>4 DEF UserInv

\* UserInv after a cancellation.
LEMMA CancelUser ==
  ASSUME TypeOK, UserInv, Cancel, strategy' = strategy
  PROVE  UserInv'
<1>1. /\ cancelled'
      /\ at' = [c \in Calls |-> IF c \in InFlight THEN "cancelled" ELSE at[c]]
      /\ phase' \in {"on_stop", "clients", "over", "shutdown"}
      /\ UNCHANGED <<kind, reply, found, db, actions, registered, pending, failures, abandoned,
                 raced>>
  BY DEF Cancel, TypeOK
<1>2. QueueInv'
  <2>1. ASSUME NEW i \in 1..Len(jobs') PROVE JobInv(jobs[i])'
    <3>1. PICK n \in Jobs : n = jobs'[i]
      BY CancelledQueue
    <3>2. PICK j \in Jobs : j = jobs[1] /\ JobInv(j)
      BY CancelledQueue, ElementOfSeq DEF TypeOK, UserInv, QueueInv
    <3>3. n.by = Nobody /\ n.op = j.op /\ n.row = j.row
      BY <3>1, <3>2, CancelledQueue
    <3>4. j.row \in Calls /\ at[j.row] # "none" => at'[j.row] # "none"
      BY <1>1
    <3>5. JobInv(n)'
      BY <1>1, <3>2, <3>3, <3>4, DbAssumption DEF JobInv, User, Nobody
    <3> QED BY <3>1, <3>5 DEF JobInv
  <2>2. \A i \in 1..Len(jobs') : i = 1
    BY CancelledQueue
  <2> QED BY <2>1, <2>2 DEF QueueInv
<1>4. TeardownInv'
  BY <1>1 DEF TeardownInv, InFlight
<1>5. UnmadeInv'
  BY <1>1 DEF UserInv, UnmadeInv, InFlight, Visible, db
<1>6. ClosedInv'
  BY <1>1 DEF ClosedInv
<1> QED BY <1>2, <1>4, <1>5, <1>6 DEF UserInv

LEMMA UserInductive == TypeOK /\ UserInv /\ [Next]_vars => UserInv'
<1> SUFFICES ASSUME TypeOK, UserInv, [Next]_vars PROVE UserInv'
  OBVIOUS
<1>1. CASE UNCHANGED vars
  BY <1>1 DEF UserInv, QueueInv, JobInv, TeardownInv, ClosedInv, UnmadeInv, InFlight, Visible,
              vars, moving, executor, db, client, history
<1>2. CASE Next
  <2>1. strategy' = strategy
    BY <1>2 DEF Next
  <2>2. CASE \E c \in Calls : CallStep(c)
    BY <2>1, <2>2, CallUser, ExecutedUser, LookedUpUser DEF CallStep
  <2>3. CASE Teardown
    BY <2>1, <2>3, CleanupUser, CloseUser, ShutDownUser DEF Teardown
  <2> QED BY <1>1, <1>2, <2>1, <2>2, <2>3, RunUser, LeaveUser, CancelUser DEF Next, Terminated
<1> QED BY <1>1, <1>2

\* Nobody awaits two statements, and the teardown waits for its calls and closes what it opened.
THEOREM UserCorrect == Spec => []UserInv
<1>1. Init => UserInv
  BY DbAssumption DEF Init, UserInv, QueueInv, TeardownInv, UnmadeInv, ClosedInv, Visible, Old
<1> QED BY <1>1, UserInductive, TypeCorrect, PTL DEF Spec

\* A user that is torn down in order leaves no connection open.
THEOREM ConnectionClosedHolds == Spec => []ConnectionClosed
<1>1. UserInv => ConnectionClosed
  BY DEF UserInv, ClosedInv, ConnectionClosed
<1> QED BY <1>1, UserCorrect, PTL

-----------------------------------------------------------------------------
(* The rows of others. *)

\* A twin of the old row has been inserted.
TwinUsed == \E c \in Twins : Inserts(kind[c])

\* What is deleted is the row of a call, or has the values of one.
SparesOld(op, row) == op \in {"delete_row", "delete_values"} => TwinUsed \/ ~Same(Old, row)

JobsSpare    == \A i \in 1..Len(jobs) : SparesOld(jobs[i].op, jobs[i].row)
ActionsSpare == \A i \in 1..Len(actions) : SparesOld(actions[i].what, actions[i].row)
TodoSpare    == \A i \in 1..Len(todo) : SparesOld(todo[i].what, todo[i].row)

\* The row of others is there, and nothing is queued, registered or found that deletes it.
OthersInv ==
  /\ Old \in committed \/ TwinUsed
  /\ \A c \in Calls : \A r \in found[c] : Same(r, c)
  /\ \A c \in Calls : at[c] = "lookup" => Workload(kind[c])
  /\ JobsSpare /\ ActionsSpare /\ TodoSpare

\* Appending to a list.
LEMMA Appended ==
  ASSUME NEW T, NEW q \in Seq(T), NEW m \in T
  PROVE  /\ Len(q) \in Nat /\ Len(Append(q, m)) = Len(q) + 1
         /\ \A i \in 1..Len(q) : Append(q, m)[i] = q[i]
         /\ Append(q, m)[Len(q) + 1] = m
         /\ \A i \in 1..Len(q) + 1 : i \in 1..Len(q) \/ i = Len(q) + 1
OBVIOUS

\* A call that is made, whatever becomes of it, takes no twin back.
LEMMA TwinsStay ==
  ASSUME TypeOK, UserInv, [Next]_vars, TwinUsed
  PROVE  TwinUsed'
<1>1. CASE \E c \in Calls : Call(c)
  <2>1. PICK c \in Calls : Call(c)
    BY <1>1
  <2>2. at[c] = "none" /\ \E k \in Kinds : kind' = [kind EXCEPT ![c] = k]
    BY <2>1 DEF Call
  <2>3. kind[c] = "none"
    BY <2>2 DEF UserInv, UnmadeInv
  <2>4. ~Inserts(kind[c])
    BY <2>3 DEF Inserts, Tracked, Workload
  <2> QED BY <2>2, <2>4, DbAssumption DEF TwinUsed, TypeOK
<1>2. CASE ~\E c \in Calls : Call(c)
  <2>1. kind' = kind
    BY <1>2 DEF Next, CallStep, Executed, LookedUp, RunJob, LeaveTasks, Teardown, BeginCleanup,
                ActionDone, CloseBegins, CloseDone, ShutDown, Cancel, Terminated, vars, moving
  <2> QED BY <2>1 DEF TwinUsed
<1> QED BY <1>1, <1>2

\* What has the values of the old row is a twin.
LEMMA TwinOfRow ==
  ASSUME TypeOK, NEW c \in Calls, NEW r \in Rows, Same(r, c), Inserts(kind[c])
  PROVE  TwinUsed \/ ~Same(Old, r)
BY DbAssumption DEF Same, Rows, Old, TwinUsed

\* OthersInv after a call.
LEMMA OthersCall ==
  ASSUME TypeOK, UserInv, OthersInv, NEW c \in Calls, Call(c), TwinUsed => TwinUsed'
  PROVE  OthersInv'
<1>1. PICK k \in Kinds, asked \in BOOLEAN :
        /\ kind' = [kind EXCEPT ![c] = k]
        /\ IF Refused(k, Commits(k, asked))
           THEN Goes(c, "raised") /\ UNCHANGED <<executor, raced>>
           ELSE /\ Goes(c, "execute")
                /\ Races(k, asked)
                /\ Submit(Job(c, IF Inserts(k) THEN "insert" ELSE k, c, Commits(k, asked)))
  BY DEF Call
<1>2. /\ at[c] = "none"
      /\ UNCHANGED <<phase, found, db, actions, todo, client, failures, cancelled, abandoned>>
  BY DEF Call
<1>3. /\ \A x \in Calls \ {c} : at'[x] = at[x] /\ kind'[x] = kind[x]
      /\ at'[c] \in {"execute", "raised"}
  BY <1>1 DEF Goes, TypeOK
<1>4. JobsSpare'
  <2>1. CASE Refused(k, Commits(k, asked))
    BY <1>1, <2>1 DEF OthersInv, JobsSpare, ActionsSpare, TodoSpare, SparesOld, executor
  <2>2. CASE ~Refused(k, Commits(k, asked))
    <3> DEFINE op == IF Inserts(k) THEN "insert" ELSE k
    <3>1. op \in {"insert", "statement", "query"}
      BY DbAssumption DEF Inserts, Tracked, Workload, CallKinds
    <3>2. /\ Len(jobs) \in Nat /\ Len(jobs') = Len(jobs) + 1
          /\ \A i \in 1..Len(jobs) : jobs'[i] = jobs[i]
          /\ jobs'[Len(jobs) + 1] = Job(c, op, c, Commits(k, asked))
          /\ \A i \in 1..Len(jobs') : i \in 1..Len(jobs) \/ i = Len(jobs) + 1
      <4>1. Commits(k, asked) \in BOOLEAN
        BY Zenon DEF Commits
      <4>2. Job(c, op, c, Commits(k, asked)) \in Jobs
        BY <3>1, <4>1 DEF Job, Jobs, Rows, Ops
      <4> HIDE DEF op
      <4>3. jobs' = Append(jobs, Job(c, op, c, Commits(k, asked)))
        BY <1>1, <2>2 DEF Submit, op
      <4> QED BY <4>2, <4>3, Appended DEF TypeOK
    <3>3. jobs'[Len(jobs) + 1].op \in {"insert", "statement", "query"}
      BY <3>1, <3>2 DEF Job
    <3> QED BY <3>2, <3>3 DEF OthersInv, JobsSpare, ActionsSpare, TodoSpare, SparesOld
  <2> QED BY <2>1, <2>2
<1> QED BY <1>2, <1>3, <1>4 DEF OthersInv, JobsSpare, ActionsSpare, TodoSpare, SparesOld, db

\* OthersInv after a call whose statement has come back.
LEMMA OthersExecuted ==
  ASSUME TypeOK, UserInv, OthersInv, NEW c \in Calls, Executed(c), strategy' = strategy
  PROVE  OthersInv'
<1>1. UNCHANGED <<phase, kind, found, db, todo, failures, history>> /\ at[c] = "execute"
  BY DEF Executed
<1>2. JobsSpare'
  <2>1. CASE reply[c] = "ok" /\ Workload(kind[c]) /\ ~closed
    <3>1. jobs' = Append(jobs, Job(c, "query", c, FALSE)) /\ jobs \in Seq(Jobs)
      BY <2>1 DEF Executed, Submit, TypeOK
    <3>2. PICK job \in Jobs : job = Job(c, "query", c, FALSE) /\ job.op = "query"
      <4>1. Job(c, "query", c, FALSE) \in Jobs
        BY DEF Job, Jobs, Rows, Ops
      <4> QED BY <4>1 DEF Job
    <3>3. /\ Len(jobs) \in Nat /\ Len(jobs') = Len(jobs) + 1
          /\ \A i \in 1..Len(jobs) : jobs'[i] = jobs[i]
          /\ jobs'[Len(jobs) + 1] = job
          /\ \A i \in 1..Len(jobs') : i \in 1..Len(jobs) \/ i = Len(jobs) + 1
      <4>1. jobs' = Append(jobs, job) /\ jobs \in Seq(Jobs)
        BY <3>1, <3>2
      <4>2. Len(Append(jobs, job)) = Len(jobs) + 1
        BY <4>1, LenProperties, AppendProperties
      <4> QED BY <4>1, <4>2, Appended
    <3> QED BY <1>1, <3>2, <3>3 DEF OthersInv, JobsSpare, ActionsSpare, TodoSpare, SparesOld, TwinUsed
  <2>2. CASE ~(reply[c] = "ok" /\ Workload(kind[c]) /\ ~closed)
    BY <1>1, <2>2 DEF Executed, OthersInv, JobsSpare, SparesOld, TwinUsed, executor
  <2> QED BY <2>1, <2>2
<1>3. ActionsSpare'
  <2>1. CASE /\ Tracked(kind[c])
             /\ \E what \in {"delete_values", "rollback"} : actions' = Append(actions, Action(what, c))
    <3>1. PICK what \in {"delete_values", "rollback"} : actions' = Append(actions, Action(what, c))
      BY <2>1
    <3>2. Action(what, c) \in CleanupActions /\ Action(what, c).row = c /\ c \in Rows
      BY <3>1, ActionType DEF Cleanups, Rows, Action
    <3>3. /\ Len(actions) \in Nat /\ Len(actions') = Len(actions) + 1
          /\ \A i \in 1..Len(actions) : actions'[i] = actions[i]
          /\ actions'[Len(actions) + 1].row = c
          /\ \A i \in 1..Len(actions') : i \in 1..Len(actions) \/ i = Len(actions) + 1
      BY <3>1, <3>2, Appended DEF TypeOK
    <3>4. TwinUsed \/ ~Same(Old, c)
      BY <2>1, <3>2, TwinOfRow DEF Same, Inserts
    <3> QED BY <1>1, <3>3, <3>4 DEF OthersInv, JobsSpare, ActionsSpare, TodoSpare, SparesOld, TwinUsed
  <2>2. CASE actions' = actions
    BY <1>1, <2>2 DEF OthersInv, JobsSpare, ActionsSpare, TodoSpare, SparesOld, TwinUsed
  <2> QED BY <2>1, <2>2 DEF Executed, Registers
<1>4. \A x \in Calls : at'[x] = "lookup" => Workload(kind'[x])
  BY <1>1 DEF Executed, Goes, TypeOK, OthersInv
<1> QED BY <1>1, <1>2, <1>3, <1>4 DEF OthersInv, JobsSpare, ActionsSpare, TodoSpare, SparesOld, TwinUsed, db

\* OthersInv after a call whose look-up has come back.
LEMMA OthersLookedUp ==
  ASSUME TypeOK, UserInv, OthersInv, NEW c \in Calls, LookedUp(c), strategy' = strategy
  PROVE  OthersInv'
<1>1. UNCHANGED <<phase, kind, executor, found, db, todo, client, failures, history>>
      /\ at[c] = "lookup"
  BY DEF LookedUp
<1>2. ActionsSpare'
  <2>1. CASE reply[c] = "ok" /\ found[c] # {}
    <3>1. PICK r \in found[c] :
            actions' = Append(actions, Action(IF strategy = "rollback" THEN "rollback"
                                              ELSE "delete_row", r))
      BY <2>1 DEF LookedUp
    <3> DEFINE what == IF strategy = "rollback" THEN "rollback" ELSE "delete_row"
    <3>2. r \in Rows /\ Action(what, r) \in CleanupActions /\ Action(what, r).row = r
      BY ActionType DEF Cleanups, TypeOK, Action
    <3> HIDE DEF what
    <3>3. /\ Len(actions) \in Nat /\ Len(actions') = Len(actions) + 1
          /\ \A i \in 1..Len(actions) : actions'[i] = actions[i]
          /\ actions'[Len(actions) + 1].row = r
          /\ \A i \in 1..Len(actions') : i \in 1..Len(actions) \/ i = Len(actions) + 1
      BY <3>1, <3>2, Appended DEF TypeOK, what
    <3>4. TwinUsed \/ ~Same(Old, r)
      BY <1>1, <3>2, TwinOfRow DEF OthersInv, Inserts
    <3> QED BY <1>1, <3>3, <3>4 DEF OthersInv, JobsSpare, ActionsSpare, TodoSpare, SparesOld, TwinUsed
  <2>2. CASE actions' = actions
    BY <1>1, <2>2 DEF OthersInv, JobsSpare, ActionsSpare, TodoSpare, SparesOld, TwinUsed
  <2> QED BY <2>1, <2>2 DEF LookedUp
<1>3. \A x \in Calls : at'[x] = "lookup" => Workload(kind'[x])
  BY <1>1 DEF LookedUp, Goes, TypeOK, OthersInv
<1> QED BY <1>1, <1>2, <1>3 DEF OthersInv, JobsSpare, ActionsSpare, TodoSpare, SparesOld, TwinUsed, db, executor

\* OthersInv after a statement in the executor.
LEMMA OthersRun ==
  ASSUME TypeOK, UserInv, OthersInv, RunJob, strategy' = strategy
  PROVE  OthersInv'
<1>1. UNCHANGED <<phase, at, kind, actions, todo, client, failures, history>>
  BY DEF RunJob
<1>2. SparesOld(jobs[1].op, jobs[1].row) /\ Head(jobs) = jobs[1] /\ jobs[1] \in Jobs
  <2>1. 1 \in 1..Len(jobs) /\ Head(jobs) = jobs[1] /\ jobs[1] \in Jobs
    BY TakenOff
  <2> QED BY <2>1 DEF OthersInv, JobsSpare
<1>3. (Old \in committed \/ TwinUsed)'
  <2>1. SUFFICES ASSUME Old \in committed, ~TwinUsed PROVE Old \in committed'
    BY <1>1 DEF OthersInv, TwinUsed
  <2>2. Old \in After(jobs[1])
    BY <1>2, <2>1 DEF After, Visible, SparesOld, Same
  <2> QED BY <1>2, <2>1, <2>2 DEF RunJob, Executes, StatementFails, Closes, db
<1>4. JobsSpare'
  BY <1>1, TakenOff DEF OthersInv, JobsSpare, SparesOld, TwinUsed
<1>5. \A c \in Calls : \A r \in found'[c] : Same(r, c)
  <2>1. \/ found' = found
        \/ \E b \in Calls : found' = [found EXCEPT ![b] = {r \in Visible : Same(r, b)}]
    BY <1>2 DEF RunJob
  <2> QED BY <2>1 DEF OthersInv, TypeOK
<1> QED BY <1>1, <1>3, <1>4, <1>5 DEF OthersInv, ActionsSpare, TodoSpare, SparesOld, TwinUsed

\* OthersInv after a cleanup action that has come back.
LEMMA OthersCleanup ==
  ASSUME TypeOK, UserInv, OthersInv, BeginCleanup \/ ActionDone, strategy' = strategy
  PROVE  OthersInv'
<1>1. PICK rest \in Seq(CleanupActions) :
        /\ Attempts(rest)
        /\ \A i \in 1..Len(rest) : SparesOld(rest[i].what, rest[i].row)
  <2>1. CASE BeginCleanup
    BY <2>1 DEF BeginCleanup, TypeOK, OthersInv, ActionsSpare
  <2>2. CASE ActionDone
    BY <2>2, RestOfTodo DEF OthersInv, TodoSpare
  <2> QED BY <2>1, <2>2
<1>2. /\ phase # "aclose" /\ (phase = "cleanup" => reply[User] # "none")
      /\ UNCHANGED <<at, kind, found, db, cancelled>>
      /\ actions' = <<>> \/ actions' = actions
  BY DEF BeginCleanup, ActionDone, history
<1>3. CASE rest = <<>>
  <2>1. todo' = <<>> /\ jobs' = jobs
    BY <1>3, <1>1 DEF Attempts, executor
  <2> QED BY <1>2, <2>1 DEF OthersInv, JobsSpare, ActionsSpare, TodoSpare, SparesOld, TwinUsed, db
<1>4. CASE rest # <<>>
  <2>1. /\ todo' = rest
        /\ Len(jobs') = Len(jobs) + 1 /\ Len(jobs) \in Nat
        /\ \A i \in 1..Len(jobs) : jobs'[i] = jobs[i]
        /\ jobs'[Len(jobs) + 1] = Job(User, rest[Len(rest)].what, rest[Len(rest)].row, TRUE)
        /\ Len(rest) \in 1..Len(rest)
    BY <1>1, <1>2, <1>4, AttemptsQueue
  <2>2. \A i \in 1..Len(jobs') : i \in 1..Len(jobs) \/ i = Len(jobs) + 1
    BY <2>1
  <2>3. JobsSpare'
    BY <1>1, <1>2, <2>1, <2>2 DEF OthersInv, JobsSpare, SparesOld, TwinUsed, Job
  <2> QED BY <1>1, <1>2, <2>1, <2>3 DEF OthersInv, ActionsSpare, TodoSpare, SparesOld, TwinUsed, db
<1> QED BY <1>3, <1>4

\* OthersInv after the steps that end the teardown.
LEMMA OthersEnd ==
  ASSUME TypeOK, UserInv, OthersInv, LeaveTasks \/ CloseBegins \/ CloseDone \/ ShutDown \/ Cancel
  PROVE  OthersInv'
<1>1. /\ UNCHANGED <<kind, found, db, actions>>
      /\ todo' = todo \/ todo' = <<>>
      /\ \A c \in Calls : at'[c] = "lookup" => at[c] = "lookup"
  BY DEF LeaveTasks, CloseBegins, CloseDone, ShutDown, Cancel
<1>2. JobsSpare'
  <2>1. CASE CloseBegins
    <3>1. PICK job \in Jobs : job = Job(User, "close", Old, FALSE) /\ job.op = "close"
      <4>1. Job(User, "close", Old, FALSE) \in Jobs
        BY DEF Job, Jobs, Rows, Ops
      <4> QED BY <4>1 DEF Job
    <3>2. jobs' = Append(jobs, job)
      BY <2>1, <3>1 DEF CloseBegins, Submit
    <3>3. /\ Len(jobs) \in Nat /\ Len(jobs') = Len(jobs) + 1
          /\ \A i \in 1..Len(jobs) : jobs'[i] = jobs[i]
          /\ jobs'[Len(jobs) + 1] = job
          /\ \A i \in 1..Len(jobs') : i \in 1..Len(jobs) \/ i = Len(jobs) + 1
      <4>1. jobs' = Append(jobs, job) /\ jobs \in Seq(Jobs)
        BY <3>1, <3>2 DEF TypeOK
      <4>2. Len(Append(jobs, job)) = Len(jobs) + 1
        BY <4>1, LenProperties, AppendProperties
      <4> QED BY <4>1, <4>2, Appended
    <3> QED BY <1>1, <3>1, <3>3 DEF OthersInv, JobsSpare, SparesOld, TwinUsed
  <2>2. CASE Cancel
    BY <1>1, <2>2, CancelledQueue DEF OthersInv, JobsSpare, SparesOld, TwinUsed
  <2>3. CASE LeaveTasks \/ CloseDone \/ ShutDown
    <3>1. jobs' = jobs
      BY <2>3 DEF LeaveTasks, CloseDone, ShutDown, executor
    <3> QED BY <1>1, <3>1 DEF OthersInv, JobsSpare, SparesOld, TwinUsed
  <2> QED BY <2>1, <2>2, <2>3
<1> QED BY <1>1, <1>2 DEF OthersInv, ActionsSpare, TodoSpare, SparesOld, TwinUsed, db

LEMMA OthersInductive == TypeOK /\ UserInv /\ OthersInv /\ [Next]_vars => OthersInv'
<1> SUFFICES ASSUME TypeOK, UserInv, OthersInv, [Next]_vars PROVE OthersInv'
  OBVIOUS
<1>1. CASE UNCHANGED vars
  BY <1>1 DEF OthersInv, JobsSpare, ActionsSpare, TodoSpare, SparesOld, TwinUsed,
              vars, moving, executor, db
<1>2. CASE Next
  <2>1. strategy' = strategy /\ (TwinUsed => TwinUsed')
    BY <1>2, TwinsStay DEF Next
  <2>2. CASE \E c \in Calls : CallStep(c)
    BY <2>1, <2>2, OthersCall, OthersExecuted, OthersLookedUp DEF CallStep
  <2>3. CASE Teardown
    BY <2>1, <2>3, OthersCleanup, OthersEnd DEF Teardown
  <2> QED BY <1>1, <1>2, <2>1, <2>2, <2>3, OthersRun, OthersEnd DEF Next, Terminated
<1> QED BY <1>1, <1>2

\* The row of others is deleted only if the user has inserted one with its values.
THEOREM OthersSurviveHolds == Spec => []OthersSurvive
<1>1. Init => OthersInv
  BY DEF Init, OthersInv, JobsSpare, ActionsSpare, TodoSpare
<1>2. OthersInv => OthersSurvive
  BY DEF OthersInv, OthersSurvive, TwinUsed
<1> QED BY <1>1, <1>2, OthersInductive, UserCorrect, TypeCorrect, PTL DEF Spec

-----------------------------------------------------------------------------
(* Rollback. *)

\* None of the rows is of a tracked insert, except of those that raced.
NoTracked(rows) == \A c \in Calls \cap rows : Tracked(kind[c]) => c \in raced

\* The statement inserts no such row.
NoInsert(job) == job.op = "insert" /\ Tracked(kind[job.row]) => job.row \in raced

\* In the queue nothing but a plain statement commits rows, and of a tracked insert it
\* commits neither what is executed nor what is queued before it.
JobsRollBack ==
  \A i \in 1..Len(jobs) :
    /\ jobs[i].op \in {"insert", "query"} => ~jobs[i].commit
    /\ jobs[i].op \notin {"delete_row", "delete_values"}
    /\ jobs[i].op = "statement" /\ jobs[i].commit =>
         /\ NoTracked(tx)
         /\ \A j \in 1..Len(jobs) : j < i => NoInsert(jobs[j])

\* While the tasks run, an insert that waits for the rollback is pending, or about to be.
InsertsPend ==
  phase = "tasks" =>
    \A c \in Calls \cap tx : Tracked(kind[c]) => pending \/ (at[c] = "execute" /\ reply[c] = "ok")

\* The cleanup registered, and what is left of it, is by rollback only.
ActionsRollBack == \A i \in 1..Len(actions) : actions[i].what = "rollback"
TodoRollsBack   == \A i \in 1..Len(todo) : todo[i].what = "rollback"

\* All of it: what is committed has no tracked row.
RollbackParts ==
  /\ JobsRollBack /\ InsertsPend /\ ActionsRollBack /\ TodoRollsBack
  /\ NoTracked(committed)

RollbackInv == strategy = "rollback" => RollbackParts

\* A statement that commits nothing is appended to the queue.
LEMMA RollbackSubmit ==
  ASSUME TypeOK, JobsRollBack, UNCHANGED <<kind, tx, raced>>,
         NEW job \in Jobs, job.by \in Calls \cup {User}, Submit(job),
         job.op \in {"query", "rollback", "close"}, job.op = "query" => ~job.commit
  PROVE  JobsRollBack'
<1>1. (NoTracked(tx) => NoTracked(tx)') /\ \A j \in Jobs : NoInsert(j) => NoInsert(j)'
  BY DEF NoTracked, NoInsert
<1>2. \A i \in 1..Len(jobs) : jobs[i] \in Jobs
  BY ElementOfSeq DEF TypeOK
<1> QED BY <1>1, <1>2, Submitted DEF JobsRollBack

\* RollbackInv after a call.
LEMMA RollbackCall ==
  ASSUME TypeOK, UserInv, strategy = "rollback", RollbackParts, NEW c \in Calls, Call(c)
  PROVE  RollbackParts'
<1>1. PICK k \in Kinds, asked \in BOOLEAN :
        /\ kind' = [kind EXCEPT ![c] = k]
        /\ IF Refused(k, Commits(k, asked))
           THEN Goes(c, "raised") /\ UNCHANGED <<executor, raced>>
           ELSE /\ Goes(c, "execute")
                /\ Races(k, asked)
                /\ Submit(Job(c, IF Inserts(k) THEN "insert" ELSE k, c, Commits(k, asked)))
  BY DEF Call
<1>2. /\ at[c] = "none" /\ phase = "tasks"
      /\ UNCHANGED <<phase, found, db, actions, todo, client, failures, cancelled, abandoned>>
  BY DEF Call
<1>3. /\ \A x \in Calls \ {c} : at'[x] = at[x] /\ kind'[x] = kind[x]
      /\ c \notin committed /\ c \notin tx
      /\ raced \subseteq raced'
  <2>1. raced \subseteq raced'
    BY <1>1 DEF Races
  <2> QED BY <1>1, <1>2, <2>1 DEF Goes, TypeOK, UserInv, UnmadeInv, Visible
<1>4. \A i \in 1..Len(jobs) :
        /\ jobs[i] \in Jobs
        /\ jobs[i].op = "insert" =>
             /\ jobs[i].row \in Calls \ {c}
             /\ at[jobs[i].row] = "execute"
  <2>1. SUFFICES ASSUME NEW i \in 1..Len(jobs), jobs[i].op = "insert"
                 PROVE  jobs[i].row \in Calls \ {c} /\ at[jobs[i].row] = "execute"
    BY ElementOfSeq DEF TypeOK
  <2>2. jobs[i] \in Jobs /\ JobInv(jobs[i])
    BY ElementOfSeq DEF TypeOK, UserInv, QueueInv
  <2>3. jobs[i].by \in Calls
    BY <1>2, <2>2 DEF Jobs, JobInv, UserInv, TeardownInv
  <2> QED BY <1>2, <2>1, <2>2, <2>3 DEF JobInv
<1>5. InsertsPend'
  <2>1. \A x \in Calls \ {c} : reply'[x] = reply[x]
    <3>1. \A w \in Calls \ {c} : [reply EXCEPT ![c] = "none"][w] = reply[w]
      BY DEF TypeOK
    <3> QED BY <1>1, <3>1 DEF executor, Submit, Job
  <2> QED BY <1>2, <1>3, <2>1 DEF RollbackParts, InsertsPend, client, db
<1>6. NoTracked(committed)' /\ (NoTracked(tx) => NoTracked(tx)')
  BY <1>2, <1>3 DEF RollbackParts, NoTracked, db
<1>7. ASSUME NEW i \in 1..Len(jobs), NoInsert(jobs[i]), jobs'[i] = jobs[i]
      PROVE  NoInsert(jobs[i])'
  BY <1>3, <1>4, <1>7 DEF NoInsert
<1>8. JobsRollBack'
  <2>1. CASE Refused(k, Commits(k, asked))
    <3>1. jobs' = jobs
      BY <1>1, <2>1 DEF executor
    <3>2. \A i \in 1..Len(jobs) : NoInsert(jobs[i]) => NoInsert(jobs[i])'
      BY <1>7, <3>1
    <3> QED BY <1>6, <3>1, <3>2 DEF JobsRollBack, RollbackParts
  <2>2. CASE ~Refused(k, Commits(k, asked))
    <3> DEFINE op == IF Inserts(k) THEN "insert" ELSE k
    <3>1. /\ op \in {"insert", "statement", "query"}
          /\ op = "statement" => k = "statement"
          /\ op \in {"insert", "query"} => ~Commits(k, asked)
      BY DbAssumption DEF Inserts, Tracked, Workload, CallKinds, Commits
    <3>2. Commits(k, asked) \in BOOLEAN
      BY Zenon DEF Commits
    <3>3. PICK job \in Jobs : job = Job(c, op, c, Commits(k, asked))
      <4>1. Job(c, op, c, Commits(k, asked)) \in Jobs
        BY <3>1, <3>2 DEF Job, Jobs, Rows, Ops
      <4> QED BY <4>1
    <3>4. /\ job.op = op /\ job.by = c
          /\ job.op \in {"insert", "query"} => ~job.commit
          /\ job.commit <=> Commits(k, asked)
      BY <3>1, <3>3 DEF Job
    <3>5. ASSUME job.op = "statement", job.commit
          PROVE  NoTracked(tx)' /\ \A j \in 1..Len(jobs) : jobs'[j] = jobs[j] => NoInsert(jobs[j])'
      <4>1. pending = FALSE /\ k = "statement" /\ Commits(k, asked)
        BY <2>2, <3>1, <3>4, <3>5 DEF Refused, Tracked, TypeOK
      <4>2. raced' = raced \cup {b \in Calls : at[b] = "execute" /\ Tracked(kind[b])}
        BY <1>1, <2>2, <4>1 DEF Races
      <4>3. NoTracked(tx)'
        BY <1>2, <1>3, <4>1, <4>2 DEF NoTracked, RollbackParts, InsertsPend, db
      <4>4. ASSUME NEW j \in 1..Len(jobs), jobs'[j] = jobs[j] PROVE NoInsert(jobs[j])'
        BY <1>3, <1>4, <4>2, <4>4 DEF NoInsert
      <4> QED BY <4>3, <4>4
    <3>6. Submit(job) /\ job.by \in Calls \cup {User}
      BY <1>1, <2>2, <3>3, <3>4
    <3> HIDE DEF op
    <3>7. /\ Len(jobs) \in Nat /\ Len(jobs') = Len(jobs) + 1
          /\ \A i \in 1..Len(jobs) : jobs'[i] = jobs[i]
          /\ jobs'[Len(jobs) + 1] = job
          /\ \A i \in 1..Len(jobs') : i \in 1..Len(jobs) \/ i = Len(jobs) + 1
      BY <3>6, Submitted
    <3>8. \A i \in 1..Len(jobs) : NoInsert(jobs[i]) => NoInsert(jobs[i])'
      BY <1>7, <3>7
    <3>9. ASSUME NEW i \in 1..Len(jobs'), jobs'[i].op = "statement", jobs'[i].commit
          PROVE  NoTracked(tx)' /\ \A j \in 1..Len(jobs') : j < i => NoInsert(jobs[j])'
      <4>1. CASE i \in 1..Len(jobs)
        <5>1. NoTracked(tx) /\ \A j \in 1..Len(jobs) : j < i => NoInsert(jobs[j])
          BY <3>7, <3>9, <4>1 DEF JobsRollBack, RollbackParts
        <5>2. \A j \in 1..Len(jobs') : j < i => j \in 1..Len(jobs)
          BY <3>7, <4>1
        <5> QED BY <1>6, <3>8, <5>1, <5>2
      <4>2. CASE i = Len(jobs) + 1
        <5>1. NoTracked(tx)' /\ \A j \in 1..Len(jobs) : NoInsert(jobs[j])'
          BY <3>5, <3>7, <3>9, <4>2
        <5>2. \A j \in 1..Len(jobs') : j < i => j \in 1..Len(jobs)
          BY <3>7, <4>2
        <5> QED BY <5>1, <5>2
      <4> QED BY <3>7, <4>1, <4>2
    <3>10. \A i \in 1..Len(jobs') :
             /\ jobs'[i].op \in {"insert", "query"} => ~jobs'[i].commit
             /\ jobs'[i].op \notin {"delete_row", "delete_values"}
      BY <3>1, <3>4, <3>7 DEF JobsRollBack, RollbackParts
    <3> QED BY <3>9, <3>10 DEF JobsRollBack
  <2> QED BY <2>1, <2>2
<1> QED BY <1>2, <1>5, <1>6, <1>8 DEF RollbackParts, ActionsRollBack, TodoRollsBack

\* RollbackInv after a call whose statement has come back.
LEMMA RollbackExecuted ==
  ASSUME TypeOK, UserInv, strategy = "rollback", RollbackParts, NEW c \in Calls, Executed(c)
  PROVE  RollbackParts'
<1>1. UNCHANGED <<phase, kind, found, db, todo, failures, history>> /\ at[c] = "execute"
  BY DEF Executed
<1>2. JobsRollBack'
  <2>1. CASE reply[c] = "ok" /\ Workload(kind[c]) /\ ~closed
    <3>1. PICK job \in Jobs : job = Job(c, "query", c, FALSE) /\ job.op = "query" /\ ~job.commit
      <4>1. Job(c, "query", c, FALSE) \in Jobs
        BY DEF Job, Jobs, Rows, Ops
      <4> QED BY <4>1 DEF Job
    <3>2. Submit(job) /\ job.by \in Calls \cup {User}
      BY <2>1, <3>1 DEF Executed, Job
    <3>3. UNCHANGED <<kind, tx, raced>>
      BY <1>1 DEF db, history
    <3> QED BY <3>1, <3>2, <3>3, RollbackSubmit DEF RollbackParts
  <2>2. CASE ~(reply[c] = "ok" /\ Workload(kind[c]) /\ ~closed)
    BY <1>1, <2>2 DEF Executed, RollbackParts, JobsRollBack, NoTracked, NoInsert, executor, db,
                      history
  <2> QED BY <2>1, <2>2
<1>3. ActionsRollBack' /\ (pending => pending')
      /\ (reply[c] = "ok" /\ Tracked(kind[c]) => pending')
  <2>1. Action("rollback", c) \in CleanupActions /\ Action("rollback", c).what = "rollback"
    BY DEF Action, CleanupActions, Cleanups, Rows
  <2>2. CASE actions' = Append(actions, Action("rollback", c))
    <3>1. ActionsRollBack'
      BY <2>1, <2>2, Appended DEF RollbackParts, ActionsRollBack, TypeOK
    <3> QED BY <3>1 DEF Executed, Registers, client
  <2>3. CASE actions' = actions
    BY <2>3 DEF Executed, Registers, client, RollbackParts, ActionsRollBack
  <2> QED BY <2>2, <2>3 DEF Executed, Registers
<1>4. InsertsPend'
  <2>1. \A x \in Calls \ {c} : at'[x] = at[x] /\ reply'[x] = reply[x]
    <3>1. \A w \in Calls \ {c} : [reply EXCEPT ![c] = "none"][w] = reply[w]
      BY DEF TypeOK
    <3> QED BY <3>1 DEF Executed, executor, Submit, Job, Goes, TypeOK
  <2> QED BY <1>1, <1>3, <2>1 DEF RollbackParts, InsertsPend, db
<1> QED BY <1>1, <1>2, <1>3, <1>4 DEF RollbackParts, TodoRollsBack, NoTracked, db, history

\* RollbackInv after a call whose look-up has come back.
LEMMA RollbackLookedUp ==
  ASSUME TypeOK, UserInv, strategy = "rollback", RollbackParts, NEW c \in Calls, LookedUp(c)
  PROVE  RollbackParts'
<1>1. UNCHANGED <<phase, kind, executor, found, db, todo, client, failures, history>>
      /\ at[c] = "lookup"
  BY DEF LookedUp
<1>2. ActionsRollBack'
  <2>1. CASE reply[c] = "ok" /\ found[c] # {}
    <3>1. PICK r \in found[c] : actions' = Append(actions, Action("rollback", r))
      BY <2>1 DEF LookedUp
    <3>2. Action("rollback", r) \in CleanupActions /\ Action("rollback", r).what = "rollback"
      BY DEF Action, CleanupActions, Cleanups, TypeOK
    <3> QED BY <3>1, <3>2, Appended DEF RollbackParts, ActionsRollBack, TypeOK
  <2>2. CASE actions' = actions
    BY <2>2 DEF RollbackParts, ActionsRollBack
  <2> QED BY <2>1, <2>2 DEF LookedUp
<1>3. InsertsPend'
  BY <1>1 DEF LookedUp, Goes, TypeOK, RollbackParts, InsertsPend, executor, client, db
<1> QED BY <1>1, <1>2, <1>3 DEF RollbackParts, TodoRollsBack, JobsRollBack, NoTracked, NoInsert,
           executor, db, history

\* RollbackInv after a statement in the executor.
LEMMA RollbackRun ==
  ASSUME TypeOK, UserInv, strategy = "rollback", RollbackParts, RunJob
  PROVE  RollbackParts'
<1>1. UNCHANGED <<phase, at, kind, actions, todo, client, failures, history>>
  BY DEF RunJob
<1>2. PICK job \in Jobs : job = jobs[1] /\ job = Head(jobs)
  BY TakenOff
<1>8. UNCHANGED <<kind, raced>>
  BY <1>1 DEF history
<1>3. /\ job.op \in {"insert", "query"} => ~job.commit
      /\ job.op \notin {"delete_row", "delete_values"}
      /\ job.op = "statement" /\ job.commit => NoTracked(tx)
      /\ JobInv(job)
  <2>1. 1 \in 1..Len(jobs)
    BY TakenOff
  <2> QED BY <1>2, <2>1 DEF RollbackParts, JobsRollBack, UserInv, QueueInv
<1>4. \/ Executes(job) /\ job.op \in {"insert", "query", "statement"}
      \/ tx' = {} /\ committed' = committed
      \/ UNCHANGED db
  BY <1>2, <1>3 DEF RunJob, StatementFails, Closes, Jobs, Ops, Cleanups
<1>5. NoTracked(committed)'
  <2>1. ASSUME job.commit, Executes(job), job.op = "statement" PROVE NoTracked(committed)'
    BY <1>8, <1>3, <2>1 DEF RollbackParts, NoTracked, Executes, After, Visible
  <2> QED BY <1>8, <1>3, <1>4, <2>1 DEF RollbackParts, NoTracked, Executes, db
<1>6. JobsRollBack'
  <2>1. \A i \in 1..Len(jobs') : jobs'[i] = jobs[i + 1] /\ i + 1 \in 1..Len(jobs)
    BY TakenOff
  <2>2. ASSUME NEW i \in 1..Len(jobs'), jobs'[i].op = "statement", jobs'[i].commit
        PROVE  NoTracked(tx)' /\ \A j \in 1..Len(jobs') : j < i => NoInsert(jobs[j])'
    <3>1. /\ jobs[i + 1].op = "statement" /\ jobs[i + 1].commit /\ i + 1 \in 1..Len(jobs)
          /\ 1 \in 1..Len(jobs) /\ i \in Nat /\ 1 < i + 1
      BY <2>1, <2>2, TakenOff
    <3>2. NoTracked(tx) /\ NoInsert(job) /\ \A j \in 1..Len(jobs) : j < i + 1 => NoInsert(jobs[j])
      BY <1>2, <3>1 DEF RollbackParts, JobsRollBack
    <3>3. NoTracked(tx)'
      <4>1. CASE Executes(job) /\ job.op \in {"insert", "query", "statement"}
        BY <1>8, <3>2, <4>1 DEF NoTracked, NoInsert, Executes, After, Visible, RollbackParts
      <4> QED BY <1>4, <1>8, <3>2, <4>1 DEF NoTracked, db
    <3>4. ASSUME NEW j \in 1..Len(jobs'), j < i PROVE NoInsert(jobs[j])'
      <4>1. j + 1 \in 1..Len(jobs) /\ j + 1 < i + 1 /\ jobs'[j] = jobs[j + 1]
        BY <2>1, <3>4
      <4>2. NoInsert(jobs[j + 1])
        BY <3>2, <4>1
      <4> QED BY <1>8, <4>1, <4>2 DEF NoInsert
    <3> QED BY <3>3, <3>4
  <2> QED BY <2>1, <2>2 DEF RollbackParts, JobsRollBack
<1>7. InsertsPend'
  <2>1. SUFFICES ASSUME phase = "tasks", NEW c \in Calls \cap tx', Tracked(kind[c])
                 PROVE  pending \/ (at[c] = "execute" /\ reply'[c] = "ok")
    BY <1>1 DEF InsertsPend, client
  <2>2. job.by \in Calls /\ at[job.by] \in {"execute", "lookup"} /\ reply[job.by] = "none"
    BY <1>3, <2>1 DEF Jobs, JobInv, UserInv, TeardownInv
  <2>3. CASE c \in tx
    <3>1. pending \/ (at[c] = "execute" /\ reply[c] = "ok")
      BY <2>1, <2>3 DEF RollbackParts, InsertsPend
    <3>2. c # job.by => reply'[c] = reply[c]
      BY <1>2, TakenOff
    <3> QED BY <2>2, <3>1, <3>2
  <2>4. CASE c \notin tx
    <3>1. Executes(job) /\ job.op = "insert" /\ c = job.row /\ c = job.by
      BY <1>3, <1>4, <2>1, <2>2, <2>4 DEF Executes, After, Visible, db, JobInv
    <3>2. reply' = [w \in DOMAIN reply |-> IF w = job.by THEN "ok" ELSE reply[w]]
      <4>1. \/ reply' = [w \in DOMAIN reply |-> IF w = job.by THEN "ok" ELSE reply[w]]
            \/ job.op = "rollback"
            \/ StatementFails
        BY <1>2 DEF RunJob
      <4>2. ~StatementFails
        BY <2>1 DEF StatementFails
      <4> QED BY <3>1, <4>1, <4>2
    <3>3. at[c] = "execute"
      BY <1>3, <2>2, <3>1 DEF JobInv
    <3> QED BY <3>1, <3>2, <3>3 DEF TypeOK
  <2> QED BY <2>3, <2>4
<1> QED BY <1>1, <1>5, <1>6, <1>7 DEF RollbackParts, ActionsRollBack, TodoRollsBack

\* RollbackInv after a cleanup action that has come back.
LEMMA RollbackCleanup ==
  ASSUME TypeOK, UserInv, strategy = "rollback", RollbackParts, BeginCleanup \/ ActionDone
  PROVE  RollbackParts'
<1>1. PICK rest \in Seq(CleanupActions) :
        Attempts(rest) /\ \A i \in 1..Len(rest) : rest[i].what = "rollback"
  <2>1. CASE BeginCleanup
    BY <2>1 DEF BeginCleanup, TypeOK, RollbackParts, ActionsRollBack
  <2>2. CASE ActionDone
    BY <2>2, RestOfTodo DEF RollbackParts, TodoRollsBack
  <2> QED BY <2>1, <2>2
<1>2. /\ phase # "aclose" /\ phase # "tasks" /\ (phase = "cleanup" => reply[User] # "none")
      /\ UNCHANGED <<at, kind, found, db, cancelled, raced>>
      /\ actions' = <<>> \/ actions' = actions
  BY DEF BeginCleanup, ActionDone, history
<1>3. NoTracked(committed)' /\ (NoTracked(tx) => NoTracked(tx)')
  BY <1>2 DEF NoTracked, RollbackParts, db
<1>4. /\ phase' \in {"cleanup", "clients"} /\ ActionsRollBack' /\ TodoRollsBack'
  <2>1. phase' \in {"cleanup", "clients"} /\ todo' \in {rest, <<>>}
    BY <1>1 DEF Attempts
  <2> QED BY <1>1, <1>2, <2>1 DEF RollbackParts, ActionsRollBack, TodoRollsBack
<1>5. JobsRollBack'
  <2>1. UNCHANGED <<kind, tx, raced>>
    BY <1>2 DEF db
  <2>2. CASE rest = <<>>
    BY <1>1, <2>1, <2>2 DEF Attempts, executor, RollbackParts, JobsRollBack, NoTracked, NoInsert
  <2>3. CASE rest # <<>>
    <3>1. Len(rest) \in 1..Len(rest)
      BY <2>3, EmptySeq, LenProperties
    <3>2. rest[Len(rest)] \in CleanupActions /\ rest[Len(rest)].what = "rollback"
      BY <1>1, <3>1, ElementOfSeq
    <3>3. Job(User, "rollback", rest[Len(rest)].row, TRUE) \in Jobs
      BY <3>2 DEF CleanupActions, Jobs, Job, Ops, Cleanups
    <3>4. PICK job \in Jobs : job = Job(User, "rollback", rest[Len(rest)].row, TRUE)
      BY <3>3
    <3>5. job.by = User /\ job.op = "rollback" /\ Submit(job)
      BY <1>1, <2>3, <3>2, <3>4 DEF Attempts, Job
    <3> QED BY <2>1, <3>5, RollbackSubmit DEF RollbackParts
  <2> QED BY <2>2, <2>3
<1> QED BY <1>2, <1>3, <1>4, <1>5 DEF RollbackParts, InsertsPend

\* RollbackInv after the steps that end the teardown.
LEMMA RollbackEnd ==
  ASSUME TypeOK, UserInv, strategy = "rollback", RollbackParts,
         LeaveTasks \/ CloseBegins \/ CloseDone \/ ShutDown \/ Cancel
  PROVE  RollbackParts'
<1>1. /\ UNCHANGED <<kind, found, db, actions, raced>>
      /\ todo' = todo \/ todo' = <<>>
      /\ phase' # "tasks"
  BY DEF LeaveTasks, CloseBegins, CloseDone, ShutDown, Cancel, TypeOK, history
<1>2. NoTracked(committed)' /\ (NoTracked(tx) => NoTracked(tx)')
  BY <1>1 DEF NoTracked, RollbackParts, db
<1>3. JobsRollBack'
  <2>1. CASE CloseBegins
    <3>1. Job(User, "close", Old, FALSE) \in Jobs
      BY DEF Job, Jobs, Rows, Ops
    <3>2. PICK job \in Jobs : job = Job(User, "close", Old, FALSE)
      BY <3>1
    <3>3. Submit(job) /\ job.by = User /\ job.op = "close"
      BY <2>1, <3>2 DEF CloseBegins, Job
    <3>4. UNCHANGED <<kind, tx, raced>>
      BY <1>1 DEF db
    <3> QED BY <3>3, <3>4, RollbackSubmit DEF RollbackParts
  <2>2. CASE Cancel
    <3>1. /\ \A i \in 1..Len(jobs') : /\ i = 1 /\ 1 \in 1..Len(jobs)
                                     /\ jobs'[i].op = jobs[1].op
                                     /\ jobs'[i].commit = jobs[1].commit
      BY <2>2, CancelledQueue
    <3> QED BY <1>2, <3>1 DEF RollbackParts, JobsRollBack
  <2>3. CASE LeaveTasks \/ CloseDone \/ ShutDown
    <3>1. jobs' = jobs
      BY <2>3 DEF LeaveTasks, CloseDone, ShutDown, executor
    <3> QED BY <1>1, <3>1 DEF RollbackParts, JobsRollBack, NoTracked, NoInsert, db
  <2> QED BY <2>1, <2>2, <2>3
<1> QED BY <1>1, <1>2, <1>3 DEF RollbackParts, InsertsPend, ActionsRollBack, TodoRollsBack

LEMMA RollbackInductive == TypeOK /\ UserInv /\ RollbackInv /\ [Next]_vars => RollbackInv'
<1> SUFFICES ASSUME TypeOK, UserInv, RollbackInv, [Next]_vars PROVE RollbackInv'
  OBVIOUS
<1>1. CASE UNCHANGED vars
  BY <1>1 DEF RollbackInv, RollbackParts, JobsRollBack, InsertsPend, ActionsRollBack,
              TodoRollsBack, NoTracked, NoInsert, vars, moving, executor, client, db, history
<1>2. CASE Next
  <2>1. SUFFICES ASSUME strategy = "rollback" PROVE RollbackParts'
    BY <1>2 DEF Next, RollbackInv
  <2>2. RollbackParts
    BY <2>1 DEF RollbackInv
  <2>3. CASE \E c \in Calls : CallStep(c)
    BY <2>1, <2>2, <2>3, RollbackCall, RollbackExecuted, RollbackLookedUp DEF CallStep
  <2>4. CASE Teardown
    BY <2>1, <2>2, <2>4, RollbackCleanup, RollbackEnd DEF Teardown
  <2>5. CASE Terminated
    BY <1>1, <2>1, <2>5 DEF Terminated, RollbackInv, vars
  <2> QED BY <1>2, <2>1, <2>2, <2>3, <2>4, <2>5, RollbackRun, RollbackEnd DEF Next
<1> QED BY <1>1, <1>2

\* With strategy rollback, whichever calls overlap, whatever fails and whenever the user is
\* cancelled, no row of a tracked insert is visible to others, but for the inserts that were
\* in flight when a statement that commits was called.
THEOREM RollbackNeverCommitsHolds == Spec => []RollbackNeverCommits
<1>1. Init => RollbackInv
  BY DbAssumption DEF Init, RollbackInv, RollbackParts, JobsRollBack, InsertsPend,
                      ActionsRollBack, TodoRollsBack, NoTracked, Old, Tracked
<1>2. RollbackInv => RollbackNeverCommits
  BY DEF RollbackInv, RollbackParts, NoTracked, RollbackNeverCommits, Left, Inserts, Workload, Tracked
<1> QED BY <1>1, <1>2, RollbackInductive, UserCorrect, TypeCorrect, PTL DEF Spec

-----------------------------------------------------------------------------
(* Cleanup by DELETE. *)

\* Something will delete the row of the call.
Deletes(action, c) == action.what \in {"delete_row", "delete_values"} /\ action.row = c

\* It will be: by a call that is about to register the deletion, a look-up that will find the
\* row, a registered action, or an action of the teardown that has not succeeded yet.
Scheduled(c) ==
  \/ at[c] = "execute" /\ reply[c] = "ok"
  \/ at[c] = "lookup" /\ kind[c] = "workload" /\ (reply[c] = "ok" => c \in found[c])
  \/ phase \in {"tasks", "on_stop"} /\ \E i \in 1..Len(actions) : Deletes(actions[i], c)
  \/ phase = "cleanup" /\ \E i \in 1..Len(todo) :
       /\ Deletes(todo[i], c)
       /\ i = Len(todo) => reply[User] # "ok"

\* The row of the call is there and is owed a deletion.
Visits(c) == c \in Visible /\ Inserts(kind[c]) /\ ~(kind[c] = "workload" /\ at[c] = "raised")

\* The premises of CleanExit.
Orderly == strategy = "delete" /\ ~cancelled /\ ~abandoned /\ ~failures

\* Every row that is owed a deletion will get it.
CleanInv == Orderly => \A c \in Calls \ Twins : Visits(c) => Scheduled(c)

\* CleanInv after a call.
LEMMA CleanCall ==
  ASSUME TypeOK, UserInv, NEW b \in Calls, Call(b), NEW c \in Calls \ Twins,
         Visits(c) => Scheduled(c)
  PROVE  Visits(c)' => Scheduled(c)'
<1>1. /\ \E k \in Kinds : kind' = [kind EXCEPT ![b] = k]
      /\ at[b] = "none"
      /\ UNCHANGED <<phase, found, db, actions, todo, client, failures>>
      /\ Goes(b, "raised") \/ Goes(b, "execute")
  BY DEF Call
<1>2. b # c => at'[c] = at[c] /\ kind'[c] = kind[c]
  BY <1>1 DEF Goes, TypeOK
<1>3. \A w \in (Calls \cup {User}) \ {b} : reply'[w] = reply[w]
  <2>1. \A w \in (Calls \cup {User}) \ {b} : [reply EXCEPT ![b] = "none"][w] = reply[w]
    BY DEF TypeOK
  <2> QED BY <2>1 DEF Call, executor, Submit, Job
<1>4. CASE b = c
  BY <1>1, <1>4 DEF UserInv, UnmadeInv, Visits, Visible, db
<1>5. CASE b # c
  <2>1. User # b
    BY DbAssumption DEF User
  <2> QED BY <1>1, <1>2, <1>3, <1>5, <2>1 DEF Visits, Scheduled, Visible, db
<1> QED BY <1>4, <1>5

\* The calls in flight belong to the tasks.
LEMMA TasksRun ==
  ASSUME UserInv, ~abandoned, NEW b \in Calls, at[b] \in {"execute", "lookup"}
  PROVE  phase = "tasks"
BY DEF UserInv, TeardownInv, InFlight

\* CleanInv after a call whose statement has come back.
LEMMA CleanExecuted ==
  ASSUME TypeOK, UserInv, NEW b \in Calls, Executed(b), NEW c \in Calls \ Twins,
         Orderly, Visits(c) => Scheduled(c)
  PROVE  Visits(c)' => Scheduled(c)'
<1>1. UNCHANGED <<phase, kind, found, db, todo, failures, history>> /\ at[b] = "execute"
  BY DEF Executed
<1>2. phase = "tasks"
  BY <1>1, TasksRun DEF Orderly
<1>3. /\ b # c => at'[c] = at[c] /\ reply'[c] = reply[c]
      /\ at'[b] \in {"lookup", "returned", "raised"}
  <2>1. \A w \in Calls \ {b} : [reply EXCEPT ![b] = "none"][w] = reply[w]
    BY DEF TypeOK
  <2> QED BY <2>1 DEF Executed, executor, Submit, Job, Goes, TypeOK
<1>4. /\ (\E i \in 1..Len(actions) : Deletes(actions[i], c))
           => \E j \in 1..Len(actions') : Deletes(actions'[j], c)
      /\ b = c /\ reply[c] = "ok" /\ Tracked(kind[c])
           => \E j \in 1..Len(actions') : Deletes(actions'[j], c)
  <2>1. Action("delete_values", b) \in CleanupActions /\ Deletes(Action("delete_values", b), b)
    BY DEF Action, CleanupActions, Cleanups, Rows, Deletes
  <2>2. CASE reply[b] = "ok" /\ Tracked(kind[b])
    <3>1. actions' = Append(actions, Action("delete_values", b)) /\ actions \in Seq(CleanupActions)
      BY <2>2 DEF Executed, Registers, Orderly, TypeOK
    <3>2. PICK a \in CleanupActions : a = Action("delete_values", b) /\ Deletes(a, b)
      BY <2>1
    <3>3. /\ Len(actions) \in Nat /\ Len(actions') = Len(actions) + 1
          /\ \A i \in 1..Len(actions) : actions'[i] = actions[i]
          /\ actions'[Len(actions) + 1] = a
      BY <3>1, <3>2, Appended
    <3>4. Len(actions) + 1 \in 1..Len(actions') /\ \A i \in 1..Len(actions) : i \in 1..Len(actions')
      BY <3>3
    <3> QED BY <3>2, <3>3, <3>4
  <2>3. CASE ~(reply[b] = "ok" /\ Tracked(kind[b]))
    BY <2>3 DEF Executed
  <2> QED BY <2>2, <2>3
<1>5. CASE b # c
  BY <1>1, <1>2, <1>3, <1>4, <1>5 DEF Visits, Scheduled, Visible, db
<1>6. CASE b = c
  <2>1. SUFFICES ASSUME Visits(c)', ~\E j \in 1..Len(actions') : Deletes(actions'[j], c)
                 PROVE  Scheduled(c)'
    BY <1>1, <1>2 DEF Scheduled
  <2>2. reply[c] = "ok" /\ ~Tracked(kind[c])
    <3>1. Visits(c)
      BY <1>1, <1>6, <2>1 DEF Visits, Visible, db
    <3> QED BY <1>1, <1>2, <1>4, <1>6, <2>1, <3>1 DEF Scheduled
  <2>3. kind[c] = "workload"
    BY <1>1, <2>1, <2>2 DEF Visits, Inserts, Workload, Tracked
  <2>4. Goes(c, "lookup") /\ Submit(Job(c, "query", c, FALSE))
    BY <1>1, <1>6, <2>1, <2>2, <2>3 DEF Executed, Visits, Workload, Goes, TypeOK
  <2>5. at'[c] = "lookup" /\ reply'[c] = "none"
    <3>1. [reply EXCEPT ![c] = "none"][c] = "none"
      BY DEF TypeOK
    <3> QED BY <2>4, <3>1 DEF Goes, Submit, Job, TypeOK
  <2> QED BY <1>1, <2>3, <2>5 DEF Scheduled
<1> QED BY <1>5, <1>6

\* CleanInv after a call whose look-up has come back.
LEMMA CleanLookedUp ==
  ASSUME TypeOK, UserInv, OthersInv, NEW b \in Calls, LookedUp(b), NEW c \in Calls \ Twins,
         Orderly, Visits(c) => Scheduled(c)
  PROVE  Visits(c)' => Scheduled(c)'
<1>1. UNCHANGED <<phase, kind, executor, found, db, todo, client, failures, history>>
      /\ at[b] = "lookup"
  BY DEF LookedUp
<1>2. phase = "tasks"
  BY <1>1, TasksRun DEF Orderly
<1>3. /\ b # c => at'[c] = at[c]
      /\ at'[b] = IF reply[b] = "ok" /\ found[b] # {} THEN "returned" ELSE "raised"
  BY DEF LookedUp, Goes, TypeOK
<1>4. /\ (\E i \in 1..Len(actions) : Deletes(actions[i], c))
           => \E j \in 1..Len(actions') : Deletes(actions'[j], c)
      /\ b = c /\ reply[c] = "ok" /\ found[c] # {}
           => \E j \in 1..Len(actions') : Deletes(actions'[j], c)
  <2>1. CASE reply[b] = "ok" /\ found[b] # {}
    <3>1. PICK r \in found[b] : actions' = Append(actions, Action("delete_row", r))
      BY <2>1 DEF LookedUp, Orderly
    <3>2. r \in Rows /\ (b = c => r = c)
      BY DbAssumption DEF OthersInv, Same, TypeOK, Old
    <3>3. PICK a \in CleanupActions : a = Action("delete_row", r) /\ (b = c => Deletes(a, c))
      <4>1. Action("delete_row", r) \in CleanupActions /\ Deletes(Action("delete_row", r), r)
        BY <3>2 DEF Action, CleanupActions, Cleanups, Deletes
      <4> QED BY <3>2, <4>1
    <3>4. actions' = Append(actions, a) /\ actions \in Seq(CleanupActions)
      BY <3>1, <3>3 DEF TypeOK
    <3>5. /\ Len(actions) \in Nat /\ Len(actions') = Len(actions) + 1
          /\ \A i \in 1..Len(actions) : actions'[i] = actions[i]
          /\ actions'[Len(actions) + 1] = a
      BY <3>4, Appended
    <3>6. Len(actions) + 1 \in 1..Len(actions') /\ \A i \in 1..Len(actions) : i \in 1..Len(actions')
      BY <3>5
    <3> QED BY <3>3, <3>5, <3>6
  <2>2. CASE ~(reply[b] = "ok" /\ found[b] # {})
    BY <2>2 DEF LookedUp
  <2> QED BY <2>1, <2>2
<1>5. CASE b # c
  BY <1>1, <1>2, <1>3, <1>4, <1>5 DEF Visits, Scheduled, Visible, db, executor
<1>6. CASE b = c
  BY <1>1, <1>2, <1>3, <1>4, <1>6 DEF Visits, Scheduled, Visible, db, executor
<1> QED BY <1>5, <1>6

\* CleanInv after a statement in the executor.
LEMMA CleanRun ==
  ASSUME TypeOK, UserInv, RunJob, NEW c \in Calls \ Twins, Orderly, Visits(c) => Scheduled(c)
  PROVE  Visits(c)' => Scheduled(c)'
<1>1. UNCHANGED <<phase, at, kind, actions, todo, client, failures, history>>
  BY DEF RunJob
<1>2. PICK job \in Jobs : job = jobs[1] /\ job = Head(jobs) /\ JobInv(job)
  <2>1. 1 \in 1..Len(jobs) /\ jobs[1] \in Jobs /\ Head(jobs) = jobs[1]
    BY TakenOff
  <2> QED BY <2>1 DEF UserInv, QueueInv
<1>3. job.by \in Calls \cup {User} /\ (job.by \in Calls => phase = "tasks")
  BY <1>2, TasksRun DEF Jobs, JobInv, Orderly
<1>4. job.op = "insert" => job.by \in Calls /\ job.row = job.by /\ at[job.by] = "execute"
  BY <1>2, <1>3, TodoAction DEF JobInv, CleanupActions, Cleanups
<1>5. \A w \in Calls \cup {User} : w # job.by => reply'[w] = reply[w]
  BY <1>2, TakenOff
<1>6. SUFFICES ASSUME Visits(c)' PROVE Scheduled(c)'
  OBVIOUS
<1>7. CASE c \notin Visible
  <2>1. job.op = "insert" /\ job.row = c
    BY <1>2, <1>6, <1>7, RunRows DEF Visits
  <2>2. Executes(job) /\ reply' = [w \in DOMAIN reply |-> IF w = job.by THEN "ok" ELSE reply[w]]
    <3>1. ~StatementFails
      BY <1>6, <1>7 DEF StatementFails, Visits, Visible
    <3> QED BY <1>2, <2>1, <3>1 DEF RunJob
  <2> QED BY <1>1, <1>4, <2>1, <2>2 DEF Scheduled, TypeOK
<1>8. CASE c \in Visible
  <2>1. Scheduled(c)
    BY <1>1, <1>6, <1>8 DEF Visits
  <2>2. CASE at[c] = "execute" /\ reply[c] = "ok"
    <3>1. c # job.by
      BY <1>2, <2>2 DEF JobInv
    <3> QED BY <1>1, <1>5, <2>2, <3>1 DEF Scheduled
  <2>3. CASE at[c] = "lookup" /\ kind[c] = "workload" /\ (reply[c] = "ok" => c \in found[c])
    <3>1. CASE job.by = c
      <4>1. job.op = "query"
        BY <1>2, <2>3, <3>1 DEF JobInv
      <4>2. found' = [found EXCEPT ![c] = {r \in Visible : Same(r, c)}]
        BY <1>2, <3>1, <4>1 DEF RunJob
      <4>3. c \in found'[c]
        BY <1>8, <4>2 DEF Same, TypeOK
      <4> QED BY <1>1, <2>3, <4>3 DEF Scheduled
    <3>2. CASE job.by # c
      <4>1. \A F : found' = [found EXCEPT ![job.by] = F] => found'[c] = found[c]
        BY <3>2 DEF TypeOK
      <4>2. found'[c] = found[c]
        BY <1>2, <4>1 DEF RunJob
      <4> QED BY <1>1, <1>5, <2>3, <3>2, <4>2 DEF Scheduled
    <3> QED BY <3>1, <3>2
  <2>4. CASE phase \in {"tasks", "on_stop"} /\ \E i \in 1..Len(actions) : Deletes(actions[i], c)
    BY <1>1, <2>4 DEF Scheduled
  <2>5. CASE phase = "cleanup" /\ \E i \in 1..Len(todo) :
               Deletes(todo[i], c) /\ (i = Len(todo) => reply[User] # "ok")
    <3>1. PICK i \in 1..Len(todo) : Deletes(todo[i], c) /\ (i = Len(todo) => reply[User] # "ok")
      BY <2>5
    <3>2. job.by = User
      BY <1>3, <2>5
    <3>3. ASSUME i = Len(todo), reply'[User] = "ok" PROVE FALSE
      <4>1. job.op \in {"delete_row", "delete_values"} /\ job.row = c /\ job.commit
        BY <1>2, <2>5, <3>1, <3>2, <3>3 DEF JobInv, Deletes
      <4>2. CASE Executes(job)
        BY <1>6, <4>1, <4>2 DEF Executes, After, Same, Visits, Visible
      <4>3. CASE StatementFails /\ reply' = [w \in DOMAIN reply |-> IF w = job.by THEN "error" ELSE reply[w]]
        BY <3>2, <3>3, <4>3 DEF TypeOK
      <4> QED BY <1>2, <4>1, <4>2, <4>3 DEF RunJob
    <3> QED BY <1>1, <2>5, <3>1, <3>3 DEF Scheduled
  <2> QED BY <2>1, <2>2, <2>3, <2>4, <2>5 DEF Scheduled
<1> QED BY <1>7, <1>8

\* CleanInv after the tasks.
LEMMA CleanLeave ==
  ASSUME TypeOK, UserInv, LeaveTasks, ~abandoned', NEW c \in Calls \ Twins,
         Visits(c) => Scheduled(c)
  PROVE  Visits(c)' => Scheduled(c)'
<1>1. /\ phase = "tasks" /\ phase' = "on_stop" /\ InFlight = {}
      /\ UNCHANGED <<at, kind, executor, found, db, actions, todo, client, failures, cancelled,
                   raced>>
  BY DEF LeaveTasks
<1>2. at[c] \notin {"execute", "lookup"}
  BY <1>1 DEF InFlight
<1> QED BY <1>1, <1>2 DEF Visits, Scheduled, Visible, db

\* What is left to be done in the cleanup goes on to be done.
LEMMA CleanAttempts ==
  ASSUME TypeOK, UserInv, NEW rest \in Seq(CleanupActions), Attempts(rest), NEW c,
         \E i \in 1..Len(rest) : Deletes(rest[i], c)
  PROVE  Scheduled(c)'
<1>1. rest # <<>>
  OBVIOUS
<1>2. Len(rest) \in 1..Len(rest)
  BY <1>1, EmptySeq, LenProperties
<1>3. rest[Len(rest)] \in CleanupActions
  BY <1>2, ElementOfSeq
<1>4. /\ phase' = "cleanup" /\ todo' = rest
      /\ Submit(Job(User, rest[Len(rest)].what, rest[Len(rest)].row, TRUE))
  BY <1>1 DEF Attempts
<1>5. reply'[User] = "none"
  <2>1. [reply EXCEPT ![User] = "none"][User] = "none"
    BY DEF TypeOK
  <2> QED BY <1>4, <2>1 DEF Submit, Job
<1> QED BY <1>4, <1>5 DEF Scheduled

\* CleanInv after a cleanup action that has come back.
LEMMA CleanCleanup ==
  ASSUME TypeOK, UserInv, BeginCleanup \/ ActionDone, NEW c \in Calls \ Twins, Orderly, Orderly',
         Visits(c) => Scheduled(c)
  PROVE  Visits(c)' => Scheduled(c)'
<1>1. at[c] \notin {"execute", "lookup"}
  BY TasksRun DEF Orderly, BeginCleanup, ActionDone
<1>2. SUFFICES ASSUME Visits(c) PROVE Scheduled(c)'
  BY DEF BeginCleanup, ActionDone, Visits, Visible, db
<1>3. CASE BeginCleanup
  <2>1. Attempts(actions) /\ actions \in Seq(CleanupActions) /\ phase = "on_stop"
    BY <1>3 DEF BeginCleanup, TypeOK
  <2>2. \E i \in 1..Len(actions) : Deletes(actions[i], c)
    BY <1>1, <1>2, <2>1 DEF Scheduled
  <2> QED BY <2>1, <2>2, CleanAttempts
<1>4. CASE ActionDone
  <2>1. phase = "cleanup" /\ reply[User] = "ok"
    BY <1>4 DEF ActionDone, Orderly, TypeOK
  <2>2. PICK i \in 1..Len(todo) : Deletes(todo[i], c) /\ i # Len(todo)
    BY <1>1, <1>2, <2>1 DEF Scheduled
  <2>3. PICK rest \in Seq(CleanupActions) :
          /\ Attempts(rest)
          /\ Len(todo) \in Nat
          /\ Len(rest) = IF Len(todo) = 0 THEN 0 ELSE Len(todo) - 1
          /\ \A j \in 1..Len(rest) : rest[j] = todo[j] /\ j \in 1..Len(todo)
    BY <1>4, RestOfTodo
  <2>4. i \in 1..Len(rest)
    BY <2>2, <2>3
  <2>5. \E j \in 1..Len(rest) : Deletes(rest[j], c)
    BY <2>2, <2>3, <2>4
  <2> QED BY <2>3, <2>5, CleanAttempts
<1> QED BY <1>3, <1>4

\* CleanInv after the steps that end the teardown.
LEMMA CleanEnd ==
  ASSUME TypeOK, UserInv, CloseBegins \/ CloseDone \/ ShutDown, NEW c \in Calls \ Twins,
         Orderly, Visits(c) => Scheduled(c)
  PROVE  Visits(c)' => Scheduled(c)'
<1>1. at[c] \notin {"execute", "lookup"}
  BY TasksRun DEF Orderly, CloseBegins, CloseDone, ShutDown
<1>2. ~Visits(c)
  BY <1>1 DEF Scheduled, CloseBegins, CloseDone, ShutDown
<1> QED BY <1>2 DEF CloseBegins, CloseDone, ShutDown, Visits, Visible, db

LEMMA CleanInductive ==
  TypeOK /\ UserInv /\ OthersInv /\ CleanInv /\ [Next]_vars => CleanInv'
<1> SUFFICES ASSUME TypeOK, UserInv, OthersInv, CleanInv, [Next]_vars PROVE CleanInv'
  OBVIOUS
<1>1. Orderly' => Orderly
  <2>1. CASE ActionDone \/ Cancel \/ LeaveTasks
    <3>1. failures => failures'
      BY <2>1, Zenon DEF ActionDone, Cancel, LeaveTasks
    <3>2. (cancelled => cancelled') /\ (abandoned => abandoned' \/ phase = "tasks")
      BY <2>1 DEF ActionDone, Cancel, LeaveTasks, history
    <3>3. strategy' = strategy
      BY <2>1 DEF Next, vars
    <3> QED BY <3>1, <3>2, <3>3 DEF Orderly, UserInv, TeardownInv
  <2>2. CASE ~(ActionDone \/ Cancel \/ LeaveTasks)
    <3>1. UNCHANGED <<strategy, failures, cancelled, abandoned>>
      BY <2>2 DEF Next, CallStep, Call, Executed, LookedUp, RunJob, Teardown, BeginCleanup,
           CloseBegins, CloseDone, ShutDown, Terminated, vars, moving, history
    <3> QED BY <3>1 DEF Orderly
  <2> QED BY <2>1, <2>2
<1>2. SUFFICES ASSUME Orderly, Orderly', NEW c \in Calls \ Twins
               PROVE  Visits(c)' => Scheduled(c)'
  BY <1>1 DEF CleanInv
<1>3. Visits(c) => Scheduled(c)
  BY <1>2 DEF CleanInv
<1>4. CASE UNCHANGED vars
  BY <1>3, <1>4 DEF Visits, Scheduled, Visible, vars, moving, executor, db
<1>5. CASE Next
  <2>1. CASE \E b \in Calls : CallStep(b)
    BY <1>2, <1>3, <2>1, CleanCall, CleanExecuted, CleanLookedUp DEF CallStep
  <2>2. CASE Teardown
    BY <1>2, <1>3, <2>2, CleanCleanup, CleanEnd DEF Teardown
  <2>3. CASE LeaveTasks
    BY <1>2, <1>3, <2>3, CleanLeave DEF Orderly
  <2>4. ~Cancel
    BY <1>2 DEF Orderly, Cancel
  <2> QED BY <1>2, <1>3, <1>4, <1>5, <2>1, <2>2, <2>3, <2>4, CleanRun DEF Next, Terminated
<1> QED BY <1>4, <1>5

\* A user that is torn down in order and reports no failure has left no row behind but those
\* of Excepted, by DELETE and by rollback, whichever calls overlap.
THEOREM CleanExitHolds == Spec => []CleanExit
<1>1. Init => CleanInv /\ OthersInv /\ RollbackInv
  BY DbAssumption DEF Init, CleanInv, Visits, Visible, Inserts, Tracked, Workload,
       OthersInv, JobsSpare, ActionsSpare, TodoSpare, RollbackInv, RollbackParts, JobsRollBack,
       InsertsPend, ActionsRollBack, TodoRollsBack, NoTracked, Old
<1>2. TypeOK /\ UserInv /\ CleanInv /\ RollbackInv => CleanExit
  <2> SUFFICES ASSUME TypeOK, UserInv, CleanInv, RollbackInv, phase = "over", ~cancelled,
                      ~abandoned, ~failures, NEW c \in Left
               PROVE  c \in Excepted
    BY DEF CleanExit
  <2>1. c \in Calls /\ c \in Visible /\ Inserts(kind[c])
    BY DEF Left, Visible
  <2>2. CASE strategy = "delete"
    <3>1. ~Scheduled(c)
      BY <2>1, TasksRun DEF Scheduled
    <3> QED BY <2>1, <2>2, <3>1 DEF CleanInv, Orderly, Visits, Excepted
  <2>3. CASE strategy = "rollback"
    BY <2>1, <2>3 DEF RollbackInv, RollbackParts, NoTracked, Left, Inserts, Workload, Tracked, Excepted
  <2> QED BY <2>2, <2>3, DbAssumption DEF TypeOK
<1> QED BY <1>1, <1>2, CleanInductive, OthersInductive, RollbackInductive, UserCorrect, TypeCorrect,
        PTL DEF Spec

=============================================================================
