----------------------------- MODULE OperatorRun -----------------------------
(***************************************************************************)
(* One VeriLoadRun in Kubernetes: the handlers of the operator             *)
(* (k8s_operator/handlers.py) against the objects they create              *)
(* (k8s_operator/resources.py), with an operator that restarts, an API     *)
(* that may fail, and users who edit and delete the run.                   *)
(*                                                                         *)
(* What kopf and Kubernetes do is known from how the handlers use them:    *)
(* handlers of one object never overlap and are tried again when they      *)
(* raise, a patch is sent when the handler is over, every object is        *)
(* resumed when the operator starts, kopf blocks a deletion until its      *)
(* delete handler is done, an object with a finalizer is not removed, an   *)
(* object goes with its owner, and the pod template of a Job is immutable. *)
(***************************************************************************)
EXTENDS Integers, Sequences, FiniteSets

CONSTANTS
  InlineConfig,  \* spec.config is not a configMapRef
  OwnToken,      \* no clusterTokenSecretRef
  Pvc,           \* artifacts are kept in a volume claim
  Retain,        \* what artifacts.retain may be
  MaxSpec,       \* bound: versions of the immutable fields of the spec
  MaxRestarts,   \* bound: restarts of the operator
  MaxFailures,   \* bound: API calls that fail
  Deletable,     \* users may delete the run
  ByHand         \* somebody removes the finalizer of a run that does not go away

ASSUME OperatorAssumption ==
  /\ {InlineConfig, OwnToken, Pvc, Deletable, ByHand} \subseteq BOOLEAN
  /\ Retain \subseteq BOOLEAN
  /\ MaxSpec \in Nat \ {0} /\ MaxRestarts \in Nat /\ MaxFailures \in Nat

Jobs == {"controller", "worker"}
Children == {"config", "token", "service", "pvc"} \cup Jobs

VARIABLES
  cr,        \* the VeriLoadRun
  spec,      \* version of its immutable fields
  retain,    \* artifacts.retain, one of these fields
  finalizer, \* it has FINALIZER
  blocked,   \* it has kopf's own finalizer
  phase,     \* status.phase
  drifted,   \* status has the condition SpecDrifted
  handled,   \* the spec kopf has last seen handled, 0 if none
  op,        \* where the operator is
  resume,    \* the object waits for the resume handler
  body,      \* the spec the running handler was given
  todo,      \* what the running handler has still to apply or to delete
  child,     \* the spec each child was built from, 0 if it does not exist
  pod,       \* which value of the token the pods of a job run with
  ended,     \* how the controller of the run has ended
  restarts, errors  \* counters of the bounds

object == <<cr, spec, retain, finalizer, blocked, phase, drifted, handled>>
operator == <<op, resume, body, todo>>
cluster == <<child, pod, ended>>
bounds == <<restarts, errors>>
vars == <<object, operator, cluster, bounds>>

Init ==
  /\ cr = "present" /\ spec = 1 /\ retain \in Retain /\ finalizer = FALSE /\ blocked = FALSE
  /\ phase = "none" /\ drifted = FALSE /\ handled = 0
  /\ op = "idle" /\ resume = FALSE /\ body = 0 /\ todo = <<>>
  /\ child = [c \in Children |-> 0]
  /\ pod = [j \in Jobs |-> "none"]
  /\ ended = "no"
  /\ restarts = 0 /\ errors = 0

-----------------------------------------------------------------------------
(* What the handlers do. *)

Only(condition, s) == IF condition THEN s ELSE <<>>

\* Mutant: the jobs come before what their pods mount.
Desired_JobsFirst ==
  <<"controller", "worker">> \o Only(InlineConfig, <<"config">>) \o Only(OwnToken, <<"token">>)
  \o <<"service">> \o Only(Pvc, <<"pvc">>)

\* The children of a run in the order in which they are applied.
Desired ==
  Only(InlineConfig, <<"config">>) \o Only(OwnToken, <<"token">>) \o <<"service">>
  \o Only(Pvc, <<"pvc">>) \o <<"controller", "worker">>

\* The service and the controller job have the same name.
Named(name) == IF name = "controller" THEN {"controller", "service"} ELSE {name}

\* Mutant: the list of names forgets the workers.
CleanupNames_NoWorker ==
  <<"config", "token", "controller">> \o Only(~retain, <<"pvc">>)

\* Mutant: retain is read the wrong way round.
CleanupNames_Inverted ==
  <<"config", "token", "controller", "worker">> \o Only(retain, <<"pvc">>)

\* Names deleted when the run is deleted; artifacts are retained unless told otherwise.  The
\* collector job is left out: no handler creates it.
CleanupNames ==
  <<"config", "token", "controller", "worker">> \o Only(~retain, <<"pvc">>)

\* Phases of a run that has started; no handler sets any of them.
StartedPhases == {"Running", "Collecting", "Succeeded", "Failed"}

\* The API server does not change the template of a job. An edit of the config alone
\* leaves the template as it is, any other edit does not.
MayBeRejected(c) == c \in Jobs /\ child[c] \notin {0, body}

\* The pods that run with the present value of the token keep it when it is replaced.
Rotated == [j \in Jobs |-> IF pod[j] = "current" THEN "stale" ELSE pod[j]]

\* The patch of the create or resume handler, sent also when the handler has raised.
\* Finalizers cannot be added to an object that is being deleted.
Patched ==
  /\ finalizer' = (finalizer \/ cr = "present")
  /\ phase' = "Preparing"
  /\ drifted' = FALSE

\* The handler is over: it is done or will be tried again.
HandlerEnds == op' = "idle" /\ todo' = <<>> /\ body' = 0

-----------------------------------------------------------------------------
(* reconcile_create_or_resume. *)

CreateOrResume ==
  /\ op = "idle" /\ cr = "present"
  /\ handled = 0 \/ resume
  /\ op' = "apply"
  /\ body' = spec
  /\ todo' = Desired
  /\ blocked' = TRUE
  /\ UNCHANGED <<cr, spec, retain, finalizer, phase, drifted, handled, resume, cluster, bounds>>

\* A server-side apply; the secret gets a new random token every time.
Apply ==
  /\ op = "apply"
  /\ child' = [child EXCEPT ![Head(todo)] = body]
  /\ pod' = IF Head(todo) = "token" THEN Rotated ELSE pod
  /\ IF Len(todo) = 1
     THEN /\ HandlerEnds /\ Patched
          /\ handled' = IF handled = 0 THEN body ELSE handled
          /\ resume' = FALSE
     ELSE /\ todo' = Tail(todo)
          /\ UNCHANGED <<op, body, finalizer, phase, drifted, handled, resume>>
  /\ UNCHANGED <<cr, spec, retain, blocked, ended, bounds>>

\* Mutant: the failure counts as success.
ApplyFails_Swallowed ==
  /\ op = "apply"
  /\ errors < MaxFailures /\ errors' = errors + 1
  /\ HandlerEnds /\ Patched
  /\ handled' = body /\ resume' = FALSE
  /\ UNCHANGED <<cr, spec, retain, blocked, cluster, restarts>>

\* The apply fails, for once or because a job cannot change: the handler raises and is
\* tried again from its beginning.
ApplyFails ==
  /\ op = "apply"
  /\ \/ MayBeRejected(Head(todo)) /\ UNCHANGED errors
     \/ errors < MaxFailures /\ errors' = errors + 1
  /\ HandlerEnds /\ Patched
  /\ UNCHANGED <<cr, spec, retain, blocked, handled, resume, cluster, restarts>>

-----------------------------------------------------------------------------
(* reconcile_update, reconcile_delete. *)

\* Mutant: an update is reconciled like a creation.
Update_Reapplies ==
  /\ op = "idle" /\ cr = "present"
  /\ handled \notin {0, spec}
  /\ handled' = spec
  /\ op' = "apply" /\ body' = spec /\ todo' = Desired
  /\ UNCHANGED <<cr, spec, retain, finalizer, blocked, phase, drifted, resume, cluster, bounds>>

\* Immutable fields have changed: it is reported once the run has started.
Update ==
  /\ op = "idle" /\ cr = "present"
  /\ handled \notin {0, spec}
  /\ handled' = spec
  /\ drifted' = (drifted \/ phase \in StartedPhases)
  /\ UNCHANGED <<cr, spec, retain, finalizer, blocked, phase, operator, cluster, bounds>>

Delete ==
  /\ op = "idle" /\ cr = "deleting" /\ blocked
  /\ op' = "delete"
  /\ todo' = CleanupNames
  /\ UNCHANGED <<object, resume, body, cluster, bounds>>

\* All children of one name; a failure of the API is passed over.
DeleteNext ==
  /\ op = "delete"
  /\ \E missed \in SUBSET Named(Head(todo)) :
       /\ missed # {} => errors < MaxFailures
       /\ errors' = IF missed = {} THEN errors ELSE errors + 1
       /\ LET gone == Named(Head(todo)) \ missed
          IN /\ child' = [c \in Children |-> IF c \in gone THEN 0 ELSE child[c]]
             /\ pod' = [j \in Jobs |-> IF j \in gone THEN "none" ELSE pod[j]]
  /\ IF Len(todo) = 1
     THEN /\ HandlerEnds
          /\ blocked' = FALSE
          /\ cr' = IF finalizer THEN "deleting" ELSE "gone"
     ELSE /\ todo' = Tail(todo)
          /\ UNCHANGED <<op, body, blocked, cr>>
  /\ UNCHANGED <<spec, retain, finalizer, phase, drifted, handled, resume, ended, restarts>>

-----------------------------------------------------------------------------
(* The operator process, and everybody else. *)

Crash ==
  /\ op # "down" /\ restarts < MaxRestarts
  /\ restarts' = restarts + 1
  /\ op' = "down" /\ todo' = <<>> /\ body' = 0
  /\ UNCHANGED <<object, resume, cluster, errors>>

\* kopf resumes the objects it finds.
Start ==
  /\ op = "down"
  /\ op' = "idle" /\ resume' = (cr = "present")
  /\ UNCHANGED <<object, body, todo, cluster, bounds>>

\* Any immutable field may change, artifacts.retain too; a run being deleted stays as it is.
Edit ==
  /\ cr = "present" /\ spec < MaxSpec
  /\ spec' = spec + 1 /\ retain' \in Retain
  /\ UNCHANGED <<cr, finalizer, blocked, phase, drifted, handled, operator, cluster, bounds>>

RequestDelete ==
  /\ Deletable /\ cr = "present"
  /\ cr' = IF finalizer \/ blocked THEN "deleting" ELSE "gone"
  /\ UNCHANGED <<spec, retain, finalizer, blocked, phase, drifted, handled>>
  /\ UNCHANGED <<operator, cluster, bounds>>

RemoveFinalizer ==
  /\ ByHand /\ cr = "deleting" /\ ~blocked
  /\ cr' = "gone"
  /\ finalizer' = FALSE
  /\ UNCHANGED <<spec, retain, blocked, phase, drifted, handled, operator, cluster, bounds>>

\* Every child names the run as its owner.
GarbageCollect ==
  /\ cr = "gone" /\ \E c \in Children : child[c] # 0
  /\ child' = [c \in Children |-> 0]
  /\ pod' = [j \in Jobs |-> "none"]
  /\ UNCHANGED <<object, operator, ended, bounds>>

\* The pod of a job starts once what it mounts is there; the token is read then.
PodStarts(j) ==
  /\ child[j] # 0 /\ pod[j] = "none" /\ ended = "no"
  /\ InlineConfig => child["config"] # 0
  /\ OwnToken => child["token"] # 0
  /\ Pvc /\ j = "controller" => child["pvc"] # 0
  /\ pod' = [pod EXCEPT ![j] = "current"]
  /\ UNCHANGED <<object, operator, child, ended, bounds>>

\* The controller ends; it succeeds only with workers that know its token.
RunEnds ==
  /\ pod["controller"] # "none" /\ ended = "no"
  /\ \/ ended' = "Failed"
     \/ pod["worker"] = pod["controller"] /\ ended' = "Succeeded"
  /\ UNCHANGED <<object, operator, child, pod, bounds>>

-----------------------------------------------------------------------------

Handlers ==
  CreateOrResume \/ Apply \/ ApplyFails \/ Update \/ Delete \/ DeleteNext

World == Edit \/ RequestDelete \/ RemoveFinalizer \/ GarbageCollect
         \/ (\E j \in Jobs : PodStarts(j)) \/ RunEnds

Next == Handlers \/ Crash \/ Start \/ World

Spec == Init /\ [][Next]_vars

\* kopf calls the handlers that are due, a stopped operator is started again, and a
\* started run ends.
FairSpec ==
  /\ Spec
  /\ WF_vars(Handlers) /\ WF_vars(Start)
  /\ WF_vars(RunEnds) /\ \A j \in Jobs : WF_vars(PodStarts(j))
  /\ WF_vars(GarbageCollect) /\ WF_vars(RemoveFinalizer)

-----------------------------------------------------------------------------
(* Properties. *)

\* Every variable has its type.
TypeOK ==
  /\ cr \in {"present", "deleting", "gone"}
  /\ spec \in 1..MaxSpec /\ handled \in 0..MaxSpec /\ body \in 0..MaxSpec
  /\ retain \in BOOLEAN
  /\ finalizer \in BOOLEAN /\ blocked \in BOOLEAN /\ drifted \in BOOLEAN /\ resume \in BOOLEAN
  /\ phase \in {"none", "Preparing"} \cup StartedPhases
  /\ op \in {"down", "idle", "apply", "delete"}
  /\ todo \in Seq(Children)
  /\ child \in [Children -> 0..MaxSpec]
  /\ pod \in [Jobs -> {"none", "current", "stale"}]
  /\ ended \in {"no", "Succeeded", "Failed"}
  /\ restarts \in 0..MaxRestarts /\ errors \in 0..MaxFailures

\* Wherever the operator is stopped or refused, no job exists before everything its pods
\* mount or connect to does.
InputsFirst ==
  cr = "present" =>
    \A j \in Jobs : child[j] # 0 =>
      \A c \in {"config", "token", "service", "pvc"} :
        (\E i \in DOMAIN Desired : Desired[i] = c) => child[c] # 0

\* Once the deletion of a run has been handled nothing applies its children any more, and
\* whatever handler was at work when it was deleted, and however artifacts.retain was edited
\* before: the claim of a run that was once applied is still there if it is to be retained,
\* and if no call has failed, which _delete_resources passes over, nothing else is.
DeleteIsComplete ==
  cr = "deleting" /\ ~blocked =>
    /\ op # "apply"
    /\ Pvc /\ handled # 0 /\ retain => child["pvc"] # 0
    /\ errors = 0 => \A c \in Children : child[c] # 0 => c = "pvc" /\ retain

\* Restarts and failing calls only delay a run: unless it is edited or deleted, all its
\* children come to exist.
Prepared ==
  <>(cr # "present" \/ spec # 1 \/ \A i \in DOMAIN Desired : child[Desired[i]] # 0)

\* No restart and no failure has made the operator apply its children twice.
AppliedOnce == restarts = 0 /\ errors = 0

\* "Authenticate with a shared token": pods that run have the same one, however late a pod
\* starts.  A second apply replaces the token.
TokensAgree ==
  AppliedOnce => \A i, j \in Jobs : ~(pod[i] = "current" /\ pod[j] = "stale")

\* "Active workloads were left unchanged": an edit does not reach the objects of a run whose
\* pods are running.  A second apply does.
SpecFrozen ==
  [][AppliedOnce' =>
       \A c \in Children : (\E j \in Jobs : pod[j] # "none") /\ child[c] # 0 /\ child'[c] # 0
         => child'[c] = child[c]]_vars

\* Artifacts that are to be retained outlive every other child and go only with the run,
\* by its owner reference.
ArtifactsRetained ==
  [][retain /\ child["pvc"] # 0 /\ cr' # "gone" => child'["pvc"] # 0]_vars

\* "Keep workloads until the VeriLoadRun is deleted": it can be.
DeletionEnds == (cr = "deleting") ~> (cr = "gone")

=============================================================================
