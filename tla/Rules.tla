------------------------------- MODULE Rules --------------------------------
(***************************************************************************)
(* The rules that turn a configuration into a plan and the events of a run *)
(* into a verdict, each applied once to bounded inputs and compared with   *)
(* what it is meant to compute.  A behaviour applies one rule: "given" is  *)
(* its input and "result" what the code computes from it.                  *)
(***************************************************************************)
EXTENDS RunMetrics, PlanMath, ConfigRules

CONSTANTS
  MaxEvents,    \* bound: events of a run
  MaxCompared,  \* bound: events of each of two runs that are compared
  MaxPool,      \* bound: personas of a pool
  MaxWorkers,   \* bound: workers
  MaxWeight,    \* bound: weight of a locale
  MaxVariables  \* bound: VERILOAD_ variables in the environment

ASSUME RulesAssumption ==
  /\ {MaxEvents, MaxCompared, MaxPool, MaxVariables} \subseteq Nat
  /\ {MaxWorkers, MaxWeight} \subseteq Nat \ {0}

VARIABLES rule, given, result

vars == <<rule, given, result>>

Init == rule = "none" /\ given = <<>> /\ result = <<>>

-----------------------------------------------------------------------------
(* The events of a run: first the slow ones, then the fast ones. *)

Slow == 9
Fast == 2

\* n events, the first s of them slow; the last f failed; the last b are of endpoint "b".
Events(n, s, f, b) ==
  [i \in 1..n |-> [name |-> IF i > n - b THEN "b" ELSE "a",
                   failed |-> i > n - f,
                   ms |-> IF i <= s THEN Slow ELSE Fast]]

Runs(max) ==
  UNION {{Events(n, s, f, b) : s \in 0..n, f \in 0..n, b \in {0, n \div 2}} : n \in 0..max}

Thresholds == {[p95 |-> None, rate |-> None], [p95 |-> Fast, rate |-> 5], [p95 |-> Slow, rate |-> 0],
               [p95 |-> None, rate |-> 50], [p95 |-> Fast + 1, rate |-> None]}

\* The gate judges a run by thresholds for the run and for endpoint "b".
Judge ==
  /\ rule = "none" /\ rule' = "judge"
  /\ \E events \in Runs(MaxEvents) :
       \E summary \in {Summarize(events)}, global, b \in Thresholds :
         LET config == [global |-> global, endpoints |-> [n \in {"b"} |-> b]]
         IN /\ given' = [events |-> events, config |-> config]
            /\ result' = [summary |-> summary, breaches |-> EvaluateSlos(config, summary)]

\* Two reports are compared, in both directions.
CompareReports ==
  /\ rule = "none" /\ rule' = "compare"
  /\ \E old, new \in Runs(MaxCompared), allowed \in {[p95 |-> 0, rate |-> 0], [p95 |-> 3, rate |-> 30]} :
       LET o == Summarize(old)
           n == Summarize(new)
       IN /\ given' = [old |-> old, new |-> new, allowed |-> allowed]
          /\ result' = [there |-> Compare(o, n, allowed), back |-> Compare(n, o, allowed)]

-----------------------------------------------------------------------------
(* Plans. *)

DealOut ==
  /\ rule = "none" /\ rule' = "deal"
  /\ \E pool, users \in 1..MaxPool, workers \in 1..MaxWorkers :
       /\ given' = [pool |-> pool, users |-> users, workers |-> workers]
       /\ result' = [w \in 0..workers - 1 |-> Partition(pool, workers, w)]

Weigh ==
  /\ rule = "none" /\ rule' = "weigh"
  /\ \E pool \in 1..MaxPool, n \in 1..3 : \E weights \in [1..n -> 1..MaxWeight] :
       /\ given' = [pool |-> pool, weights |-> weights]
       /\ result' = Locales(pool, weights)

-----------------------------------------------------------------------------
(* Configurations. *)

Word(n) == [shape |-> "word", v |-> n]
Digits(n) == [shape |-> "digits", v |-> n]

Absent == [type |-> "none", v |-> 0]

\* A file that is valid, with what may be added to it.
File(target, maxUsers, hold) ==
  LET content ==
        [p \in Fields |->
           CASE p \in {<<"run", "base_url">>, <<"profile", "type">>} -> Text(1)
             [] p \in {<<"run", "spawn_rate">>, <<"data", "seed">>} -> Number(1)
             [] p \in {Users, <<"profile", "duration_seconds">>} -> Number(2)
             [] p = <<"run", "max_duration_seconds">> -> Number(3)
             [] p = <<"data", "pool_size">> -> Number(4)
             [] p = <<"safety", "allowed_hosts">> -> Hosts(1)
             [] p = TargetUsers -> target
             [] p = <<"safety", "max_users">> -> maxUsers
             [] p = <<"profile", "hold_seconds">> -> hold
             [] OTHER -> Absent]
  IN Restrict(content, {p \in Fields : content[p] # Absent})

Files == {File(t, m, h) : t \in {Absent, Null, Number(2), Number(3)},
                          m \in {Absent, Number(2), Number(3)}, h \in {Absent, Number(4)}}

TokenVariable == [path |-> <<"cluster_token">>, text |-> Word(3)]

Variables ==
  {TokenVariable,
   [path |-> Users, text |-> Digits(3)], [path |-> Users, text |-> Word(3)],
   [path |-> <<"run">>, text |-> Word(3)],
   [path |-> TargetUsers, text |-> Digits(3)],
   [path |-> <<"profile", "tick_seconds">>, text |-> [shape |-> "truth", v |-> 0]],
   [path |-> <<"safety", "max_users">>, text |-> Digits(1)],
   [path |-> <<"safety", "allowed_hosts">>, text |-> Word(2)],
   [path |-> <<"run", "base_url">>, text |-> Word(2)],
   [path |-> <<"run", "base_url">>, text |-> Digits(2)],
   [path |-> <<"reports", "json">>, text |-> Word(3)]}

\* Every variable is set once.
Environments ==
  {env \in BoundedSeq(Variables, MaxVariables) :
     \A i, j \in DOMAIN env : env[i].path = env[j].path => i = j}

Overrides == {<<>>} \cup {<<[path |-> Users, value |-> Number(n)]>> : n \in {2, 4}}
                    \cup {<<[path |-> <<"safety", "max_users">>, value |-> Number(4)]>>}

Load ==
  /\ rule = "none" /\ rule' = "load"
  /\ \E yaml \in Files, env \in Environments, cli \in Overrides :
       /\ given' = [yaml |-> yaml, env |-> env, cli |-> cli]
       /\ result' = LoadConfig(yaml, env, cli)

-----------------------------------------------------------------------------

Applied == rule # "none" /\ UNCHANGED vars

Next == Judge \/ CompareReports \/ DealOut \/ Weigh \/ Load \/ Applied

Spec == Init /\ [][Next]_vars

-----------------------------------------------------------------------------
(* Properties. *)

Within(events, group, limit) == {i \in group : events[i].ms <= limit}

\* A percentile is the least latency that so many percent of the requests do not exceed:
\* in every group of a summary, the share of requests within a latency is at least p
\* percent exactly if the p-th percentile is within it.  And the endpoints share out its
\* requests and its failures.
SummaryCounts ==
  rule = "judge" =>
    LET Means(summary, group) ==
          group # {} =>
            \A limit \in {0, Fast, Slow - 1, Slow} :
              LET within == Cardinality(Within(given.events, group, limit))
              IN \A p \in Percents :
                   summary.latency[p] <= limit <=> 100 * within >= p * Cardinality(group)
    IN /\ Means(result.summary.global, DOMAIN given.events)
       /\ \A n \in DOMAIN result.summary.endpoints :
            Means(result.summary.endpoints[n], OfName(given.events, n))
       /\ result.summary.global.total = Len(given.events)
       /\ \A f \in {"total", "failures"} :
            FoldSet(LAMBDA n, sum : sum + result.summary.endpoints[n][f], 0,
                    DOMAIN result.summary.endpoints) = result.summary.global[f]

\* The gate lets a run pass if at least 95 percent of the requests it looks at were within
\* the latency and no more of them failed than is allowed, and only then, but for
\* endpoints nobody called.
GateCounts ==
  rule = "judge" =>
    LET Good(limit, group) ==
          /\ \/ limit.p95 = None
             \/ 100 * Cardinality(Within(given.events, group, limit.p95)) >= 95 * Cardinality(group)
          /\ \/ limit.rate = None
             \/ 100 * Cardinality(Failures(given.events, group)) <= limit.rate * Cardinality(group)
    IN result.breaches = {}
         <=> /\ Good(given.config.global, DOMAIN given.events)
             /\ Good(given.config.endpoints["b"], OfName(given.events, "b"))

Names(events) == {events[i].name : i \in DOMAIN events}

\* The requests of a scope of a run.
Part(events, scope) == IF scope = "global" THEN DOMAIN events ELSE OfName(events, scope)

\* 95 percent of the requests of a scope are within a limit.
Enough(events, scope, limit) ==
  100 * Cardinality(Within(events, Part(events, scope), limit)) >= 95 * Cardinality(Part(events, scope))

\* Some limit is kept in the old run and, extended by the allowance, is not in the new one.
Slower(old, new, scope, allowance) ==
  \E limit \in 0..Slow : Enough(old, scope, limit) /\ ~Enough(new, scope, limit + allowance)

\* The share of failed requests, of none if there are no requests, is larger in the new
\* run by more than the allowance, in percent.
FailsMore(old, new, scope, allowance) ==
  LET Failed(events) == Cardinality(Failures(events, Part(events, scope)))
      Of(events) == IF Part(events, scope) = {} THEN 1 ELSE Cardinality(Part(events, scope))
  IN 100 * (Failed(new) * Of(old) - Failed(old) * Of(new)) > allowance * (Of(new) * Of(old))

\* The comparison of two reports judges their runs: it names as regressions the run as a
\* whole and exactly those endpoints of both runs that got slower or fail more by more
\* than the allowance, counted from the requests; every other endpoint is named as new or
\* as gone.  What has become worse one way has become better the other way.
ComparisonIsFair ==
  rule = "compare" =>
    LET old == given.old
        new == given.new
        both == {"global"} \cup (Names(old) \cap Names(new))
    IN /\ \A s \in both :
            /\ <<s, "p95">> \in result.there.regressions <=> Slower(old, new, s, given.allowed.p95)
            /\ <<s, "rate">> \in result.there.regressions
                 <=> FailsMore(old, new, s, given.allowed.rate)
       /\ result.there.regressions \subseteq both \X {"p95", "rate"}
       /\ result.there.added = Names(new) \ Names(old)
       /\ result.there.removed = Names(old) \ Names(new)
       /\ result.there.regressions \subseteq result.back.improvements
       /\ given.allowed.p95 = 0 => result.there.regressions = result.back.improvements

\* A plan deals every persona to one worker, every user to one worker, and gives no worker
\* more users than personas as long as the pool has one for every user; the pool has its
\* size, and every locale its share of it, rounded up or down.
PlanIsFair ==
  /\ rule = "deal" =>
       /\ DealtOutOnce(given.pool, given.workers)
       /\ TargetsAddUp(given.users, given.workers)
       /\ ShareSuffices(given.pool, given.users, given.workers)
       /\ given.users <= given.pool =>
            \A w \in DOMAIN result :
              TargetFor(given.users, given.workers, w) <= Cardinality(result[w])
  /\ rule = "weigh" =>
       LET total == SumOf(given.weights)
           Count(i) == Cardinality({k \in DOMAIN result : result[k] = i})
       IN /\ Len(result) = given.pool
          /\ \A i \in DOMAIN given.weights :
               LET excess == total * Count(i) - given.pool * given.weights[i]
               IN -total < excess /\ excess < total

\* The value a layer gives to a path, Null if it gives none.
LayerAt(layer, p) == IF p \in DOMAIN layer THEN layer[p] ELSE Null

\* The command line goes before the environment and the environment before the file, for
\* every field of a config that loads, the users of the profile follow run.users if no
\* layer sets them; but for a variable that names a section, which another may undo.
LayersInOrder ==
  rule = "load" /\ result.ok =>
    LET env == EnvOverrides(given.env)
        cli == DottedOverrides(given.cli)
        Chosen(p) == IF p \in DOMAIN cli THEN cli[p] ELSE IF p \in DOMAIN env THEN env[p]
                    ELSE LayerAt(given.yaml, p)
        variables == {given.env[i].path : i \in DOMAIN given.env}
    IN /\ \A p \in Fields \ {TargetUsers} : LayerAt(result.doc, p) = Chosen(p)
       /\ LayerAt(result.doc, TargetUsers)
            = IF Chosen(TargetUsers) = Null THEN result.doc[Users] ELSE Chosen(TargetUsers)
       /\ \A v \in DOMAIN given.env :
            LET var == given.env[v]
            IN <<"run">> \notin variables /\ var.path \notin DOMAIN cli
                 => result.doc[var.path] = ParseScalar(var.text)

\* No layer gets a run past the safety limits, whichever layer sets them: a config that
\* loads targets an allowed host, stays within max_users and max_duration_seconds.
NoLayerEscapesSafety ==
  rule = "load" /\ result.ok =>
    LET At(section, field) == LayerAt(result.doc, <<section, field>>)
    IN /\ At("run", "base_url").v = At("safety", "allowed_hosts").v
       /\ At("safety", "max_users") # Null => At("run", "users").v <= At("safety", "max_users").v
       /\ At("profile", "target_users").v = At("run", "users").v
       /\ At("profile", "hold_seconds").v <= At("run", "max_duration_seconds").v

\* A file that loads still loads where the token of the cluster is exported under the
\* name that is its default and the documented one, VERILOAD_CLUSTER_TOKEN.
TokenVariableHarmless ==
  rule = "load" /\ given.env = <<TokenVariable>> /\ given.cli = <<>>
    /\ LoadConfig(given.yaml, <<>>, <<>>).ok => result.ok

=============================================================================
