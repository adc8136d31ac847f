----------------------------- MODULE RunMetrics -----------------------------
(***************************************************************************)
(* What is made of the events of a run: summaries with latency percentiles *)
(* (metrics.py), the SLO gate (slo.py), the merging of cleanup summaries   *)
(* (cleanup.py) and the comparison of two reports (compare.py).            *)
(*                                                                         *)
(* An event is a record with at least the fields name, failed and ms; a    *)
(* group of the events of a run is the set of their places in it.          *)
(* Latencies are whole milliseconds; an error rate is kept as the two      *)
(* counts it divides, its thresholds are in percent.                       *)
(***************************************************************************)
EXTENDS Integers, Sequences, FiniteSets, SequencesExt

None == -1

-----------------------------------------------------------------------------
(* Summaries. *)

\* Mutant: the rank is rounded down.
Percentile_Floor(ordered, percent) ==
  LET n == Len(ordered)
      rank == (percent * n) \div 100 - 1
  IN IF n = 1 THEN ordered[1]
     ELSE ordered[(IF rank < 0 THEN 0 ELSE IF rank > n - 1 THEN n - 1 ELSE rank) + 1]

\* _percentile of an ascending sequence that is not empty.
Percentile(ordered, percent) ==
  LET n == Len(ordered)
      rank == (percent * n + 99) \div 100 - 1
  IN IF n = 1 THEN ordered[1]
     ELSE ordered[(IF rank < 0 THEN 0 ELSE IF rank > n - 1 THEN n - 1 ELSE rank) + 1]

Percents == {50, 90, 95, 99}

\* sorted(): at place k of the latencies of a group is the one that at least k of them do
\* not exceed and fewer than k of them are below.
Ordered(events, group) ==
  [k \in 1..Cardinality(group) |->
     CHOOSE ms \in {events[i].ms : i \in group} :
       /\ k <= Cardinality({i \in group : events[i].ms <= ms})
       /\ Cardinality({i \in group : events[i].ms < ms}) < k]

\* _latency_summary: the percentiles and, under 100, the maximum.
LatencySummary(events, group) ==
  IF group = {} THEN [p \in Percents \cup {100} |-> 0]
  ELSE LET ordered == Ordered(events, group)
       IN [p \in Percents \cup {100} |->
             IF p = 100 THEN ordered[Len(ordered)] ELSE Percentile(ordered, p)]

Failures(events, group) == {i \in group : events[i].failed}

\* _metric_group_summary and _error_rate.
Group(events, group) ==
  [total |-> Cardinality(group),
   failures |-> Cardinality(Failures(events, group)),
   latency |-> LatencySummary(events, group)]

OfName(events, name) == {i \in DOMAIN events : events[i].name = name}

\* _summarize; segments are grouped as endpoints are.
Summarize(events) ==
  [global |-> Group(events, DOMAIN events),
   endpoints |-> [n \in {events[i].name : i \in DOMAIN events} |-> Group(events, OfName(events, n))]]

-----------------------------------------------------------------------------
(* The SLO gate.  A threshold is [p95, rate], each a number or None. *)

\* The error rate of a group, a fraction whose denominator is never 0.
Rate(group) == [num |-> group.failures, den |-> IF group.total = 0 THEN 1 ELSE group.total]

\* Mutant: a threshold must be undercut.
Breaches_Strict(scope, limit, group) ==
  {b \in {<<scope, "p95">>, <<scope, "rate">>} :
     \/ b[2] = "p95" /\ limit.p95 # None /\ group.latency[95] >= limit.p95
     \/ b[2] = "rate" /\ limit.rate # None
                      /\ 100 * Rate(group).num > limit.rate * Rate(group).den}

\* _evaluate_thresholds
Breaches(scope, limit, group) ==
  {b \in {<<scope, "p95">>, <<scope, "rate">>} :
     \/ b[2] = "p95" /\ limit.p95 # None /\ group.latency[95] > limit.p95
     \/ b[2] = "rate" /\ limit.rate # None
                      /\ 100 * Rate(group).num > limit.rate * Rate(group).den}

\* evaluate_slos.  The config has a threshold for the run and some for endpoints, by name;
\* an endpoint without events is passed over.
EvaluateSlos(config, summary) ==
  Breaches("global", config.global, summary.global)
    \cup UNION {Breaches(n, config.endpoints[n], summary.endpoints[n]) :
                  n \in DOMAIN config.endpoints \cap DOMAIN summary.endpoints}

-----------------------------------------------------------------------------
(* Cleanup summaries. *)

\* merge_cleanup_summaries: a sequence of [attempted, failed].
MergeCleanup(summaries) ==
  [attempted |-> FoldLeft(LAMBDA sum, s : sum + s.attempted, 0, summaries),
   failed |-> FoldLeft(LAMBDA sum, s : sum + s.failed, 0, summaries)]

-----------------------------------------------------------------------------
(* The comparison of two reports. *)

Scopes(report) == [s \in {"global"} \cup DOMAIN report.endpoints |->
                     IF s = "global" THEN report.global ELSE report.endpoints[s]]

\* The change of an error rate, over a common denominator.
RateDelta(old, new) ==
  [num |-> Rate(new).num * Rate(old).den - Rate(old).num * Rate(new).den,
   den |-> Rate(new).den * Rate(old).den]

\* _compare_scope: what has become worse by more than is allowed.
Regressions(scope, old, new, allowed) ==
  {r \in {<<scope, "p95">>, <<scope, "rate">>} :
     \/ r[2] = "p95" /\ new.latency[95] - old.latency[95] > allowed.p95
     \/ r[2] = "rate" /\ 100 * RateDelta(old, new).num > allowed.rate * RateDelta(old, new).den}

\* _store_improvements
Improvements(scope, old, new) ==
  {i \in {<<scope, "p95">>, <<scope, "rate">>} :
     \/ i[2] = "p95" /\ new.latency[95] < old.latency[95]
     \/ i[2] = "rate" /\ RateDelta(old, new).num < 0}

\* Mutant: every endpoint of the new report is compared, a new one with itself.
Compare_NewScopes(old, new, allowed) ==
  LET o == Scopes(old)
      n == Scopes(new)
      At(s) == IF s \in DOMAIN o THEN o[s] ELSE Group(<<>>, {})
  IN [regressions |-> UNION {Regressions(s, At(s), n[s], allowed) : s \in DOMAIN n},
      improvements |-> UNION {Improvements(s, At(s), n[s]) : s \in DOMAIN n},
      added |-> DOMAIN n \ DOMAIN o,
      removed |-> DOMAIN o \ DOMAIN n]

\* compare_run_reports: the run as a whole, and the endpoints both reports have.
Compare(old, new, allowed) ==
  LET o == Scopes(old)
      n == Scopes(new)
      both == DOMAIN o \cap DOMAIN n
  IN [regressions |-> UNION {Regressions(s, o[s], n[s], allowed) : s \in both},
      improvements |-> UNION {Improvements(s, o[s], n[s]) : s \in both},
      added |-> DOMAIN n \ DOMAIN o,
      removed |-> DOMAIN o \ DOMAIN n]

=============================================================================
