--------------------------- MODULE ClusterContract ---------------------------
(***************************************************************************)
(* What a networked distributed run promises, without connections and      *)
(* messages: no partition is handed out before the run has been formed,    *)
(* every partition is executed by at most one worker and completes at most *)
(* once, and the run returns an aggregate only when all partitions are in. *)
(***************************************************************************)
EXTENDS Integers

CONSTANT Expect          \* number of partitions, one per expected worker

VARIABLES
  phase,      \* "forming", "running" or the outcome of the run
  assigned,   \* partitions some worker has received
  completed   \* partitions whose result is in

contractVars == <<phase, assigned, completed>>

Partition == 0..Expect - 1

Init ==
  /\ phase = "forming"
  /\ assigned = {}
  /\ completed = {}

Begin ==
  /\ phase = "forming"
  /\ phase' = "running"
  /\ UNCHANGED <<assigned, completed>>

TimeOut ==
  /\ phase = "forming"
  /\ phase' = "timed_out"
  /\ UNCHANGED <<assigned, completed>>

\* A worker may still find its assignment in the stream after the run failed.
Assign(p) ==
  /\ phase \in {"running", "failed"}
  /\ p \notin assigned
  /\ assigned' = assigned \cup {p}
  /\ UNCHANGED <<phase, completed>>

Complete(p) ==
  /\ phase = "running"
  /\ p \in assigned \ completed
  /\ completed' = completed \cup {p}
  /\ UNCHANGED <<phase, assigned>>

Return ==
  /\ phase = "running"
  /\ completed = Partition
  /\ phase' = "returned"
  /\ UNCHANGED <<assigned, completed>>

Fail ==
  /\ phase = "running"
  /\ phase' = "failed"
  /\ UNCHANGED <<assigned, completed>>

Next ==
  \/ Begin
  \/ TimeOut
  \/ Return
  \/ Fail
  \/ \E p \in Partition : Assign(p) \/ Complete(p)

Spec == Init /\ [][Next]_contractVars

=============================================================================
