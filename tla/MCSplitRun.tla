----------------------------- MODULE MCSplitRun -----------------------------
(* SplitRun with thresholds for TLC. *)
EXTENDS SplitRun

\* At most half of the requests may fail, none of those to "b" be slow.
Gate == [global |-> [p95 |-> None, rate |-> 50],
         endpoints |-> [n \in {"b"} |-> [p95 |-> 5, rate |-> None]]]

=============================================================================
