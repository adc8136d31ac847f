---------------------------- MODULE MCClusterRun ----------------------------
(* Small instances of ClusterRun for TLC. *)
EXTENDS ClusterRun, TLC

CONSTANTS w1, w2, w3, n1, n2, n3

\* Two workers with identifiers of their own.
TwoWorkers == {w1, w2}
TwoIds == {n1, n2}
IdsOfTwo == (w1 :> n1) @@ (w2 :> n2)

\* A third process: a surplus worker, or a restarted one that kept its identifier.
ThreeWorkers == {w1, w2, w3}
ThreeIds == {n1, n2, n3}
IdsOfThree == (w1 :> n1) @@ (w2 :> n2) @@ (w3 :> n3)
SharedId == (w1 :> n1) @@ (w2 :> n2) @@ (w3 :> n1)

NoWorker == {}
JustW2 == {w2}
JustW3 == {w3}
=============================================================================
