-------------------------- MODULE OperatorRun_proofs --------------------------
(***************************************************************************)
(* Theorems about OperatorRun, for every number of edits, restarts and     *)
(* failing calls, and every choice of what a run consists of.              *)
(***************************************************************************)
EXTENDS OperatorRun, SequenceTheorems, TLAPS

-----------------------------------------------------------------------------
(* The lists the handlers go through. *)

\* A list of one child, or of none.
LEMMA OnlyType ==
  ASSUME NEW b \in BOOLEAN, NEW c \in Children
  PROVE  Only(b, <<c>>) \in Seq(Children)
BY DEF Only

\* What a run consists of is never nothing,
LEMMA DesiredType == Desired \in Seq(Children) /\ Desired # <<>>
<1>1. /\ Only(InlineConfig, <<"config">>) \in Seq(Children)
      /\ Only(OwnToken, <<"token">>) \in Seq(Children)
      /\ Only(Pvc, <<"pvc">>) \in Seq(Children)
  BY OnlyType, OperatorAssumption DEF Children
<1>2. <<"service">> \in Seq(Children) /\ <<"controller", "worker">> \in Seq(Children)
  BY DEF Children, Jobs
<1> DEFINE inputs == Only(InlineConfig, <<"config">>) \o Only(OwnToken, <<"token">>)
                       \o <<"service">> \o Only(Pvc, <<"pvc">>)
<1>3. inputs \in Seq(Children)
  BY <1>1, <1>2
<1>4. Desired = inputs \o <<"controller", "worker">>
  BY DEF Desired
<1> HIDE DEF inputs
<1>5. Len(Desired) = Len(inputs) + 2
  BY <1>2, <1>3, <1>4
<1> QED BY <1>2, <1>3, <1>4, <1>5

\* What its deletion names is never nothing.
LEMMA CleanupNamesType == CleanupNames \in Seq(Children) /\ CleanupNames # <<>>
<1>1. Only(~retain, <<"pvc">>) \in Seq(Children)
  BY OnlyType, OperatorAssumption DEF Children
<1>2. <<"config", "token", "controller", "worker">> \in Seq(Children)
  BY DEF Children, Jobs
<1>3. Len(CleanupNames) = 4 + Len(Only(~retain, <<"pvc">>))
  BY <1>1, <1>2 DEF CleanupNames
<1> QED BY <1>1, <1>2, <1>3 DEF CleanupNames

\* What is left of a list that is not empty.
LEMMA RestOf ==
  ASSUME NEW s \in Seq(Children), s # <<>>
  PROVE  /\ Head(s) \in Children /\ Tail(s) \in Seq(Children)
         /\ Len(s) # 1 => Tail(s) # <<>>
<1>1. Head(s) \in Children /\ Tail(s) \in Seq(Children) /\ Len(Tail(s)) = Len(s) - 1
  BY HeadTailProperties
<1>2. Len(s) \in Nat /\ Len(<<>>) = 0
  BY LenProperties, EmptySeq
<1>3. Tail(s) = <<>> => Len(s) = 1
  BY <1>1, <1>2
<1> QED BY <1>1, <1>3

-----------------------------------------------------------------------------
(* Types. *)

\* A running handler has something left to do.
BusyInv == op \in {"apply", "delete"} => todo # <<>>

\* The first state is well typed.
LEMMA InitTypes == Init => TypeOK /\ BusyInv
<1> SUFFICES ASSUME Init PROVE TypeOK /\ BusyInv
  OBVIOUS
<1>1. spec \in 1..MaxSpec /\ handled \in 0..MaxSpec /\ body \in 0..MaxSpec
      /\ restarts \in 0..MaxRestarts /\ errors \in 0..MaxFailures
  BY OperatorAssumption DEF Init
<1>2. child \in [Children -> 0..MaxSpec] /\ pod \in [Jobs -> {"none", "current", "stale"}]
  BY OperatorAssumption DEF Init
<1>3. todo \in Seq(Children)
  BY DEF Init
<1>4. retain \in BOOLEAN
  BY OperatorAssumption DEF Init
<1> QED BY <1>1, <1>2, <1>3, <1>4 DEF Init, TypeOK, BusyInv

\* The types after a step of a handler.
LEMMA HandlerTypes == TypeOK /\ BusyInv /\ Handlers => TypeOK' /\ BusyInv'
<1> SUFFICES ASSUME TypeOK, BusyInv, Handlers
             PROVE  TypeOK' /\ BusyInv'
  OBVIOUS
<1>1. CASE CreateOrResume
  BY <1>1, DesiredType, OperatorAssumption DEF TypeOK, BusyInv, CreateOrResume, cluster, bounds
<1>2. CASE Apply
  <2>1. todo \in Seq(Children) /\ todo # <<>>
    BY <1>2 DEF TypeOK, BusyInv, Apply
  <2>2. Head(todo) \in Children /\ Tail(todo) \in Seq(Children)
        /\ (Len(todo) # 1 => Tail(todo) # <<>>)
    BY <2>1, RestOf
  <2>3. child' \in [Children -> 0..MaxSpec]
    BY <1>2 DEF TypeOK, Apply
  <2>4. pod' \in [Jobs -> {"none", "current", "stale"}]
    BY <1>2 DEF TypeOK, Apply, Rotated
  <2>5. finalizer' \in BOOLEAN /\ drifted' \in BOOLEAN /\ resume' \in BOOLEAN /\ blocked' \in BOOLEAN
    BY <1>2, Zenon DEF TypeOK, Apply, Patched
  <2>6. CASE Len(todo) = 1
    BY <1>2, <2>3, <2>4, <2>5, <2>6, OperatorAssumption DEF TypeOK, BusyInv, Apply, HandlerEnds, Patched, bounds
  <2>7. CASE Len(todo) # 1
    BY <1>2, <2>2, <2>3, <2>4, <2>5, <2>7 DEF TypeOK, BusyInv, Apply, bounds
  <2> QED BY <2>6, <2>7
<1>3. CASE ApplyFails
  <2>1. errors' \in 0..MaxFailures
    BY <1>3, OperatorAssumption DEF TypeOK, ApplyFails
  <2>2. finalizer' \in BOOLEAN /\ drifted' \in BOOLEAN
    BY <1>3, Zenon DEF TypeOK, ApplyFails, Patched
  <2> QED BY <1>3, <2>1, <2>2, OperatorAssumption DEF TypeOK, BusyInv, ApplyFails, HandlerEnds, Patched, cluster
<1>4. CASE Update
  <2>1. drifted' \in BOOLEAN
    BY <1>4, Zenon DEF TypeOK, Update
  <2> QED BY <1>4, <2>1 DEF TypeOK, BusyInv, Update, operator, cluster, bounds
<1>5. CASE Delete
  BY <1>5, CleanupNamesType DEF TypeOK, BusyInv, Delete, object, cluster, bounds
<1>6. CASE DeleteNext
  <2>1. todo \in Seq(Children) /\ todo # <<>>
    BY <1>6 DEF TypeOK, BusyInv, DeleteNext
  <2>2. Tail(todo) \in Seq(Children) /\ (Len(todo) # 1 => Tail(todo) # <<>>)
    BY <2>1, RestOf
  <2>3. PICK missed \in SUBSET Named(Head(todo)) :
          /\ missed # {} => errors < MaxFailures
          /\ errors' = IF missed = {} THEN errors ELSE errors + 1
          /\ LET gone == Named(Head(todo)) \ missed
             IN /\ child' = [c \in Children |-> IF c \in gone THEN 0 ELSE child[c]]
                /\ pod' = [j \in Jobs |-> IF j \in gone THEN "none" ELSE pod[j]]
    BY <1>6 DEF DeleteNext
  <2>4. errors' \in 0..MaxFailures
    BY <2>3, OperatorAssumption DEF TypeOK
  <2>5. child' \in [Children -> 0..MaxSpec]
    BY <2>3, OperatorAssumption DEF TypeOK
  <2>6. pod' \in [Jobs -> {"none", "current", "stale"}]
    BY <2>3 DEF TypeOK
  <2>7. CASE Len(todo) = 1
    <3>1. todo' = <<>> /\ op' = "idle" /\ body' = 0 /\ blocked' = FALSE
      BY <1>6, <2>7 DEF DeleteNext, HandlerEnds
    <3>2. cr' \in {"present", "deleting", "gone"}
      BY <1>6, <2>7 DEF DeleteNext
    <3>3. todo' \in Seq(Children)
      BY <3>1
    <3>4. UNCHANGED <<spec, retain, finalizer, phase, drifted, handled, resume, ended, restarts>>
      BY <1>6 DEF DeleteNext
    <3>5. body' \in 0..MaxSpec
      BY <3>1, OperatorAssumption
    <3>6. TypeOK'
      BY <2>4, <2>5, <2>6, <3>1, <3>2, <3>3, <3>4, <3>5 DEF TypeOK
    <3> QED BY <3>1, <3>6 DEF BusyInv
  <2>8. CASE Len(todo) # 1
    BY <1>6, <2>2, <2>4, <2>5, <2>6, <2>8 DEF TypeOK, BusyInv, DeleteNext
  <2> QED BY <2>7, <2>8
<1> QED BY <1>1, <1>2, <1>3, <1>4, <1>5, <1>6 DEF Handlers

\* The types after a step of anybody else.
LEMMA WorldTypes ==
  TypeOK /\ BusyInv /\ (Crash \/ Start \/ World \/ UNCHANGED vars) => TypeOK' /\ BusyInv'
<1> SUFFICES ASSUME TypeOK, BusyInv, Crash \/ Start \/ World \/ UNCHANGED vars
             PROVE  TypeOK' /\ BusyInv'
  OBVIOUS
<1>1. CASE Crash
  BY <1>1, OperatorAssumption DEF TypeOK, BusyInv, Crash, object, cluster
<1>2. CASE Start
  BY <1>2 DEF TypeOK, BusyInv, Start, object, cluster, bounds
<1>3. CASE Edit
  <2>1. retain' \in BOOLEAN
    BY <1>3, OperatorAssumption DEF Edit
  <2> QED BY <1>3, <2>1, OperatorAssumption DEF TypeOK, BusyInv, Edit, operator, cluster, bounds
<1>4. CASE RequestDelete
  BY <1>4 DEF TypeOK, BusyInv, RequestDelete, operator, cluster, bounds
<1>5. CASE RemoveFinalizer
  BY <1>5 DEF TypeOK, BusyInv, RemoveFinalizer, operator, cluster, bounds
<1>6. CASE GarbageCollect
  BY <1>6, OperatorAssumption DEF TypeOK, BusyInv, GarbageCollect, object, operator, bounds
<1>7. CASE \E j \in Jobs : PodStarts(j)
  BY <1>7 DEF TypeOK, BusyInv, PodStarts, object, operator, bounds
<1>8. CASE RunEnds
  BY <1>8 DEF TypeOK, BusyInv, RunEnds, object, operator, bounds
<1>9. CASE UNCHANGED vars
  BY <1>9 DEF TypeOK, BusyInv, vars, object, operator, cluster, bounds
<1> QED BY <1>1, <1>2, <1>3, <1>4, <1>5, <1>6, <1>7, <1>8, <1>9 DEF World

\* Every reachable state is well typed, and a running handler has something left to do.
THEOREM TypeCorrect == Spec => [](TypeOK /\ BusyInv)
<1>1. Init => TypeOK /\ BusyInv
  BY InitTypes
<1>2. (TypeOK /\ BusyInv) /\ [Next]_vars => (TypeOK /\ BusyInv)'
  BY HandlerTypes, WorldTypes DEF Next
<1> QED BY <1>1, <1>2, PTL DEF Spec

-----------------------------------------------------------------------------
(* The order of the lists. *)

\* The order in which the children of a run are applied.
Rank == [c \in Children |->
           CASE c = "config" -> 1 [] c = "token" -> 2 [] c = "service" -> 3 [] c = "pvc" -> 4
             [] c = "controller" -> 5 [] c = "worker" -> 6]

\* A list in that order.
InOrder(s) == \A i, j \in 1..Len(s) : i < j => Rank[s[i]] < Rank[s[j]]

\* The children on a list.
Listed(s) == {c \in Children : \E i \in 1..Len(s) : s[i] = c}

\* A list in that order, of children from one rank to another.
Between(s, m, n) ==
  s \in Seq(Children) /\ InOrder(s) /\ \A i \in 1..Len(s) : Rank[s[i]] \in m..n

\* Lists one after the other are in order if their ranks are.
LEMMA JoinedInOrder ==
  ASSUME NEW s, NEW t, NEW m \in Nat, NEW k \in Nat, NEW l \in Nat, NEW n \in Nat,
         Between(s, m, k), Between(t, l, n), k < l, m <= l, k <= n
  PROVE  Between(s \o t, m, n)
<1>1. s \in Seq(Children) /\ t \in Seq(Children) /\ s \o t \in Seq(Children)
  BY DEF Between
<1>2. /\ Len(s) \in Nat /\ Len(t) \in Nat /\ Len(s \o t) = Len(s) + Len(t)
      /\ \A i \in 1..Len(s) + Len(t) : (s \o t)[i] = IF i <= Len(s) THEN s[i] ELSE t[i - Len(s)]
  BY <1>1
<1>3. ASSUME NEW i \in 1..Len(s \o t)
      PROVE  \/ i \in 1..Len(s) /\ (s \o t)[i] = s[i]
             \/ i > Len(s) /\ i - Len(s) \in 1..Len(t) /\ (s \o t)[i] = t[i - Len(s)]
  BY <1>2
<1>4. /\ \A i \in 1..Len(s) : Rank[s[i]] \in m..k
      /\ \A i \in 1..Len(t) : Rank[t[i]] \in l..n
  BY DEF Between
<1>5. ASSUME NEW i \in 1..Len(s \o t), NEW j \in 1..Len(s \o t), i < j
      PROVE  Rank[(s \o t)[i]] < Rank[(s \o t)[j]]
  <2>1. CASE j \in 1..Len(s)
    <3>1. i \in 1..Len(s) /\ (s \o t)[i] = s[i] /\ (s \o t)[j] = s[j]
      BY <1>2, <1>3, <1>5, <2>1
    <3> QED BY <1>5, <2>1, <3>1 DEF Between, InOrder
  <2>2. CASE i \in 1..Len(s) /\ j > Len(s)
    <3>1. /\ (s \o t)[i] = s[i]
          /\ j - Len(s) \in 1..Len(t) /\ (s \o t)[j] = t[j - Len(s)]
      BY <1>2, <1>3, <2>2
    <3>2. Rank[s[i]] \in m..k /\ Rank[t[j - Len(s)]] \in l..n
      BY <1>4, <2>2, <3>1
    <3> QED BY <3>1, <3>2
  <2>3. CASE i > Len(s) /\ j > Len(s)
    <3>1. /\ i - Len(s) \in 1..Len(t) /\ (s \o t)[i] = t[i - Len(s)]
          /\ j - Len(s) \in 1..Len(t) /\ (s \o t)[j] = t[j - Len(s)]
          /\ i - Len(s) < j - Len(s)
      BY <1>2, <1>3, <1>5, <2>3
    <3> QED BY <3>1 DEF Between, InOrder
  <2>4. (i \in 1..Len(s) \/ i > Len(s)) /\ (j \in 1..Len(s) \/ j > Len(s))
    BY <1>3
  <2>5. i > Len(s) => j > Len(s)
    BY <1>2, <1>5
  <2> QED BY <2>1, <2>2, <2>3, <2>4, <2>5
<1>6. \A i \in 1..Len(s \o t) : Rank[(s \o t)[i]] \in m..n
  BY <1>3, <1>4
<1> QED BY <1>1, <1>5, <1>6 DEF Between, InOrder

\* A list of one child, or of none, is in order.
LEMMA OnlyInOrder ==
  ASSUME NEW b \in BOOLEAN, NEW c \in Children
  PROVE  Between(Only(b, <<c>>), Rank[c], Rank[c])
<1>1. Rank[c] \in Nat
  BY DEF Rank, Children, Jobs
<1>2. CASE b
  <2>1. PICK s \in Seq(Children) : s = <<c>>
    <3>1. <<c>> \in Seq(Children)
      OBVIOUS
    <3> QED BY <3>1
  <2>2. \A i \in 1..Len(s) : i = 1 /\ s[i] = c
    BY <2>1
  <2>3. Only(b, <<c>>) = s
    BY <1>2, <2>1 DEF Only
  <2> QED BY <1>1, <2>2, <2>3 DEF Between, InOrder
<1>3. CASE ~b
  BY <1>3 DEF Only, Between, InOrder
<1> QED BY <1>2, <1>3

\* The children are applied in the order of their ranks.
LEMMA DesiredInOrder == Between(Desired, 1, 6)
<1> DEFINE config == Only(InlineConfig, <<"config">>)
           token == Only(OwnToken, <<"token">>)
           service == Only(TRUE, <<"service">>)
           pvc == Only(Pvc, <<"pvc">>)
           jobs == <<"controller", "worker">>
<1>1. Between(config, 1, 1) /\ Between(token, 2, 2) /\ Between(service, 3, 3) /\ Between(pvc, 4, 4)
  <2>1. {"config", "token", "service", "pvc"} \subseteq Children
    BY DEF Children
  <2>2. Rank["config"] = 1 /\ Rank["token"] = 2 /\ Rank["service"] = 3 /\ Rank["pvc"] = 4
    BY <2>1 DEF Rank
  <2> QED BY <2>1, <2>2, OnlyInOrder, OperatorAssumption
<1>2. Between(jobs, 5, 6)
  <2>1. jobs \in Seq(Children)
    BY DEF Children, Jobs
  <2>2. \A i \in 1..Len(jobs) : i \in {1, 2}
    OBVIOUS
  <2>3. Len(jobs) = 2 /\ jobs[1] = "controller" /\ jobs[2] = "worker"
    OBVIOUS
  <2>4. Rank["controller"] = 5 /\ Rank["worker"] = 6
    BY DEF Rank, Children, Jobs
  <2> QED BY <2>1, <2>2, <2>3, <2>4 DEF Between, InOrder
<1>3. Desired = (((config \o token) \o service) \o pvc) \o jobs
  BY DEF Desired, Only
<1> HIDE DEF config, token, service, pvc, jobs
<1>4. Between(config \o token, 1, 2)
  BY <1>1, JoinedInOrder
<1>5. Between((config \o token) \o service, 1, 3)
  BY <1>1, <1>4, JoinedInOrder
<1>6. Between(((config \o token) \o service) \o pvc, 1, 4)
  BY <1>1, <1>5, JoinedInOrder
<1>7. Between((((config \o token) \o service) \o pvc) \o jobs, 1, 6)
  BY <1>2, <1>6, JoinedInOrder
<1> QED BY <1>3, <1>7

\* Taking the first of a list leaves the others.
LEMMA FirstTaken ==
  ASSUME NEW s \in Seq(Children), s # <<>>
  PROVE  /\ Head(s) \in Children /\ Head(s) \in Listed(s)
         /\ Listed(s) = {Head(s)} \cup Listed(Tail(s))
         /\ Len(s) = 1 => Listed(s) = {Head(s)}
         /\ InOrder(s) => /\ InOrder(Tail(s))
                          /\ \A c \in Listed(Tail(s)) : Rank[Head(s)] < Rank[c]
<1>1. /\ Head(s) = s[1] /\ s[1] \in Children /\ Len(s) \in Nat \ {0} /\ 1 \in 1..Len(s)
      /\ Tail(s) \in Seq(Children) /\ Len(Tail(s)) = Len(s) - 1
      /\ \A i \in 1..Len(Tail(s)) : Tail(s)[i] = s[i + 1]
  BY HeadTailProperties, EmptySeq, ElementOfSeq
<1>2. \A i \in 1..Len(Tail(s)) : i + 1 \in 1..Len(s) /\ 1 < i + 1
  BY <1>1
<1>3. \A i \in 1..Len(s) : i = 1 \/ (i - 1 \in 1..Len(Tail(s)) /\ Tail(s)[i - 1] = s[i])
  <2>1. ASSUME NEW i \in 1..Len(s), i # 1 PROVE i - 1 \in 1..Len(Tail(s)) /\ (i - 1) + 1 = i
    BY <1>1, <2>1
  <2> QED BY <1>1, <2>1
<1>4. Listed(s) = {Head(s)} \cup Listed(Tail(s))
  BY <1>1, <1>2, <1>3 DEF Listed
<1>5. Len(s) = 1 => Listed(s) = {Head(s)}
  BY <1>1 DEF Listed
<1>6. ASSUME InOrder(s)
      PROVE  InOrder(Tail(s)) /\ \A c \in Listed(Tail(s)) : Rank[Head(s)] < Rank[c]
  <2>1. ASSUME NEW i \in 1..Len(Tail(s)), NEW j \in 1..Len(Tail(s)), i < j
        PROVE  Rank[Tail(s)[i]] < Rank[Tail(s)[j]]
    <3>1. i + 1 \in 1..Len(s) /\ j + 1 \in 1..Len(s) /\ i + 1 < j + 1
      BY <1>1, <2>1
    <3> QED BY <1>1, <1>6, <3>1 DEF InOrder
  <2>2. ASSUME NEW i \in 1..Len(Tail(s)) PROVE Rank[s[1]] < Rank[Tail(s)[i]]
    <3>1. i + 1 \in 1..Len(s) /\ 1 < i + 1 /\ Tail(s)[i] = s[i + 1]
      BY <1>1, <1>2
    <3>2. Rank[s[1]] < Rank[s[i + 1]]
      BY <1>1, <1>6, <3>1 DEF InOrder
    <3> QED BY <3>1, <3>2
  <2> QED BY <1>1, <2>1, <2>2 DEF InOrder, Listed
<1> QED BY <1>1, <1>4, <1>5, <1>6

\* What is on two lists.
LEMMA JoinedListed ==
  ASSUME NEW s \in Seq(Children), NEW t \in Seq(Children)
  PROVE  s \o t \in Seq(Children) /\ Listed(s \o t) = Listed(s) \cup Listed(t)
<1>1. /\ Len(s) \in Nat /\ Len(t) \in Nat /\ Len(s \o t) = Len(s) + Len(t)
      /\ \A i \in 1..Len(s) + Len(t) : (s \o t)[i] = IF i <= Len(s) THEN s[i] ELSE t[i - Len(s)]
  OBVIOUS
<1>2. ASSUME NEW c \in Listed(s) PROVE c \in Listed(s \o t)
  <2>1. PICK i \in 1..Len(s) : s[i] = c
    BY DEF Listed
  <2>2. i \in 1..Len(s \o t) /\ (s \o t)[i] = c
    BY <1>1, <2>1
  <2> QED BY <2>2 DEF Listed
<1>3. ASSUME NEW c \in Listed(t) PROVE c \in Listed(s \o t)
  <2>1. PICK i \in 1..Len(t) : t[i] = c
    BY DEF Listed
  <2>2. i + Len(s) \in 1..Len(s \o t) /\ ~(i + Len(s) <= Len(s)) /\ (i + Len(s)) - Len(s) = i
    BY <1>1
  <2>3. (s \o t)[i + Len(s)] = c
    BY <1>1, <2>1, <2>2
  <2> QED BY <2>2, <2>3 DEF Listed
<1>4. ASSUME NEW c \in Listed(s \o t) PROVE c \in Listed(s) \cup Listed(t)
  <2>1. PICK i \in 1..Len(s \o t) : (s \o t)[i] = c
    BY DEF Listed
  <2>2. CASE i <= Len(s)
    BY <1>1, <2>1, <2>2 DEF Listed
  <2>3. CASE ~(i <= Len(s))
    <3>1. i - Len(s) \in 1..Len(t) /\ t[i - Len(s)] = c
      BY <1>1, <2>1, <2>3
    <3> QED BY <3>1 DEF Listed
  <2> QED BY <2>2, <2>3
<1> QED BY <1>2, <1>3, <1>4

\* What is on a list of one child, or of none.
LEMMA OnlyListed ==
  ASSUME NEW b \in BOOLEAN, NEW c \in Children
  PROVE  Only(b, <<c>>) \in Seq(Children) /\ Listed(Only(b, <<c>>)) = IF b THEN {c} ELSE {}
<1>1. PICK s \in Seq(Children) : s = <<c>>
  <2>1. <<c>> \in Seq(Children)
    OBVIOUS
  <2> QED BY <2>1
<1>2. 1 \in 1..Len(s) /\ \A i \in 1..Len(s) : i = 1 /\ s[i] = c
  BY <1>1
<1>3. Listed(s) = {c}
  BY <1>2 DEF Listed
<1> QED BY <1>1, <1>3, OnlyType DEF Only, Listed

\* A token of its own is the only one that is applied.
LEMMA DesiredToken == "token" \in Listed(Desired) => OwnToken
<1> DEFINE config == Only(InlineConfig, <<"config">>)
           token == Only(OwnToken, <<"token">>)
           service == Only(TRUE, <<"service">>)
           pvc == Only(Pvc, <<"pvc">>)
           controller == Only(TRUE, <<"controller">>)
           worker == Only(TRUE, <<"worker">>)
<1> DEFINE Lacks(s) == s \in Seq(Children) /\ "token" \notin Listed(s)
<1>1. SUFFICES ASSUME ~OwnToken PROVE Lacks(Desired)
  OBVIOUS
<1>2. /\ Lacks(config) /\ Lacks(token) /\ Lacks(service)
      /\ Lacks(pvc) /\ Lacks(controller) /\ Lacks(worker)
  <2>1. {"config", "token", "service", "pvc", "controller", "worker"} \subseteq Children
    BY DEF Children, Jobs
  <2>2. \A b \in BOOLEAN, c \in Children : ~(b /\ c = "token") => Lacks(Only(b, <<c>>))
    BY OnlyListed
  <2>3. InlineConfig \in BOOLEAN /\ OwnToken \in BOOLEAN /\ Pvc \in BOOLEAN
    BY OperatorAssumption
  <2> HIDE DEF Lacks
  <2> QED BY <1>1, <2>1, <2>2, <2>3
<1>3. Desired = (((config \o token) \o service) \o pvc) \o (controller \o worker)
  BY DEF Desired, Only
<1>4. ASSUME NEW s, NEW t, Lacks(s), Lacks(t) PROVE Lacks(s \o t)
  BY <1>4, JoinedListed
<1> HIDE DEF config, token, service, pvc, controller, worker, Lacks
<1>5. Lacks(((config \o token) \o service) \o pvc) /\ Lacks(controller \o worker)
  BY <1>2, <1>4
<1> QED BY <1>3, <1>4, <1>5

\* The claim is among the children of a run that keeps its artifacts in one.
LEMMA DesiredClaim == Pvc => "pvc" \in Listed(Desired)
<1> SUFFICES ASSUME Pvc PROVE "pvc" \in Listed(Desired)
  OBVIOUS
<1> DEFINE config == Only(InlineConfig, <<"config">>)
           token == Only(OwnToken, <<"token">>)
           service == Only(TRUE, <<"service">>)
           pvc == Only(TRUE, <<"pvc">>)
           controller == Only(TRUE, <<"controller">>)
           worker == Only(TRUE, <<"worker">>)
<1>1. /\ config \in Seq(Children) /\ token \in Seq(Children) /\ service \in Seq(Children)
      /\ pvc \in Seq(Children) /\ controller \in Seq(Children) /\ worker \in Seq(Children)
  <2>1. {"config", "token", "service", "pvc", "controller", "worker"} \subseteq Children
    BY DEF Children, Jobs
  <2> QED BY <2>1, OnlyType, OperatorAssumption
<1>2. "pvc" \in Listed(pvc)
  BY OnlyListed DEF Children
<1>3. Desired = (((config \o token) \o service) \o pvc) \o (controller \o worker)
  BY DEF Desired, Only
<1> HIDE DEF config, token, service, pvc, controller, worker
<1>4. ((config \o token) \o service) \in Seq(Children) /\ (controller \o worker) \in Seq(Children)
  BY <1>1
<1>5. "pvc" \in Listed(((config \o token) \o service) \o pvc)
  BY <1>1, <1>2, <1>4, JoinedListed
<1>6. (((config \o token) \o service) \o pvc) \in Seq(Children)
  BY <1>1, <1>4
<1> QED BY <1>3, <1>4, <1>5, <1>6, JoinedListed

\* What the deletion of a run removes.
Doomed == {c \in Children : c = "pvc" => ~retain}

\* The names that are deleted are those of everything that does not outlive the run.
LEMMA NamesOfDoomed ==
  /\ \A c \in Doomed : \E n \in Listed(CleanupNames) : c \in Named(n)
  /\ "pvc" \in Listed(CleanupNames) => ~retain
<1> DEFINE pvc == Only(~retain, <<"pvc">>)
           names == <<"config", "token", "controller", "worker">>
<1>1. pvc \in Seq(Children) /\ Listed(pvc) = IF ~retain THEN {"pvc"} ELSE {}
  BY OnlyListed, OperatorAssumption DEF Children
<1>2. names \in Seq(Children) /\ Listed(names) = {"config", "token", "controller", "worker"}
  <2>1. names \in Seq(Children)
    BY DEF Children, Jobs
  <2>2. /\ Len(names) = 4 /\ names[1] = "config" /\ names[2] = "token"
        /\ names[3] = "controller" /\ names[4] = "worker"
    OBVIOUS
  <2> HIDE DEF names
  <2>3. 1..Len(names) = {1, 2, 3, 4}
    BY <2>2
  <2> QED BY <2>1, <2>2, <2>3 DEF Listed, Children, Jobs
<1>3. CleanupNames = names \o pvc
  BY DEF CleanupNames
<1> HIDE DEF names, pvc
<1>4. Listed(CleanupNames) = {"config", "token", "controller", "worker"} \cup Listed(pvc)
  BY <1>1, <1>2, <1>3, JoinedListed
<1>5. "pvc" \in Listed(CleanupNames) <=> ~retain
  BY <1>1, <1>4
<1>6. ASSUME NEW c \in Doomed PROVE \E n \in Listed(CleanupNames) : c \in Named(n)
  <2>1. CASE c = "pvc"
    BY <1>5, <2>1 DEF Doomed, Named
  <2>2. CASE c = "service"
    BY <1>4, <2>2 DEF Named
  <2>3. CASE c \in {"config", "token", "controller", "worker"}
    BY <1>4, <2>3 DEF Named
  <2> QED BY <2>1, <2>2, <2>3 DEF Doomed, Children, Jobs
<1> QED BY <1>5, <1>6

-----------------------------------------------------------------------------
(* Handlers, inputs, deletion. *)

\* A handler is at work on a run it blocks, in the order of the children.
HandlerInv ==
  /\ op = "apply" => body # 0 /\ blocked /\ cr # "gone" /\ InOrder(todo)
  /\ op = "delete" => cr = "deleting" /\ blocked
  /\ cr = "present" /\ finalizer => blocked

\* What is to be applied is there or will be.
InputsInv ==
  /\ op = "apply" => \A c \in Listed(Desired) : child[c] # 0 \/ c \in Listed(todo)
  /\ InputsFirst

\* Every step keeps HandlerInv.
LEMMA HandlerInductive == TypeOK /\ BusyInv /\ HandlerInv /\ [Next]_vars => HandlerInv'
<1> SUFFICES ASSUME TypeOK, BusyInv, HandlerInv, [Next]_vars PROVE HandlerInv'
  OBVIOUS
<1>1. CASE CreateOrResume
  <2>1. InOrder(Desired)
    BY DesiredInOrder DEF Between
  <2> QED BY <1>1, <2>1 DEF CreateOrResume, HandlerInv, TypeOK
<1>2. CASE Apply
  <2>1. todo \in Seq(Children) /\ todo # <<>> /\ op = "apply" /\ InOrder(todo)
    BY <1>2 DEF Apply, TypeOK, BusyInv, HandlerInv
  <2>2. InOrder(Tail(todo))
    BY <2>1, FirstTaken
  <2>3. CASE Len(todo) = 1
    BY <1>2, <2>3 DEF Apply, HandlerEnds, Patched, HandlerInv
  <2>4. CASE Len(todo) # 1
    BY <1>2, <2>2, <2>4 DEF Apply, HandlerInv
  <2> QED BY <2>3, <2>4
<1>3. CASE ApplyFails
  BY <1>3 DEF ApplyFails, HandlerEnds, Patched, HandlerInv
<1>4. CASE Update
  BY <1>4 DEF Update, operator, HandlerInv
<1>5. CASE Delete
  BY <1>5 DEF Delete, object, HandlerInv
<1>6. CASE DeleteNext
  <2>1. CASE Len(todo) = 1
    BY <1>6, <2>1 DEF DeleteNext, HandlerEnds, HandlerInv
  <2>2. CASE Len(todo) # 1
    BY <1>6, <2>2 DEF DeleteNext, HandlerInv
  <2> QED BY <2>1, <2>2
<1>7. CASE Crash \/ Start
  BY <1>7 DEF Crash, Start, object, HandlerInv
<1>8. CASE Edit \/ RequestDelete \/ RemoveFinalizer
  BY <1>8 DEF Edit, RequestDelete, RemoveFinalizer, operator, HandlerInv
<1>9. CASE GarbageCollect \/ (\E j \in Jobs : PodStarts(j)) \/ RunEnds \/ UNCHANGED vars
  BY <1>9 DEF GarbageCollect, PodStarts, RunEnds, vars, object, operator, HandlerInv
<1> QED BY <1>1, <1>2, <1>3, <1>4, <1>5, <1>6, <1>7, <1>8, <1>9 DEF Next, Handlers, World

\* Children appear only by being applied, and disappear only with their run.
LEMMA ChildrenChange ==
  ASSUME TypeOK, BusyInv, HandlerInv, [Next]_vars
  PROVE  \/ UNCHANGED child
         \/ /\ Apply /\ Head(todo) \in Children /\ body # 0
            /\ \A c \in Children : child'[c] = IF c = Head(todo) THEN body ELSE child[c]
         \/ DeleteNext \/ GarbageCollect
<1>1. CASE Apply
  <2>1. todo \in Seq(Children) /\ todo # <<>> /\ body # 0
    BY <1>1 DEF Apply, TypeOK, BusyInv, HandlerInv
  <2>2. Head(todo) \in Children
    BY <2>1, FirstTaken
  <2>3. \A c \in Children : child'[c] = IF c = Head(todo) THEN body ELSE child[c]
    BY <1>1 DEF Apply, TypeOK
  <2> QED BY <1>1, <2>1, <2>2, <2>3
<1>2. CASE ~(Apply \/ DeleteNext \/ GarbageCollect)
  BY <1>2 DEF Next, Handlers, World, CreateOrResume, ApplyFails, Update, Delete, Crash, Start, Edit,
              RequestDelete, RemoveFinalizer, PodStarts, RunEnds, vars, cluster
<1> QED BY <1>1, <1>2

\* When a job is applied nothing is left to be applied but jobs.
LEMMA JobsLast ==
  ASSUME TypeOK, BusyInv, HandlerInv, op = "apply", Head(todo) \in Jobs
  PROVE  Listed(todo) \subseteq Jobs
<1>1. todo \in Seq(Children) /\ todo # <<>> /\ InOrder(todo)
  BY DEF TypeOK, BusyInv, HandlerInv
<1>2. /\ Listed(todo) = {Head(todo)} \cup Listed(Tail(todo))
      /\ \A c \in Listed(Tail(todo)) : Rank[Head(todo)] < Rank[c]
  BY <1>1, FirstTaken
<1>3. \A c \in Children : Rank[c] > 4 => c \in Jobs
  BY DEF Rank, Children, Jobs
<1>4. Rank[Head(todo)] \in {5, 6} /\ \A c \in Children : Rank[c] \in 1..6
  BY DEF Rank, Children, Jobs
<1>5. ASSUME NEW c \in Listed(Tail(todo)) PROVE c \in Jobs
  <2>1. c \in Children /\ Rank[Head(todo)] < Rank[c]
    BY <1>2 DEF Listed
  <2> QED BY <1>3, <1>4, <2>1
<1> QED BY <1>2, <1>5

\* Every step keeps InputsInv.
LEMMA InputsInductive ==
  TypeOK /\ BusyInv /\ HandlerInv /\ InputsInv /\ [Next]_vars => InputsInv'
<1> SUFFICES ASSUME TypeOK, BusyInv, HandlerInv, InputsInv, [Next]_vars PROVE InputsInv'
  OBVIOUS
<1> USE DEF Listed
<1>1. CASE CreateOrResume
  BY <1>1 DEF CreateOrResume, InputsInv, InputsFirst, cluster
<1>2. CASE Apply
  <2>1. /\ todo \in Seq(Children) /\ todo # <<>> /\ op = "apply" /\ body # 0
        /\ Head(todo) \in Children
        /\ \A c \in Children : child'[c] = IF c = Head(todo) THEN body ELSE child[c]
    BY <1>2, FirstTaken DEF Apply, TypeOK, BusyInv, HandlerInv
  <2>2. Listed(todo) = {Head(todo)} \cup Listed(Tail(todo))
    BY <2>1, FirstTaken
  <2>3. op' = "apply" => todo' = Tail(todo)
    BY <1>2 DEF Apply, HandlerEnds
  <2>4. (op = "apply")' => \A c \in Listed(Desired) : child'[c] # 0 \/ c \in Listed(todo')
    BY <2>1, <2>2, <2>3 DEF InputsInv
  <2>5. ASSUME cr = "present", NEW j \in Jobs, child'[j] # 0,
               NEW c \in {"config", "token", "service", "pvc"}, c \in Listed(Desired)
        PROVE  child'[c] # 0
    <3>1. c \in Children /\ c \notin Jobs /\ j \in Children
      BY DEF Children, Jobs
    <3>2. CASE Head(todo) \in Jobs
      <4>1. c \notin Listed(todo)
        BY <2>1, <3>1, <3>2, JobsLast
      <4> QED BY <2>1, <2>5, <3>1, <3>2, <4>1 DEF InputsInv
    <3>3. CASE Head(todo) \notin Jobs
      <4>1. child[j] # 0
        BY <2>1, <2>5, <3>1, <3>3
      <4>2. child[c] # 0
        BY <2>5, <4>1 DEF InputsInv, InputsFirst
      <4> QED BY <2>1, <3>1, <4>2
    <3> QED BY <3>2, <3>3
  <2>6. cr' = cr
    BY <1>2 DEF Apply
  <2>7. InputsFirst'
    BY <2>5, <2>6 DEF InputsFirst, Desired, Only, Children
  <2> QED BY <2>4, <2>7 DEF InputsInv
<1>3. CASE ApplyFails
  BY <1>3 DEF ApplyFails, HandlerEnds, InputsInv, InputsFirst, cluster
<1>4. CASE Update
  BY <1>4 DEF Update, operator, cluster, InputsInv, InputsFirst
<1>5. CASE Delete
  BY <1>5 DEF Delete, object, cluster, InputsInv, InputsFirst
<1>6. CASE DeleteNext
  <2>1. op = "delete" /\ op' # "apply" /\ cr' # "present"
    BY <1>6 DEF DeleteNext, HandlerEnds, HandlerInv
  <2> QED BY <2>1 DEF InputsInv, InputsFirst
<1>7. CASE Crash \/ Start
  BY <1>7 DEF Crash, Start, object, cluster, InputsInv, InputsFirst
<1>8. CASE Edit \/ RequestDelete \/ RemoveFinalizer
  BY <1>8 DEF Edit, RequestDelete, RemoveFinalizer, operator, cluster, InputsInv, InputsFirst
<1>9. CASE GarbageCollect
  BY <1>9 DEF GarbageCollect, object, operator, HandlerInv, InputsInv, InputsFirst
<1>10. CASE (\E j \in Jobs : PodStarts(j)) \/ RunEnds \/ UNCHANGED vars
  BY <1>10 DEF PodStarts, RunEnds, vars, object, operator, cluster, InputsInv, InputsFirst
<1> QED BY <1>1, <1>2, <1>3, <1>4, <1>5, <1>6, <1>7, <1>8, <1>9, <1>10 DEF Next, Handlers, World

\* What is to be deleted is gone or will be.
DeleteInv ==
  /\ op = "delete" /\ errors = 0 =>
       \A c \in Doomed : child[c] = 0 \/ \E n \in Listed(todo) : c \in Named(n)
  /\ op = "delete" /\ retain => "pvc" \notin Listed(todo)
  /\ cr = "deleting" /\ ~blocked /\ errors = 0 => \A c \in Doomed : child[c] = 0

\* The claim of a run that was applied is there, unless a deletion is not to retain it.
ClaimInv ==
  Pvc /\ handled # 0 /\ cr # "gone" /\ (cr = "deleting" => retain) => child["pvc"] # 0

\* Without restart and failure the children are applied once, the token before any pod.
OnceInv ==
  AppliedOnce =>
    /\ op # "down" /\ ~resume
    /\ op # "apply" /\ handled = 0 => /\ \A c \in Children : child[c] = 0
                                      /\ \A j \in Jobs : pod[j] = "none"
    /\ op = "apply" => /\ handled = 0
                       /\ \A c \in Listed(todo) : child[c] = 0
                       /\ "token" \in Listed(todo) => OwnToken /\ \A j \in Jobs : pod[j] = "none"
    /\ \A j \in Jobs : pod[j] # "stale"

\* Every step keeps DeleteInv.
LEMMA DeleteInductive ==
  TypeOK /\ BusyInv /\ HandlerInv /\ DeleteInv /\ [Next]_vars => DeleteInv'
<1> SUFFICES ASSUME TypeOK, BusyInv, HandlerInv, DeleteInv, [Next]_vars PROVE DeleteInv'
  OBVIOUS
<1>1. CASE CreateOrResume \/ Apply \/ ApplyFails
  BY <1>1 DEF CreateOrResume, Apply, ApplyFails, HandlerEnds, Patched, HandlerInv, DeleteInv, Doomed
<1>2. CASE Update
  BY <1>2 DEF Update, operator, cluster, bounds, DeleteInv, Doomed
<1>3. CASE Delete
  <2>1. op' = "delete" /\ cr' = "deleting" /\ blocked' /\ todo' = CleanupNames /\ retain' = retain
    BY <1>3 DEF Delete, object
  <2> QED BY <2>1, NamesOfDoomed DEF DeleteInv, Doomed
<1>4. CASE DeleteNext
  <2>1. /\ todo \in Seq(Children) /\ todo # <<>> /\ op = "delete"
        /\ cr = "deleting" /\ blocked /\ errors \in Nat
    BY <1>4, OperatorAssumption DEF DeleteNext, TypeOK, BusyInv, HandlerInv
  <2>2. /\ Listed(todo) = {Head(todo)} \cup Listed(Tail(todo))
        /\ Len(todo) = 1 => Listed(todo) = {Head(todo)}
    BY <2>1, FirstTaken
  <2>3. PICK missed \in SUBSET Named(Head(todo)) :
          /\ errors' = IF missed = {} THEN errors ELSE errors + 1
          /\ child' = [c \in Children |-> IF c \in Named(Head(todo)) \ missed THEN 0 ELSE child[c]]
    BY <1>4 DEF DeleteNext
  <2>4. errors' = 0 => errors = 0 /\ missed = {}
    BY <2>1, <2>3
  <2>5. \A c \in Children : errors' = 0 => child'[c] = IF c \in Named(Head(todo)) THEN 0 ELSE child[c]
    BY <2>3, <2>4
  <2>6. (\A c \in Doomed : c \in Children) /\ retain' = retain /\ Doomed' = Doomed
    BY <1>4 DEF DeleteNext, Doomed
  <2>7. CASE Len(todo) = 1
    <3>1. op' = "idle"
      BY <1>4, <2>7 DEF DeleteNext, HandlerEnds
    <3>2. ASSUME errors' = 0, NEW c \in Doomed PROVE child'[c] = 0
      <4>1. child[c] = 0 \/ c \in Named(Head(todo))
        BY <2>1, <2>2, <2>4, <2>7, <3>2 DEF DeleteInv
      <4> QED BY <2>5, <2>6, <3>2, <4>1
    <3> QED BY <2>6, <3>1, <3>2 DEF DeleteInv
  <2>8. CASE Len(todo) # 1
    <3>1. todo' = Tail(todo) /\ op' = op /\ blocked' = blocked
      BY <1>4, <2>8 DEF DeleteNext
    <3>2. Listed(todo') = Listed(Tail(todo))
      BY <3>1
    <3> QED BY <2>1, <2>2, <2>4, <2>5, <2>6, <3>1, <3>2 DEF DeleteInv
  <2> QED BY <2>7, <2>8
<1>5. CASE Crash \/ Start
  <2>1. op' # "delete" /\ UNCHANGED <<cr, retain, blocked, child, errors>>
    BY <1>5 DEF Crash, Start, object, cluster, bounds
  <2> QED BY <2>1 DEF DeleteInv, Doomed
<1>6. CASE Edit \/ RequestDelete \/ RemoveFinalizer
  <2>1. UNCHANGED <<operator, blocked, child, errors>>
        /\ (cr' = "deleting" /\ ~blocked' => cr = "deleting" /\ ~blocked)
    BY <1>6 DEF Edit, RequestDelete, RemoveFinalizer, cluster, bounds, HandlerInv
  <2>2. cr # "present" => retain' = retain
    BY <1>6 DEF Edit, RequestDelete, RemoveFinalizer
  <2> QED BY <2>1, <2>2 DEF DeleteInv, operator, HandlerInv, Doomed
<1>7. CASE GarbageCollect
  BY <1>7 DEF GarbageCollect, object, operator, HandlerInv, DeleteInv, Doomed
<1>8. CASE (\E j \in Jobs : PodStarts(j)) \/ RunEnds \/ UNCHANGED vars
  BY <1>8 DEF PodStarts, RunEnds, vars, object, operator, cluster, bounds, DeleteInv, Doomed
<1> QED BY <1>1, <1>2, <1>3, <1>4, <1>5, <1>6, <1>7, <1>8 DEF Next, Handlers, World

\* Every step keeps ClaimInv: an apply ends only when the claim is there, and only a deletion
\* that is not to retain it removes it.
LEMMA ClaimInductive ==
  TypeOK /\ BusyInv /\ HandlerInv /\ InputsInv /\ DeleteInv /\ ClaimInv /\ [Next]_vars => ClaimInv'
<1> SUFFICES ASSUME TypeOK, BusyInv, HandlerInv, InputsInv, DeleteInv, ClaimInv, [Next]_vars,
                    Pvc, handled' # 0, cr' # "gone", cr' = "deleting" => retain'
             PROVE  child'["pvc"] # 0
  BY DEF ClaimInv
<1>1. "pvc" \in Children
  BY DEF Children
<1>2. CASE Apply
  <2>1. /\ todo \in Seq(Children) /\ todo # <<>> /\ op = "apply" /\ body # 0
        /\ child'["pvc"] = IF Head(todo) = "pvc" THEN body ELSE child["pvc"]
        /\ UNCHANGED <<cr, retain>>
    BY <1>1, <1>2 DEF Apply, TypeOK, BusyInv, HandlerInv
  <2>2. CASE Len(todo) = 1
    <3>1. Listed(todo) = {Head(todo)}
      BY <2>1, <2>2, FirstTaken
    <3>2. child["pvc"] # 0 \/ "pvc" \in Listed(todo)
      BY <2>1, DesiredClaim DEF InputsInv
    <3> QED BY <2>1, <3>1, <3>2
  <2>3. CASE Len(todo) # 1
    <3>1. handled' = handled
      BY <1>2, <2>3 DEF Apply
    <3> QED BY <2>1, <3>1 DEF ClaimInv
  <2> QED BY <2>2, <2>3
<1>3. CASE DeleteNext
  <2>1. /\ todo \in Seq(Children) /\ todo # <<>> /\ op = "delete" /\ cr = "deleting"
        /\ cr' = "deleting" /\ retain' = retain /\ handled' = handled
    BY <1>3 DEF DeleteNext, TypeOK, BusyInv, HandlerInv
  <2>2. retain /\ child["pvc"] # 0
    BY <2>1 DEF ClaimInv
  <2>3. "pvc" \notin Named(Head(todo))
    BY <2>1, <2>2, FirstTaken DEF DeleteInv, Named
  <2> QED BY <1>1, <1>3, <2>2, <2>3 DEF DeleteNext
<1>4. CASE Update
  BY <1>4 DEF Update, cluster, ClaimInv
<1>5. CASE Edit \/ RequestDelete
  BY <1>5 DEF Edit, RequestDelete, cluster, ClaimInv
<1>6. CASE CreateOrResume \/ ApplyFails \/ Delete \/ Crash \/ Start
  BY <1>6 DEF CreateOrResume, ApplyFails, Delete, Crash, Start, object, cluster, ClaimInv
<1>7. CASE RemoveFinalizer \/ GarbageCollect \/ (\E j \in Jobs : PodStarts(j)) \/ RunEnds
           \/ UNCHANGED vars
  BY <1>7 DEF RemoveFinalizer, GarbageCollect, PodStarts, RunEnds, vars, object, cluster, ClaimInv
<1> QED BY <1>2, <1>3, <1>4, <1>5, <1>6, <1>7 DEF Next, Handlers, World

\* The counters of the bounds never go back.
LEMMA CountersGrow ==
  ASSUME TypeOK, [Next]_vars
  PROVE  (restarts' = 0 => restarts = 0) /\ (errors' = 0 => errors = 0)
<1>1. restarts \in Nat /\ errors \in Nat
  BY OperatorAssumption DEF TypeOK
<1>2. restarts' \in {restarts, restarts + 1} /\ errors' \in {errors, errors + 1}
  BY DEF Next, Handlers, World, CreateOrResume, Apply, ApplyFails, Update, Delete, DeleteNext,
         Crash, Start, Edit, RequestDelete, RemoveFinalizer, GarbageCollect, PodStarts, RunEnds,
         vars, bounds
<1> QED BY <1>1, <1>2

\* Every step keeps OnceInv.
LEMMA OnceInductive ==
  TypeOK /\ BusyInv /\ HandlerInv /\ OnceInv /\ [Next]_vars => OnceInv'
<1> SUFFICES ASSUME TypeOK, BusyInv, HandlerInv, OnceInv, [Next]_vars, AppliedOnce' PROVE OnceInv'
  BY DEF OnceInv
<1>1. AppliedOnce
  BY CountersGrow DEF AppliedOnce
<1>2. /\ op # "down" /\ ~resume
      /\ op # "apply" /\ handled = 0 => /\ \A c \in Children : child[c] = 0
                                        /\ \A j \in Jobs : pod[j] = "none"
      /\ op = "apply" => /\ handled = 0
                         /\ \A c \in Listed(todo) : child[c] = 0
                         /\ "token" \in Listed(todo) => OwnToken /\ \A j \in Jobs : pod[j] = "none"
      /\ \A j \in Jobs : pod[j] # "stale"
  BY <1>1 DEF OnceInv
<1>3. CASE CreateOrResume
  <2>1. UNCHANGED <<handled, resume, child, pod>> /\ op' = "apply" /\ todo' = Desired /\ op = "idle"
        /\ handled = 0
    BY <1>2, <1>3 DEF CreateOrResume, cluster
  <2>2. \A c \in Listed(Desired) : c \in Children
    BY DEF Listed
  <2> QED BY <1>2, <2>1, <2>2, DesiredToken DEF OnceInv
<1>4. CASE Apply
  <2>1. /\ todo \in Seq(Children) /\ todo # <<>> /\ op = "apply" /\ InOrder(todo) /\ body # 0
        /\ Head(todo) \in Children /\ Head(todo) \in Listed(todo)
        /\ \A c \in Children : child'[c] = IF c = Head(todo) THEN body ELSE child[c]
    BY <1>4, FirstTaken DEF Apply, TypeOK, BusyInv, HandlerInv
  <2>2. /\ Listed(todo) = {Head(todo)} \cup Listed(Tail(todo))
        /\ \A c \in Listed(Tail(todo)) : c \in Children /\ Rank[Head(todo)] < Rank[c]
    BY <2>1, FirstTaken DEF Listed
  <2>3. Head(todo) \notin Listed(Tail(todo))
    <3>1. Rank[Head(todo)] \in Nat
      BY <2>1 DEF Rank, Children, Jobs
    <3> QED BY <2>2, <3>1
  <2>4. pod' = pod
    <3>1. Head(todo) = "token" => \A j \in Jobs : pod[j] = "none"
      BY <1>2, <2>1
    <3> QED BY <1>4, <3>1 DEF Apply, Rotated, TypeOK
  <2>5. CASE Len(todo) = 1
    <3>1. op' = "idle" /\ resume' = FALSE /\ handled' = body
      BY <1>2, <1>4, <2>1, <2>5 DEF Apply, HandlerEnds
    <3> QED BY <1>2, <2>1, <2>4, <3>1 DEF OnceInv
  <2>6. CASE Len(todo) # 1
    <3>1. op' = "apply" /\ todo' = Tail(todo) /\ UNCHANGED <<handled, resume>>
      BY <1>4, <2>1, <2>6 DEF Apply
    <3>2. Listed(todo') = Listed(Tail(todo))
      BY <3>1
    <3> QED BY <1>2, <2>1, <2>2, <2>3, <2>4, <3>1, <3>2 DEF OnceInv
  <2> QED BY <2>5, <2>6
<1>5. CASE ApplyFails
  <2>1. /\ todo \in Seq(Children) /\ todo # <<>> /\ op = "apply" /\ errors \in Nat
    BY <1>5, OperatorAssumption DEF ApplyFails, TypeOK, BusyInv
  <2>2. child[Head(todo)] = 0
    BY <1>2, <2>1, FirstTaken
  <2>3. errors' = errors + 1
    BY <1>5, <2>2 DEF ApplyFails, MayBeRejected
  <2> QED BY <2>1, <2>3 DEF AppliedOnce
<1>6. CASE Update
  BY <1>2, <1>6 DEF Update, operator, cluster, OnceInv, TypeOK
<1>7. CASE Delete
  BY <1>2, <1>7 DEF Delete, object, cluster, OnceInv
<1>8. CASE DeleteNext
  <2>1. /\ op = "delete" /\ op' \in {"idle", "delete"} /\ UNCHANGED <<handled, resume>>
        /\ \A c \in Children : child'[c] \in {0, child[c]}
        /\ \A j \in Jobs : pod'[j] \in {"none", pod[j]}
    BY <1>8 DEF DeleteNext, HandlerEnds
  <2> QED BY <1>2, <2>1 DEF OnceInv
<1>9. CASE Crash
  BY <1>9, OperatorAssumption DEF Crash, AppliedOnce, TypeOK
<1>10. CASE Start
  BY <1>2, <1>10 DEF Start
<1>11. CASE Edit \/ RequestDelete \/ RemoveFinalizer \/ RunEnds \/ UNCHANGED vars
  <2>1. op' = op /\ todo' = todo /\ resume' = resume /\ handled' = handled /\ child' = child
        /\ pod' = pod
    BY <1>11 DEF Edit, RequestDelete, RemoveFinalizer, RunEnds, vars, object, operator, cluster
  <2> QED BY <1>2, <2>1 DEF OnceInv
<1>12. CASE GarbageCollect
  BY <1>2, <1>12 DEF GarbageCollect, object, operator, HandlerInv, OnceInv
<1>13. CASE \E j \in Jobs : PodStarts(j)
  <2>1. PICK j \in Jobs : PodStarts(j)
    BY <1>13
  <2>2. /\ child[j] # 0 /\ (OwnToken => child["token"] # 0) /\ j \in Children
        /\ \A i \in Jobs : pod'[i] = IF i = j THEN "current" ELSE pod[i]
        /\ UNCHANGED <<op, todo, resume, handled, child>>
    BY <2>1 DEF PodStarts, object, operator, TypeOK, Children
  <2> QED BY <1>2, <2>2 DEF OnceInv
<1> QED BY <1>3, <1>4, <1>5, <1>6, <1>7, <1>8, <1>9, <1>10, <1>11, <1>12, <1>13
        DEF Next, Handlers, World

-----------------------------------------------------------------------------
(* What holds of every run. *)

RunInv == TypeOK /\ BusyInv /\ HandlerInv /\ InputsInv /\ DeleteInv /\ ClaimInv /\ OnceInv

\* A handler does what it does on a run it blocks and in order; what it has passed is done.
THEOREM RunCorrect == Spec => []RunInv
<1>1. Init => RunInv
  <2> SUFFICES ASSUME Init PROVE RunInv
    OBVIOUS
  <2>1. \A c \in Children : child[c] = 0
    BY DEF Init
  <2>2. \A j \in Jobs : pod[j] = "none" /\ j \in Children
    BY DEF Init, Children
  <2>3. HandlerInv /\ InputsInv /\ DeleteInv /\ ClaimInv /\ OnceInv
    BY <2>1, <2>2 DEF Init, HandlerInv, InputsInv, InputsFirst, DeleteInv, ClaimInv, OnceInv
  <2> QED BY <2>3, InitTypes DEF RunInv
<1>2. RunInv /\ [Next]_vars => RunInv'
  BY HandlerTypes, WorldTypes, HandlerInductive, InputsInductive, DeleteInductive,
     ClaimInductive, OnceInductive
     DEF RunInv, Next
<1> QED BY <1>1, <1>2, PTL DEF Spec

\* Wherever the operator is stopped or refused, and however the run is edited: no job exists
\* before everything its pods mount or connect to does.
THEOREM InputsFirstHolds == Spec => []InputsFirst
BY RunCorrect, PTL DEF RunInv, InputsInv

\* Once the deletion of a run has been handled no handler creates anything for it again, the
\* claim of a run that was applied is there if it is to be retained, and nothing else is if no
\* call has failed.
THEOREM DeleteIsCompleteHolds == Spec => []DeleteIsComplete
<1>1. RunInv => DeleteIsComplete
  <2> SUFFICES ASSUME RunInv, cr = "deleting", ~blocked PROVE DeleteIsComplete
    BY DEF DeleteIsComplete
  <2>1. op # "apply"
    BY DEF RunInv, HandlerInv
  <2>2. Pvc /\ handled # 0 /\ retain => child["pvc"] # 0
    BY DEF RunInv, ClaimInv
  <2>3. errors = 0 => \A c \in Children : child[c] # 0 => c = "pvc" /\ retain
    BY DEF RunInv, DeleteInv, Doomed
  <2> QED BY <2>1, <2>2, <2>3 DEF DeleteIsComplete
<1> QED BY <1>1, RunCorrect, PTL

\* Pods of a run whose children were applied once have the same token.
THEOREM TokensAgreeHolds == Spec => []TokensAgree
<1>1. RunInv => TokensAgree
  BY DEF RunInv, OnceInv, TokensAgree
<1> QED BY <1>1, RunCorrect, PTL

\* An edit does not reach the objects of a run whose children were applied once.
THEOREM SpecFrozenHolds == Spec => SpecFrozen
<1>1. RunInv /\ [Next]_vars =>
        [AppliedOnce' =>
           \A c \in Children : (\E j \in Jobs : pod[j] # "none") /\ child[c] # 0 /\ child'[c] # 0
             => child'[c] = child[c]]_vars
  <2> SUFFICES ASSUME RunInv, [Next]_vars, AppliedOnce', NEW c \in Children, child[c] # 0,
                      child'[c] # 0
               PROVE  child'[c] = child[c]
    OBVIOUS
  <2> USE DEF RunInv
  <2>1. CASE Apply
    <3>1. AppliedOnce
      BY CountersGrow DEF AppliedOnce
    <3>2. todo \in Seq(Children) /\ todo # <<>> /\ op = "apply"
      BY <2>1 DEF Apply, TypeOK, BusyInv
    <3>3. Head(todo) \in Listed(todo) /\ child[Head(todo)] = 0
      BY <3>1, <3>2, FirstTaken DEF OnceInv
    <3> QED BY <2>1, <3>3 DEF Apply, TypeOK
  <2>2. CASE DeleteNext \/ GarbageCollect
    BY <2>2 DEF DeleteNext, GarbageCollect
  <2> QED BY <2>1, <2>2, ChildrenChange
<1> QED BY <1>1, RunCorrect, PTL DEF Spec, SpecFrozen

\* Artifacts that are to be retained go only with their run.
THEOREM ArtifactsRetainedHolds == Spec => ArtifactsRetained
<1>1. RunInv /\ [Next]_vars =>
        [retain /\ child["pvc"] # 0 /\ cr' # "gone" => child'["pvc"] # 0]_vars
  <2> SUFFICES ASSUME RunInv, [Next]_vars, retain, child["pvc"] # 0, cr' # "gone"
               PROVE  child'["pvc"] # 0
    OBVIOUS
  <2> USE DEF RunInv
  <2>1. "pvc" \in Children
    BY DEF Children
  <2>2. CASE DeleteNext
    <3>1. todo \in Seq(Children) /\ todo # <<>> /\ op = "delete"
      BY <2>2 DEF DeleteNext, TypeOK, BusyInv
    <3>2. Head(todo) # "pvc"
      BY <3>1, FirstTaken DEF DeleteInv
    <3>3. "pvc" \notin Named(Head(todo))
      BY <3>2 DEF Named
    <3> QED BY <2>1, <2>2, <3>3 DEF DeleteNext
  <2>3. CASE GarbageCollect
    BY <2>3 DEF GarbageCollect, object
  <2> QED BY <2>1, <2>2, <2>3, ChildrenChange
<1> QED BY <1>1, RunCorrect, PTL DEF Spec, ArtifactsRetained

=============================================================================
