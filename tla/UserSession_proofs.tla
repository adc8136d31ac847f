-------------------------- MODULE UserSession_proofs --------------------------
(***************************************************************************)
(* Theorems about UserSession, for any number of resources, calls and      *)
(* attempts, with and without auto cleanup and cancellation.               *)
(***************************************************************************)
EXTENDS UserSession, SequenceTheorems, TLAPS

-----------------------------------------------------------------------------
(* Types. *)

\* The first state is well typed.
LEMMA InitTypes == Init => TypeOK
<1> SUFFICES ASSUME Init PROVE TypeOK
  OBVIOUS
<1>1. /\ records \in Seq(Res \cup {None}) /\ fixTodo \in Seq(Res \cup {None})
      /\ actions \in Seq(Res) /\ todo \in Seq(Res)
  BY EmptySeq DEF Init
<1>2. parent \in [Res -> Res \cup {None}]
  BY DEF Init
<1>3. origin \in [Res -> {"none", "post", "api", "orm"}]
  BY DEF Init
<1>4. attempt \in 0..MaxAttempts /\ made \in 0..MaxRes
  BY SessionAssumption DEF Init
<1>5. server \subseteq 1..made /\ lost \subseteq 1..made
  BY DEF Init
<1> QED BY <1>1, <1>2, <1>3, <1>4, <1>5 DEF Init, TypeOK

\* The part of the type that is about the target.
WorldOK ==
  /\ made \in 0..MaxRes
  /\ server \subseteq 1..made /\ lost \subseteq 1..made
  /\ parent \in [Res -> Res \cup {None}]
  /\ origin \in [Res -> {"none", "post", "api", "orm"}]

\* A creation that has its answer has made a resource.
LEMMA PostEffectTypes ==
  ASSUME TypeOK, NEW how \in {"post", "api", "orm"}, NEW end, PostEffect(how, end)
  PROVE  WorldOK' /\ (end \in Effective => made + 1 \in Res)
<1>1. CASE end \notin Effective
  BY <1>1 DEF PostEffect, world, TypeOK, WorldOK
<1>2. CASE end \in Effective
  <2>1. Create(how) /\ lost' = IF end \in Answered THEN lost ELSE lost \cup {made + 1}
    BY <1>2 DEF PostEffect
  <2>2. made < MaxRes /\ made' = made + 1 /\ made' \in 0..MaxRes /\ made + 1 \in Res
    BY <2>1, SessionAssumption DEF Create, TypeOK, Res
  <2>3. server' \subseteq 1..made' /\ lost' \subseteq 1..made'
    BY <2>1, <2>2 DEF Create, TypeOK
  <2>4. server \subseteq Res
    BY SessionAssumption DEF TypeOK, Res
  <2>5. parent' \in [Res -> Res \cup {None}]
    BY <2>1, <2>2, <2>4 DEF Create, TypeOK
  <2>6. origin' \in [Res -> {"none", "post", "api", "orm"}]
    BY <2>1, <2>2 DEF Create, TypeOK
  <2> QED BY <2>2, <2>3, <2>5, <2>6 DEF WorldOK
<1> QED BY <1>1, <1>2

\* The counters after a call.
LEMMA EmitsTypes ==
  ASSUME TypeOK, NEW end, Emits(end)
  PROVE  calls' \in Nat /\ events' \in Nat
BY DEF TypeOK, Emits

\* The cleanup manager after the answer of a call.
LEMMA RegisterTypes ==
  ASSUME TypeOK, NEW end, NEW r, Register(end, r), end \in Answered => r \in Res
  PROVE  actions' \in Seq(Res) /\ noted' \in Nat
<1>1. end \in Answered => Append(actions, r) \in Seq(Res)
  BY AppendProperties DEF TypeOK
<1>2. CASE ~Tracked \/ end \notin Answered
  BY <1>2 DEF Register, TypeOK
<1>3. CASE Tracked /\ end \in Answered
  <2>1. \/ actions' = Append(actions, r) /\ UNCHANGED noted
        \/ noted' = noted + 1 /\ UNCHANGED actions
    BY <1>3 DEF Register
  <2>2. actions \in Seq(Res) /\ noted \in Nat /\ Append(actions, r) \in Seq(Res)
    BY <1>1, <1>3 DEF TypeOK
  <2> QED BY <2>1, <2>2
<1> QED BY <1>2, <1>3

\* The place of the user after a call.
LEMMA ContinueTypes ==
  ASSUME TypeOK, pc = "task", NEW raised, NEW cancelling, Continue(raised, cancelling)
  PROVE  /\ pc' \in {"task", "on_stop"}
         /\ attempt' \in 0..MaxAttempts
         /\ raising' \in {"ok", "error", "cancelled"}
         /\ cancelled' \in BOOLEAN
<1>1. cancelled' \in BOOLEAN
  BY Zenon DEF Continue
<1>2. attempt < MaxAttempts => attempt + 1 \in 0..MaxAttempts
  BY SessionAssumption DEF TypeOK
<1> QED BY <1>1, <1>2 DEF Continue, TypeOK

\* Reversing a sequence keeps its elements.
LEMMA ReverseType ==
  ASSUME NEW S, NEW s \in Seq(S)
  PROVE  DeletionOrder(s) \in Seq(S)
<1>1. Len(s) \in Nat /\ \A i \in 1..Len(s) : s[Len(s) - i + 1] \in S
  <2>1. Len(s) \in Nat
    BY LenProperties
  <2> SUFFICES ASSUME NEW i \in 1..Len(s) PROVE s[Len(s) - i + 1] \in S
    BY <2>1
  <2>2. Len(s) - i + 1 \in 1..Len(s)
    BY <2>1
  <2> QED BY <2>2, ElementOfSeq
<1> QED BY <1>1, IsASeq DEF DeletionOrder, Reverse

\* The cleanup manager when its clean-up begins.
LEMMA AutoBeginsTypes ==
  ASSUME TypeOK, AutoBegins
  PROVE  /\ pc' = "auto" /\ todo' \in Seq(Res) /\ actions' \in Seq(Res)
         /\ noted' \in Nat /\ reported' \in Nat \cup {-1}
BY ReverseType, EmptySeq DEF TypeOK, AutoBegins

\* A step of a task.
LEMMA TaskTypes == TypeOK /\ TaskStep => TypeOK'
<1> SUFFICES ASSUME TypeOK, TaskStep PROVE TypeOK'
  OBVIOUS
<1>1. CASE StartTask
  BY <1>1, SessionAssumption DEF StartTask, TypeOK, world, ledger, manager, metrics
<1>2. CASE TaskReturns
  BY <1>2, SessionAssumption DEF TaskReturns, TypeOK, world, ledger, manager, metrics
<1>3. CASE TaskRaises
  <2>1. /\ pc' \in {"task", "on_stop"}
        /\ attempt' \in 0..MaxAttempts
        /\ raising' \in {"ok", "error", "cancelled"}
        /\ cancelled' \in BOOLEAN
    BY <1>3, ContinueTypes DEF TaskRaises
  <2> QED BY <1>3, <2>1 DEF TaskRaises, TypeOK, world, ledger, manager, metrics
<1>4. CASE Post
  <2>1. PICK end \in Ends :
          /\ PostEffect("post", end)
          /\ Emits(end)
          /\ Register(end, made + 1)
          /\ Continue(end \in {"unsent", "lost"}, end \in Cancelling)
    BY <1>4 DEF Post
  <2>2. pc = "task" /\ UNCHANGED <<ledger, todo, reported>>
    BY <1>4 DEF Post, InTask
  <2>3. WorldOK' /\ (end \in Answered => made + 1 \in Res)
    BY <2>1, PostEffectTypes DEF Effective
  <2>4. actions' \in Seq(Res) /\ noted' \in Nat
    BY <2>1, <2>3, RegisterTypes
  <2>5. /\ pc' \in {"task", "on_stop"}
        /\ attempt' \in 0..MaxAttempts
        /\ raising' \in {"ok", "error", "cancelled"}
        /\ cancelled' \in BOOLEAN
    BY <2>1, <2>2, ContinueTypes
  <2>6. calls' \in Nat /\ events' \in Nat
    BY <2>1, EmitsTypes
  <2> QED BY <2>2, <2>3, <2>4, <2>5, <2>6 DEF TypeOK, WorldOK, ledger
<1>5. ASSUME NEW ends, Query(ends) PROVE TypeOK'
  <2>1. PICK end \in ends \cap Ends :
          /\ Emits(end)
          /\ Continue(end \in {"unsent", "garbled"}, end = "cancelled")
    BY <1>5 DEF Query
  <2>2. pc = "task" /\ UNCHANGED <<world, ledger, manager>>
    BY <1>5 DEF Query, InTask
  <2>3. /\ pc' \in {"task", "on_stop"}
        /\ attempt' \in 0..MaxAttempts
        /\ raising' \in {"ok", "error", "cancelled"}
        /\ cancelled' \in BOOLEAN
    BY <2>1, <2>2, ContinueTypes
  <2>4. calls' \in Nat /\ events' \in Nat
    BY <2>1, EmitsTypes
  <2> QED BY <2>2, <2>3, <2>4 DEF TypeOK, world, ledger, manager
<1>6. CASE Get \/ Graphql \/ WebSocket \/ Grpc
  BY <1>5, <1>6 DEF Get, Graphql, WebSocket, Grpc
<1>7. CASE ApiCreate
  <2>1. PICK end \in Ends :
          /\ PostEffect("api", end)
          /\ Emits(end)
          /\ Register(end, made + 1)
          /\ records' = CASE end = "ok" -> Append(records, made + 1)
                          [] end \in {"anonymous", "refused"} -> Append(records, None)
                          [] OTHER -> records
          /\ Continue(end \in {"unsent", "lost", "garbled"}, end \in Cancelling)
    BY <1>7 DEF ApiCreate
  <2>2. pc = "task" /\ UNCHANGED <<fixTodo, cutShort, todo, reported>>
    BY <1>7 DEF ApiCreate, InTask
  <2>3. WorldOK' /\ (end \in Answered => made + 1 \in Res)
    BY <2>1, PostEffectTypes DEF Effective
  <2>4. actions' \in Seq(Res) /\ noted' \in Nat
    BY <2>1, <2>3, RegisterTypes
  <2>5. records' \in Seq(Res \cup {None})
    <3>1. Append(records, None) \in Seq(Res \cup {None})
      BY AppendProperties DEF TypeOK
    <3>2. end = "ok" => Append(records, made + 1) \in Seq(Res \cup {None})
      BY <2>3, AppendProperties DEF TypeOK, Answered
    <3> QED BY <2>1, <3>1, <3>2 DEF TypeOK
  <2>6. /\ pc' \in {"task", "on_stop"}
        /\ attempt' \in 0..MaxAttempts
        /\ raising' \in {"ok", "error", "cancelled"}
        /\ cancelled' \in BOOLEAN
    BY <2>1, <2>2, ContinueTypes
  <2>7. calls' \in Nat /\ events' \in Nat
    BY <2>1, EmitsTypes
  <2> QED BY <2>2, <2>3, <2>4, <2>5, <2>6, <2>7 DEF TypeOK, WorldOK
<1>8. CASE OrmCreate
  <2>1. PICK end \in {"ok", "unsent", "lost"} :
          /\ PostEffect("orm", end)
          /\ records' = IF end = "ok" THEN Append(records, made + 1) ELSE records
          /\ Continue(end # "ok", FALSE)
    BY <1>8 DEF OrmCreate
  <2>2. pc = "task" /\ UNCHANGED <<fixTodo, cutShort, manager, metrics>>
    BY <1>8 DEF OrmCreate
  <2>3. WorldOK' /\ (end \in Answered => made + 1 \in Res)
    BY <2>1, PostEffectTypes DEF Effective
  <2>4. records' \in Seq(Res \cup {None})
    <3>1. end = "ok" => Append(records, made + 1) \in Seq(Res \cup {None})
      BY <2>3, AppendProperties DEF TypeOK, Answered
    <3> QED BY <2>1, <3>1 DEF TypeOK
  <2>5. /\ pc' \in {"task", "on_stop"}
        /\ attempt' \in 0..MaxAttempts
        /\ raising' \in {"ok", "error", "cancelled"}
        /\ cancelled' \in BOOLEAN
    BY <2>1, <2>2, ContinueTypes
  <2> QED BY <2>2, <2>3, <2>4, <2>5 DEF TypeOK, WorldOK, manager, metrics
<1> QED BY <1>1, <1>2, <1>3, <1>4, <1>6, <1>7, <1>8 DEF TaskStep

\* A deletion on the target.
LEMMA DeletesTypes ==
  ASSUME TypeOK, NEW r, NEW end, Deletes(r, end)
  PROVE  WorldOK'
BY DEF Deletes, TypeOK, WorldOK

\* The deletion of a fixture is over.
LEMMA FixtureOverTypes ==
  ASSUME TypeOK, pc = "fixtures", fixTodo # <<>>,
         FixtureReturns \/ FixtureRaises("cancelled") \/ FixtureRaises("error")
  PROVE  /\ pc' \in {"fixtures", "auto"}
         /\ raising' \in {"ok", "error", "cancelled"}
         /\ fixTodo' \in Seq(Res \cup {None}) /\ cutShort' \in BOOLEAN
         /\ actions' \in Seq(Res) /\ todo' \in Seq(Res)
         /\ noted' \in Nat /\ reported' \in Nat \cup {-1}
<1>1. CASE FixtureReturns
  BY <1>1, HeadTailProperties DEF FixtureReturns, TypeOK, manager
<1>2. CASE FixtureRaises("cancelled")
  BY <1>2, EmptySeq, AutoBeginsTypes DEF FixtureRaises
<1>3. CASE FixtureRaises("error")
  BY <1>3, EmptySeq, AutoBeginsTypes DEF FixtureRaises
<1> QED BY <1>1, <1>2, <1>3

\* A step of on_stop.
LEMMA OnStopTypes == TypeOK /\ OnStopStep => TypeOK'
<1> SUFFICES ASSUME TypeOK, OnStopStep PROVE TypeOK'
  OBVIOUS
<1>1. CASE OnStopWithout
  BY <1>1, AutoBeginsTypes DEF OnStopWithout, TypeOK, world, ledger, metrics
<1>2. CASE FixturesBegin
  BY <1>2, ReverseType, EmptySeq DEF FixturesBegin, TypeOK, world, manager, metrics
<1>3. CASE FixturesEnd
  BY <1>3, AutoBeginsTypes DEF FixturesEnd, TypeOK, world, ledger, metrics
<1>4. CASE ApiDelete
  <2>1. PICK end \in DeleteEnds(Head(fixTodo)) :
          /\ Deletes(Head(fixTodo), end)
          /\ Emits(end)
          /\ cancelled' = (cancelled \/ end = "cancelled")
          /\ CASE end \in {"ok", "refused"} -> FixtureReturns
               [] end = "cancelled" -> FixtureRaises("cancelled")
               [] OTHER -> FixtureRaises("error")
    BY <1>4 DEF ApiDelete
  <2>2. pc = "fixtures" /\ fixTodo # <<>> /\ UNCHANGED <<attempt, records>>
    BY <1>4 DEF ApiDelete
  <2>3. FixtureReturns \/ FixtureRaises("cancelled") \/ FixtureRaises("error")
    BY <2>1
  <2>4. cancelled' \in BOOLEAN
    BY <2>1, Zenon
  <2>5. WorldOK' /\ calls' \in Nat /\ events' \in Nat
    BY <2>1, DeletesTypes, EmitsTypes
  <2>6. /\ pc' \in {"fixtures", "auto"}
        /\ raising' \in {"ok", "error", "cancelled"}
        /\ fixTodo' \in Seq(Res \cup {None}) /\ cutShort' \in BOOLEAN
        /\ actions' \in Seq(Res) /\ todo' \in Seq(Res)
        /\ noted' \in Nat /\ reported' \in Nat \cup {-1}
    BY <2>2, <2>3, FixtureOverTypes
  <2> QED BY <2>2, <2>4, <2>5, <2>6 DEF TypeOK, WorldOK
<1>5. CASE OrmDelete
  <2>1. PICK end \in RowEnds(Head(fixTodo)) :
          /\ Deletes(Head(fixTodo), end)
          /\ IF end = "ok" THEN FixtureReturns ELSE FixtureRaises("error")
    BY <1>5 DEF OrmDelete
  <2>2. pc = "fixtures" /\ fixTodo # <<>> /\ UNCHANGED <<attempt, cancelled, records, metrics>>
    BY <1>5 DEF OrmDelete
  <2>3. WorldOK'
    BY <2>1, DeletesTypes
  <2>4. /\ pc' \in {"fixtures", "auto"}
        /\ raising' \in {"ok", "error", "cancelled"}
        /\ fixTodo' \in Seq(Res \cup {None}) /\ cutShort' \in BOOLEAN
        /\ actions' \in Seq(Res) /\ todo' \in Seq(Res)
        /\ noted' \in Nat /\ reported' \in Nat \cup {-1}
    BY <2>1, <2>2, FixtureOverTypes
  <2> QED BY <2>2, <2>3, <2>4 DEF TypeOK, WorldOK, metrics
<1> QED BY <1>1, <1>2, <1>3, <1>4, <1>5 DEF OnStopStep

\* A step of the cleanup manager, or of somebody else.
LEMMA AutoTypes ==
  TypeOK /\ (AutoStep \/ LoopEnds \/ Expire \/ UNCHANGED vars) => TypeOK'
<1> SUFFICES ASSUME TypeOK, AutoStep \/ LoopEnds \/ Expire \/ UNCHANGED vars PROVE TypeOK'
  OBVIOUS
<1>1. CASE AutoDelete
  <2>1. PICK end \in DeleteEnds(Head(todo)) :
          /\ Deletes(Head(todo), end)
          /\ CleanupRequest(end)
          /\ IF end = "cancelled"
             THEN /\ pc' = "done" /\ cancelled' = TRUE /\ raising' = "cancelled" /\ todo' = <<>>
                  /\ UNCHANGED noted
             ELSE ActionOver(end) /\ UNCHANGED <<pc, cancelled, raising>>
    BY <1>1 DEF AutoDelete
  <2>2. todo # <<>> /\ UNCHANGED <<attempt, ledger, actions, reported>>
    BY <1>1 DEF AutoDelete
  <2>3. WorldOK' /\ UNCHANGED metrics
    BY <2>1, DeletesTypes DEF CleanupRequest
  <2>4. Tail(todo) \in Seq(Res) /\ <<>> \in Seq(Res)
    BY <2>2, HeadTailProperties, EmptySeq DEF TypeOK
  <2>5. /\ pc' \in {"idle", "task", "on_stop", "fixtures", "auto", "done"}
        /\ cancelled' \in BOOLEAN /\ raising' \in {"ok", "error", "cancelled"}
        /\ todo' \in Seq(Res) /\ noted' \in Nat
    <3>1. CASE end = "cancelled"
      BY <2>1, <2>4, <3>1 DEF TypeOK
    <3>2. CASE end # "cancelled"
      <4>1. ActionOver(end) /\ UNCHANGED <<pc, cancelled, raising>>
        BY <2>1, <3>2
      <4> QED BY <2>4, <4>1 DEF ActionOver, TypeOK
    <3> QED BY <3>1, <3>2
  <2> QED BY <2>2, <2>3, <2>5 DEF TypeOK, WorldOK, ledger, metrics
<1>2. CASE AutoEnds
  BY <1>2 DEF AutoEnds, TypeOK, world, ledger, metrics
<1>3. CASE LoopEnds
  BY <1>3 DEF LoopEnds, TypeOK, world, ledger, manager, metrics
<1>4. CASE Expire
  BY <1>4 DEF Expire, TypeOK, ledger, manager, metrics
<1>5. CASE UNCHANGED vars
  BY <1>5 DEF TypeOK, vars, world, ledger, manager, metrics
<1> QED BY <1>1, <1>2, <1>3, <1>4, <1>5 DEF AutoStep

\* Every reachable state is well typed.
THEOREM TypeCorrect == Spec => []TypeOK
<1>1. TypeOK /\ [Next]_vars => TypeOK'
  BY TaskTypes, OnStopTypes, AutoTypes DEF Next, Terminated
<1> QED BY <1>1, InitTypes, PTL DEF Spec

-----------------------------------------------------------------------------
(* The ledgers as sequences. *)

\* In the order of creation, the identity "" left aside.
Ascending(s)  == \A i, j \in 1..Len(s) : i < j /\ s[i] # None /\ s[j] # None => s[i] < s[j]
Descending(s) == \A i, j \in 1..Len(s) : i < j /\ s[i] # None /\ s[j] # None => s[j] < s[i]
UpTo(s, n)    == \A i \in 1..Len(s) : s[i] <= n

\* What is appended comes last.
LEMMA Appending ==
  ASSUME NEW S, S \subseteq Nat, NEW s \in Seq(S), NEW x \in S
  PROVE  /\ \A e : Contains(Append(s, x), e) <=> Contains(s, e) \/ e = x
         /\ \A n \in Nat : UpTo(s, n) /\ n < x /\ Ascending(s) => Ascending(Append(s, x))
         /\ \A n \in Nat : UpTo(s, n) /\ n <= x => UpTo(Append(s, x), x)
<1>1. /\ Len(s) \in Nat /\ Len(Append(s, x)) = Len(s) + 1
      /\ \A i \in 1..Len(s) : Append(s, x)[i] = s[i] /\ s[i] \in Nat
      /\ Append(s, x)[Len(s) + 1] = x
  <2>1. \A i \in 1..Len(s) : s[i] \in Nat
    BY ElementOfSeq
  <2>2. /\ Len(s) \in Nat /\ Len(Append(s, x)) = Len(s) + 1
        /\ \A i \in 1..Len(s) : Append(s, x)[i] = s[i]
        /\ Append(s, x)[Len(s) + 1] = x
    OBVIOUS
  <2> QED BY <2>1, <2>2
<1>2. \A i \in 1..Len(Append(s, x)) : i \in 1..Len(s) \/ i = Len(s) + 1
  BY <1>1
<1>3. ASSUME NEW e PROVE Contains(Append(s, x), e) <=> Contains(s, e) \/ e = x
  <2>1. \A i \in 1..Len(s) : i \in 1..Len(Append(s, x))
    BY <1>1
  <2>2. Len(s) + 1 \in 1..Len(Append(s, x))
    BY <1>1
  <2> QED BY <1>1, <1>2, <2>1, <2>2 DEF Contains
<1>4. ASSUME NEW n \in Nat, UpTo(s, n), n < x, Ascending(s)
      PROVE  Ascending(Append(s, x))
  <2>1. \A i \in 1..Len(s) : s[i] <= n /\ s[i] < x
    BY <1>1, <1>4 DEF UpTo
  <2> SUFFICES ASSUME NEW i \in 1..Len(Append(s, x)), NEW j \in 1..Len(Append(s, x)), i < j,
                      Append(s, x)[i] # None, Append(s, x)[j] # None
               PROVE  Append(s, x)[i] < Append(s, x)[j]
    BY DEF Ascending
  <2>2. i \in 1..Len(s)
    BY <1>1, <1>2
  <2>3. CASE j \in 1..Len(s)
    BY <1>1, <1>4, <2>2, <2>3 DEF Ascending
  <2>4. CASE j = Len(s) + 1
    BY <1>1, <2>1, <2>2, <2>4
  <2> QED BY <1>2, <2>3, <2>4
<1>5. ASSUME NEW n \in Nat, UpTo(s, n), n <= x PROVE UpTo(Append(s, x), x)
  <2>1. \A i \in 1..Len(s) : s[i] <= x
    BY <1>1, <1>5 DEF UpTo
  <2> QED BY <1>1, <1>2, <2>1 DEF UpTo
<1> QED BY <1>3, <1>4, <1>5

\* The ledgers are deleted in reverse.
LEMMA Reversing ==
  ASSUME NEW S, NEW s \in Seq(S)
  PROVE  /\ \A e : Contains(DeletionOrder(s), e) <=> Contains(s, e)
         /\ Ascending(s) => Descending(DeletionOrder(s))
<1> DEFINE r == DeletionOrder(s)
<1>1. /\ Len(s) \in Nat /\ Len(r) = Len(s)
      /\ \A i \in 1..Len(s) : r[i] = s[(Len(s) - i) + 1]
  BY LenProperties DEF DeletionOrder, Reverse
<1>2. \A i \in 1..Len(s) : (Len(s) - i) + 1 \in 1..Len(s) /\ (Len(s) - ((Len(s) - i) + 1)) + 1 = i
  BY <1>1
<1> HIDE DEF r
<1>3. ASSUME NEW e PROVE Contains(r, e) <=> Contains(s, e)
  <2>1. ASSUME NEW i \in 1..Len(s), s[i] = e PROVE \E k \in 1..Len(r) : r[k] = e
    <3>1. (Len(s) - i) + 1 \in 1..Len(r) /\ r[(Len(s) - i) + 1] = s[(Len(s) - ((Len(s) - i) + 1)) + 1]
      BY <1>1, <1>2
    <3> QED BY <1>2, <2>1, <3>1
  <2>2. ASSUME NEW i \in 1..Len(r), r[i] = e PROVE \E k \in 1..Len(s) : s[k] = e
    BY <1>1, <1>2, <2>2
  <2> QED BY <2>1, <2>2 DEF Contains
<1>4. ASSUME Ascending(s) PROVE Descending(r)
  <2> SUFFICES ASSUME NEW i \in 1..Len(r), NEW j \in 1..Len(r), i < j, r[i] # None, r[j] # None
               PROVE  r[j] < r[i]
    BY DEF Descending
  <2>1. /\ (Len(s) - i) + 1 \in 1..Len(s) /\ (Len(s) - j) + 1 \in 1..Len(s)
        /\ (Len(s) - j) + 1 < (Len(s) - i) + 1
    BY <1>1, <1>2
  <2>2. r[i] = s[(Len(s) - i) + 1] /\ r[j] = s[(Len(s) - j) + 1]
    BY <1>1
  <2> QED BY <1>4, <2>1, <2>2 DEF Ascending
<1> QED BY <1>3, <1>4 DEF r

\* The first of a list is done with, the others stay.
LEMMA Passing ==
  ASSUME NEW S, NEW s \in Seq(S), s # <<>>
  PROVE  /\ \A e : Contains(s, e) => e = Head(s) \/ Contains(Tail(s), e)
         /\ Descending(s) => Descending(Tail(s))
<1>1. /\ Head(s) = s[1] /\ Len(s) \in Nat \ {0} /\ Len(Tail(s)) = Len(s) - 1
      /\ \A i \in 1..Len(Tail(s)) : Tail(s)[i] = s[i + 1]
  BY HeadTailProperties, EmptySeq
<1>2. ASSUME NEW e, Contains(s, e) PROVE e = Head(s) \/ Contains(Tail(s), e)
  <2>1. PICK i \in 1..Len(s) : s[i] = e
    BY <1>2 DEF Contains
  <2>2. CASE i = 1
    BY <1>1, <2>1, <2>2
  <2>3. CASE i # 1
    <3>1. i - 1 \in 1..Len(Tail(s)) /\ (i - 1) + 1 = i
      BY <1>1, <2>3
    <3>2. Tail(s)[i - 1] = e
      BY <1>1, <2>1, <3>1
    <3> QED BY <3>1, <3>2 DEF Contains
  <2> QED BY <2>2, <2>3
<1>3. ASSUME Descending(s) PROVE Descending(Tail(s))
  <2> SUFFICES ASSUME NEW i \in 1..Len(Tail(s)), NEW j \in 1..Len(Tail(s)), i < j,
                      Tail(s)[i] # None, Tail(s)[j] # None
               PROVE  Tail(s)[j] < Tail(s)[i]
    BY DEF Descending
  <2>1. i + 1 \in 1..Len(s) /\ j + 1 \in 1..Len(s) /\ i + 1 < j + 1
    BY <1>1
  <2>2. Tail(s)[i] = s[i + 1] /\ Tail(s)[j] = s[j + 1]
    BY <1>1
  <2> QED BY <1>3, <2>1, <2>2 DEF Descending
<1> QED BY <1>2, <1>3

\* The identity "" is no identity.
LEMMA AppendingNone ==
  ASSUME NEW S, S \subseteq Nat, NEW s \in Seq(S), None \in S
  PROVE  /\ Ascending(s) => Ascending(Append(s, None))
         /\ \A n \in Nat : UpTo(s, n) => UpTo(Append(s, None), n)
<1>1. /\ Len(s) \in Nat /\ Len(Append(s, None)) = Len(s) + 1
      /\ \A i \in 1..Len(s) : Append(s, None)[i] = s[i]
      /\ Append(s, None)[Len(s) + 1] = None
  OBVIOUS
<1>2. \A i \in 1..Len(Append(s, None)) : i \in 1..Len(s) \/ i = Len(s) + 1
  BY <1>1
<1>3. Ascending(s) => Ascending(Append(s, None))
  BY <1>1, <1>2 DEF Ascending
<1>4. \A n \in Nat : UpTo(s, n) => UpTo(Append(s, None), n)
  BY <1>1, <1>2 DEF UpTo, None
<1> QED BY <1>3, <1>4

\* The bound may grow.
LEMMA UpToGrows ==
  ASSUME NEW S, S \subseteq Nat, NEW s \in Seq(S), NEW n \in Nat, UpTo(s, n)
  PROVE  UpTo(s, n + 1)
<1>1. \A i \in 1..Len(s) : s[i] \in Nat
  BY ElementOfSeq
<1> QED BY <1>1 DEF UpTo

\* An empty list has every order.
LEMMA EmptyOrder ==
  /\ Ascending(<<>>) /\ Descending(<<>>)
  /\ \A n : UpTo(<<>>, n)
  /\ \A e : ~Contains(<<>>, e)
<1>1. \A i : i \notin 1..Len(<<>>)
  OBVIOUS
<1> QED BY <1>1 DEF Ascending, Descending, UpTo, Contains

-----------------------------------------------------------------------------
(* The metric events. *)

\* One event per call, and the cancelled call is the last one there is room for.
LEMMA EmitsCounts ==
  ASSUME TypeOK, EventsAreCalls, NEW end, Emits(end),
         end \in Cancelling => ~cancelled,
         cancelled' = (cancelled \/ end \in Cancelling)
  PROVE  EventsAreCalls'
<1>1. calls' = calls + 1 /\ calls \in Nat /\ events \in Nat
  BY DEF Emits, TypeOK
<1>2. CASE end \in Cancelling
  <2>1. ~cancelled /\ cancelled' /\ events' = events
    BY <1>2 DEF Emits
  <2> QED BY <1>1, <2>1 DEF EventsAreCalls
<1>3. CASE end \notin Cancelling
  <2>1. events' = events + 1 /\ (cancelled' <=> cancelled)
    BY <1>3 DEF Emits
  <2> QED BY <1>1, <2>1 DEF EventsAreCalls
<1> QED BY <1>2, <1>3

\* A request that is cancelled takes the one cancellation there is.
LEMMA CancelledOnce ==
  /\ \A end \in Ends : end \in Cancelling => ~cancelled
  /\ \A r : \A end \in DeleteEnds(r) :
       /\ end \in Cancelling <=> end = "cancelled"
       /\ end = "cancelled" => ~cancelled
BY DEF Ends, Answered, Cancelling, DeleteEnds

\* Every step leaves at most one call without an event, the one that a cancellation meets.
LEMMA EventStep == TypeOK /\ EventsAreCalls /\ [Next]_vars => EventsAreCalls'
<1> SUFFICES ASSUME TypeOK, EventsAreCalls, [Next]_vars PROVE EventsAreCalls'
  OBVIOUS
\* What happens without a call may only be a cancellation.
<1>1. ASSUME UNCHANGED metrics, cancelled => cancelled' PROVE EventsAreCalls'
  BY <1>1 DEF EventsAreCalls, metrics, TypeOK
<1>2. CASE StartTask \/ TaskReturns
  BY <1>1, <1>2 DEF StartTask, TaskReturns
<1>3. CASE TaskRaises \/ OrmCreate
  BY <1>1, <1>3 DEF TaskRaises, OrmCreate, Continue
<1>4. CASE Post
  <2>1. PICK end \in Ends : Emits(end) /\ cancelled' = (cancelled \/ end \in Cancelling)
    BY <1>4 DEF Post, Continue
  <2> QED BY <2>1, CancelledOnce, EmitsCounts
<1>5. CASE ApiCreate
  <2>1. PICK end \in Ends : Emits(end) /\ cancelled' = (cancelled \/ end \in Cancelling)
    BY <1>5 DEF ApiCreate, Continue
  <2> QED BY <2>1, CancelledOnce, EmitsCounts
<1>6. ASSUME NEW ends, "cancelled_late" \notin ends, Query(ends) PROVE EventsAreCalls'
  <2>1. PICK end \in ends \cap Ends : Emits(end) /\ cancelled' = (cancelled \/ end = "cancelled")
    BY <1>6 DEF Query, Continue
  <2>2. end \in Cancelling <=> end = "cancelled"
    BY <1>6 DEF Cancelling
  <2> QED BY <2>1, <2>2, CancelledOnce, EmitsCounts
<1>7. CASE Get \/ Graphql \/ WebSocket \/ Grpc
  BY <1>6, <1>7 DEF Get, Graphql, WebSocket, Grpc
<1>8. CASE LoopEnds \/ Expire
  BY <1>1, <1>8 DEF LoopEnds, Expire
<1>9. CASE OnStopWithout \/ FixturesBegin \/ FixturesEnd \/ OrmDelete
  BY <1>1, <1>9 DEF OnStopWithout, FixturesBegin, FixturesEnd, OrmDelete
<1>10. CASE ApiDelete
  <2>1. PICK end \in DeleteEnds(Head(fixTodo)) :
          Emits(end) /\ cancelled' = (cancelled \/ end = "cancelled")
    BY <1>10 DEF ApiDelete
  <2> QED BY <2>1, CancelledOnce, EmitsCounts
<1>11. CASE AutoDelete
  <2>1. UNCHANGED metrics /\ (cancelled => cancelled')
    BY <1>11 DEF AutoDelete, CleanupRequest
  <2> QED BY <1>1, <2>1
<1>12. CASE AutoEnds \/ UNCHANGED vars
  BY <1>1, <1>12 DEF AutoEnds, vars
<1> QED BY <1>2, <1>3, <1>4, <1>5, <1>7, <1>8, <1>9, <1>10, <1>11, <1>12
        DEF Next, TaskStep, OnStopStep, AutoStep, Terminated

\* Every call of the user is one metric event, answered, refused, raised or retried, and
\* no request of a clean-up manager is; only the call that is cancelled leaves none, and
\* there is one at most.
THEOREM EventsAreCallsHolds == Spec => []EventsAreCalls
<1>1. Init => EventsAreCalls
  BY DEF Init, EventsAreCalls
<1> QED BY <1>1, TypeCorrect, EventStep, PTL DEF Spec

-----------------------------------------------------------------------------
(* Where the user is. *)

\* What the place of the user leaves of its lists, and of its attempts.
PlaceInv ==
  /\ cancelled => pc \notin {"idle", "task"}
  /\ pc # "fixtures" => fixTodo = <<>>
  /\ pc # "auto" => todo = <<>>
  /\ pc \in {"auto", "done"} => actions = <<>>

\* A step of a task leaves what is to be cleaned up alone, and a cancellation leaves the
\* task.
LEMMA TaskPlace ==
  ASSUME TypeOK, PlaceInv, TaskStep
  PROVE  /\ pc \in {"idle", "task"} /\ pc' \in {"idle", "task", "on_stop"}
         /\ cancelled' => pc' = "on_stop"
         /\ UNCHANGED <<fixTodo, todo, cutShort, reported>>
         /\ raising # "ok" => raising' # "ok"
<1>1. ASSUME pc = "task", NEW raised, NEW cancelling, Continue(raised, cancelling)
      PROVE  /\ pc' \in {"task", "on_stop"}
             /\ cancelled' => pc' = "on_stop"
             /\ raising # "ok" => raising' # "ok"
  BY <1>1 DEF Continue, PlaceInv
<1>2. CASE StartTask \/ TaskReturns
  BY <1>2 DEF StartTask, TaskReturns, PlaceInv, ledger, manager
<1>3. CASE TaskRaises
  BY <1>1, <1>3 DEF TaskRaises, ledger, manager
<1>4. CASE Post
  <2>1. \E end \in Ends : Continue(end \in {"unsent", "lost"}, end \in Cancelling)
    BY <1>4 DEF Post
  <2> QED BY <1>1, <1>4, <2>1 DEF Post, InTask, ledger
<1>5. ASSUME NEW ends, Query(ends) PROVE pc = "task" /\ UNCHANGED <<ledger, manager>>
                                         /\ \E a, b : Continue(a, b)
  BY <1>5 DEF Query, InTask
<1>6. CASE Get \/ Graphql \/ WebSocket \/ Grpc
  BY <1>1, <1>5, <1>6 DEF Get, Graphql, WebSocket, Grpc, ledger, manager
<1>7. CASE ApiCreate
  <2>1. \E end \in Ends : Continue(end \in {"unsent", "lost", "garbled"}, end \in Cancelling)
    BY <1>7 DEF ApiCreate
  <2> QED BY <1>1, <1>7, <2>1 DEF ApiCreate, InTask
<1>8. CASE OrmCreate
  <2>1. \E end \in {"ok", "unsent", "lost"} : Continue(end # "ok", FALSE)
    BY <1>8 DEF OrmCreate
  <2> QED BY <1>1, <1>8, <2>1 DEF OrmCreate, manager
<1> QED BY <1>2, <1>3, <1>4, <1>6, <1>7, <1>8 DEF TaskStep

\* The deletion of a fixture returns or raises.
LEMMA FixtureDeletion ==
  ASSUME ApiDelete \/ OrmDelete
  PROVE  /\ pc = "fixtures" /\ fixTodo # <<>> /\ UNCHANGED records
         /\ FixtureReturns \/ FixtureRaises("cancelled") \/ FixtureRaises("error")
<1>1. CASE ApiDelete
  <2>1. \E end \in DeleteEnds(Head(fixTodo)) :
          CASE end \in {"ok", "refused"} -> FixtureReturns
            [] end = "cancelled" -> FixtureRaises("cancelled")
            [] OTHER -> FixtureRaises("error")
    BY <1>1 DEF ApiDelete
  <2> QED BY <1>1, <2>1 DEF ApiDelete
<1>2. CASE OrmDelete
  <2>1. \E end \in RowEnds(Head(fixTodo)) :
          IF end = "ok" THEN FixtureReturns ELSE FixtureRaises("error")
    BY <1>2 DEF OrmDelete
  <2> QED BY <1>2, <2>1 DEF OrmDelete
<1> QED BY <1>1, <1>2

\* Every step takes its lists along.
LEMMA PlaceStep == TypeOK /\ PlaceInv /\ [Next]_vars => PlaceInv'
<1> SUFFICES ASSUME TypeOK, PlaceInv, [Next]_vars PROVE PlaceInv'
  OBVIOUS
<1>1. CASE TaskStep
  BY <1>1, TaskPlace DEF PlaceInv
<1>2. CASE LoopEnds \/ Expire
  BY <1>2 DEF LoopEnds, Expire, PlaceInv, ledger, manager
<1>3. CASE OnStopWithout \/ FixturesBegin \/ FixturesEnd
  BY <1>3 DEF OnStopWithout, FixturesBegin, FixturesEnd, AutoBegins, PlaceInv, ledger, manager
<1>4. CASE ApiDelete \/ OrmDelete
  <2>1. /\ pc = "fixtures"
        /\ FixtureReturns \/ FixtureRaises("cancelled") \/ FixtureRaises("error")
    BY <1>4, FixtureDeletion
  <2> QED BY <2>1 DEF FixtureReturns, FixtureRaises, AutoBegins, PlaceInv, manager
<1>5. CASE AutoDelete
  <2>1. /\ pc = "auto" /\ UNCHANGED <<ledger, actions>>
        /\ (pc' = "done" /\ todo' = <<>>) \/ pc' = pc
    BY <1>5 DEF AutoDelete
  <2> QED BY <2>1 DEF PlaceInv, ledger
<1>6. CASE AutoEnds \/ UNCHANGED vars
  BY <1>6 DEF AutoEnds, PlaceInv, vars, ledger, manager
<1> QED BY <1>1, <1>2, <1>3, <1>4, <1>5, <1>6
        DEF Next, OnStopStep, AutoStep, Terminated

\* Where the user is decides which lists may hold anything.
LEMMA PlaceCorrect == Spec => [](TypeOK /\ PlaceInv)
<1>1. Init => PlaceInv
  BY DEF Init, PlaceInv
<1> QED BY <1>1, TypeCorrect, PlaceStep, PTL DEF Spec

\* The first half of CancelIsFinal: however the cancellation meets a call, an attempt or
\* a retry that is due, the user starts no task and makes no attempt after it.
THEOREM CancelStopsTasks == Spec => [][cancelled => pc' \notin {"idle", "task"}]_vars
<1>1. TypeOK /\ PlaceInv /\ [Next]_vars => [cancelled => pc' \notin {"idle", "task"}]_vars
  <2> SUFFICES ASSUME TypeOK, PlaceInv, Next, cancelled PROVE pc' \notin {"idle", "task"}
    OBVIOUS
  <2>1. pc \notin {"idle", "task"}
    BY DEF PlaceInv
  <2>2. ~TaskStep
    BY <2>1, TaskPlace
  <2>3. CASE LoopEnds \/ Expire \/ AutoStep \/ Terminated
    BY <2>1, <2>3 DEF LoopEnds, Expire, AutoStep, AutoDelete, AutoEnds, Terminated, vars
  <2>4. CASE OnStopStep
    <3>1. CASE OnStopWithout \/ FixturesBegin \/ FixturesEnd
      BY <3>1 DEF OnStopWithout, FixturesBegin, FixturesEnd, AutoBegins
    <3>2. CASE ApiDelete \/ OrmDelete
      BY <2>1, <3>2, FixtureDeletion DEF FixtureReturns, FixtureRaises, AutoBegins
    <3> QED BY <2>4, <3>1, <3>2 DEF OnStopStep
  <2> QED BY <2>2, <2>3, <2>4 DEF Next
<1> QED BY <1>1, PlaceCorrect, PTL DEF Spec

-----------------------------------------------------------------------------
(* The order of the ledgers, and whose hands a resource is in. *)

\* Whoever refers to a resource is younger and comes later in the ledgers.
OrderInv ==
  /\ \A r \in Res : parent[r] < r
  /\ Ascending(records) /\ UpTo(records, made)
  /\ Ascending(actions) /\ UpTo(actions, made)
  /\ Descending(fixTodo) /\ Descending(todo)

\* Who is still to remove a resource.
InHand(r) ==
  IF origin[r] = "orm" THEN cutShort \/ Contains(records, r) \/ Contains(fixTodo, r)
                       ELSE Contains(actions, r) \/ Contains(todo, r)

\* Until a failure is noted or the summary is cut off, everything that exists and was
\* acknowledged is in somebody's hands.
Unnoticed == Tracked /\ noted = 0 /\ (pc = "done" => reported # -1)
\* The invariant of the resources.
LeakInv ==
  /\ reported # -1 => pc = "done" /\ reported = noted
  /\ cutShort => raising # "ok"
  /\ Unnoticed => \A r \in server \ lost : InHand(r)

\* What a creating POST does to the target.
LEMMA PostEffectOrder ==
  ASSUME TypeOK, OrderInv, NEW how \in {"post", "api", "orm"}, NEW end, PostEffect(how, end)
  PROVE  /\ \A r \in Res : parent'[r] < r
         /\ \A r \in server : origin'[r] = origin[r]
         /\ end \in Effective =>
              /\ made' = made + 1 /\ made + 1 \in Res
              /\ server' = server \cup {made + 1} /\ origin'[made + 1] = how
              /\ lost' = IF end \in Answered THEN lost ELSE lost \cup {made + 1}
         /\ end \notin Effective => UNCHANGED <<made, server, lost, origin>>
<1>1. CASE end \notin Effective
  BY <1>1 DEF PostEffect, world, OrderInv
<1>2. CASE end \in Effective
  <2>1. Create(how) /\ lost' = IF end \in Answered THEN lost ELSE lost \cup {made + 1}
    BY <1>2 DEF PostEffect
  <2>2. made' = made + 1 /\ made + 1 \in Res /\ made \in Nat
    BY <1>2, <2>1, PostEffectTypes DEF Create, TypeOK
  <2>3. PICK p \in server \cup {None} : parent' = [parent EXCEPT ![made + 1] = p]
    BY <2>1 DEF Create
  <2>4. p < made + 1
    BY <2>2 DEF TypeOK, None
  <2>5. ASSUME NEW r \in Res PROVE parent'[r] < r
    <3>1. parent'[r] = IF r = made + 1 THEN p ELSE parent[r]
      BY <2>3 DEF TypeOK
    <3> QED BY <2>4, <3>1 DEF OrderInv
  <2>6. origin' = [origin EXCEPT ![made + 1] = how] /\ server' = server \cup {made + 1}
    BY <2>1 DEF Create
  <2>7. \A r \in server : r \in Res /\ r # made + 1
    BY SessionAssumption DEF TypeOK, Res
  <2>8. \A r \in Res : origin'[r] = IF r = made + 1 THEN how ELSE origin[r]
    BY <2>6 DEF TypeOK
  <2> QED BY <1>2, <2>1, <2>2, <2>5, <2>6, <2>7, <2>8
<1> QED BY <1>1, <1>2

\* What the cleanup manager makes of the answer.
LEMMA RegisterOrder ==
  ASSUME TypeOK, OrderInv, NEW end, Register(end, made + 1),
         end \in Answered => made' = made + 1 /\ made + 1 \in Res,
         made' \in {made, made + 1}
  PROVE  /\ Ascending(actions') /\ UpTo(actions', made')
         /\ \A r : Contains(actions, r) => Contains(actions', r)
         /\ noted' = 0 => noted = 0
         /\ Tracked /\ noted' = 0 /\ end \in Answered => Contains(actions', made + 1)
<1>1. made \in Nat /\ actions \in Seq(Res) /\ Res \subseteq Nat /\ noted \in Nat
  BY DEF TypeOK, Res
<1>2. UpTo(actions, made) /\ UpTo(actions, made + 1) /\ Ascending(actions)
  BY <1>1, UpToGrows DEF OrderInv
<1>3. CASE UNCHANGED actions
  <2>1. Ascending(actions') /\ UpTo(actions', made')
    BY <1>2, <1>3
  <2> QED BY <1>1, <1>3, <2>1 DEF Register, Answered
<1>4. CASE Tracked /\ end \in Answered /\ actions' = Append(actions, made + 1) /\ UNCHANGED noted
  <2>1. made' = made + 1 /\ made + 1 \in Res /\ made < made + 1 /\ made <= made + 1
    BY <1>1, <1>4
  <2>2. /\ \A e : Contains(actions', e) <=> Contains(actions, e) \/ e = made + 1
        /\ Ascending(actions') /\ UpTo(actions', made + 1)
    BY <1>1, <1>2, <1>4, <2>1, Appending
  <2> QED BY <1>4, <2>1, <2>2
<1> QED BY <1>3, <1>4 DEF Register

\* What the fixtures make of it.
LEMMA RecordsOrder ==
  ASSUME TypeOK, OrderInv, made' \in {made, made + 1},
         \/ UNCHANGED records
         \/ records' = Append(records, None)
         \/ records' = Append(records, made + 1) /\ made' = made + 1 /\ made + 1 \in Res
  PROVE  /\ Ascending(records') /\ UpTo(records', made')
         /\ \A r : Contains(records, r) => Contains(records', r)
<1> DEFINE S == Res \cup {None}
<1>1. made \in Nat /\ records \in Seq(S) /\ S \subseteq Nat /\ None \in S
  BY DEF TypeOK, Res, None
<1>2. UpTo(records, made) /\ UpTo(records, made + 1) /\ Ascending(records)
  BY <1>1, UpToGrows DEF OrderInv
<1>3. CASE UNCHANGED records
  BY <1>2, <1>3
<1>4. CASE records' = Append(records, None)
  <2>1. \A e : Contains(Append(records, None), e) <=> Contains(records, e) \/ e = None
    BY <1>1, Appending
  <2>2. Ascending(Append(records, None))
    BY <1>1, <1>2, AppendingNone
  <2>3. UpTo(Append(records, None), made) /\ UpTo(Append(records, None), made + 1)
    BY <1>1, <1>2, AppendingNone
  <2> QED BY <1>4, <2>1, <2>2, <2>3
<1>5. CASE records' = Append(records, made + 1) /\ made' = made + 1 /\ made + 1 \in Res
  <2>1. made + 1 \in S /\ made < made + 1 /\ made <= made + 1
    BY <1>1, <1>5
  <2>2. /\ \A e : Contains(records', e) <=> Contains(records, e) \/ e = made + 1
        /\ Ascending(records') /\ UpTo(records', made + 1)
    BY <1>1, <1>2, <1>5, <2>1, Appending
  <2> QED BY <1>5, <2>2
<1> QED BY <1>3, <1>4, <1>5

\* Hands that only take more in lose nothing.
LEMMA HandsGrow ==
  ASSUME \A r \in server : origin'[r] = origin[r],
         \A r : Contains(actions, r) => Contains(actions', r),
         \A r : Contains(records, r) => Contains(records', r),
         UNCHANGED <<fixTodo, todo, cutShort>>
  PROVE  \A r \in server : InHand(r) => InHand(r)'
BY DEF InHand

\* A step of a task keeps the rest of LeakInv, if it keeps the hands.
LEMMA TaskLeak ==
  ASSUME TypeOK, PlaceInv, LeakInv, TaskStep,
         Unnoticed => \A r \in server : InHand(r) => InHand(r)',
         noted' = 0 => noted = 0,
         Unnoticed' => \A r \in server' \ lost' : r \in server \ lost \/ InHand(r)'
  PROVE  LeakInv'
<1>1. /\ pc \in {"idle", "task"} /\ pc' \in {"idle", "task", "on_stop"}
      /\ UNCHANGED <<cutShort, reported>> /\ (raising # "ok" => raising' # "ok")
  BY TaskPlace
<1>2. Unnoticed' => Unnoticed
  BY <1>1 DEF Unnoticed
<1>3. (reported # -1 => pc = "done" /\ reported = noted)'
  BY <1>1 DEF LeakInv
<1>4. (cutShort => raising # "ok")'
  BY <1>1 DEF LeakInv
<1>5. Unnoticed' => \A r \in server' \ lost' : InHand(r)'
  BY <1>2 DEF LeakInv
<1> QED BY <1>3, <1>4, <1>5 DEF LeakInv

\* The steps of a task keep the order of the ledgers, and every resource in somebody's hands.
LEMMA TaskOrder ==
  ASSUME TypeOK, PlaceInv, OrderInv, LeakInv, TaskStep
  PROVE  OrderInv' /\ LeakInv'
<1>1. UNCHANGED <<fixTodo, todo, cutShort>>
  BY TaskPlace
<1>2. ASSUME UNCHANGED <<world, records, actions, noted>> PROVE OrderInv' /\ LeakInv'
  <2>1. OrderInv'
    BY <1>1, <1>2 DEF OrderInv, world
  <2>2. \A r \in server : InHand(r) => InHand(r)'
    BY <1>1, <1>2, HandsGrow DEF world
  <2> QED BY <1>2, <2>1, <2>2, TaskLeak DEF world
<1>3. CASE StartTask \/ TaskReturns \/ TaskRaises
  BY <1>2, <1>3 DEF StartTask, TaskReturns, TaskRaises, ledger, manager
<1>4. CASE Get \/ Graphql \/ WebSocket \/ Grpc
  BY <1>2, <1>4 DEF Get, Graphql, WebSocket, Grpc, Query, ledger, manager
<1>5. CASE Post
  <2>1. PICK end \in Ends : PostEffect("post", end) /\ Register(end, made + 1)
    BY <1>5 DEF Post
  <2>2. UNCHANGED records
    BY <1>5 DEF Post, ledger
  <2>3. /\ \A r \in Res : parent'[r] < r
        /\ \A r \in server : origin'[r] = origin[r]
        /\ end \in Effective =>
             /\ made' = made + 1 /\ made + 1 \in Res
             /\ server' = server \cup {made + 1} /\ origin'[made + 1] = "post"
             /\ lost' = IF end \in Answered THEN lost ELSE lost \cup {made + 1}
        /\ end \notin Effective => UNCHANGED <<made, server, lost, origin>>
    BY <2>1, PostEffectOrder
  <2>4. made' \in {made, made + 1} /\ (end \in Answered => end \in Effective)
    BY <2>3 DEF Effective
  <2>5. /\ Ascending(actions') /\ UpTo(actions', made')
        /\ \A r : Contains(actions, r) => Contains(actions', r)
        /\ noted' = 0 => noted = 0
        /\ Tracked /\ noted' = 0 /\ end \in Answered => Contains(actions', made + 1)
    BY <2>1, <2>3, <2>4, RegisterOrder
  <2>6. Ascending(records') /\ UpTo(records', made')
    BY <2>2, <2>4, RecordsOrder
  <2>7. OrderInv'
    BY <1>1, <2>3, <2>5, <2>6 DEF OrderInv
  <2>8. \A r \in server : InHand(r) => InHand(r)'
    BY <1>1, <2>2, <2>3, <2>5, HandsGrow
  <2>9. Unnoticed' => \A r \in server' \ lost' : r \in server \ lost \/ InHand(r)'
    BY <2>3, <2>4, <2>5 DEF Unnoticed, InHand
  <2> QED BY <2>5, <2>7, <2>8, <2>9, TaskLeak
<1>6. CASE ApiCreate
  <2>1. PICK end \in Ends :
          /\ PostEffect("api", end) /\ Register(end, made + 1)
          /\ records' = CASE end = "ok" -> Append(records, made + 1)
                          [] end \in {"anonymous", "refused"} -> Append(records, None)
                          [] OTHER -> records
    BY <1>6 DEF ApiCreate
  <2>2. /\ \A r \in Res : parent'[r] < r
        /\ \A r \in server : origin'[r] = origin[r]
        /\ end \in Effective =>
             /\ made' = made + 1 /\ made + 1 \in Res
             /\ server' = server \cup {made + 1} /\ origin'[made + 1] = "api"
             /\ lost' = IF end \in Answered THEN lost ELSE lost \cup {made + 1}
        /\ end \notin Effective => UNCHANGED <<made, server, lost, origin>>
    BY <2>1, PostEffectOrder
  <2>3. /\ made' \in {made, made + 1} /\ (end \in Answered => end \in Effective)
        /\ end = "ok" => end \in Answered
    BY <2>2 DEF Effective, Answered
  <2>4. /\ Ascending(actions') /\ UpTo(actions', made')
        /\ \A r : Contains(actions, r) => Contains(actions', r)
        /\ noted' = 0 => noted = 0
        /\ Tracked /\ noted' = 0 /\ end \in Answered => Contains(actions', made + 1)
    BY <2>1, <2>2, <2>3, RegisterOrder
  <2>5. \/ UNCHANGED records
        \/ records' = Append(records, None)
        \/ records' = Append(records, made + 1) /\ made' = made + 1 /\ made + 1 \in Res
    BY <2>1, <2>2, <2>3
  <2>6. /\ Ascending(records') /\ UpTo(records', made')
        /\ \A r : Contains(records, r) => Contains(records', r)
    BY <2>3, <2>5, RecordsOrder
  <2>7. OrderInv'
    BY <1>1, <2>2, <2>4, <2>6 DEF OrderInv
  <2>8. \A r \in server : InHand(r) => InHand(r)'
    BY <1>1, <2>2, <2>4, <2>6, HandsGrow
  <2>9. Unnoticed' => \A r \in server' \ lost' : r \in server \ lost \/ InHand(r)'
    BY <2>2, <2>3, <2>4 DEF Unnoticed, InHand
  <2> QED BY <2>4, <2>7, <2>8, <2>9, TaskLeak
<1>7. CASE OrmCreate
  <2>1. PICK end \in {"ok", "unsent", "lost"} :
          /\ PostEffect("orm", end)
          /\ records' = IF end = "ok" THEN Append(records, made + 1) ELSE records
    BY <1>7 DEF OrmCreate
  <2>2. UNCHANGED <<actions, noted>>
    BY <1>7 DEF OrmCreate, manager
  <2>3. /\ \A r \in Res : parent'[r] < r
        /\ \A r \in server : origin'[r] = origin[r]
        /\ end \in Effective =>
             /\ made' = made + 1 /\ made + 1 \in Res
             /\ server' = server \cup {made + 1} /\ origin'[made + 1] = "orm"
             /\ lost' = IF end \in Answered THEN lost ELSE lost \cup {made + 1}
        /\ end \notin Effective => UNCHANGED <<made, server, lost, origin>>
    BY <2>1, PostEffectOrder
  <2>4. /\ made' \in {made, made + 1}
        /\ end = "ok" <=> end \in Answered
        /\ end = "ok" => end \in Effective
    BY <2>1, <2>3 DEF Effective, Answered
  <2>5. /\ Ascending(records') /\ UpTo(records', made')
        /\ \A r : Contains(records, r) => Contains(records', r)
    BY <2>1, <2>3, <2>4, RecordsOrder
  <2>6. Ascending(actions') /\ UpTo(actions', made')
    <3>1. actions \in Seq(Res) /\ Res \subseteq Nat /\ made \in Nat
      BY DEF TypeOK, Res
    <3>2. Ascending(actions) /\ UpTo(actions, made) /\ UpTo(actions, made + 1)
      BY <3>1, UpToGrows DEF OrderInv
    <3> QED BY <2>2, <2>4, <3>2
  <2>7. OrderInv'
    BY <1>1, <2>3, <2>5, <2>6 DEF OrderInv
  <2>8. \A r \in server : InHand(r) => InHand(r)'
    BY <1>1, <2>2, <2>3, <2>5, HandsGrow
  <2>9. end = "ok" => Contains(records', made + 1)
    <3>1. Res \cup {None} \subseteq Nat /\ records \in Seq(Res \cup {None})
      BY DEF TypeOK, Res, None
    <3>2. end = "ok" => made + 1 \in Res \cup {None}
      BY <2>3, <2>4
    <3> QED BY <2>1, <3>1, <3>2, Appending
  <2>10. Unnoticed' => \A r \in server' \ lost' : r \in server \ lost \/ InHand(r)'
    BY <2>3, <2>4, <2>9 DEF Unnoticed, InHand
  <2> QED BY <2>2, <2>7, <2>8, <2>10, TaskLeak
<1> QED BY <1>3, <1>4, <1>5, <1>6, <1>7 DEF TaskStep

\* The manager takes its actions over, in whatever state the fixtures are left.
LEMMA AutoBeginsHands ==
  ASSUME TypeOK, PlaceInv, OrderInv, pc # "auto", AutoBegins
  PROVE  /\ Descending(todo') /\ Ascending(actions') /\ UpTo(actions', made)
         /\ \A r : Contains(actions, r) \/ Contains(todo, r) => Contains(todo', r)
<1>1. actions \in Seq(Res) /\ todo = <<>> /\ actions' = <<>> /\ todo' = DeletionOrder(actions)
  BY DEF TypeOK, PlaceInv, AutoBegins
<1>2. /\ \A e : Contains(todo', e) <=> Contains(actions, e)
      /\ Descending(todo')
  BY <1>1, Reversing DEF OrderInv
<1> QED BY <1>1, <1>2, EmptyOrder

\* The fixtures take their records over.
LEMMA FixturesBeginOrder ==
  ASSUME TypeOK, PlaceInv, OrderInv, LeakInv, FixturesBegin
  PROVE  OrderInv' /\ LeakInv'
<1>1. /\ pc = "on_stop" /\ pc' = "fixtures" /\ fixTodo = <<>>
      /\ fixTodo' = DeletionOrder(records) /\ records' = <<>>
      /\ UNCHANGED <<raising, world, cutShort, manager>>
  BY DEF FixturesBegin, PlaceInv
<1>2. records \in Seq(Res \cup {None})
  BY DEF TypeOK
<1>3. /\ \A e : Contains(fixTodo', e) <=> Contains(records, e)
      /\ Descending(fixTodo')
  BY <1>1, <1>2, Reversing DEF OrderInv
<1>4. OrderInv'
  BY <1>1, <1>3, EmptyOrder DEF OrderInv, world, manager
<1>5. \A r : InHand(r) => InHand(r)'
  BY <1>1, <1>3, EmptyOrder DEF InHand, world, manager
<1>6. LeakInv'
  BY <1>1, <1>5 DEF LeakInv, Unnoticed, world, manager
<1> QED BY <1>4, <1>6

\* on_stop is over, with the fixtures or without.
LEMMA OnStopOverOrder ==
  ASSUME TypeOK, PlaceInv, OrderInv, LeakInv, OnStopWithout \/ FixturesEnd
  PROVE  OrderInv' /\ LeakInv'
<1>1. /\ pc \in {"on_stop", "fixtures"} /\ AutoBegins
      /\ UNCHANGED <<raising, world, ledger>>
  BY DEF OnStopWithout, FixturesEnd
<1>2. /\ Descending(todo') /\ Ascending(actions') /\ UpTo(actions', made)
      /\ \A r : Contains(actions, r) \/ Contains(todo, r) => Contains(todo', r)
  BY <1>1, AutoBeginsHands
<1>3. OrderInv'
  BY <1>1, <1>2 DEF OrderInv, world, ledger
<1>4. \A r : InHand(r) => InHand(r)'
  BY <1>1, <1>2 DEF InHand, world, ledger
<1>5. LeakInv'
  BY <1>1, <1>4 DEF LeakInv, Unnoticed, AutoBegins, world, ledger
<1> QED BY <1>3, <1>5

\* The deletion of a fixture raises: the other records are forgotten, and the user has
\* failed.
LEMMA FixtureRaisesOrder ==
  ASSUME TypeOK, PlaceInv, OrderInv, LeakInv, pc = "fixtures",
         NEW exception \in {"error", "cancelled"}, FixtureRaises(exception),
         server' \subseteq server, UNCHANGED <<made, parent, origin, lost, records>>
  PROVE  OrderInv' /\ LeakInv'
<1>1. /\ AutoBegins /\ fixTodo' = <<>> /\ cutShort' = TRUE /\ raising' = exception
  BY DEF FixtureRaises
<1>2. /\ Descending(todo') /\ Ascending(actions') /\ UpTo(actions', made)
      /\ \A r : Contains(actions, r) \/ Contains(todo, r) => Contains(todo', r)
  BY <1>1, AutoBeginsHands
<1>3. OrderInv'
  BY <1>1, <1>2, EmptyOrder DEF OrderInv
<1>4. \A r : InHand(r) => InHand(r)'
  BY <1>1, <1>2 DEF InHand
<1>5. LeakInv'
  BY <1>1, <1>4 DEF LeakInv, Unnoticed, AutoBegins
<1> QED BY <1>3, <1>5

\* It returns: the record is done with, unless somebody else is to remove the resource.
LEMMA FixtureReturnsOrder ==
  ASSUME TypeOK, PlaceInv, OrderInv, LeakInv, fixTodo # <<>>, FixtureReturns,
         server' \subseteq server, UNCHANGED <<made, parent, origin, lost, records>>,
         \/ Head(fixTodo) \notin server'
         \/ origin[Head(fixTodo)] # "orm"
  PROVE  OrderInv' /\ LeakInv'
<1>1. fixTodo' = Tail(fixTodo) /\ UNCHANGED <<pc, raising, cutShort, manager>>
  BY DEF FixtureReturns
<1>2. fixTodo \in Seq(Res \cup {None})
  BY DEF TypeOK
<1>3. /\ \A e : Contains(fixTodo, e) => e = Head(fixTodo) \/ Contains(fixTodo', e)
      /\ Descending(fixTodo')
  BY <1>1, <1>2, Passing DEF OrderInv
<1>4. OrderInv'
  BY <1>1, <1>3 DEF OrderInv, manager
<1>5. \A r \in server' : InHand(r) => InHand(r)'
  BY <1>1, <1>3 DEF InHand, manager
<1>6. LeakInv'
  BY <1>1, <1>5 DEF LeakInv, Unnoticed, manager
<1> QED BY <1>4, <1>6

\* One deletion by the fixtures.
LEMMA FixtureDeletionOrder ==
  ASSUME TypeOK, PlaceInv, OrderInv, LeakInv, ApiDelete \/ OrmDelete
  PROVE  OrderInv' /\ LeakInv'
<1>1. pc = "fixtures" /\ fixTodo # <<>> /\ UNCHANGED records
  BY FixtureDeletion
<1>2. None \notin server
  BY DEF TypeOK, None
<1>3. CASE ApiDelete
  <2>1. PICK end \in DeleteEnds(Head(fixTodo)) :
          /\ Deletes(Head(fixTodo), end)
          /\ CASE end \in {"ok", "refused"} -> FixtureReturns
               [] end = "cancelled" -> FixtureRaises("cancelled")
               [] OTHER -> FixtureRaises("error")
    BY <1>3 DEF ApiDelete
  <2>2. Head(fixTodo) # None => origin[Head(fixTodo)] = "api"
    BY <1>3 DEF ApiDelete
  <2>3. server' \subseteq server /\ UNCHANGED <<made, parent, origin, lost>>
    BY <2>1 DEF Deletes
  <2>4. Head(fixTodo) \notin server' \/ origin[Head(fixTodo)] # "orm"
    BY <1>2, <2>2, <2>3
  <2> QED BY <1>1, <2>1, <2>3, <2>4, FixtureReturnsOrder, FixtureRaisesOrder
<1>4. CASE OrmDelete
  <2>1. PICK end \in RowEnds(Head(fixTodo)) :
          /\ Deletes(Head(fixTodo), end)
          /\ IF end = "ok" THEN FixtureReturns ELSE FixtureRaises("error")
    BY <1>4 DEF OrmDelete
  <2>2. /\ server' \subseteq server /\ UNCHANGED <<made, parent, origin, lost>>
        /\ end = "ok" => Head(fixTodo) \notin server'
    BY <2>1 DEF Deletes
  <2> QED BY <1>1, <2>1, <2>2, FixtureReturnsOrder, FixtureRaisesOrder
<1> QED BY <1>3, <1>4

\* One deletion by the cleanup manager: what is still there afterwards is noted, or the
\* summary is cut off.
LEMMA AutoDeleteOrder ==
  ASSUME TypeOK, PlaceInv, OrderInv, LeakInv, AutoDelete
  PROVE  OrderInv' /\ LeakInv'
<1>1. PICK end \in DeleteEnds(Head(todo)) :
        /\ Deletes(Head(todo), end)
        /\ IF end = "cancelled"
           THEN pc' = "done" /\ raising' = "cancelled" /\ todo' = <<>> /\ UNCHANGED noted
           ELSE ActionOver(end) /\ UNCHANGED <<pc, raising>>
  BY DEF AutoDelete
<1>2. /\ pc = "auto" /\ todo # <<>> /\ todo \in Seq(Res) /\ noted \in Nat /\ reported = -1
      /\ UNCHANGED <<ledger, actions, reported>>
  BY DEF AutoDelete, TypeOK, LeakInv
<1>3. /\ server' \subseteq server /\ UNCHANGED <<made, parent, origin, lost>>
      /\ end = "ok" => Head(todo) \notin server'
  BY <1>1 DEF Deletes
<1>4. CASE end = "cancelled"
  <2>1. OrderInv'
    BY <1>1, <1>2, <1>3, <1>4, EmptyOrder DEF OrderInv, ledger
  <2>2. LeakInv'
    BY <1>1, <1>2, <1>4 DEF LeakInv, Unnoticed
  <2> QED BY <2>1, <2>2
<1>5. CASE end # "cancelled"
  <2>1. /\ todo' = Tail(todo) /\ UNCHANGED <<pc, raising>>
        /\ noted' = IF end # "ok" THEN noted + 1 ELSE noted
    BY <1>1, <1>5 DEF ActionOver, ActionFails
  <2>2. /\ \A e : Contains(todo, e) => e = Head(todo) \/ Contains(todo', e)
        /\ Descending(todo')
    BY <1>2, <2>1, Passing DEF OrderInv
  <2>3. OrderInv'
    BY <1>2, <1>3, <2>2 DEF OrderInv, ledger
  <2>4. noted' = 0 => end = "ok" /\ noted = 0
    BY <1>2, <2>1
  <2>5. end = "ok" => \A r \in server' : InHand(r) => InHand(r)'
    BY <1>2, <1>3, <2>2 DEF InHand, ledger
  <2>6. LeakInv'
    BY <1>2, <1>3, <2>1, <2>4, <2>5 DEF LeakInv, Unnoticed, ledger
  <2> QED BY <2>3, <2>6
<1> QED BY <1>4, <1>5

\* Every step keeps all of it.
LEMMA SessionStep ==
  TypeOK /\ PlaceInv /\ OrderInv /\ LeakInv /\ [Next]_vars => OrderInv' /\ LeakInv'
<1> SUFFICES ASSUME TypeOK, PlaceInv, OrderInv, LeakInv, [Next]_vars
             PROVE  OrderInv' /\ LeakInv'
  OBVIOUS
<1>1. CASE TaskStep
  BY <1>1, TaskOrder
<1>2. CASE LoopEnds
  <2>1. OrderInv'
    BY <1>2 DEF LoopEnds, OrderInv, world, ledger, manager
  <2>2. \A r : InHand(r)' <=> InHand(r)
    BY <1>2 DEF LoopEnds, InHand, world, ledger, manager
  <2> QED BY <1>2, <2>1, <2>2 DEF LoopEnds, LeakInv, Unnoticed, world, ledger, manager
<1>3. CASE Expire
  <2>1. /\ server' \subseteq server
        /\ UNCHANGED <<pc, raising, made, parent, origin, lost, ledger, manager>>
    BY <1>3 DEF Expire
  <2>2. OrderInv'
    BY <2>1 DEF OrderInv, ledger, manager
  <2>3. \A r : InHand(r)' <=> InHand(r)
    BY <2>1 DEF InHand, ledger, manager
  <2> QED BY <2>1, <2>2, <2>3 DEF LeakInv, Unnoticed, ledger, manager
<1>4. CASE OnStopStep
  BY <1>4, FixturesBeginOrder, OnStopOverOrder, FixtureDeletionOrder DEF OnStopStep
<1>5. CASE AutoDelete
  BY <1>5, AutoDeleteOrder
<1>6. CASE AutoEnds
  <2>1. OrderInv'
    BY <1>6 DEF AutoEnds, OrderInv, world, ledger
  <2>2. \A r : InHand(r)' <=> InHand(r)
    BY <1>6 DEF AutoEnds, InHand, world, ledger
  <2> QED BY <1>6, <2>1, <2>2 DEF AutoEnds, LeakInv, Unnoticed, world, ledger
<1>7. CASE UNCHANGED vars
  <2>1. OrderInv'
    BY <1>7 DEF vars, OrderInv, world, ledger, manager
  <2>2. \A r : InHand(r)' <=> InHand(r)
    BY <1>7 DEF vars, InHand, world, ledger, manager
  <2> QED BY <1>7, <2>1, <2>2 DEF vars, LeakInv, Unnoticed, world, ledger, manager
<1> QED BY <1>1, <1>2, <1>3, <1>4, <1>5, <1>6, <1>7 DEF Next, AutoStep, Terminated

\* The inductive invariant of the session: what the place of the user leaves of the lists,
\* their order, and in whose hands each resource is.
THEOREM SessionCorrect == Spec => [](TypeOK /\ PlaceInv /\ OrderInv /\ LeakInv)
<1>1. Init => OrderInv
  <2>1. \A r \in Res : r > 0
    BY DEF Res
  <2> QED BY <2>1, EmptyOrder DEF Init, OrderInv, None
<1>2. Init => LeakInv
  BY DEF Init, LeakInv
<1> QED BY <1>1, <1>2, PlaceCorrect, SessionStep, PTL DEF Spec

\* No deletion of a ledger comes before that of a resource that refers to it: retries may
\* have created parts of it twice, and the ledgers are still in the order of creation.
THEOREM ChildrenFirstHolds == Spec => []ChildrenFirst
<1>1. TypeOK /\ OrderInv => ChildrenFirst
  <2> SUFFICES ASSUME TypeOK, OrderInv, NEW s \in {fixTodo, todo}, NEW i \in 2..Len(s),
                      s[1] # None, s[i] # None
               PROVE  parent[s[i]] # s[1]
    BY DEF ChildrenFirst
  <2>1. s \in Seq(Res \cup {None})
    <3>1. Seq(Res) \subseteq Seq(Res \cup {None})
      OBVIOUS
    <3> QED BY <3>1 DEF TypeOK
  <2>2. Len(s) \in Nat /\ 1 \in 1..Len(s) /\ i \in 1..Len(s) /\ 1 < i
    BY <2>1, LenProperties
  <2>3. s[i] \in Res /\ s[1] \in Res
    BY <2>1, <2>2, ElementOfSeq
  <2>4. s[i] < s[1]
    BY <2>2 DEF OrderInv, Descending
  <2>5. parent[s[i]] < s[i] /\ parent[s[i]] \in Res \cup {None}
    BY <2>3 DEF OrderInv, TypeOK
  <2> QED BY <2>3, <2>4, <2>5 DEF Res, None
<1> QED BY <1>1, SessionCorrect, PTL

\* With auto cleanup on, a summary without failures means that whatever still exists was
\* never acknowledged to its creator, or is an ORM row that nobody asked to clean up or
\* whose clean-up raised, in which case the user itself has failed.
THEOREM NoSilentLeakHolds == Spec => []NoSilentLeak
<1>1. TypeOK /\ PlaceInv /\ LeakInv => NoSilentLeak
  <2> SUFFICES ASSUME TypeOK, PlaceInv, LeakInv, Tracked, reported = 0 PROVE NoSilentLeak
    BY DEF NoSilentLeak
  <2>1. pc = "done" /\ noted = 0 /\ Unnoticed
    BY DEF LeakInv, Unnoticed
  <2>2. actions = <<>> /\ todo = <<>> /\ fixTodo = <<>>
    BY <2>1 DEF PlaceInv
  <2>3. \A r \in server \ lost : InHand(r)
    BY <2>1 DEF LeakInv
  <2>4. \A r \in server \ lost : origin[r] = "orm" /\ (cutShort \/ Contains(records, r))
    BY <2>2, <2>3, EmptyOrder DEF InHand
  <2> QED BY <2>4 DEF NoSilentLeak, LeakInv
<1> QED BY <1>1, SessionCorrect, PTL

=============================================================================
