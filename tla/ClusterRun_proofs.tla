-------------------------- MODULE ClusterRun_proofs --------------------------
(***************************************************************************)
(* Proofs about ClusterRun for any set of workers, any number of expected  *)
(* ones and either behaviour of wait_closed.                               *)
(***************************************************************************)
EXTENDS ClusterRun, FiniteSetTheorems, SequenceTheorems, TLAPS

-----------------------------------------------------------------------------
(* The inductive invariant, part by part. *)

\* A message of this type is in flight.
InQueue(queue, type) == \E i \in 1..Len(queue) : queue[i] = type

\* The slots: worker_index numbers the registered connections without a gap.
SlotsInv ==
  /\ Cardinality(workers) <= Expect
  /\ \A w \in workers : workerIndex[w] \in 0..Cardinality(workers) - 1
  /\ \A w, x \in workers : w # x => workerIndex[w] # workerIndex[x]
  /\ \A i \in 0..Cardinality(workers) - 1 : \E w \in workers : workerIndex[w] = i

\* Where a handler is says whether its connection is registered and synchronised.
HandlerInv ==
  \A w \in Worker :
    /\ handler[w] \in {"none", "hello"} => w \notin workers
    /\ handler[w] \in {"sync", "barrier", "receiving"} => w \in workers
    /\ handler[w] = "receiving" => start
    /\ wpc[w] = "idle" => handler[w] = "none"

\* The barrier: _ready is set once all slots are taken and synchronised.
BarrierInv ==
  /\ start => ready
  /\ ready => /\ Cardinality(workers) = Expect
              /\ \A x \in workers : state[x] \in {"ready", "stopped"}

\* An assignment in flight or received belongs to a registered connection.
AssignmentInv ==
  \A w \in Worker :
    /\ InQueue(down[w], "assign_partition") => start /\ w \in workers
    /\ part[w] # NoPart => start /\ w \in workers /\ part[w] = workerIndex[w]

AssignInv == SlotsInv /\ HandlerInv /\ BarrierInv /\ AssignmentInv

-----------------------------------------------------------------------------
(* Lemmas about the streams. *)

\* Taking the head off a stream leaves a stream of the same messages, shifted.
LEMMA QueueTail ==
  ASSUME NEW T, NEW q \in Seq(T), q # <<>>
  PROVE  /\ Tail(q) \in Seq(T)
         /\ Len(Tail(q)) = Len(q) - 1
         /\ \A i \in 1..Len(q) - 1 : Tail(q)[i] = q[i + 1]
         /\ Len(q) \in Nat \ {0}
         /\ Head(q) = q[1]
BY HeadTailProperties, EmptySeq

\* Writing one message appends it.
LEMMA QueueAppend ==
  ASSUME NEW T, NEW q \in Seq(T), NEW m \in T
  PROVE  /\ Append(q, m) \in Seq(T)
         /\ Len(Append(q, m)) = Len(q) + 1
         /\ \A i \in 1..Len(q) : Append(q, m)[i] = q[i]
         /\ Append(q, m)[Len(q) + 1] = m
         /\ Len(q) \in Nat
OBVIOUS

\* Writing two messages appends both.
LEMMA QueueAppendTwo ==
  ASSUME NEW T, NEW q \in Seq(T), NEW m \in T, NEW n \in T
  PROVE  /\ q \o <<m, n>> \in Seq(T)
         /\ Len(q \o <<m, n>>) = Len(q) + 2
         /\ \A i \in 1..Len(q) : (q \o <<m, n>>)[i] = q[i]
         /\ (q \o <<m, n>>)[Len(q) + 1] = m
         /\ (q \o <<m, n>>)[Len(q) + 2] = n
         /\ Len(q) \in Nat
OBVIOUS

\* The same, as the code's list concatenation writes it.
LEMMA QueueAppendOne ==
  ASSUME NEW T, NEW q \in Seq(T), NEW m \in T
  PROVE  /\ q \o <<m>> \in Seq(T)
         /\ Len(q \o <<m>>) = Len(q) + 1
         /\ \A i \in 1..Len(q) : (q \o <<m>>)[i] = q[i]
         /\ (q \o <<m>>)[Len(q) + 1] = m
         /\ Len(q) \in Nat
OBVIOUS

\* A stream cut short keeps its first messages.
LEMMA QueueCut ==
  ASSUME NEW T, NEW q \in Seq(T), NEW k \in 0..Len(q)
  PROVE  /\ SubSeq(q, 1, k) \in Seq(T)
         /\ Len(SubSeq(q, 1, k)) = k
         /\ \A i \in 1..k : SubSeq(q, 1, k)[i] = q[i]
OBVIOUS

\* What writing, reading and cutting do to the messages a stream holds.
LEMMA InAppend ==
  ASSUME NEW T, NEW q \in Seq(T), NEW m \in T, NEW t
  PROVE  /\ InQueue(Append(q, m), t) <=> InQueue(q, t) \/ m = t
         /\ InQueue(q \o <<m>>, t) <=> InQueue(q, t) \/ m = t
<1>1. InQueue(Append(q, m), t) <=> InQueue(q, t) \/ m = t
  <2>1. Len(q) + 1 \in 1..Len(q) + 1 /\ 1..Len(q) \subseteq 1..Len(q) + 1
    BY QueueAppend
  <2>2. QED
    BY <2>1, QueueAppend DEF InQueue
<1>2. q \o <<m>> = Append(q, m)
  OBVIOUS
<1>3. QED
  BY <1>1, <1>2

\* Two messages sent at once add themselves.
LEMMA InAppendTwo ==
  ASSUME NEW T, NEW q \in Seq(T), NEW m \in T, NEW n \in T, NEW t
  PROVE  InQueue(q \o <<m, n>>, t) <=> InQueue(q, t) \/ m = t \/ n = t
<1>1. q \o <<m, n>> = Append(Append(q, m), n)
  OBVIOUS
<1>2. Append(q, m) \in Seq(T)
  BY QueueAppend
<1>3. InQueue(Append(q, m), t) <=> InQueue(q, t) \/ m = t
  BY InAppend
<1>4. \A r \in Seq(T) : InQueue(Append(r, n), t) <=> InQueue(r, t) \/ n = t
  BY InAppend
<1>5. QED
  BY <1>1, <1>2, <1>3, <1>4

\* Reading a message brings no other one into flight.
LEMMA InTail ==
  ASSUME NEW T, NEW q \in Seq(T), NEW t, q # <<>>
  PROVE  /\ InQueue(Tail(q), t) => InQueue(q, t)
         /\ InQueue(q, Head(q))
<1>1. \A i \in 1..Len(q) - 1 : i + 1 \in 1..Len(q)
  BY QueueTail
<1>2. QED
  BY <1>1, QueueTail DEF InQueue

\* A stream that is cut short has no message it did not have.
LEMMA InCut ==
  ASSUME NEW T, NEW q \in Seq(T), NEW k \in 0..Len(q), NEW t
  PROVE  InQueue(SubSeq(q, 1, k), t) => InQueue(q, t)
BY QueueCut DEF InQueue

-----------------------------------------------------------------------------
(* Type correctness. *)

\* The registered connections can be counted.
LEMMA WorkersFinite ==
  ASSUME TypeOK
  PROVE  /\ IsFiniteSet(workers)
         /\ Cardinality(workers) \in Nat
BY ClusterAssumption, FS_Subset, FS_CardinalityType DEF TypeOK

\* Closing a connection keeps the streams typed.
LEMMA HandlerClosesType ==
  ASSUME TypeOK, NEW w \in Worker, HandlerCloses(w)
  PROVE  /\ handler' \in [Worker -> {"none", "hello", "sync", "barrier", "receiving", "closed"}]
         /\ up' \in [Worker -> Seq(UpTypes)]
         /\ down' \in [Worker -> Seq(DownTypes)]
<1>1. <<>> \in Seq(UpTypes)
  OBVIOUS
<1>2. Append(down[w], "EOF") \in Seq(DownTypes)
  BY QueueAppend DEF TypeOK, DownTypes
<1>3. QED
  BY <1>1, <1>2 DEF TypeOK, HandlerCloses

\* What the controller sends is well typed.
LEMMA ControllerSendsType ==
  ASSUME TypeOK, NEW w \in Worker, NEW types \in Seq(DownTypes), ControllerSends(w, types)
  PROVE  down' \in [Worker -> Seq(DownTypes)]
<1>1. down[w] \o types \in Seq(DownTypes)
  BY ConcatProperties DEF TypeOK
<1>2. QED
  BY <1>1 DEF TypeOK, ControllerSends

\* What a worker sends is well typed.
LEMMA WorkerSendsType ==
  ASSUME TypeOK, NEW w \in Worker, NEW type \in UpTypes, WorkerSends(w, type)
  PROVE  up' \in [Worker -> Seq(UpTypes)]
BY DEF TypeOK, WorkerSends

\* A worker that ends having sent a part of its messages leaves a typed stream.
LEMMA WorkerEndClosesType ==
  ASSUME TypeOK, NEW w \in Worker, NEW kept \in 0..Len(up[w]), WorkerEndCloses(w, kept)
  PROVE  up' \in [Worker -> Seq(UpTypes)]
<1>1. up[w] \in Seq(UpTypes) /\ "EOF" \in UpTypes
  BY DEF TypeOK, UpTypes
<1>2. Append(SubSeq(up[w], 1, kept), "EOF") \in Seq(UpTypes)
  BY <1>1, QueueCut, QueueAppend
<1>3. QED
  BY <1>2 DEF TypeOK, WorkerEndCloses

\* What a worker has read is off its stream.
LEMMA WorkerReadsType ==
  ASSUME TypeOK, NEW w \in Worker, NEW type, WorkerReads(w, type)
  PROVE  down' \in [Worker -> Seq(DownTypes)]
BY QueueTail DEF TypeOK, WorkerReads, HeadIs

\* The end of the run closes all connections.
LEMMA RunEndsType ==
  ASSUME TypeOK, NEW outcome \in Outcomes, RunEnds(outcome)
  PROVE  /\ ctl' \in Outcomes
         /\ handler' \in [Worker -> {"none", "hello", "sync", "barrier", "receiving", "closed"}]
         /\ up' \in [Worker -> Seq(UpTypes)]
         /\ down' \in [Worker -> Seq(DownTypes)]
<1>1. <<>> \in Seq(UpTypes)
  OBVIOUS
<1>2. \A w \in Worker : Append(down[w], "EOF") \in Seq(DownTypes)
  BY QueueAppend DEF TypeOK, DownTypes
<1>3. QED
  BY <1>1, <1>2 DEF TypeOK, RunEnds

\* Every step preserves the types.
LEMMA TypeInductive == TypeOK /\ [Next]_vars => TypeOK'
<1> SUFFICES ASSUME TypeOK, [Next]_vars
             PROVE  TypeOK'
  OBVIOUS
<1>1. ASSUME NEW w \in Worker, RegisterWorker(w) PROVE TypeOK'
  <2>1. down' \in [Worker -> Seq(DownTypes)]
    <3>1. <<"hello_ack", "bundle_data">> \in Seq(DownTypes)
      BY DEF DownTypes
    <3>2. QED
      BY <1>1, <3>1, ControllerSendsType DEF RegisterWorker
  <2>2. up' \in [Worker -> Seq(UpTypes)]
    BY <1>1, QueueTail DEF TypeOK, RegisterWorker, HelloAccepted, HeadIs
  <2>3. QED
    BY <1>1, <2>1, <2>2, WorkersFinite DEF TypeOK, RegisterWorker, Taken, events, process
<1>2. ASSUME NEW w \in Worker, RejectHello(w) PROVE TypeOK'
  BY <1>2, HandlerClosesType DEF TypeOK, events, ledger, process, RejectHello, HandlerFails
<1>3. ASSUME NEW w \in Worker, WorkerReady(w) PROVE TypeOK'
  BY <1>3 DEF TypeOK, events, ledger, process, WorkerReady, HeadIs
<1>4. ASSUME NEW w \in Worker, SendAssignment(w) PROVE TypeOK'
  BY <1>4 DEF TypeOK, events, ledger, process, SendAssignment, ControllerSends, DownTypes
<1>5. ASSUME NEW w \in Worker, RecvCustom(w) PROVE TypeOK'
  BY <1>5 DEF TypeOK, events, ledger, process, RecvCustom, HeadIs
<1>6. ASSUME NEW w \in Worker, RecvMetricBatch(w) PROVE TypeOK'
  BY <1>6 DEF TypeOK, events, ledger, process, RecvMetricBatch, HeadIs, ControllerSends, DownTypes
<1>7. ASSUME NEW w \in Worker, RecvSummary(w) PROVE TypeOK'
  BY <1>7, HandlerClosesType DEF TypeOK, events, ledger, process, RecvSummary
<1>8. ASSUME NEW w \in Worker, ConnectionFails(w) PROVE TypeOK'
  BY <1>8, HandlerClosesType DEF TypeOK, events, ledger, process, ConnectionFails, HandlerFails
<1>9. ASSUME NEW w \in Worker, Connect(w) PROVE TypeOK'
  BY <1>9 DEF TypeOK, events, ledger, process, Connect, WorkerGoes
<1>10. ASSUME NEW w \in Worker, ConnectionRefused(w) PROVE TypeOK'
  BY <1>10 DEF TypeOK, events, ledger, process, ConnectionRefused, WorkerGoes, Ended
<1>11. ASSUME NEW w \in Worker, SendHello(w) PROVE TypeOK'
  BY <1>11, WorkerSendsType DEF TypeOK, events, ledger, process, SendHello, WorkerGoes, UpTypes
<1>12. ASSUME NEW w \in Worker, ReadHelloAck(w) PROVE TypeOK'
  BY <1>12, WorkerReadsType DEF TypeOK, events, ledger, process, ReadHelloAck, WorkerGoes
<1>13. ASSUME NEW w \in Worker, SyncBundle(w) PROVE TypeOK'
  BY <1>13, WorkerReadsType, WorkerSendsType DEF TypeOK, events, ledger, process, SyncBundle, WorkerGoes, UpTypes
<1>14. ASSUME NEW w \in Worker, ReadAssignment(w) PROVE TypeOK'
  BY <1>14, WorkerReadsType DEF TypeOK, events, ledger, process, ReadAssignment, WorkerGoes
<1>15. ASSUME NEW w \in Worker, ReadStartRun(w) PROVE TypeOK'
  BY <1>15, WorkerReadsType DEF TypeOK, events, ledger, process, ReadStartRun, WorkerGoes
<1>16. ASSUME NEW w \in Worker, SendMetricBatch(w) PROVE TypeOK'
  BY <1>16, WorkerSendsType DEF TypeOK, events, ledger, process, SendMetricBatch, WorkerGoes, UpTypes
<1>17. ASSUME NEW w \in Worker, SendSummary(w) PROVE TypeOK'
  <2>1. up[w] \o <<"worker_summary", "EOF">> \in Seq(UpTypes)
    BY QueueAppendTwo DEF TypeOK, UpTypes
  <2>2. QED
    BY <1>17, <2>1, WorkerReadsType DEF TypeOK, events, ledger, SendSummary, WorkerGoes, Ended
<1>18. ASSUME NEW w \in Worker, WorkerReadsEof(w) PROVE TypeOK'
  <2>1. Len(up[w]) \in 0..Len(up[w])
    BY QueueCut DEF TypeOK
  <2>2. up' \in [Worker -> Seq(UpTypes)]
    BY <1>18, <2>1, WorkerEndClosesType DEF WorkerReadsEof
  <2>3. QED
    BY <1>18, <2>2, WorkerReadsType DEF TypeOK, events, ledger, WorkerReadsEof, Ended
<1>19. ASSUME NEW w \in Worker, SendCustom(w) PROVE TypeOK'
  BY <1>19, WorkerSendsType, ClusterAssumption, SMTT(30)
     DEF TypeOK, events, ledger, process, SendCustom, UpTypes
<1>20. ASSUME NEW w \in Worker, WorkerFails(w) PROVE TypeOK'
  BY <1>20, WorkerEndClosesType DEF TypeOK, events, ledger, process, WorkerFails, Ended
<1>21. CASE StartRun
  BY <1>21 DEF TypeOK, events, ledger, process, StartRun, Listening
<1>22. CASE ReadyTimeout
  BY <1>22, RunEndsType DEF TypeOK, events, ledger, process, ReadyTimeout, Closing, Outcomes, Verdict
<1>23. CASE DoneWakesRun
  BY <1>23, RunEndsType DEF TypeOK, events, ledger, process, DoneWakesRun, Closing, Outcomes, Verdict
<1>24. CASE ServerClosed
  BY <1>24, RunEndsType DEF TypeOK, events, ledger, process, ServerClosed, Closing, Outcomes, Verdict
<1>25. CASE UNCHANGED vars
  BY <1>25 DEF TypeOK, events, ledger, process, vars
<1>26. QED
  BY <1>1, <1>2, <1>3, <1>4, <1>5, <1>6, <1>7, <1>8, <1>9, <1>10, <1>11, <1>12, <1>13, <1>14, <1>15, <1>16, <1>17, <1>18, <1>19, <1>20, <1>21, <1>22, <1>23, <1>24, <1>25
  DEF Next, HandlerStep, WorkerStep, RunStep, Terminated

\* Every variable keeps its type: TypeOK is an invariant of the run.
THEOREM TypeCorrect == Spec => []TypeOK
<1>1. ASSUME Init PROVE TypeOK
  <2> USE <1>1 DEF Init
  <2>1. /\ ctl \in Listening \cup Closing \cup Outcomes
        /\ ready \in BOOLEAN /\ start \in BOOLEAN /\ done \in BOOLEAN
        /\ workers \subseteq Worker /\ results \subseteq Worker /\ failures \subseteq Worker
    BY DEF Listening
  <2>2. /\ workerIndex \in [Worker -> Nat \cup {NoPart}]
        /\ part \in [Worker -> Nat \cup {NoPart}]
        /\ seen \in [Worker -> SUBSET {BatchSequence}]
        /\ recorded \in [Worker -> Nat]
        /\ customs \in [Worker -> Nat]
    OBVIOUS
  <2>3. /\ up \in [Worker -> Seq(UpTypes)]
        /\ down \in [Worker -> Seq(DownTypes)]
    OBVIOUS
  <2>4. sent \in [Worker -> 0..MaxCustom]
    BY ClusterAssumption
  <2>5. /\ state \in [Worker -> {"none", "registered", "ready", "stopped"}]
        /\ handler \in [Worker -> {"none", "hello", "sync", "barrier", "receiving", "closed"}]
        /\ wpc \in [Worker -> {"idle", "connected", "hello", "bundle", "sync", "assigned",
                               "running", "batch_sent"} \cup Ended]
    OBVIOUS
  <2> HIDE DEF Init
  <2>6. QED
    BY <2>1, <2>2, <2>3, <2>4, <2>5 DEF TypeOK
<1>2. QED
  BY <1>1, TypeInductive, PTL DEF Spec

-----------------------------------------------------------------------------
(* The slots and the start barrier. *)

\* A step that registers nobody, hands out nothing and does not move the barrier
\* preserves AssignInv: handlers only start or close, streams get no assignment.
LEMMA QuietStep ==
  ASSUME TypeOK, TypeOK', AssignInv,
         UNCHANGED <<workers, workerIndex, ready, start, part>>,
         \A x \in workers : state[x] \in {"ready", "stopped"} => state'[x] \in {"ready", "stopped"},
         \A w \in Worker : \/ handler'[w] = handler[w]
                           \/ handler[w] # "none" /\ handler'[w] = "closed"
                           \/ /\ handler[w] = "none" /\ handler'[w] = "hello"
                              /\ wpc'[w] # "idle",
         \A w \in Worker : wpc'[w] = "idle" => wpc[w] = "idle",
         \A w \in Worker : InQueue(down'[w], "assign_partition")
                            => InQueue(down[w], "assign_partition")
  PROVE  AssignInv'
<1>1. SlotsInv'
  BY DEF AssignInv, SlotsInv
<1>2. HandlerInv'
  BY DEF AssignInv, HandlerInv
<1>3. BarrierInv'
  BY DEF AssignInv, BarrierInv
<1>4. AssignmentInv'
  BY DEF AssignInv, AssignmentInv
<1>5. QED
  BY <1>1, <1>2, <1>3, <1>4 DEF AssignInv

\* No step takes a worker back to before its connection.
LEMMA WorkerGoesOn ==
  ASSUME TypeOK, NEW w \in Worker, NEW to, to # "idle", wpc' = [wpc EXCEPT ![w] = to]
  PROVE  \A x \in Worker : wpc'[x] = "idle" => wpc[x] = "idle"
BY DEF TypeOK

\* Reading a message puts no assignment in flight, and the message was.
LEMMA ReadKeepsAssignments ==
  ASSUME TypeOK, NEW w \in Worker, NEW type, WorkerReads(w, type)
  PROVE  /\ \A x \in Worker : InQueue(down'[x], "assign_partition")
                              => InQueue(down[x], "assign_partition")
         /\ InQueue(down[w], type)
<1>1. /\ down[w] \in Seq(DownTypes)
      /\ down[w] # <<>>
      /\ Head(down[w]) = type
      /\ down' = [down EXCEPT ![w] = Tail(down[w])]
  BY DEF TypeOK, WorkerReads, HeadIs
<1>2. InQueue(Tail(down[w]), "assign_partition") => InQueue(down[w], "assign_partition")
  BY <1>1, InTail
<1>3. InQueue(down[w], type)
  BY <1>1, InTail
<1>4. ASSUME NEW x \in Worker
      PROVE  down'[x] = IF x = w THEN Tail(down[w]) ELSE down[x]
  BY <1>1 DEF TypeOK
<1>5. QED
  BY <1>2, <1>3, <1>4


\* Closing a connection puts no assignment in flight.
LEMMA CloseKeepsAssignments ==
  ASSUME TypeOK, NEW w \in Worker, HandlerCloses(w)
  PROVE  \A x \in Worker : InQueue(down'[x], "assign_partition")
                           => InQueue(down[x], "assign_partition")
<1>1. down[w] \in Seq(DownTypes) /\ "EOF" \in DownTypes
  BY DEF TypeOK, DownTypes
<1>2. InQueue(Append(down[w], "EOF"), "assign_partition") => InQueue(down[w], "assign_partition")
  BY <1>1, InAppend
<1>3. ASSUME NEW x \in Worker
      PROVE  down'[x] = IF x = w THEN Append(down[w], "EOF") ELSE down[x]
  BY DEF TypeOK, HandlerCloses
<1>4. QED
  BY <1>2, <1>3

\* Nor does the end of the run.
LEMMA EndKeepsAssignments ==
  ASSUME TypeOK, NEW outcome, RunEnds(outcome)
  PROVE  \A x \in Worker : InQueue(down'[x], "assign_partition")
                           => InQueue(down[x], "assign_partition")
<1>1. SUFFICES ASSUME NEW x \in Worker, InQueue(down'[x], "assign_partition")
               PROVE  InQueue(down[x], "assign_partition")
  OBVIOUS
<1>2. down[x] \in Seq(DownTypes) /\ "EOF" \in DownTypes
  BY DEF TypeOK, DownTypes
<1>3. down'[x] = down[x] \/ down'[x] = Append(down[x], "EOF")
  BY DEF RunEnds
<1>4. InQueue(Append(down[x], "EOF"), "assign_partition") => InQueue(down[x], "assign_partition")
  BY <1>2, InAppend
<1>5. QED
  BY <1>1, <1>3, <1>4

\* The next slot number is unused: len(_workers) numbers the slots without a gap.
LEMMA SlotsGrow ==
  ASSUME TypeOK, SlotsInv, NEW w \in Worker, w \notin workers,
         Cardinality(workers) < Expect,
         workers' = workers \cup {w},
         workerIndex' = [workerIndex EXCEPT ![w] = Cardinality(workers)]
  PROVE  SlotsInv'
<1> DEFINE n == Cardinality(workers)
<1>1. n \in Nat /\ Cardinality(workers') = n + 1
  BY WorkersFinite, FS_AddElement
<1>2. workers \subseteq Worker /\ workerIndex \in [Worker -> Nat \cup {NoPart}]
  BY DEF TypeOK
<1>3. /\ \A x \in workers : workerIndex[x] \in 0..n - 1
      /\ \A x, y \in workers : x # y => workerIndex[x] # workerIndex[y]
      /\ \A i \in 0..n - 1 : \E x \in workers : workerIndex[x] = i
      /\ n < Expect /\ Expect \in Nat
  BY ClusterAssumption DEF SlotsInv
<1>4. /\ \A x \in workers : workerIndex'[x] = workerIndex[x]
      /\ workerIndex'[w] = n
  BY <1>2
<1> HIDE DEF n
<1>5. \A x \in workers' : workerIndex'[x] \in 0..n
  BY <1>1, <1>3, <1>4
<1>6. \A x, y \in workers' : x # y => workerIndex'[x] # workerIndex'[y]
  BY <1>1, <1>3, <1>4
<1>7. ASSUME NEW i \in 0..n
      PROVE  \E x \in workers' : workerIndex'[x] = i
  <2>1. CASE i = n
    BY <1>4, <2>1
  <2>2. CASE i # n
    <3>1. i \in 0..n - 1
      BY <1>1, <2>2
    <3>2. PICK x \in workers : workerIndex[x] = i
      BY <1>3, <3>1
    <3>3. QED
      BY <1>4, <3>2
  <2>3. QED
    BY <2>1, <2>2
<1>8. Cardinality(workers') - 1 = n /\ Cardinality(workers') <= Expect
  BY <1>1, <1>3
<1>9. QED
  BY <1>5, <1>6, <1>7, <1>8 DEF SlotsInv

\* Every step preserves the slots and the barrier.
LEMMA AssignInductive == TypeOK /\ AssignInv /\ [Next]_vars => AssignInv'
<1> SUFFICES ASSUME TypeOK, AssignInv, [Next]_vars
             PROVE  AssignInv'
  OBVIOUS
<1> TypeOK'
  BY TypeInductive
<1>1. ASSUME NEW w \in Worker, RegisterWorker(w) PROVE AssignInv'
  <2> USE <1>1 DEF RegisterWorker, Taken
  <2>1. w \notin workers /\ Cardinality(workers) < Expect
    BY DEF AssignInv, HandlerInv, HelloAccepted
  <2>2. workers' = workers \cup {w} /\ workerIndex' = [workerIndex EXCEPT ![w] = Cardinality(workers)]
    OBVIOUS
  <2>3. SlotsInv'
    BY <2>1, <2>2, SlotsGrow DEF AssignInv
  <2>4. HandlerInv'
    BY DEF TypeOK, AssignInv, HandlerInv, events, process
  <2>5. ~ready
    BY <2>1, ClusterAssumption DEF AssignInv, BarrierInv
  <2>6. BarrierInv'
    BY <2>5 DEF AssignInv, BarrierInv, events
  <2>7. AssignmentInv'
    <3>1. ~start
      BY <2>5 DEF AssignInv, BarrierInv
    <3>2. /\ down[w] \in Seq(DownTypes)
          /\ "hello_ack" \in DownTypes /\ "bundle_data" \in DownTypes
      BY DEF TypeOK, DownTypes
    <3>3. InQueue(down[w] \o <<"hello_ack", "bundle_data">>, "assign_partition")
             => InQueue(down[w], "assign_partition")
      BY <3>2, InAppendTwo
    <3>4. \A x \in Worker : ~InQueue(down'[x], "assign_partition")
      BY <3>1, <3>3 DEF TypeOK, AssignInv, AssignmentInv, ControllerSends
    <3>5. QED
      BY <3>1, <3>4 DEF AssignInv, AssignmentInv, process
  <2>8. QED
    BY <2>3, <2>4, <2>6, <2>7 DEF AssignInv
<1>2. ASSUME NEW w \in Worker, RejectHello(w) PROVE AssignInv'
  BY <1>2, QuietStep, CloseKeepsAssignments
  DEF RejectHello, HandlerFails, HandlerCloses, process, TypeOK
<1>3. ASSUME NEW w \in Worker, WorkerReady(w) PROVE AssignInv'
  <2> USE <1>3 DEF WorkerReady, AllReady
  <2>1. w \in workers /\ \A x \in workers : state'[x] = IF x = w THEN "ready" ELSE state[x]
    BY DEF TypeOK, AssignInv, HandlerInv
  <2>2. SlotsInv'
    BY DEF AssignInv, SlotsInv
  <2>3. HandlerInv'
    BY <2>1 DEF TypeOK, AssignInv, HandlerInv, process
  <2>4. BarrierInv'
    <3>1. CASE ready
      BY <2>1, <3>1 DEF AssignInv, BarrierInv
    <3>2. CASE ~ready /\ ready'
      <4> DEFINE readyOnes == {x \in workers : state'[x] = "ready"}
      <4>1. Cardinality(readyOnes) >= Expect
        BY <3>2
      <4>2. /\ Cardinality(readyOnes) \in Nat
            /\ Cardinality(readyOnes) <= Cardinality(workers)
            /\ Cardinality(workers) = Cardinality(readyOnes) => workers = readyOnes
        BY WorkersFinite, FS_Subset, FS_CardinalityType
      <4>3. Cardinality(workers) = Expect /\ workers = readyOnes
        BY <4>1, <4>2, WorkersFinite, ClusterAssumption DEF AssignInv, SlotsInv
      <4>4. QED
        BY <4>3, <3>2 DEF BarrierInv
    <3>3. CASE ~ready /\ ~ready'
      BY <3>3 DEF AssignInv, BarrierInv
    <3>4. QED
      BY <3>1, <3>2, <3>3
  <2>5. AssignmentInv'
    BY DEF AssignInv, AssignmentInv, process
  <2>6. QED
    BY <2>2, <2>3, <2>4, <2>5 DEF AssignInv
<1>4. ASSUME NEW w \in Worker, SendAssignment(w) PROVE AssignInv'
  <2> USE <1>4 DEF SendAssignment
  <2>1. SlotsInv' /\ BarrierInv'
    BY DEF AssignInv, SlotsInv, BarrierInv, events, ledger
  <2>2. HandlerInv'
    BY DEF TypeOK, AssignInv, HandlerInv, events, ledger, process
  <2>3. AssignmentInv'
    BY DEF TypeOK, AssignInv, AssignmentInv, HandlerInv, ControllerSends, events, ledger, process
  <2>4. QED
    BY <2>1, <2>2, <2>3 DEF AssignInv
<1>5. ASSUME NEW w \in Worker, RecvCustom(w) PROVE AssignInv'
  BY <1>5, QuietStep
  DEF RecvCustom, events, process
<1>6. ASSUME NEW w \in Worker, RecvMetricBatch(w) PROVE AssignInv'
  <2>1. down[w] \in Seq(DownTypes) /\ "metric_batch_ack" \in DownTypes
    BY DEF TypeOK, DownTypes
  <2>2. InQueue(down[w] \o <<"metric_batch_ack">>, "assign_partition")
           => InQueue(down[w], "assign_partition")
    BY <2>1, InAppend
  <2>3. \A x \in Worker : InQueue(down'[x], "assign_partition")
                          => InQueue(down[x], "assign_partition")
    BY <1>6, <2>2 DEF TypeOK, RecvMetricBatch, ControllerSends
  <2>4. QED
    BY <1>6, <2>3, QuietStep DEF RecvMetricBatch, events, process
<1>7. ASSUME NEW w \in Worker, RecvSummary(w) PROVE AssignInv'
  BY <1>7, QuietStep, CloseKeepsAssignments
  DEF RecvSummary, HandlerCloses, process, TypeOK
<1>8. ASSUME NEW w \in Worker, ConnectionFails(w) PROVE AssignInv'
  <2>1. HandlerCloses(w) /\ UNCHANGED <<workers, workerIndex, state, ready, start, part, wpc>>
    BY <1>8 DEF ConnectionFails, HandlerFails, process
  <2>2. \A x \in Worker : \/ handler'[x] = handler[x]
                          \/ handler[x] # "none" /\ handler'[x] = "closed"
    <3>1. handler[w] # "none"
      BY <1>8 DEF ConnectionFails
    <3>2. handler'[w] = "closed" /\ \A x \in Worker \ {w} : handler'[x] = handler[x]
      BY <2>1 DEF HandlerCloses, TypeOK
    <3>3. QED
      BY <3>1, <3>2
  <2>3. \A x \in Worker : InQueue(down'[x], "assign_partition")
                          => InQueue(down[x], "assign_partition")
    BY <2>1, CloseKeepsAssignments
  <2>4. QED
    BY <2>1, <2>2, <2>3, QuietStep
<1>9. ASSUME NEW w \in Worker, Connect(w) PROVE AssignInv'
  <2>1. handler[w] = "none"
    BY <1>9 DEF Connect, WorkerGoes, AssignInv, HandlerInv
  <2>2. QED
    BY <1>9, <2>1, QuietStep, WorkerGoesOn DEF Connect, WorkerGoes, events, ledger, TypeOK
<1>10. ASSUME NEW w \in Worker, ConnectionRefused(w) PROVE AssignInv'
  BY <1>10, QuietStep, WorkerGoesOn
  DEF ConnectionRefused, WorkerGoes, events, ledger
<1>11. ASSUME NEW w \in Worker, SendHello(w) PROVE AssignInv'
  BY <1>11, QuietStep, WorkerGoesOn
  DEF SendHello, WorkerGoes, events, ledger
<1>12. ASSUME NEW w \in Worker, ReadHelloAck(w) PROVE AssignInv'
  BY <1>12, QuietStep, WorkerGoesOn, ReadKeepsAssignments
  DEF ReadHelloAck, WorkerGoes, events, ledger
<1>13. ASSUME NEW w \in Worker, SyncBundle(w) PROVE AssignInv'
  BY <1>13, QuietStep, WorkerGoesOn, ReadKeepsAssignments
  DEF SyncBundle, WorkerGoes, events, ledger
<1>14. ASSUME NEW w \in Worker, ReadStartRun(w) PROVE AssignInv'
  BY <1>14, QuietStep, WorkerGoesOn, ReadKeepsAssignments
  DEF ReadStartRun, WorkerGoes, events, ledger
<1>15. ASSUME NEW w \in Worker, SendCustom(w) PROVE AssignInv'
  BY <1>15, QuietStep
  DEF SendCustom, events, ledger
<1>16. ASSUME NEW w \in Worker, SendMetricBatch(w) PROVE AssignInv'
  BY <1>16, QuietStep, WorkerGoesOn
  DEF SendMetricBatch, WorkerGoes, events, ledger
<1>17. ASSUME NEW w \in Worker, SendSummary(w) PROVE AssignInv'
  BY <1>17, QuietStep, WorkerGoesOn, ReadKeepsAssignments
  DEF SendSummary, WorkerGoes, events, ledger
<1>18. ASSUME NEW w \in Worker, WorkerReadsEof(w) PROVE AssignInv'
  BY <1>18, QuietStep, WorkerGoesOn, ReadKeepsAssignments
  DEF WorkerReadsEof, events, ledger
<1>19. ASSUME NEW w \in Worker, WorkerFails(w) PROVE AssignInv'
  BY <1>19, QuietStep, WorkerGoesOn
  DEF WorkerFails, events, ledger
<1>20. ASSUME NEW w \in Worker, ReadAssignment(w) PROVE AssignInv'
  <2> USE <1>20 DEF ReadAssignment
  <2>1. /\ InQueue(down[w], "assign_partition")
        /\ \A x \in Worker : InQueue(down'[x], "assign_partition")
                             => InQueue(down[x], "assign_partition")
    BY ReadKeepsAssignments
  <2>2. SlotsInv' /\ BarrierInv'
    BY DEF AssignInv, SlotsInv, BarrierInv, events, ledger
  <2>4. HandlerInv'
    BY WorkerGoesOn DEF AssignInv, HandlerInv, WorkerGoes, events, ledger
  <2>3. AssignmentInv'
    BY <2>1 DEF TypeOK, AssignInv, AssignmentInv, events, ledger
  <2>5. QED
    BY <2>2, <2>3, <2>4 DEF AssignInv
<1>21. CASE StartRun
  BY <1>21 DEF StartRun, AssignInv, SlotsInv, HandlerInv, BarrierInv, AssignmentInv, ledger, process
<1>22. CASE ReadyTimeout
  BY <1>22, QuietStep, EndKeepsAssignments
  DEF ReadyTimeout, RunEnds, Open, events, ledger, process
<1>23. CASE DoneWakesRun
  BY <1>23, QuietStep, EndKeepsAssignments
  DEF DoneWakesRun, RunEnds, Open, events, ledger, process
<1>24. CASE ServerClosed
  BY <1>24, QuietStep, EndKeepsAssignments
  DEF ServerClosed, RunEnds, Open, events, ledger, process
<1>25. CASE UNCHANGED vars
  BY <1>25, QuietStep DEF vars, events, ledger, process
<1>26. QED
  BY <1>1, <1>2, <1>3, <1>4, <1>5, <1>6, <1>7, <1>8, <1>9, <1>10, <1>11, <1>12, <1>13, <1>14, <1>15, <1>16, <1>17, <1>18, <1>19, <1>20, <1>21, <1>22, <1>23, <1>24, <1>25
  DEF Next, HandlerStep, WorkerStep, RunStep, Terminated

\* Init and every step keep the slots, the barrier and the assignments in order.
THEOREM AssignCorrect == Spec => []AssignInv
<1>1. Init => AssignInv
  BY FS_EmptySet, ClusterAssumption
  DEF Init, AssignInv, SlotsInv, HandlerInv, BarrierInv, AssignmentInv, InQueue
<1>2. QED
  BY <1>1, AssignInductive, TypeCorrect, PTL DEF Spec

\* At most one worker executes each of the Expect partitions, in every behaviour.
THEOREM UniquePartitionHolds == Spec => []UniquePartition
<1>1. TypeOK /\ AssignInv => UniquePartition
  BY WorkersFinite, ClusterAssumption
  DEF TypeOK, AssignInv, SlotsInv, AssignmentInv, UniquePartition
<1>2. QED
  BY <1>1, TypeCorrect, AssignCorrect, PTL

\* No worker gets its partition before all Expect workers have the bundle.
THEOREM StartBarrierHolds == Spec => []StartBarrier
<1>1. AssignInv => StartBarrier
  BY DEF AssignInv, BarrierInv, AssignmentInv, StartBarrier
<1>2. QED
  BY <1>1, AssignCorrect, PTL

-----------------------------------------------------------------------------
(* The results: the inductive invariant, part by part. *)

\* The first n messages in flight are custom ones.
OnlyCustoms(queue, n) == \A i \in 1..n : queue[i] = "custom"

\* What is in flight on an open connection whose worker has not failed.
UpInv(w) ==
  /\ wpc[w] = "connected" => handler[w] = "hello" /\ up[w] = <<>>
  /\ wpc[w] = "hello" => \/ handler[w] = "hello" /\ up[w] = <<"hello">>
                         \/ handler[w] = "sync" /\ up[w] = <<>>
  /\ wpc[w] = "bundle" => handler[w] = "sync" /\ up[w] = <<>>
  /\ wpc[w] = "sync" => \/ handler[w] = "sync" /\ up[w] = <<"sync_complete">>
                        \/ handler[w] \in {"barrier", "receiving"} /\ up[w] = <<>>
  /\ wpc[w] = "assigned" => handler[w] = "receiving" /\ up[w] = <<>>
  /\ wpc[w] = "running" =>
       /\ handler[w] = "receiving"
       /\ OnlyCustoms(up[w], Len(up[w]))
       /\ customs[w] + Len(up[w]) = sent[w]
       /\ recorded[w] = 0
  /\ wpc[w] = "batch_sent" =>
       /\ handler[w] = "receiving"
       /\ \/ /\ up[w] # <<>> /\ up[w][Len(up[w])] = "metric_batch"
             /\ OnlyCustoms(up[w], Len(up[w]) - 1)
             /\ customs[w] + Len(up[w]) - 1 = sent[w]
             /\ recorded[w] = 0
          \/ up[w] = <<>> /\ customs[w] = sent[w] /\ recorded[w] = 1
  /\ wpc[w] = "returned" =>
       /\ handler[w] = "receiving"
       /\ up[w] = <<"worker_summary", "EOF">>
       /\ customs[w] = sent[w] /\ recorded[w] = 1

\* What a worker has not done yet.
FreshInv(w) ==
  wpc[w] \in {"idle", "connected", "hello", "bundle", "sync", "assigned"} =>
    sent[w] = 0 /\ customs[w] = 0 /\ recorded[w] = 0

\* What a worker has received, and what the messages in flight tell.
TransitInv(w) ==
  /\ wpc[w] = "idle" => up[w] = <<>>
  /\ InQueue(up[w], "metric_batch") => part[w] # NoPart
  /\ InQueue(up[w], "worker_summary") => wpc[w] = "returned"
  /\ wpc[w] \in {"assigned", "running", "batch_sent", "returned"} => part[w] # NoPart
  /\ InQueue(down[w], "hello_ack") => handler[w] \notin {"none", "hello"}
  /\ InQueue(down[w], "assign_partition") => handler[w] \in {"receiving", "closed"}
  /\ InQueue(down[w], "metric_batch_ack") => recorded[w] = 1

\* A batch is recorded at most once, for a worker that was given a partition.
RecordInv(w) ==
  /\ recorded[w] = IF BatchSequence \in seen[w] THEN 1 ELSE 0
  /\ recorded[w] = 1 => part[w] # NoPart

\* One connection.
ConnectionInv(w) ==
  /\ Open(w) /\ wpc[w] # "failed" => UpInv(w)
  /\ FreshInv(w) /\ TransitInv(w) /\ RecordInv(w)

\* All connections.
TrafficInv == \A w \in Worker : ConnectionInv(w)

\* A result is that of a worker that has gone all the way.
ResultInv ==
  \A w \in results :
    /\ w \in workers
    /\ handler[w] = "closed"
    /\ wpc[w] = "returned"
    /\ part[w] # NoPart
    /\ recorded[w] = 1
    /\ customs[w] = sent[w]

\* The run has been started exactly where run() waits for its end or has seen it.
PhaseInv == start <=> ctl \notin {"waiting_ready", "closing_timeout", "timed_out"}

\* run() stops waiting because of a failure or because all results are in.
OutcomeInv ==
  /\ done => failures # {} \/ Cardinality(results) >= Expect
  /\ ctl = "closing_done" => done
  /\ ctl = "returned" => done /\ failures = {}
  /\ ctl \in Outcomes => \A w \in Worker : ~Open(w)

ResultsInv == TrafficInv /\ ResultInv /\ PhaseInv /\ OutcomeInv

-----------------------------------------------------------------------------
(* Connections. *)

\* What TypeOK says of one connection.
ConnectionOK(w) ==
  /\ handler[w] \in {"none", "hello", "sync", "barrier", "receiving", "closed"}
  /\ up[w] \in Seq(UpTypes) /\ down[w] \in Seq(DownTypes)
  /\ wpc[w] \in {"idle", "connected", "hello", "bundle", "sync", "assigned",
                 "running", "batch_sent"} \cup Ended
  /\ part[w] \in Nat \cup {NoPart}
  /\ sent[w] \in Nat /\ customs[w] \in Nat /\ recorded[w] \in Nat
  /\ seen[w] \subseteq {BatchSequence}
  /\ wpc[w] = "idle" => handler[w] = "none"

\* TypeOK and AssignInv, for one connection.
LEMMA ConnectionTypes ==
  ASSUME TypeOK, AssignInv, NEW w \in Worker
  PROVE  ConnectionOK(w)
BY ClusterAssumption DEF TypeOK, AssignInv, HandlerInv, ConnectionOK

\* Nothing of a connection changes.
Quiet(w) ==
  /\ handler'[w] = handler[w] /\ up'[w] = up[w] /\ down'[w] = down[w]
  /\ wpc'[w] = wpc[w] /\ part'[w] = part[w] /\ sent'[w] = sent[w]
  /\ customs'[w] = customs[w] /\ recorded'[w] = recorded[w] /\ seen'[w] = seen[w]

\* A connection nobody touches keeps its invariant.
LEMMA QuietConnection ==
  ASSUME NEW w, ConnectionInv(w), Quiet(w)
  PROVE  ConnectionInv(w)'
BY DEF Quiet, ConnectionInv, UpInv, FreshInv, TransitInv, RecordInv, Open

\* A step of one handler or worker leaves the other connections alone.
LEMMA OthersQuiet ==
  ASSUME TypeOK, NEW w \in Worker,
         HandlerStep(w) \/ WorkerStep(w) \/ SendCustom(w) \/ WorkerFails(w)
  PROVE  \A x \in Worker \ {w} : Quiet(x)
<1> USE DEF TypeOK, Quiet, ledger, process
<1>1. CASE RegisterWorker(w) \/ WorkerReady(w) \/ SendAssignment(w) \/ RecvCustom(w) \/ RecvMetricBatch(w)
  BY <1>1 DEF RegisterWorker, WorkerReady, SendAssignment, RecvCustom, RecvMetricBatch, ControllerSends
<1>2. CASE RejectHello(w) \/ RecvSummary(w) \/ ConnectionFails(w)
  BY <1>2 DEF RejectHello, RecvSummary, ConnectionFails, HandlerFails, HandlerCloses
<1>3. CASE Connect(w) \/ ConnectionRefused(w) \/ SendHello(w) \/ ReadHelloAck(w) \/ SyncBundle(w)
  BY <1>3 DEF Connect, ConnectionRefused, SendHello, ReadHelloAck, SyncBundle, WorkerGoes,
              WorkerReads, WorkerSends
<1>4. CASE ReadAssignment(w) \/ ReadStartRun(w) \/ SendMetricBatch(w) \/ SendSummary(w) \/ SendCustom(w)
  BY <1>4 DEF ReadAssignment, ReadStartRun, SendMetricBatch, SendSummary, SendCustom, WorkerGoes,
              WorkerReads, WorkerSends
<1>5. CASE WorkerReadsEof(w) \/ WorkerFails(w)
  BY <1>5 DEF WorkerReadsEof, WorkerFails, WorkerReads, WorkerEndCloses
<1> QED BY <1>1, <1>2, <1>3, <1>4, <1>5 DEF HandlerStep, WorkerStep

-----------------------------------------------------------------------------
(* A connection under the steps of its handler and of its worker. *)

\* The worker and the counters of a connection do not change.
WorkerIdle(w) ==
  /\ wpc'[w] = wpc[w] /\ part'[w] = part[w] /\ sent'[w] = sent[w]
  /\ customs'[w] = customs[w] /\ recorded'[w] = recorded[w] /\ seen'[w] = seen[w]

\* The controller closes a connection.
Closes(w) ==
  /\ handler'[w] = "closed" /\ up'[w] = <<>> /\ down'[w] = Append(down[w], "EOF")
  /\ WorkerIdle(w)

\* A connection that the controller closes keeps its invariant.
LEMMA ClosedConnection ==
  ASSUME TypeOK, AssignInv, NEW w \in Worker, ConnectionInv(w), Closes(w)
  PROVE  ConnectionInv(w)'
<1>1. down[w] \in Seq(DownTypes) /\ "EOF" \in DownTypes
  BY ConnectionTypes DEF ConnectionOK, DownTypes
<1>2. \A t \in {"hello_ack", "assign_partition", "metric_batch_ack"} :
        InQueue(down'[w], t) => InQueue(down[w], t)
  <2>1. \A t : InQueue(Append(down[w], "EOF"), t) => InQueue(down[w], t) \/ "EOF" = t
    BY <1>1, InAppend
  <2>2. QED
    BY <2>1 DEF Closes
<1>3. \A t : ~InQueue(up'[w], t)
  BY DEF Closes, InQueue
<1>4. TransitInv(w)'
  BY <1>2, <1>3 DEF Closes, WorkerIdle, ConnectionInv, TransitInv
<1>5. FreshInv(w)' /\ RecordInv(w)' /\ ~Open(w)'
  BY DEF Closes, WorkerIdle, ConnectionInv, FreshInv, RecordInv, Open
<1>6. QED
  BY <1>4, <1>5 DEF ConnectionInv

\* The worker process is over before it has sent its summary.
LEMMA FailedConnection ==
  ASSUME TypeOK, AssignInv, NEW w \in Worker, ConnectionInv(w),
         NEW kept \in 0..Len(up[w]), WorkerEndCloses(w, kept),
         wpc[w] \notin Ended, wpc'[w] = "failed",
         \A t : InQueue(down'[w], t) => InQueue(down[w], t),
         UNCHANGED <<handler, ledger, part, sent>>
  PROVE  ConnectionInv(w)'
<1>1. up[w] \in Seq(UpTypes) /\ "EOF" \in UpTypes /\ SubSeq(up[w], 1, kept) \in Seq(UpTypes)
  BY ConnectionTypes, QueueCut DEF ConnectionOK, UpTypes
<1>2. up'[w] = up[w] \/ up'[w] = Append(SubSeq(up[w], 1, kept), "EOF")
  BY DEF WorkerEndCloses, TypeOK
<1>3. \A t \in {"metric_batch", "worker_summary"} : InQueue(up'[w], t) => InQueue(up[w], t)
  <2>1. \A q \in Seq(UpTypes) : \A t : InQueue(Append(q, "EOF"), t) => InQueue(q, t) \/ "EOF" = t
    BY <1>1, InAppend
  <2>2. \A t : InQueue(SubSeq(up[w], 1, kept), t) => InQueue(up[w], t)
    BY <1>1, InCut
  <2>3. QED
    BY <1>1, <1>2, <2>1, <2>2
<1>4. TransitInv(w)'
  BY <1>3 DEF ConnectionInv, TransitInv, Ended, ledger
<1>5. FreshInv(w)' /\ RecordInv(w)'
  BY DEF ConnectionInv, FreshInv, RecordInv, ledger
<1>6. QED
  BY <1>4, <1>5 DEF ConnectionInv

\* Registration keeps the invariant of a connection.
LEMMA RegisteredConnection ==
  ASSUME TypeOK, AssignInv, NEW w \in Worker, ConnectionInv(w), RegisterWorker(w)
  PROVE  ConnectionInv(w)'
<1>1. /\ handler[w] = "hello" /\ handler'[w] = "sync"
      /\ up[w] # <<>> /\ Head(up[w]) = "hello" /\ up'[w] = Tail(up[w])
      /\ down'[w] = down[w] \o <<"hello_ack", "bundle_data">>
      /\ WorkerIdle(w)
  BY DEF TypeOK, RegisterWorker, HelloAccepted, HeadIs, ControllerSends, WorkerIdle, process
<1>2. /\ up[w] \in Seq(UpTypes) /\ down[w] \in Seq(DownTypes)
      /\ "hello_ack" \in DownTypes /\ "bundle_data" \in DownTypes
  BY ConnectionTypes DEF ConnectionOK, DownTypes
<1>3. \A t \in {"assign_partition", "metric_batch_ack"} : InQueue(down'[w], t) => InQueue(down[w], t)
  BY <1>1, <1>2, InAppendTwo
<1>4. \A t \in {"metric_batch", "worker_summary"} : InQueue(up'[w], t) => InQueue(up[w], t)
  BY <1>1, <1>2, InTail
<1>5. TransitInv(w)'
  BY <1>1, <1>3, <1>4 DEF ConnectionInv, TransitInv, WorkerIdle
<1>6. FreshInv(w)' /\ RecordInv(w)'
  BY <1>1 DEF ConnectionInv, FreshInv, RecordInv, WorkerIdle
<1>7. ASSUME wpc[w] # "failed" PROVE UpInv(w)'
  <2>1. wpc[w] = "hello" /\ up[w] = <<"hello">>
    BY <1>1, <1>7, ConnectionTypes DEF ConnectionInv, UpInv, Open, ConnectionOK, Ended
  <2>2. up'[w] = <<>>
    BY <1>1, <2>1
  <2>3. QED
    BY <1>1, <2>1, <2>2 DEF UpInv, WorkerIdle
<1>8. QED
  BY <1>1, <1>5, <1>6, <1>7 DEF ConnectionInv, WorkerIdle

\* So does the end of its synchronisation.
LEMMA ReadyConnection ==
  ASSUME TypeOK, AssignInv, NEW w \in Worker, ConnectionInv(w), WorkerReady(w)
  PROVE  ConnectionInv(w)'
<1>1. /\ handler[w] = "sync" /\ handler'[w] = "barrier"
      /\ up[w] # <<>> /\ Head(up[w]) = "sync_complete" /\ up'[w] = Tail(up[w])
      /\ down'[w] = down[w]
      /\ WorkerIdle(w)
  BY DEF TypeOK, WorkerReady, HeadIs, WorkerIdle, process
<1>2. up[w] \in Seq(UpTypes)
  BY ConnectionTypes DEF ConnectionOK
<1>3. \A t \in {"metric_batch", "worker_summary"} : InQueue(up'[w], t) => InQueue(up[w], t)
  BY <1>1, <1>2, InTail
<1>4. TransitInv(w)'
  BY <1>1, <1>3 DEF ConnectionInv, TransitInv, WorkerIdle
<1>5. FreshInv(w)' /\ RecordInv(w)'
  BY <1>1 DEF ConnectionInv, FreshInv, RecordInv, WorkerIdle
<1>6. ASSUME wpc[w] # "failed" PROVE UpInv(w)'
  <2>1. wpc[w] = "sync" /\ up[w] = <<"sync_complete">>
    BY <1>1, <1>6, ConnectionTypes DEF ConnectionInv, UpInv, Open, ConnectionOK, Ended
  <2>2. up'[w] = <<>>
    BY <1>1, <2>1
  <2>3. QED
    BY <1>1, <2>1, <2>2 DEF UpInv, WorkerIdle
<1>7. QED
  BY <1>1, <1>4, <1>5, <1>6 DEF ConnectionInv, WorkerIdle

\* So does the assignment of a partition.
LEMMA AssignedConnection ==
  ASSUME TypeOK, AssignInv, NEW w \in Worker, ConnectionInv(w), SendAssignment(w)
  PROVE  ConnectionInv(w)'
<1>1. /\ handler[w] = "barrier" /\ handler'[w] = "receiving"
      /\ up'[w] = up[w]
      /\ down'[w] = down[w] \o <<"assign_partition", "start_run">>
      /\ WorkerIdle(w)
  BY DEF TypeOK, SendAssignment, ControllerSends, WorkerIdle, ledger, process
<1>2. /\ down[w] \in Seq(DownTypes)
      /\ "assign_partition" \in DownTypes /\ "start_run" \in DownTypes
  BY ConnectionTypes DEF ConnectionOK, DownTypes
<1>3. \A t \in {"hello_ack", "metric_batch_ack"} : InQueue(down'[w], t) => InQueue(down[w], t)
  <2>1. \A t : InQueue(down'[w], t)
              => InQueue(down[w], t) \/ "assign_partition" = t \/ "start_run" = t
    BY <1>1, <1>2, InAppendTwo
  <2>2. QED
    BY <2>1
<1>4. TransitInv(w)'
  BY <1>1, <1>3 DEF ConnectionInv, TransitInv, WorkerIdle
<1>5. FreshInv(w)' /\ RecordInv(w)'
  BY <1>1 DEF ConnectionInv, FreshInv, RecordInv, WorkerIdle
<1>6. ASSUME wpc[w] # "failed" PROVE UpInv(w)'
  <2>1. wpc[w] = "sync" /\ up[w] = <<>>
    BY <1>1, <1>6, ConnectionTypes DEF ConnectionInv, UpInv, Open, ConnectionOK, Ended
  <2>2. QED
    BY <1>1, <2>1 DEF UpInv, WorkerIdle
<1>7. QED
  BY <1>1, <1>4, <1>5, <1>6 DEF ConnectionInv, WorkerIdle

\* Counting a message that leaves the stream and enters the ledger.
LEMMA Counted ==
  ASSUME NEW c \in Nat, NEW s \in Nat, NEW n \in Nat \ {0}
  PROVE  /\ c + n = s => (c + 1) + (n - 1) = s
         /\ c + n - 1 = s => (c + 1) + (n - 1) - 1 = s
OBVIOUS

\* Reading the first of n custom messages leaves n - 1.
LEMMA CustomsTail ==
  ASSUME NEW q \in Seq(UpTypes), q # <<>>, NEW n \in 1..Len(q), OnlyCustoms(q, n)
  PROVE  OnlyCustoms(Tail(q), n - 1)
<1>1. /\ Len(q) \in Nat \ {0}
      /\ \A i \in 1..Len(q) - 1 : Tail(q)[i] = q[i + 1]
  BY QueueTail
<1>2. \A i \in 1..n - 1 : i \in 1..Len(q) - 1 /\ i + 1 \in 1..n
  BY <1>1
<1>3. QED
  BY <1>1, <1>2 DEF OnlyCustoms

\* Reading a message that is not the last one leaves the last one where it is.
LEMMA LastOfTail ==
  ASSUME NEW q \in Seq(UpTypes), q # <<>>, Len(q) # 1
  PROVE  /\ Len(Tail(q)) \in Nat \ {0}
         /\ Tail(q) # <<>>
         /\ Tail(q)[Len(Tail(q))] = q[Len(q)]
<1>1. /\ Len(q) \in Nat \ {0}
      /\ \A i \in 1..Len(q) - 1 : Tail(q)[i] = q[i + 1]
      /\ Len(Tail(q)) = Len(q) - 1
  BY QueueTail
<1>2. Len(q) - 1 \in 1..Len(q) - 1 /\ Len(q) - 1 + 1 = Len(q)
  BY <1>1
<1>3. Tail(q)[Len(q) - 1] = q[Len(q)]
  BY <1>1, <1>2
<1>4. Tail(q) # <<>>
  BY <1>1, <1>2, QueueTail, EmptySeq
<1>5. QED
  BY <1>1, <1>2, <1>3, <1>4

\* A custom message that is received is counted once.
LEMMA CustomConnection ==
  ASSUME TypeOK, AssignInv, NEW w \in Worker, ConnectionInv(w), RecvCustom(w)
  PROVE  ConnectionInv(w)'
<1>1. /\ handler[w] = "receiving" /\ handler'[w] = "receiving"
      /\ up[w] # <<>> /\ Head(up[w]) = "custom" /\ up'[w] = Tail(up[w])
      /\ customs'[w] = customs[w] + 1
      /\ down'[w] = down[w]
      /\ wpc'[w] = wpc[w] /\ part'[w] = part[w] /\ sent'[w] = sent[w]
      /\ recorded'[w] = recorded[w] /\ seen'[w] = seen[w]
  BY DEF TypeOK, RecvCustom, HeadIs, process
<1>2. up[w] \in Seq(UpTypes) /\ customs[w] \in Nat /\ sent[w] \in Nat
  BY ConnectionTypes DEF ConnectionOK
<1>3. \A t \in {"metric_batch", "worker_summary"} : InQueue(up'[w], t) => InQueue(up[w], t)
  BY <1>1, <1>2, InTail
<1>4. TransitInv(w)'
  BY <1>1, <1>3 DEF ConnectionInv, TransitInv
<1>5. RecordInv(w)'
  BY <1>1 DEF ConnectionInv, RecordInv
<1>6. CASE wpc[w] = "failed"
  BY <1>1, <1>4, <1>5, <1>6 DEF ConnectionInv, FreshInv
<1>7. CASE wpc[w] # "failed"
  <2>1. UpInv(w)
    BY <1>1, <1>7 DEF ConnectionInv, Open
  <2>2. /\ Len(up'[w]) = Len(up[w]) - 1
        /\ \A i \in 1..Len(up[w]) - 1 : up'[w][i] = up[w][i + 1]
        /\ Len(up[w]) \in Nat \ {0}
        /\ up[w][1] = "custom"
    BY <1>1, <1>2, QueueTail
  <2>3. wpc[w] \in {"running", "batch_sent"}
    BY <1>1, <1>7, <2>1, ConnectionTypes DEF UpInv, ConnectionOK, Ended
  <2>4. CASE wpc[w] = "running"
    <3>1. OnlyCustoms(up'[w], Len(up'[w]))
      <4>1. OnlyCustoms(up[w], Len(up[w])) /\ Len(up[w]) \in 1..Len(up[w])
        BY <2>1, <2>2, <2>4 DEF UpInv
      <4>2. QED
        BY <1>1, <1>2, <2>2, <4>1, CustomsTail
    <3>2. customs'[w] + Len(up'[w]) = sent'[w] /\ recorded'[w] = 0
      <4>1. customs[w] + Len(up[w]) = sent[w] /\ recorded[w] = 0
        BY <2>1, <2>4 DEF UpInv
      <4>2. QED
        BY <1>1, <1>2, <2>2, <4>1, Counted
    <3>3. UpInv(w)'
      BY <1>1, <2>4, <3>1, <3>2 DEF UpInv
    <3>4. QED
      BY <1>1, <1>4, <1>5, <2>4, <3>3 DEF ConnectionInv, FreshInv
  <2>5. CASE wpc[w] = "batch_sent"
    <3>1. /\ up[w][Len(up[w])] = "metric_batch"
          /\ OnlyCustoms(up[w], Len(up[w]) - 1)
          /\ customs[w] + Len(up[w]) - 1 = sent[w]
          /\ recorded[w] = 0
      BY <1>1, <2>1, <2>5 DEF UpInv
    <3>2. Len(up[w]) # 1 /\ Len(up[w]) - 1 \in 1..Len(up[w])
      BY <2>2, <3>1
    <3>3. up'[w][Len(up'[w])] = "metric_batch" /\ up'[w] # <<>>
      BY <1>1, <1>2, <3>1, <3>2, LastOfTail
    <3>4. OnlyCustoms(up'[w], Len(up'[w]) - 1)
      BY <1>1, <1>2, <2>2, <3>1, <3>2, CustomsTail
    <3>5. customs'[w] + Len(up'[w]) - 1 = sent'[w] /\ recorded'[w] = 0
      <4>1. customs[w] \in Nat /\ sent[w] \in Nat /\ Len(up[w]) \in Nat \ {0}
        BY <1>2, <2>2
      <4>2. (customs[w] + 1) + (Len(up[w]) - 1) - 1 = sent[w]
        BY ONLY <3>1, <4>1, Counted
      <4>3. QED
        BY <1>1, <2>2, <3>1, <4>2
    <3>6. UpInv(w)'
      BY <1>1, <2>5, <3>3, <3>4, <3>5 DEF UpInv
    <3>7. QED
      BY <1>1, <1>4, <1>5, <2>5, <3>6 DEF ConnectionInv, FreshInv
  <2>6. QED
    BY <2>3, <2>4, <2>5
<1>8. QED
  BY <1>6, <1>7

\* The batch is recorded once, whatever comes back for it.
LEMMA BatchConnection ==
  ASSUME TypeOK, AssignInv, NEW w \in Worker, ConnectionInv(w), RecvMetricBatch(w)
  PROVE  ConnectionInv(w)'
<1>1. /\ handler[w] = "receiving" /\ handler'[w] = "receiving"
      /\ up[w] # <<>> /\ Head(up[w]) = "metric_batch" /\ up'[w] = Tail(up[w])
      /\ seen'[w] = seen[w] \cup {BatchSequence}
      /\ recorded'[w] = IF BatchSequence \in seen[w] THEN recorded[w] ELSE recorded[w] + 1
      /\ down'[w] = down[w] \o <<"metric_batch_ack">>
      /\ wpc'[w] = wpc[w] /\ part'[w] = part[w] /\ sent'[w] = sent[w] /\ customs'[w] = customs[w]
  BY DEF TypeOK, RecvMetricBatch, HeadIs, ControllerSends, process
<1>2. /\ up[w] \in Seq(UpTypes) /\ customs[w] \in Nat /\ sent[w] \in Nat
      /\ down[w] \in Seq(DownTypes) /\ "metric_batch_ack" \in DownTypes
  BY ConnectionTypes DEF ConnectionOK, DownTypes
<1>3. \A t \in {"metric_batch", "worker_summary"} : InQueue(up'[w], t) => InQueue(up[w], t)
  BY <1>1, <1>2, InTail
<1>4. \A t \in {"hello_ack", "assign_partition"} : InQueue(down'[w], t) => InQueue(down[w], t)
  <2>1. \A t : InQueue(down'[w], t) => InQueue(down[w], t) \/ "metric_batch_ack" = t
    BY <1>1, <1>2, InAppend
  <2>2. QED
    BY <2>1
<1>5. recorded'[w] = 1 /\ part'[w] # NoPart
  <2>1. InQueue(up[w], "metric_batch")
    BY <1>1, <1>2, InTail
  <2>2. QED
    BY <1>1, <2>1 DEF ConnectionInv, TransitInv, RecordInv
<1>6. TransitInv(w)'
  BY <1>1, <1>3, <1>4, <1>5 DEF ConnectionInv, TransitInv
<1>7. RecordInv(w)'
  BY <1>1, <1>5 DEF RecordInv
<1>8. CASE wpc[w] = "failed"
  BY <1>1, <1>6, <1>7, <1>8 DEF ConnectionInv, FreshInv
<1>9. CASE wpc[w] # "failed"
  <2>1. UpInv(w)
    BY <1>1, <1>9 DEF ConnectionInv, Open
  <2>2. /\ Len(up'[w]) = Len(up[w]) - 1 /\ Len(up[w]) \in Nat \ {0}
        /\ up[w][1] = "metric_batch" /\ up'[w] \in Seq(UpTypes)
    BY <1>1, <1>2, QueueTail
  <2>3. wpc[w] \in {"running", "batch_sent"}
    BY <1>1, <1>9, <2>1, ConnectionTypes DEF UpInv, ConnectionOK, Ended
  <2>4. wpc[w] = "batch_sent"
    BY <2>1, <2>2, <2>3 DEF UpInv, OnlyCustoms
  <2>5. Len(up[w]) = 1 /\ customs[w] = sent[w]
    <3>1. OnlyCustoms(up[w], Len(up[w]) - 1) /\ customs[w] + Len(up[w]) - 1 = sent[w]
      BY <1>1, <2>1, <2>4 DEF UpInv
    <3>2. Len(up[w]) = 1
      <4>1. Len(up[w]) # 1 => 1 \in 1..Len(up[w]) - 1
        <5>1. \A n \in Nat \ {0} : n # 1 => 1 \in 1..n - 1
          OBVIOUS
        <5>2. QED
          BY ONLY <2>2, <5>1
      <4>2. QED
        BY <2>2, <3>1, <4>1 DEF OnlyCustoms
    <3>3. customs[w] + 1 - 1 = sent[w]
      BY <3>1, <3>2
    <3>4. QED
      BY <1>2, <3>2, <3>3
  <2>6. up'[w] = <<>>
    BY <2>2, <2>5, EmptySeq
  <2>7. UpInv(w)'
    BY <1>1, <1>5, <2>4, <2>5, <2>6 DEF UpInv
  <2>8. QED
    BY <1>1, <1>6, <1>7, <2>4, <2>7 DEF ConnectionInv, FreshInv
<1>10. QED
  BY <1>8, <1>9

\* With the summary, everything that the worker sent has arrived.
LEMMA SummaryConnection ==
  ASSUME TypeOK, AssignInv, NEW w \in Worker, ConnectionInv(w), RecvSummary(w)
  PROVE  /\ Closes(w)
         /\ wpc[w] = "returned" /\ part[w] # NoPart
         /\ recorded[w] = 1 /\ customs[w] = sent[w]
<1>1. Closes(w)
  BY DEF TypeOK, RecvSummary, HandlerCloses, Closes, WorkerIdle, process
<1>2. InQueue(up[w], "worker_summary")
  BY InTail DEF TypeOK, RecvSummary, HeadIs
<1>3. wpc[w] = "returned"
  BY <1>2 DEF ConnectionInv, TransitInv
<1>4. UpInv(w)
  BY <1>3 DEF RecvSummary, ConnectionInv, Open
<1>5. QED
  BY <1>1, <1>3, <1>4 DEF ConnectionInv, TransitInv, UpInv

\* The steps of a handler that close its connection.
LEMMA EndedConnection ==
  ASSUME TypeOK, AssignInv, NEW w \in Worker,
         RejectHello(w) \/ RecvSummary(w) \/ ConnectionFails(w)
  PROVE  Closes(w)
BY DEF TypeOK, RejectHello, RecvSummary, ConnectionFails, HandlerFails, HandlerCloses,
       Closes, WorkerIdle, process

\* What a worker reads was in flight, and the rest still is.
LEMMA ReadMessage ==
  ASSUME TypeOK, NEW w \in Worker, NEW type, WorkerReads(w, type)
  PROVE  /\ InQueue(down[w], type)
         /\ \A t : InQueue(down'[w], t) => InQueue(down[w], t)
<1>1. /\ down[w] \in Seq(DownTypes) /\ down[w] # <<>> /\ Head(down[w]) = type
      /\ down'[w] = Tail(down[w])
  BY DEF TypeOK, WorkerReads, HeadIs
<1>2. QED
  BY <1>1, InTail

\* Connecting starts a connection without messages.
LEMMA NewConnection ==
  ASSUME TypeOK, AssignInv, NEW w \in Worker, ConnectionInv(w),
         Connect(w) \/ ConnectionRefused(w)
  PROVE  ConnectionInv(w)'
<1> USE DEF TypeOK, WorkerGoes, events, ledger
<1>1. CASE Connect(w)
  <2>1. /\ wpc'[w] = "connected" /\ handler'[w] = "hello" /\ handler[w] = "none"
        /\ down'[w] = down[w] /\ up'[w] = <<>> /\ wpc[w] = "idle"
        /\ UNCHANGED <<ledger, part, sent>>
    BY <1>1, ConnectionTypes DEF Connect, ConnectionOK, ConnectionInv, TransitInv
  <2>2. UpInv(w)'
    BY <2>1 DEF UpInv
  <2>3. TransitInv(w)'
    BY <2>1 DEF ConnectionInv, TransitInv, InQueue
  <2>4. FreshInv(w)' /\ RecordInv(w)'
    BY <2>1 DEF ConnectionInv, FreshInv, RecordInv
  <2>5. QED
    BY <2>2, <2>3, <2>4 DEF ConnectionInv
<1>2. CASE ConnectionRefused(w)
  <2>1. /\ wpc'[w] = "failed" /\ wpc[w] = "idle"
        /\ UNCHANGED <<ledger, handler, up, down, part, sent>>
    BY <1>2 DEF ConnectionRefused
  <2>2. QED
    BY <2>1 DEF ConnectionInv, TransitInv, FreshInv, RecordInv
<1>3. QED
  BY <1>1, <1>2

\* The hello of a worker and its answer keep the invariant.
LEMMA HelloConnection ==
  ASSUME TypeOK, AssignInv, NEW w \in Worker, ConnectionInv(w),
         SendHello(w) \/ ReadHelloAck(w)
  PROVE  ConnectionInv(w)'
<1>1. CASE SendHello(w)
  <2>1. /\ wpc[w] = "connected" /\ wpc'[w] = "hello"
        /\ up'[w] = IF Open(w) THEN Append(up[w], "hello") ELSE up[w]
        /\ UNCHANGED <<ledger, handler, down, part, sent>>
    BY <1>1 DEF TypeOK, SendHello, WorkerGoes, WorkerSends
  <2>2. Open(w) => handler[w] = "hello" /\ up'[w] = <<"hello">>
    <3>1. Append(<<>>, "hello") = <<"hello">>
      OBVIOUS
    <3>2. QED
      BY <2>1, <3>1 DEF ConnectionInv, UpInv
  <2>3. \A t \in {"metric_batch", "worker_summary"} : InQueue(up'[w], t) => InQueue(up[w], t)
    <3>1. up[w] \in Seq(UpTypes) /\ "hello" \in UpTypes
      BY ConnectionTypes DEF ConnectionOK, UpTypes
    <3>2. \A t : InQueue(Append(up[w], "hello"), t) => InQueue(up[w], t) \/ "hello" = t
      BY <3>1, InAppend
    <3>3. QED
      BY <2>1, <3>2
  <2>4. TransitInv(w)'
    BY <2>1, <2>3 DEF ConnectionInv, TransitInv, ledger
  <2>5. FreshInv(w)' /\ RecordInv(w)'
    BY <2>1 DEF ConnectionInv, FreshInv, RecordInv, ledger
  <2>6. Open(w)' => UpInv(w)'
    BY <2>1, <2>2 DEF UpInv, Open
  <2>7. QED
    BY <2>4, <2>5, <2>6 DEF ConnectionInv
<1>2. CASE ReadHelloAck(w)
  <2>1. /\ wpc[w] = "hello" /\ wpc'[w] = "bundle"
        /\ UNCHANGED <<ledger, handler, up, part, sent>>
    BY <1>2 DEF TypeOK, ReadHelloAck, WorkerGoes
  <2>2. /\ InQueue(down[w], "hello_ack")
        /\ \A t : InQueue(down'[w], t) => InQueue(down[w], t)
    BY <1>2, ReadMessage DEF ReadHelloAck
  <2>3. TransitInv(w)'
    BY <2>1, <2>2 DEF ConnectionInv, TransitInv, ledger
  <2>4. FreshInv(w)' /\ RecordInv(w)'
    BY <2>1 DEF ConnectionInv, FreshInv, RecordInv, ledger
  <2>5. Open(w)' => UpInv(w)'
    BY <2>1, <2>2 DEF ConnectionInv, TransitInv, UpInv, Open
  <2>6. QED
    BY <2>3, <2>4, <2>5 DEF ConnectionInv
<1>3. QED
  BY <1>1, <1>2

\* So does the bundle.
LEMMA SyncConnection ==
  ASSUME TypeOK, AssignInv, NEW w \in Worker, ConnectionInv(w), SyncBundle(w)
  PROVE  ConnectionInv(w)'
<1>1. /\ wpc[w] = "bundle" /\ wpc'[w] = "sync"
      /\ up'[w] = IF Open(w) THEN Append(up[w], "sync_complete") ELSE up[w]
      /\ UNCHANGED <<ledger, handler, part, sent>>
  BY DEF TypeOK, SyncBundle, WorkerGoes, WorkerSends
<1>2. Open(w) => handler[w] = "sync" /\ up'[w] = <<"sync_complete">>
  <2>1. Append(<<>>, "sync_complete") = <<"sync_complete">>
    OBVIOUS
  <2>2. QED
    BY <1>1, <2>1 DEF ConnectionInv, UpInv
<1>3. \A t \in {"metric_batch", "worker_summary"} : InQueue(up'[w], t) => InQueue(up[w], t)
  <2>1. up[w] \in Seq(UpTypes) /\ "sync_complete" \in UpTypes
    BY ConnectionTypes DEF ConnectionOK, UpTypes
  <2>2. \A t : InQueue(Append(up[w], "sync_complete"), t)
              => InQueue(up[w], t) \/ "sync_complete" = t
    BY <2>1, InAppend
  <2>3. QED
    BY <1>1, <2>2
<1>4. \A t : InQueue(down'[w], t) => InQueue(down[w], t)
  BY ReadMessage DEF SyncBundle
<1>5. TransitInv(w)'
  BY <1>1, <1>3, <1>4 DEF ConnectionInv, TransitInv, ledger
<1>6. FreshInv(w)' /\ RecordInv(w)'
  BY <1>1 DEF ConnectionInv, FreshInv, RecordInv, ledger
<1>7. Open(w)' => UpInv(w)'
  BY <1>1, <1>2 DEF UpInv, Open
<1>8. QED
  BY <1>5, <1>6, <1>7 DEF ConnectionInv

\* A worker that reads its assignment has a partition.
LEMMA PartConnection ==
  ASSUME TypeOK, AssignInv, NEW w \in Worker, ConnectionInv(w), ReadAssignment(w)
  PROVE  ConnectionInv(w)' /\ part'[w] # NoPart
<1>1. /\ wpc[w] = "sync" /\ wpc'[w] = "assigned" /\ part'[w] = workerIndex[w]
      /\ UNCHANGED <<ledger, handler, up, sent>>
  BY DEF TypeOK, ReadAssignment, WorkerGoes
<1>2. /\ InQueue(down[w], "assign_partition")
      /\ \A t : InQueue(down'[w], t) => InQueue(down[w], t)
  BY ReadMessage DEF ReadAssignment
<1>3. part'[w] # NoPart
  <2>1. w \in workers /\ workerIndex[w] \in 0..Cardinality(workers) - 1
    BY <1>2 DEF AssignInv, AssignmentInv, SlotsInv
  <2>2. QED
    BY <1>1, <2>1, WorkersFinite DEF NoPart
<1>4. TransitInv(w)'
  BY <1>1, <1>2, <1>3 DEF ConnectionInv, TransitInv, ledger
<1>5. FreshInv(w)' /\ RecordInv(w)'
  BY <1>1, <1>3 DEF ConnectionInv, FreshInv, RecordInv, ledger
<1>6. Open(w)' => UpInv(w)'
  BY <1>1, <1>2 DEF ConnectionInv, TransitInv, UpInv, Open
<1>7. QED
  BY <1>3, <1>4, <1>5, <1>6 DEF ConnectionInv

\* The start finds a worker that has sent nothing yet.
LEMMA StartedConnection ==
  ASSUME TypeOK, AssignInv, NEW w \in Worker, ConnectionInv(w), ReadStartRun(w)
  PROVE  ConnectionInv(w)'
<1>1. /\ wpc[w] = "assigned" /\ wpc'[w] = "running"
      /\ UNCHANGED <<ledger, handler, up, part, sent>>
  BY DEF TypeOK, ReadStartRun, WorkerGoes
<1>2. \A t : InQueue(down'[w], t) => InQueue(down[w], t)
  BY ReadMessage DEF ReadStartRun
<1>3. TransitInv(w)'
  BY <1>1, <1>2 DEF ConnectionInv, TransitInv, ledger
<1>4. FreshInv(w)' /\ RecordInv(w)'
  BY <1>1 DEF ConnectionInv, FreshInv, RecordInv, ledger
<1>5. ASSUME Open(w)' PROVE UpInv(w)'
  <2>1. handler[w] = "receiving" /\ up[w] = <<>>
    BY <1>1, <1>5 DEF ConnectionInv, UpInv, Open
  <2>2. sent[w] = 0 /\ customs[w] = 0 /\ recorded[w] = 0
    BY <1>1 DEF ConnectionInv, FreshInv
  <2>3. Len(up[w]) = 0 /\ OnlyCustoms(up[w], 0)
    BY <2>1 DEF OnlyCustoms
  <2>4. QED
    BY <1>1, <2>1, <2>2, <2>3 DEF UpInv, ledger
<1>6. QED
  BY <1>3, <1>4, <1>5 DEF ConnectionInv

\* A custom message is in flight or counted.
LEMMA CustomSent ==
  ASSUME TypeOK, AssignInv, NEW w \in Worker, ConnectionInv(w), SendCustom(w)
  PROVE  ConnectionInv(w)'
<1>1. /\ wpc[w] = "running" /\ wpc'[w] = "running" /\ sent'[w] = sent[w] + 1
      /\ up'[w] = IF Open(w) THEN Append(up[w], "custom") ELSE up[w]
      /\ UNCHANGED <<ledger, handler, down, part>>
  BY DEF TypeOK, SendCustom, WorkerSends
<1>2. up[w] \in Seq(UpTypes) /\ "custom" \in UpTypes /\ customs[w] \in Nat
  BY ConnectionTypes DEF ConnectionOK, UpTypes
<1>3. \A t \in {"metric_batch", "worker_summary"} : InQueue(up'[w], t) => InQueue(up[w], t)
  <2>1. \A t : InQueue(Append(up[w], "custom"), t) => InQueue(up[w], t) \/ "custom" = t
    BY <1>2, InAppend
  <2>2. QED
    BY <1>1, <2>1
<1>4. TransitInv(w)'
  BY <1>1, <1>3 DEF ConnectionInv, TransitInv, ledger
<1>5. FreshInv(w)' /\ RecordInv(w)'
  BY <1>1 DEF ConnectionInv, FreshInv, RecordInv, ledger
<1>6. ASSUME Open(w)' PROVE UpInv(w)'
  <2>1. /\ handler[w] = "receiving" /\ recorded[w] = 0
        /\ OnlyCustoms(up[w], Len(up[w])) /\ customs[w] + Len(up[w]) = sent[w]
    BY <1>1, <1>6 DEF ConnectionInv, UpInv, Open
  <2>2. /\ up'[w] = Append(up[w], "custom")
        /\ Len(up'[w]) = Len(up[w]) + 1 /\ Len(up[w]) \in Nat
        /\ \A i \in 1..Len(up[w]) : up'[w][i] = up[w][i]
        /\ up'[w][Len(up[w]) + 1] = "custom"
    BY <1>1, <1>2, <1>6, QueueAppend DEF Open
  <2>3. OnlyCustoms(up'[w], Len(up'[w]))
    BY <2>1, <2>2 DEF OnlyCustoms
  <2>4. customs[w] + Len(up'[w]) = sent'[w]
    <3>1. \A c, n \in Nat : c + (n + 1) = c + n + 1
      OBVIOUS
    <3>2. customs[w] + (Len(up[w]) + 1) = customs[w] + Len(up[w]) + 1
      BY <1>2, <2>2, <3>1
    <3>3. QED
      BY <1>1, <2>1, <2>2, <3>2
  <2>5. QED
    BY <1>1, <2>1, <2>3, <2>4 DEF UpInv, ledger
<1>7. QED
  BY <1>4, <1>5, <1>6 DEF ConnectionInv

\* The batch follows the custom messages.
LEMMA BatchSent ==
  ASSUME TypeOK, AssignInv, NEW w \in Worker, ConnectionInv(w), SendMetricBatch(w)
  PROVE  ConnectionInv(w)'
<1>1. /\ wpc[w] = "running" /\ wpc'[w] = "batch_sent"
      /\ up'[w] = IF Open(w) THEN Append(up[w], "metric_batch") ELSE up[w]
      /\ UNCHANGED <<ledger, handler, down, part, sent>>
  BY DEF TypeOK, SendMetricBatch, WorkerGoes, WorkerSends
<1>2. up[w] \in Seq(UpTypes) /\ "metric_batch" \in UpTypes /\ customs[w] \in Nat
  BY ConnectionTypes DEF ConnectionOK, UpTypes
<1>3. InQueue(up'[w], "worker_summary") => InQueue(up[w], "worker_summary")
  <2>1. \A t : InQueue(Append(up[w], "metric_batch"), t) => InQueue(up[w], t) \/ "metric_batch" = t
    BY <1>2, InAppend
  <2>2. QED
    BY <1>1, <2>1
<1>4. TransitInv(w)'
  BY <1>1, <1>3 DEF ConnectionInv, TransitInv, ledger
<1>5. FreshInv(w)' /\ RecordInv(w)'
  BY <1>1 DEF ConnectionInv, FreshInv, RecordInv, ledger
<1>6. ASSUME Open(w)' PROVE UpInv(w)'
  <2>1. /\ handler[w] = "receiving" /\ recorded[w] = 0
        /\ OnlyCustoms(up[w], Len(up[w])) /\ customs[w] + Len(up[w]) = sent[w]
    BY <1>1, <1>6 DEF ConnectionInv, UpInv, Open
  <2>2. /\ up'[w] = Append(up[w], "metric_batch") /\ up'[w] # <<>>
        /\ Len(up'[w]) = Len(up[w]) + 1 /\ Len(up[w]) \in Nat
        /\ \A i \in 1..Len(up[w]) : up'[w][i] = up[w][i]
        /\ up'[w][Len(up[w]) + 1] = "metric_batch"
    BY <1>1, <1>2, <1>6, QueueAppend DEF Open
  <2>3. Len(up'[w]) - 1 = Len(up[w])
    BY <2>2
  <2>4. OnlyCustoms(up'[w], Len(up'[w]) - 1)
    BY <2>1, <2>2, <2>3 DEF OnlyCustoms
  <2>5. customs[w] + Len(up'[w]) - 1 = sent[w]
    <3>1. \A c, n \in Nat : c + (n + 1) - 1 = c + n
      OBVIOUS
    <3>2. customs[w] + (Len(up[w]) + 1) - 1 = customs[w] + Len(up[w])
      BY <1>2, <2>2, <3>1
    <3>3. QED
      BY <2>1, <2>2, <3>2
  <2>6. QED
    BY <1>1, <2>1, <2>2, <2>4, <2>5 DEF UpInv, ledger
<1>7. QED
  BY <1>4, <1>5, <1>6 DEF ConnectionInv

\* The summary follows the acknowledgement of the batch.
LEMMA SummarySent ==
  ASSUME TypeOK, AssignInv, NEW w \in Worker, ConnectionInv(w), SendSummary(w)
  PROVE  ConnectionInv(w)'
<1>1. /\ wpc[w] = "batch_sent" /\ wpc'[w] = "returned"
      /\ up'[w] = IF Open(w) THEN up[w] \o <<"worker_summary", "EOF">> ELSE up[w]
      /\ UNCHANGED <<ledger, handler, part, sent>>
  BY DEF TypeOK, SendSummary, WorkerGoes
<1>2. /\ InQueue(down[w], "metric_batch_ack")
      /\ \A t : InQueue(down'[w], t) => InQueue(down[w], t)
  BY ReadMessage DEF SendSummary
<1>3. recorded[w] = 1 /\ part[w] # NoPart
  BY <1>1, <1>2 DEF ConnectionInv, TransitInv
<1>4. TransitInv(w)'
  BY <1>1, <1>2, <1>3 DEF ConnectionInv, TransitInv, ledger
<1>5. FreshInv(w)' /\ RecordInv(w)'
  BY <1>1 DEF ConnectionInv, FreshInv, RecordInv, ledger
<1>6. ASSUME Open(w)' PROVE UpInv(w)'
  <2>1. handler[w] = "receiving" /\ up[w] = <<>> /\ customs[w] = sent[w]
    BY <1>1, <1>3, <1>6 DEF ConnectionInv, UpInv, Open
  <2>2. up'[w] = <<"worker_summary", "EOF">>
    BY <1>1, <2>1 DEF Open
  <2>3. QED
    BY <1>1, <1>3, <2>1, <2>2 DEF UpInv, ledger
<1>7. QED
  BY <1>4, <1>5, <1>6 DEF ConnectionInv

\* A worker may end at any place.
LEMMA WorkerGone ==
  ASSUME TypeOK, AssignInv, NEW w \in Worker, ConnectionInv(w),
         WorkerReadsEof(w) \/ WorkerFails(w)
  PROVE  ConnectionInv(w)'
<1>1. CASE WorkerReadsEof(w)
  <2>1. Len(up[w]) \in 0..Len(up[w])
    BY QueueCut DEF TypeOK
  <2>2. /\ WorkerEndCloses(w, Len(up[w]))
        /\ wpc[w] \notin Ended /\ wpc'[w] = "failed"
        /\ UNCHANGED <<handler, ledger, part, sent>>
    BY <1>1 DEF TypeOK, WorkerReadsEof, Ended
  <2>3. \A t : InQueue(down'[w], t) => InQueue(down[w], t)
    BY <1>1, ReadMessage DEF WorkerReadsEof
  <2>4. QED
    BY <2>1, <2>2, <2>3, FailedConnection
<1>2. CASE WorkerFails(w)
  <2>1. PICK kept \in 0..Len(up[w]) : WorkerEndCloses(w, kept)
    BY <1>2 DEF WorkerFails
  <2>2. /\ wpc[w] \notin Ended /\ wpc'[w] = "failed"
        /\ UNCHANGED <<handler, down, ledger, part, sent>>
    BY <1>2 DEF TypeOK, WorkerFails, Ended
  <2>3. QED
    BY <2>1, <2>2, FailedConnection
<1>3. QED
  BY <1>1, <1>2

-----------------------------------------------------------------------------
(* The invariant of the results. *)

\* A step of one handler or worker preserves TrafficInv.
LEMMA TrafficStep ==
  ASSUME TypeOK, AssignInv, TrafficInv, NEW w \in Worker,
         HandlerStep(w) \/ WorkerStep(w) \/ SendCustom(w) \/ WorkerFails(w)
  PROVE  TrafficInv'
<1>1. ConnectionInv(w)
  BY DEF TrafficInv
<1>2. ConnectionInv(w)'
  BY <1>1, RegisteredConnection, EndedConnection, ClosedConnection, ReadyConnection,
     AssignedConnection, CustomConnection, BatchConnection, NewConnection, HelloConnection,
     SyncConnection, PartConnection, StartedConnection, BatchSent, SummarySent, CustomSent,
     WorkerGone
  DEF HandlerStep, WorkerStep
<1>3. ASSUME NEW x \in Worker \ {w} PROVE ConnectionInv(x)'
  <2>1. ConnectionInv(x) /\ Quiet(x)
    BY OthersQuiet DEF TrafficInv
  <2>2. QED
    BY <2>1, QuietConnection
<1>4. QED
  BY <1>2, <1>3 DEF TrafficInv

\* When run() ends, each connection is closed or stays as it is.
LEMMA RunEndsTraffic ==
  ASSUME TypeOK, AssignInv, TrafficInv, NEW outcome, RunEnds(outcome), UNCHANGED <<ledger, process>>
  PROVE  /\ TrafficInv'
         /\ \A w \in Worker : ~Open(w)'
         /\ \A w \in Worker : handler[w] = "closed" => handler'[w] = "closed"
<1>1. ASSUME NEW w \in Worker PROVE ConnectionInv(w)'
  <2>1. ConnectionInv(w)
    BY DEF TrafficInv
  <2>2. CASE Open(w)
    <3>1. Closes(w)
      BY <2>2 DEF RunEnds, Closes, WorkerIdle, ledger, process
    <3>2. QED
      BY <2>1, <3>1, ClosedConnection
  <2>3. CASE ~Open(w)
    <3>1. Quiet(w)
      BY <2>3 DEF RunEnds, Quiet, ledger, process
    <3>2. QED
      BY <2>1, <3>1, QuietConnection
  <2>4. QED
    BY <2>2, <2>3
<1>2. QED
  BY <1>1 DEF TrafficInv, RunEnds, Open

\* What a step of a handler or worker does to the results and to run().
LEMMA StepOfWorker ==
  ASSUME TypeOK, AssignInv, ResultsInv, NEW w \in Worker,
         HandlerStep(w) \/ WorkerStep(w) \/ SendCustom(w) \/ WorkerFails(w)
  PROVE  /\ UNCHANGED <<ctl, start>>
         /\ w \notin results
         /\ results \subseteq results' /\ failures \subseteq failures' /\ workers \subseteq workers'
         /\ \/ UNCHANGED <<done, failures, results>>
            \/ Open(w) /\ failures' # {} /\ done' /\ results' = results
            \/ /\ RecvSummary(w) /\ Open(w)
               /\ results' = results \cup {w} /\ failures' = failures
               /\ done' = (done \/ AllResults(results'))
         /\ Open(w)' => Open(w) \/ ctl \in Listening
<1>1. CASE RegisterWorker(w) \/ WorkerReady(w) \/ SendAssignment(w) \/ RecvCustom(w) \/ RecvMetricBatch(w)
  BY <1>1 DEF RegisterWorker, WorkerReady, SendAssignment, RecvCustom, RecvMetricBatch,
              ResultsInv, ResultInv, Open, Listening, events, ledger, TypeOK
<1>2. CASE RejectHello(w) \/ ConnectionFails(w)
  BY <1>2 DEF RejectHello, ConnectionFails, HandlerFails, HandlerCloses, ResultsInv, ResultInv, Open, TypeOK
<1>3. CASE RecvSummary(w)
  BY <1>3 DEF RecvSummary, HandlerCloses, ResultsInv, ResultInv, Open, TypeOK
<1>4. CASE Connect(w) \/ ConnectionRefused(w) \/ SendHello(w) \/ ReadHelloAck(w) \/ SyncBundle(w)
  BY <1>4 DEF Connect, ConnectionRefused, SendHello, ReadHelloAck, SyncBundle, WorkerGoes,
              ResultsInv, ResultInv, Open, events, ledger, TypeOK
<1>5. CASE ReadAssignment(w) \/ ReadStartRun(w) \/ SendMetricBatch(w) \/ SendSummary(w) \/ SendCustom(w)
  BY <1>5 DEF ReadAssignment, ReadStartRun, SendMetricBatch, SendSummary, SendCustom, WorkerGoes,
              ResultsInv, ResultInv, Open, events, ledger, TypeOK
<1>6. CASE WorkerReadsEof(w) \/ WorkerFails(w)
  BY <1>6 DEF WorkerReadsEof, WorkerFails, ResultsInv, ResultInv, Open, events, ledger, TypeOK, Ended
<1>7. QED
  BY <1>1, <1>2, <1>3, <1>4, <1>5, <1>6 DEF HandlerStep, WorkerStep

\* Every step preserves the invariant of the results.
LEMMA ResultsInductive == TypeOK /\ AssignInv /\ ResultsInv /\ [Next]_vars => ResultsInv'
<1> SUFFICES ASSUME TypeOK, AssignInv, ResultsInv, [Next]_vars
             PROVE  ResultsInv'
  OBVIOUS
<1>1. TypeOK' /\ TrafficInv
  BY TypeInductive DEF ResultsInv
<1>2. ASSUME NEW w \in Worker,
             HandlerStep(w) \/ WorkerStep(w) \/ SendCustom(w) \/ WorkerFails(w)
      PROVE  ResultsInv'
  <2>1. TrafficInv'
    BY <1>1, <1>2, TrafficStep
  <2>2. ResultInv'
    <3>1. ASSUME NEW x \in results PROVE
             /\ x \in workers' /\ handler'[x] = "closed" /\ wpc'[x] = "returned"
             /\ part'[x] # NoPart /\ recorded'[x] = 1 /\ customs'[x] = sent'[x]
      <4>1. x \in Worker \ {w} /\ workers \subseteq workers'
        BY <1>2, <3>1, StepOfWorker DEF TypeOK
      <4>2. Quiet(x)
        BY <1>2, <4>1, OthersQuiet
      <4>3. QED
        BY <3>1, <4>1, <4>2 DEF ResultsInv, ResultInv, Quiet
    <3>2. ASSUME RecvSummary(w) PROVE
             /\ w \in workers' /\ handler'[w] = "closed" /\ wpc'[w] = "returned"
             /\ part'[w] # NoPart /\ recorded'[w] = 1 /\ customs'[w] = sent'[w]
      <4>1. w \in workers'
        BY <3>2 DEF RecvSummary, AssignInv, HandlerInv
      <4>2. ConnectionInv(w)
        BY <1>1 DEF TrafficInv
      <4>3. QED
        BY <3>2, <4>1, <4>2, SummaryConnection DEF Closes, WorkerIdle
    <3>3. QED
      BY <1>2, <3>1, <3>2, StepOfWorker DEF ResultInv
  <2>3. PhaseInv'
    BY <1>2, StepOfWorker DEF ResultsInv, PhaseInv
  <2>4. OutcomeInv'
    <3>1. /\ Cardinality(results) \in Nat /\ Cardinality(results') \in Nat
          /\ Cardinality(results) <= Cardinality(results')
      <4>1. IsFiniteSet(results') /\ results \subseteq results'
        BY <1>1, <1>2, StepOfWorker, ClusterAssumption, FS_Subset DEF TypeOK
      <4>2. QED
        BY <4>1, FS_Subset, FS_CardinalityType
    <3>2. done' => failures' # {} \/ Cardinality(results') >= Expect
      <4>1. failures \subseteq failures'
        BY <1>2, StepOfWorker
      <4>2. done => failures # {} \/ Cardinality(results) >= Expect
        BY DEF ResultsInv, OutcomeInv
      <4>3. done' => done \/ failures' # {} \/ Cardinality(results') >= Expect
        BY <1>2, StepOfWorker DEF AllResults
      <4>4. Cardinality(results) >= Expect => Cardinality(results') >= Expect
        BY <3>1, ClusterAssumption
      <4>5. QED
        BY <4>1, <4>2, <4>3, <4>4
    <3>3. /\ ctl' = "closing_done" => done'
          /\ ctl' = "returned" => done' /\ failures' = {}
      BY <1>2, StepOfWorker DEF ResultsInv, OutcomeInv, Outcomes, AllResults
    <3>4. ctl' \in Outcomes => \A x \in Worker : ~Open(x)'
      <4>1. \A x \in Worker \ {w} : Open(x)' = Open(x)
        BY <1>2, OthersQuiet DEF Quiet, Open
      <4>2. QED
        BY <1>2, <4>1, StepOfWorker DEF ResultsInv, OutcomeInv, Outcomes, Listening
    <3>5. QED
      BY <3>2, <3>3, <3>4 DEF OutcomeInv
  <2>5. QED
    BY <2>1, <2>2, <2>3, <2>4 DEF ResultsInv
<1>3. CASE StartRun
  <2>1. /\ ctl = "waiting_ready" /\ ctl' = "waiting_done" /\ start'
        /\ UNCHANGED <<done, ledger, handler, up, down, process>>
    BY <1>3 DEF StartRun
  <2>2. TrafficInv'
    <3>1. \A w \in Worker : Quiet(w)
      BY <2>1 DEF Quiet, ledger, process
    <3>2. QED
      BY <1>1, <3>1, QuietConnection DEF TrafficInv
  <2>3. QED
    BY <2>1, <2>2 DEF ResultsInv, ResultInv, PhaseInv, OutcomeInv, Outcomes, ledger, process
<1>4. ASSUME ReadyTimeout \/ DoneWakesRun \/ ServerClosed PROVE ResultsInv'
  <2>1. /\ UNCHANGED <<events, ledger, process>>
        /\ \/ /\ ctl' \in Closing /\ UNCHANGED <<handler, up, down>>
           \/ ctl' \in Outcomes /\ \E outcome \in Outcomes : RunEnds(outcome)
        /\ ctl' \in {"closing_timeout", "timed_out"} <=> ctl \in {"waiting_ready", "closing_timeout"}
        /\ ctl' \in {"closing_done", "returned", "failed"} <=> ctl \in {"waiting_done", "closing_done"}
        /\ ctl' = "closing_done" => done
        /\ ctl' = "returned" => done /\ failures = {}
    BY <1>4 DEF ReadyTimeout, DoneWakesRun, ServerClosed, RunEnds, Closing, Outcomes, Verdict,
                ResultsInv, OutcomeInv
  <2>2. CASE ctl' \in Closing /\ UNCHANGED <<handler, up, down>>
    <3>1. \A w \in Worker : Quiet(w)
      BY <2>1, <2>2 DEF Quiet, ledger, process
    <3>2. TrafficInv'
      BY <1>1, <3>1, QuietConnection DEF TrafficInv
    <3>3. QED
      BY <2>1, <2>2, <3>2
      DEF ResultsInv, ResultInv, PhaseInv, OutcomeInv, Outcomes, Closing, events, ledger, process
  <2>3. CASE ctl' \in Outcomes /\ \E outcome \in Outcomes : RunEnds(outcome)
    <3>1. /\ TrafficInv'
          /\ \A w \in Worker : ~Open(w)'
          /\ \A w \in Worker : handler[w] = "closed" => handler'[w] = "closed"
      BY <1>1, <2>1, <2>3, RunEndsTraffic
    <3>2. ResultInv'
      BY <2>1, <3>1 DEF ResultsInv, ResultInv, ledger, process, TypeOK
    <3>3. PhaseInv' /\ OutcomeInv'
      BY <2>1, <2>3, <3>1 DEF ResultsInv, PhaseInv, OutcomeInv, Outcomes, events, ledger
    <3>4. QED
      BY <3>1, <3>2, <3>3 DEF ResultsInv
  <2>4. QED
    BY <2>1, <2>2, <2>3
<1>5. CASE UNCHANGED vars
  <2>1. \A w \in Worker : Quiet(w)
    BY <1>5 DEF Quiet, vars, ledger, process
  <2>2. TrafficInv'
    BY <1>1, <2>1, QuietConnection DEF TrafficInv
  <2>3. QED
    BY <1>5, <2>2
    DEF ResultsInv, ResultInv, PhaseInv, OutcomeInv, Open, vars, events, ledger, process
<1>6. QED
  BY <1>2, <1>3, <1>4, <1>5 DEF Next, RunStep, Terminated

\* Init and every step keep a result behind all that its worker has sent.
THEOREM ResultsCorrect == Spec => []ResultsInv
<1>1. Init => ResultsInv
  <2> SUFFICES ASSUME Init PROVE ResultsInv
    OBVIOUS
  <2>1. ASSUME NEW w \in Worker PROVE ConnectionInv(w)
    BY DEF Init, ConnectionInv, FreshInv, TransitInv, RecordInv, Open, InQueue
  <2>2. QED
    BY <2>1 DEF Init, ResultsInv, TrafficInv, ResultInv, PhaseInv, OutcomeInv, Outcomes
<1>2. QED
  BY <1>1, ResultsInductive, TypeCorrect, AssignCorrect, PTL DEF Spec

\* All Expect slots have a result once run() has seen the end without a failure.
LEMMA ResultsFill ==
  ASSUME TypeOK, AssignInv, ResultsInv, done, failures = {}
  PROVE  /\ results = workers /\ Cardinality(workers) = Expect
         /\ \A p \in 0..Expect - 1 : \E w \in results : workerIndex[w] = p
<1>1. results \subseteq workers
  BY DEF ResultsInv, ResultInv
<1>2. /\ Cardinality(results) <= Cardinality(workers)
      /\ Cardinality(results) \in Nat /\ Cardinality(workers) \in Nat
      /\ Cardinality(results) = Cardinality(workers) => results = workers
  BY <1>1, WorkersFinite, FS_Subset, FS_CardinalityType
<1>3. Cardinality(results) >= Expect /\ Cardinality(workers) <= Expect
  BY DEF ResultsInv, OutcomeInv, AssignInv, SlotsInv
<1>4. results = workers /\ Cardinality(workers) = Expect
  BY <1>2, <1>3, ClusterAssumption
<1>5. QED
  BY <1>4 DEF AssignInv, SlotsInv

\* run() returns an aggregate only when every planned partition has been executed to its
\* end and nothing it sent is missing.
THEOREM CompleteAggregateHolds == Spec => []CompleteAggregate
<1>1. ASSUME TypeOK, AssignInv, ResultsInv, ctl = "returned"
      PROVE  \A p \in 0..Expect - 1 : \E w \in results :
               /\ part[w] = p /\ wpc[w] = "returned"
               /\ recorded[w] = 1 /\ customs[w] = sent[w]
  <2>1. \A p \in 0..Expect - 1 : \E w \in results : workerIndex[w] = p
    BY <1>1, ResultsFill DEF ResultsInv, OutcomeInv
  <2>2. \A w \in results : /\ part[w] = workerIndex[w] /\ wpc[w] = "returned"
                            /\ recorded[w] = 1 /\ customs[w] = sent[w]
    BY <1>1 DEF TypeOK, ResultsInv, ResultInv, AssignInv, AssignmentInv
  <2>3. QED
    BY <2>1, <2>2
<1>2. TypeOK /\ AssignInv /\ ResultsInv => CompleteAggregate
  BY <1>1 DEF CompleteAggregate
<1>3. QED
  BY <1>2, TypeCorrect, AssignCorrect, ResultsCorrect, PTL

-----------------------------------------------------------------------------
(* The run implements ClusterContract. *)

AssignedParts  == {part[w] : w \in {x \in Worker : part[x] # NoPart}}
\* The partitions whose results are in.
CompletedParts == {workerIndex[w] : w \in results}

\* The phase of the contract is where run() is.
LEMMA PhaseCases ==
  ASSUME TypeOK
  PROVE  /\ Phase = "forming" <=> ctl = "waiting_ready"
         /\ Phase = "timed_out" <=> ctl \in {"closing_timeout", "timed_out"}
         /\ Phase = "running" <=> ctl \in {"waiting_done", "closing_done"}
         /\ Phase = "returned" <=> ctl = "returned"
         /\ Phase = "failed" <=> ctl = "failed"
BY DEF TypeOK, Phase, Listening, Closing, Outcomes

\* Partitions are handed out by ReadAssignment only, and no result changes its slot.
LEMMA PartsOfStep ==
  ASSUME TypeOK, AssignInv, ResultsInv, NEW w \in Worker,
         HandlerStep(w) \/ WorkerStep(w) \/ SendCustom(w) \/ WorkerFails(w)
  PROVE  /\ part' = part \/ ReadAssignment(w)
         /\ \A x \in results : workerIndex'[x] = workerIndex[x]
         /\ RecvSummary(w) \/ ReadAssignment(w) => UNCHANGED workerIndex
<1>1. CASE RegisterWorker(w)
  <2>1. w \notin workers
    BY <1>1 DEF RegisterWorker, AssignInv, HandlerInv
  <2>2. w \notin results
    BY <2>1 DEF ResultsInv, ResultInv
  <2>3. part' = part /\ workerIndex' = [workerIndex EXCEPT ![w] = Cardinality(Taken)]
        /\ handler[w] = "hello" /\ wpc' = wpc
    BY <1>1 DEF RegisterWorker, process
  <2>4. ~RecvSummary(w) /\ ~ReadAssignment(w)
    BY <2>3 DEF RecvSummary, ReadAssignment, WorkerGoes, TypeOK
  <2>5. QED
    BY <2>2, <2>3, <2>4 DEF TypeOK
<1>2. CASE RejectHello(w) \/ WorkerReady(w) \/ SendAssignment(w) \/ RecvCustom(w)
           \/ RecvMetricBatch(w) \/ RecvSummary(w) \/ ConnectionFails(w)
  BY <1>2 DEF RejectHello, WorkerReady, SendAssignment, RecvCustom, RecvMetricBatch, RecvSummary,
              ConnectionFails, ledger, process
<1>3. CASE WorkerStep(w) \/ SendCustom(w) \/ WorkerFails(w)
  BY <1>3 DEF WorkerStep, SendCustom, WorkerFails, Connect, ConnectionRefused, SendHello,
              ReadHelloAck, SyncBundle, ReadAssignment, ReadStartRun, SendMetricBatch, SendSummary,
              WorkerReadsEof, ledger
<1>4. QED
  BY <1>1, <1>2, <1>3 DEF HandlerStep

\* A step of a handler or a worker is one of the contract or a stutter.
LEMMA ContractOfWorker ==
  ASSUME TypeOK, AssignInv, ResultsInv, TypeOK', AssignInv', ResultsInv', NEW w \in Worker,
         HandlerStep(w) \/ WorkerStep(w) \/ SendCustom(w) \/ WorkerFails(w)
  PROVE  [Contract!Next]_(Contract!contractVars)
<1>1. Phase' = Phase
  BY StepOfWorker DEF Phase
<1>2. CASE ReadAssignment(w)
  <2>1. /\ InQueue(down[w], "assign_partition") /\ w \in workers /\ start
        /\ part' = [part EXCEPT ![w] = workerIndex[w]] /\ wpc[w] = "sync"
        /\ UNCHANGED <<results, workerIndex>>
    BY <1>2, ReadMessage DEF ReadAssignment, WorkerGoes, AssignInv, AssignmentInv, ledger
  <2>2. workerIndex[w] \in 0..Expect - 1 /\ workerIndex[w] # NoPart
    BY <2>1, WorkersFinite, ClusterAssumption DEF AssignInv, SlotsInv, NoPart
  <2>3. CompletedParts' = CompletedParts
    BY <2>1 DEF CompletedParts
  <2>4. AssignedParts' = AssignedParts \cup {workerIndex[w]}
    <3>1. part[w] # NoPart => part[w] = workerIndex[w]
      BY DEF AssignInv, AssignmentInv
    <3>2. \A x \in Worker : part'[x] = IF x = w THEN workerIndex[w] ELSE part[x]
      BY <2>1 DEF TypeOK
    <3>3. QED
      BY <2>2, <3>1, <3>2 DEF AssignedParts
  <2>5. Phase \in {"running", "failed"}
    <3>1. ctl # "returned"
      <4>1. ASSUME ctl = "returned" PROVE FALSE
        <5>1. results = workers
          BY <4>1, ResultsFill DEF ResultsInv, OutcomeInv
        <5>2. QED
          BY <2>1, <5>1 DEF ResultsInv, ResultInv
      <4>2. QED
        BY <4>1
    <3>2. ctl \in {"waiting_done", "closing_done", "failed"}
      BY <2>1, <3>1 DEF TypeOK, ResultsInv, PhaseInv, Listening, Closing, Outcomes
    <3>3. QED
      BY <3>2, PhaseCases
  <2>6. CASE workerIndex[w] \in AssignedParts
    BY <1>1, <2>3, <2>4, <2>6 DEF Contract!contractVars, AssignedParts, CompletedParts
  <2>7. CASE workerIndex[w] \notin AssignedParts
    <3>1. PICK p \in 0..Expect - 1 : p = workerIndex[w]
      BY <2>2
    <3>2. Contract!Assign(p)
      BY <1>1, <2>3, <2>4, <2>5, <2>7, <3>1 DEF Contract!Assign, AssignedParts, CompletedParts
    <3>3. QED
      BY <3>2 DEF Contract!Next, Contract!Partition
  <2>8. QED
    BY <2>6, <2>7
<1>3. CASE RecvSummary(w)
  <2>1. /\ results' = results \cup {w} /\ w \notin results /\ Open(w)
        /\ part' = part /\ workerIndex' = workerIndex
    BY <1>3, StepOfWorker, PartsOfStep DEF RecvSummary, Open, process
  <2>2. part[w] # NoPart /\ part[w] = workerIndex[w] /\ w \in workers /\ start
    BY <1>3, SummaryConnection DEF ResultsInv, TrafficInv, AssignInv, AssignmentInv
  <2>3. AssignedParts' = AssignedParts /\ workerIndex[w] \in AssignedParts
    BY <2>1, <2>2 DEF AssignedParts
  <2>4. CompletedParts' = CompletedParts \cup {workerIndex[w]}
    BY <2>1 DEF CompletedParts
  <2>5. workerIndex[w] \notin CompletedParts
    BY <2>1, <2>2 DEF CompletedParts, ResultsInv, ResultInv, AssignInv, SlotsInv
  <2>6. Phase = "running"
    BY <2>1, <2>2, PhaseCases DEF TypeOK, ResultsInv, PhaseInv, OutcomeInv, Listening, Closing, Outcomes
  <2>7. workerIndex[w] \in 0..Expect - 1
    BY <2>2, WorkersFinite, ClusterAssumption DEF AssignInv, SlotsInv
  <2>8. PICK p \in 0..Expect - 1 : p = workerIndex[w]
    BY <2>7
  <2>9. Contract!Complete(p)
    BY <1>1, <2>3, <2>4, <2>5, <2>6, <2>8 DEF Contract!Complete, AssignedParts, CompletedParts
  <2>10. QED
    BY <2>9 DEF Contract!Next, Contract!Partition
<1>4. CASE ~ReadAssignment(w) /\ ~RecvSummary(w)
  <2>1. part' = part /\ results' = results /\ \A x \in results : workerIndex'[x] = workerIndex[x]
    BY <1>4, StepOfWorker, PartsOfStep
  <2>2. AssignedParts' = AssignedParts /\ CompletedParts' = CompletedParts
    BY <2>1 DEF AssignedParts, CompletedParts
  <2>3. QED
    BY <1>1, <2>2 DEF Contract!contractVars, AssignedParts, CompletedParts
<1>5. QED
  BY <1>2, <1>3, <1>4

\* A step of run() is one of the contract or a stutter.
LEMMA ContractOfRun ==
  ASSUME TypeOK, AssignInv, ResultsInv, TypeOK', RunStep
  PROVE  [Contract!Next]_(Contract!contractVars)
<1>1. UNCHANGED <<ledger, process>>
  BY DEF RunStep, StartRun, ReadyTimeout, DoneWakesRun, ServerClosed
<1>2. AssignedParts' = AssignedParts /\ CompletedParts' = CompletedParts
  BY <1>1 DEF AssignedParts, CompletedParts, ledger, process
<1>3. CASE StartRun
  <2>1. Phase = "forming" /\ Phase' = "running"
    BY <1>3, PhaseCases DEF StartRun, Phase
  <2>2. Contract!Begin
    BY <1>2, <2>1 DEF Contract!Begin, AssignedParts, CompletedParts
  <2>3. QED
    BY <2>2 DEF Contract!Next
<1>4. CASE ReadyTimeout
  <2>1. Phase = "forming" /\ Phase' = "timed_out"
    BY <1>4, PhaseCases DEF ReadyTimeout, RunEnds, Phase
  <2>2. Contract!TimeOut
    BY <1>2, <2>1 DEF Contract!TimeOut, AssignedParts, CompletedParts
  <2>3. QED
    BY <2>2 DEF Contract!Next
<1>5. CASE ctl' = "closing_done" \/ ctl = "closing_timeout"
  <2>1. Phase' = Phase
    BY <1>5 DEF RunStep, StartRun, ReadyTimeout, DoneWakesRun, ServerClosed, RunEnds, Phase, Verdict, Closing
  <2>2. QED
    BY <1>2, <2>1 DEF Contract!contractVars, AssignedParts, CompletedParts
<1>6. CASE /\ ctl \in {"waiting_done", "closing_done"} /\ ctl' = Verdict
           /\ done
  <2>1. Phase = "running"
    BY <1>6, PhaseCases
  <2>2. CASE failures # {}
    <3>1. Phase' = "failed"
      BY <1>6, <2>2 DEF Phase, Verdict
    <3>2. Contract!Fail
      BY <1>2, <2>1, <3>1 DEF Contract!Fail, AssignedParts, CompletedParts
    <3>3. QED
      BY <3>2 DEF Contract!Next
  <2>3. CASE failures = {}
    <3>1. Phase' = "returned"
      BY <1>6, <2>3 DEF Phase, Verdict
    <3>2. CompletedParts = 0..Expect - 1
      BY <1>6, <2>3, ResultsFill, WorkersFinite DEF CompletedParts, AssignInv, SlotsInv
    <3>3. Contract!Return
      BY <1>2, <2>1, <3>1, <3>2 DEF Contract!Return, Contract!Partition, AssignedParts, CompletedParts
    <3>4. QED
      BY <3>3 DEF Contract!Next
  <2>4. QED
    BY <2>2, <2>3
<1>7. QED
  BY <1>3, <1>4, <1>5, <1>6
  DEF RunStep, DoneWakesRun, ServerClosed, RunEnds, Closing, ResultsInv, OutcomeInv

\* Every behaviour of the run is one of ClusterContract: the connections, messages, joins,
\* failures and the two ways of closing the server add nothing to what the contract allows.
THEOREM ContractImplemented == Spec => ImplementsContract
<1>1. Init => Contract!Init
  <2> SUFFICES ASSUME Init PROVE Contract!Init
    OBVIOUS
  <2>1. Phase = "forming"
    BY DEF Init, Phase
  <2>2. AssignedParts = {} /\ CompletedParts = {}
    BY DEF Init, AssignedParts, CompletedParts
  <2>3. QED
    BY <2>1, <2>2 DEF Contract!Init, AssignedParts, CompletedParts
<1>2. ASSUME TypeOK, AssignInv, ResultsInv, TypeOK', AssignInv', ResultsInv', [Next]_vars
      PROVE  [Contract!Next]_(Contract!contractVars)
  <2>1. CASE RunStep
    BY <1>2, <2>1, ContractOfRun
  <2>2. ASSUME NEW w \in Worker,
               HandlerStep(w) \/ WorkerStep(w) \/ SendCustom(w) \/ WorkerFails(w)
        PROVE  [Contract!Next]_(Contract!contractVars)
    BY <1>2, <2>2, ContractOfWorker
  <2>3. CASE UNCHANGED vars
    BY <2>3 DEF Contract!contractVars, Phase, vars, ledger, process
  <2>4. QED
    BY <1>2, <2>1, <2>2, <2>3 DEF Next, Terminated
<1>3. QED
  BY <1>1, <1>2, TypeCorrect, AssignCorrect, ResultsCorrect, PTL
  DEF Spec, ImplementsContract, Contract!Spec

=============================================================================
