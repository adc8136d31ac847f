----------------------------- MODULE ClusterRun -----------------------------
(***************************************************************************)
(* One networked distributed run: a controller (NetworkDistributedController*)
(* in distributed_network.py), the connection handler it runs for every    *)
(* accepted connection, and the worker processes that connect to it        *)
(* (NetworkDistributedWorker).                                             *)
(*                                                                         *)
(* The controller is single threaded (asyncio): one action is what a task  *)
(* does between two awaits that really wait for another party.  Each       *)
(* connection is a pair of FIFO queues of message types; "EOF" is the end  *)
(* of the stream.  A worker connects once, so the connection is named by   *)
(* its worker.  What the messages carry is abstracted to what is counted:  *)
(* the one batch of metric events, the custom messages, the summary.       *)
(***************************************************************************)
EXTENDS Integers, Sequences, FiniteSets

CONSTANTS
  Worker,          \* worker processes that may connect to the controller
  NodeId,          \* node identifiers
  NodeOf,          \* NodeOf[w]: the node_id worker w sends in its hello
  Expect,          \* expect_workers of the controller
  BadToken,        \* workers started with another cluster token
  OversizedBatch,  \* workers whose metric batch may exceed MAX_FRAME_BYTES
  MaxCustom,       \* bound: custom messages one worker sends in its run
  WaitsForClients  \* Server.wait_closed waits for open connections
                   \* (CPython >= 3.12.1) or returns at once (3.11)

ASSUME ClusterAssumption ==
  /\ IsFiniteSet(Worker)
  /\ NodeOf \in [Worker -> NodeId]
  /\ Expect \in Nat \ {0}
  /\ BadToken \subseteq Worker
  /\ OversizedBatch \subseteq Worker
  /\ MaxCustom \in Nat
  /\ WaitsForClients \in BOOLEAN

VARIABLES
  ctl,          \* where NetworkDistributedController.run is
  ready,        \* the event _ready
  start,        \* the event _start
  done,         \* the event _done
  workers,      \* connections registered in _workers
  workerIndex,  \* worker_index of a registered connection
  state,        \* _WorkerConnection.state
  results,      \* connections with an entry in _worker_results
  failures,     \* connections whose handler appended to _failures
  seen,         \* seen_sequences of a handler
  recorded,     \* metric batches of a worker recorded in _metrics
  customs,      \* custom messages of a worker in _custom_messages
  handler,      \* where _handle_worker is for a connection
  up,           \* bytes in flight from the worker to the controller
  down,         \* bytes in flight from the controller to the worker
  wpc,          \* where NetworkDistributedWorker.run is
  part,         \* the worker_index of the assignment a worker received
  sent          \* custom messages a worker has sent

events  == <<ready, start, done>>
ledger  == <<workers, workerIndex, state, results, failures, seen, recorded, customs>>
process == <<wpc, part, sent>>
vars    == <<ctl, events, ledger, handler, up, down, process>>

-----------------------------------------------------------------------------

NoPart == -1
BatchSequence == 1          \* a worker sends its events in one batch, sequence 1

Listening == {"waiting_ready", "waiting_done"}
Closing   == {"closing_timeout", "closing_done"}
Outcomes  == {"returned", "failed", "timed_out"}

UpTypes   == {"hello", "sync_complete", "custom", "metric_batch", "worker_summary", "EOF"}
DownTypes == {"hello_ack", "bundle_data", "assign_partition", "start_run",
              "metric_batch_ack", "EOF"}

Ended == {"returned", "failed"}    \* a worker process that is over

Open(w)   == handler[w] \notin {"none", "closed"}
HeadIs(queue, type) == queue # <<>> /\ Head(queue) = type

Init ==
  /\ ctl = "waiting_ready"
  /\ ready = FALSE /\ start = FALSE /\ done = FALSE
  /\ workers = {}
  /\ workerIndex = [w \in Worker |-> NoPart]
  /\ state = [w \in Worker |-> "none"]
  /\ results = {}
  /\ failures = {}
  /\ seen = [w \in Worker |-> {}]
  /\ recorded = [w \in Worker |-> 0]
  /\ customs = [w \in Worker |-> 0]
  /\ handler = [w \in Worker |-> "none"]
  /\ up = [w \in Worker |-> <<>>]
  /\ down = [w \in Worker |-> <<>>]
  /\ wpc = [w \in Worker |-> "idle"]
  /\ part = [w \in Worker |-> NoPart]
  /\ sent = [w \in Worker |-> 0]

-----------------------------------------------------------------------------
(* The streams. *)

\* The controller writes messages on a connection (read_message pairs with it).
ControllerSends(w, types) == down' = [down EXCEPT ![w] = @ \o types]

\* A worker writes one message; on a connection the controller has closed it is lost.
WorkerSends(w, type) ==
  up' = IF Open(w) THEN [up EXCEPT ![w] = Append(@, type)] ELSE up

\* The worker's end is closed after it sent everything, or resets and loses a suffix.
WorkerEndCloses(w, kept) ==
  up' = IF Open(w) THEN [up EXCEPT ![w] = Append(SubSeq(@, 1, kept), "EOF")] ELSE up

\* The "finally" of _handle_worker: writer.close().
HandlerCloses(w) ==
  /\ handler' = [handler EXCEPT ![w] = "closed"]
  /\ up' = [up EXCEPT ![w] = <<>>]
  /\ down' = [down EXCEPT ![w] = Append(@, "EOF")]

-----------------------------------------------------------------------------
(* _handle_worker: one task per connection. *)

\* Mutant: the failure is noted but nobody wakes run().
HandlerFails_NoDone(w) ==
  /\ HandlerCloses(w)
  /\ failures' = IF start THEN failures \cup {w} ELSE failures
  /\ UNCHANGED done

\* "except Exception": a failure counts only once the run has been started.
HandlerFails(w) ==
  /\ HandlerCloses(w)
  /\ failures' = IF start THEN failures \cup {w} ELSE failures
  /\ done' = (done \/ start)

\* Mutant: the slot of a connection that broke before the start is free again.
Taken_Live == {w \in workers : Open(w)}

\* The entries of _workers.  None is ever removed, whatever becomes of its connection.
Taken == workers

HelloAccepted(w) ==
  /\ HeadIs(up[w], "hello")
  /\ w \notin BadToken
  /\ \A x \in Taken : NodeOf[x] # NodeOf[w]
  /\ Cardinality(Taken) < Expect

RegisterWorker(w) ==
  /\ handler[w] = "hello"
  /\ HelloAccepted(w)
  /\ workers' = workers \cup {w}
  /\ workerIndex' = [workerIndex EXCEPT ![w] = Cardinality(Taken)]
  /\ state' = [state EXCEPT ![w] = "registered"]
  /\ up' = [up EXCEPT ![w] = Tail(@)]
  /\ ControllerSends(w, <<"hello_ack", "bundle_data">>)
  /\ handler' = [handler EXCEPT ![w] = "sync"]
  /\ UNCHANGED <<ctl, events, results, failures, seen, recorded, customs, process>>

\* Wrong signature, duplicate node id, too many workers, or the stream ended.
RejectHello(w) ==
  /\ handler[w] = "hello"
  /\ up[w] # <<>>
  /\ ~HelloAccepted(w)
  /\ HandlerFails(w)
  /\ UNCHANGED <<ctl, ready, start, workers, workerIndex, state, results, seen,
                 recorded, customs, process>>

\* Mutant: the barrier counts registered workers, synchronised or not.
AllReady_Registered(states) == Cardinality(workers) >= Expect

AllReady(states) == Cardinality({x \in workers : states[x] = "ready"}) >= Expect

WorkerReady(w) ==
  /\ handler[w] = "sync"
  /\ HeadIs(up[w], "sync_complete")
  /\ up' = [up EXCEPT ![w] = Tail(@)]
  /\ state' = [state EXCEPT ![w] = "ready"]
  /\ ready' = (ready \/ AllReady(state'))
  /\ handler' = [handler EXCEPT ![w] = "barrier"]
  /\ UNCHANGED <<ctl, start, done, workers, workerIndex, results, failures, seen,
                 recorded, customs, down, process>>

\* After await _start.wait(): _send_assignment, then start_run.
SendAssignment(w) ==
  /\ handler[w] = "barrier"
  /\ start
  /\ ControllerSends(w, <<"assign_partition", "start_run">>)
  /\ handler' = [handler EXCEPT ![w] = "receiving"]
  /\ UNCHANGED <<ctl, events, ledger, up, process>>

RecvCustom(w) ==
  /\ handler[w] = "receiving"
  /\ HeadIs(up[w], "custom")
  /\ up' = [up EXCEPT ![w] = Tail(@)]
  /\ customs' = [customs EXCEPT ![w] = @ + 1]
  /\ UNCHANGED <<ctl, events, workers, workerIndex, state, results, failures, seen,
                 recorded, handler, down, process>>

\* A batch is recorded unless its sequence was seen; it is acknowledged either way.
RecvMetricBatch(w) ==
  /\ handler[w] = "receiving"
  /\ HeadIs(up[w], "metric_batch")
  /\ up' = [up EXCEPT ![w] = Tail(@)]
  /\ seen' = [seen EXCEPT ![w] = @ \cup {BatchSequence}]
  /\ recorded' = [recorded EXCEPT ![w] = IF BatchSequence \in seen[w] THEN @ ELSE @ + 1]
  /\ ControllerSends(w, <<"metric_batch_ack">>)
  /\ UNCHANGED <<ctl, events, workers, workerIndex, state, results, failures, customs,
                 handler, process>>

\* Mutant: one result too many is waited for.
AllResults_OffByOne(received) == Cardinality(received) > Expect

AllResults(received) == Cardinality(received) >= Expect

RecvSummary(w) ==
  /\ handler[w] = "receiving"
  /\ HeadIs(up[w], "worker_summary")
  /\ state' = [state EXCEPT ![w] = "stopped"]
  /\ results' = results \cup {w}
  /\ done' = (done \/ AllResults(results'))
  /\ HandlerCloses(w)
  /\ UNCHANGED <<ctl, ready, start, workers, workerIndex, failures, seen, recorded,
                 customs, process>>

\* The stream ended while the handler reads, or the batch is over the frame limit.
ConnectionFails(w) ==
  /\ \/ handler[w] \in {"sync", "receiving"} /\ HeadIs(up[w], "EOF")
     \/ /\ handler[w] = "receiving"
        /\ HeadIs(up[w], "metric_batch")
        /\ w \in OversizedBatch
  /\ HandlerFails(w)
  /\ UNCHANGED <<ctl, ready, start, workers, workerIndex, state, results, seen,
                 recorded, customs, process>>

-----------------------------------------------------------------------------
(* NetworkDistributedController.run. *)

\* Mutant: the streams of the workers are left open.
RunEnds_LeavesOpen(outcome) ==
  /\ ctl' = outcome
  /\ UNCHANGED <<handler, up, down>>

\* run() ends; the tasks still there are cancelled and close their streams.
RunEnds(outcome) ==
  /\ ctl' = outcome
  /\ handler' = [w \in Worker |-> IF Open(w) THEN "closed" ELSE handler[w]]
  /\ up' = [w \in Worker |-> IF Open(w) THEN <<>> ELSE up[w]]
  /\ down' = [w \in Worker |-> IF Open(w) THEN Append(down[w], "EOF") ELSE down[w]]

\* Mutant: failures are not looked at.
Verdict_Lenient == "returned"

Verdict == IF failures # {} THEN "failed" ELSE "returned"

\* wait_for(_ready.wait(), ready_timeout_seconds) returns: _start.set().
StartRun ==
  /\ ctl = "waiting_ready"
  /\ ready
  /\ start' = TRUE
  /\ ctl' = "waiting_done"
  /\ UNCHANGED <<ready, done, ledger, handler, up, down, process>>

\* The timeout may still win when _ready was set but run() has not been resumed.
ReadyTimeout ==
  /\ ctl = "waiting_ready"
  /\ IF WaitsForClients
     THEN ctl' = "closing_timeout" /\ UNCHANGED <<handler, up, down>>
     ELSE RunEnds("timed_out")
  /\ UNCHANGED <<events, ledger, process>>

DoneWakesRun ==
  /\ ctl = "waiting_done"
  /\ done
  /\ IF WaitsForClients
     THEN ctl' = "closing_done" /\ UNCHANGED <<handler, up, down>>
     ELSE RunEnds(Verdict)
  /\ UNCHANGED <<events, ledger, process>>

\* "async with self._server" has awaited wait_closed: no connection is open any more.
ServerClosed ==
  /\ ctl \in Closing
  /\ \A w \in Worker : ~Open(w)
  /\ RunEnds(IF ctl = "closing_timeout" THEN "timed_out" ELSE Verdict)
  /\ UNCHANGED <<events, ledger, process>>

-----------------------------------------------------------------------------
(* NetworkDistributedWorker.run. *)

\* The worker moves on; on the way it leaves its partition and counters alone.
WorkerGoes(w, from, to) ==
  /\ wpc[w] = from
  /\ wpc' = [wpc EXCEPT ![w] = to]

WorkerReads(w, type) ==
  /\ HeadIs(down[w], type)
  /\ down' = [down EXCEPT ![w] = Tail(@)]

\* open_connection; the server starts a handler that waits for the hello.
Connect(w) ==
  /\ WorkerGoes(w, "idle", "connected")
  /\ ctl \in Listening
  /\ handler' = [handler EXCEPT ![w] = "hello"]
  /\ UNCHANGED <<ctl, events, ledger, up, down, part, sent>>

ConnectionRefused(w) ==
  /\ WorkerGoes(w, "idle", "failed")
  /\ ctl \notin Listening
  /\ UNCHANGED <<ctl, events, ledger, handler, up, down, part, sent>>

SendHello(w) ==
  /\ WorkerGoes(w, "connected", "hello")
  /\ WorkerSends(w, "hello")
  /\ UNCHANGED <<ctl, events, ledger, handler, down, part, sent>>

ReadHelloAck(w) ==
  /\ WorkerGoes(w, "hello", "bundle")
  /\ WorkerReads(w, "hello_ack")
  /\ UNCHANGED <<ctl, events, ledger, handler, up, part, sent>>

\* bundle_data is read and extracted; then sync_complete.
SyncBundle(w) ==
  /\ WorkerGoes(w, "bundle", "sync")
  /\ WorkerReads(w, "bundle_data")
  /\ WorkerSends(w, "sync_complete")
  /\ UNCHANGED <<ctl, events, ledger, handler, part, sent>>

ReadAssignment(w) ==
  /\ WorkerGoes(w, "sync", "assigned")
  /\ WorkerReads(w, "assign_partition")
  /\ part' = [part EXCEPT ![w] = workerIndex[w]]
  /\ UNCHANGED <<ctl, events, ledger, handler, up, sent>>

ReadStartRun(w) ==
  /\ WorkerGoes(w, "assigned", "running")
  /\ WorkerReads(w, "start_run")
  /\ UNCHANGED <<ctl, events, ledger, handler, up, part, sent>>

\* A user of the running partition calls cluster.send.
SendCustom(w) ==
  /\ wpc[w] = "running"
  /\ sent[w] < MaxCustom
  /\ sent' = [sent EXCEPT ![w] = @ + 1]
  /\ WorkerSends(w, "custom")
  /\ UNCHANGED <<ctl, events, ledger, handler, down, wpc, part>>

\* The partition has been executed: its events go out in one batch.
SendMetricBatch(w) ==
  /\ WorkerGoes(w, "running", "batch_sent")
  /\ WorkerSends(w, "metric_batch")
  /\ UNCHANGED <<ctl, events, ledger, handler, down, part, sent>>

\* The acknowledgement is in: worker_summary, writer.close(), return.
SendSummary(w) ==
  /\ WorkerGoes(w, "batch_sent", "returned")
  /\ WorkerReads(w, "metric_batch_ack")
  /\ up' = IF Open(w) THEN [up EXCEPT ![w] = @ \o <<"worker_summary", "EOF">>] ELSE up
  /\ UNCHANGED <<ctl, events, ledger, handler, part, sent>>

\* read_message raises: the controller has closed the connection.
WorkerReadsEof(w) ==
  /\ wpc[w] \in {"hello", "bundle", "sync", "assigned", "batch_sent"}
  /\ WorkerReads(w, "EOF")
  /\ wpc' = [wpc EXCEPT ![w] = "failed"]
  /\ WorkerEndCloses(w, Len(up[w]))
  /\ UNCHANGED <<ctl, events, ledger, handler, part, sent>>

\* The process dies, the bundle cannot be extracted, or the scenario raises.
WorkerFails(w) ==
  /\ wpc[w] \notin Ended \cup {"idle"}
  /\ wpc' = [wpc EXCEPT ![w] = "failed"]
  /\ \E kept \in 0..Len(up[w]) : WorkerEndCloses(w, kept)
  /\ UNCHANGED <<ctl, events, ledger, handler, down, part, sent>>

-----------------------------------------------------------------------------

HandlerStep(w) ==
  \/ RegisterWorker(w)
  \/ RejectHello(w)
  \/ WorkerReady(w)
  \/ SendAssignment(w)
  \/ RecvCustom(w)
  \/ RecvMetricBatch(w)
  \/ RecvSummary(w)
  \/ ConnectionFails(w)

WorkerStep(w) ==
  \/ Connect(w)
  \/ ConnectionRefused(w)
  \/ SendHello(w)
  \/ ReadHelloAck(w)
  \/ SyncBundle(w)
  \/ ReadAssignment(w)
  \/ ReadStartRun(w)
  \/ SendMetricBatch(w)
  \/ SendSummary(w)
  \/ WorkerReadsEof(w)

RunStep ==
  \/ StartRun
  \/ ReadyTimeout
  \/ DoneWakesRun
  \/ ServerClosed

\* Everybody is done: the processes have exited.
Terminated ==
  /\ ctl \in Outcomes
  /\ \A w \in Worker : wpc[w] \in Ended
  /\ UNCHANGED vars

Next ==
  \/ RunStep
  \/ \E w \in Worker : HandlerStep(w) \/ WorkerStep(w) \/ SendCustom(w) \/ WorkerFails(w)
  \/ Terminated

Spec == Init /\ [][Next]_vars

\* The event loop runs every task that can run, a timer expires, and a worker
\* process that is not killed goes on: its users stop and its reads return.
Fairness ==
  /\ WF_vars(RunStep)
  /\ \A w \in Worker : WF_vars(HandlerStep(w)) /\ WF_vars(WorkerStep(w))

FairSpec == Spec /\ Fairness

-----------------------------------------------------------------------------
(* Properties. *)

\* Every variable has its type.
TypeOK ==
  /\ ctl \in Listening \cup Closing \cup Outcomes
  /\ ready \in BOOLEAN /\ start \in BOOLEAN /\ done \in BOOLEAN
  /\ workers \subseteq Worker
  /\ workerIndex \in [Worker -> Nat \cup {NoPart}]
  /\ state \in [Worker -> {"none", "registered", "ready", "stopped"}]
  /\ results \subseteq Worker
  /\ failures \subseteq Worker
  /\ seen \in [Worker -> SUBSET {BatchSequence}]
  /\ recorded \in [Worker -> Nat]
  /\ customs \in [Worker -> Nat]
  /\ handler \in [Worker -> {"none", "hello", "sync", "barrier", "receiving", "closed"}]
  /\ up \in [Worker -> Seq(UpTypes)]
  /\ down \in [Worker -> Seq(DownTypes)]
  /\ wpc \in [Worker -> {"idle", "connected", "hello", "bundle", "sync", "assigned",
                         "running", "batch_sent"} \cup Ended]
  /\ part \in [Worker -> Nat \cup {NoPart}]
  /\ sent \in [Worker -> 0..MaxCustom]

\* No two workers ever execute the same partition, and every partition handed out is
\* one of the Expect planned ones: worker_index is len(_workers) at registration, and
\* that stays unique only because no slot is ever given up.
UniquePartition ==
  \A w \in Worker : part[w] # NoPart =>
    /\ part[w] \in 0..Expect - 1
    /\ \A x \in Worker \ {w} : part[x] # part[w]

\* A worker gets a partition only after all Expect registered workers have confirmed
\* the bundle: the start barrier cannot open early, whatever joins, dies or is rejected.
StartBarrier ==
  \A w \in Worker : part[w] # NoPart =>
    /\ start
    /\ Cardinality(workers) = Expect
    /\ \A x \in workers : state[x] \in {"ready", "stopped"}

\* run() returns an aggregate only when it is complete: each planned partition has a
\* result of a worker that ran it to the end, its batch of events was recorded exactly
\* once and none of its custom messages is missing.
CompleteAggregate ==
  ctl = "returned" =>
    \A p \in 0..Expect - 1 : \E w \in results :
      /\ part[w] = p
      /\ wpc[w] = "returned"
      /\ recorded[w] = 1
      /\ customs[w] = sent[w]

\* The promise of a run, stated without connections (refinement).
Phase == CASE ctl = "waiting_ready" -> "forming"
           [] ctl \in {"closing_timeout", "timed_out"} -> "timed_out"
           [] ctl \in {"waiting_done", "closing_done"} -> "running"
           [] OTHER -> ctl

Contract == INSTANCE ClusterContract WITH
  phase <- Phase,
  assigned <- {part[w] : w \in {x \in Worker : part[x] # NoPart}},
  completed <- {workerIndex[w] : w \in results}

\* The run implements ClusterContract.
ImplementsContract == Contract!Spec

\* run() ends, with a result, a worker's failure or the ready timeout, and its end reaches
\* every worker process, also those still executing.  On an interpreter whose wait_closed
\* returns at once this needs only fair tasks.
EverybodyEnds == <>[](ctl \in Outcomes /\ \A w \in Worker : wpc[w] \in Ended)

\* A failed connection of a started run ends it and is reported by run(), never swallowed
\* by results that come in afterwards.
FailureSurfaces == (failures # {}) ~> (ctl = "failed")

\* If no connection fails after the start, that of a rejected process included, and the
\* timeout does not fire, run() returns a result, whoever was rejected before.  With
\* FailureSurfaces: a started run ends on every interpreter.
GoodRunReturns ==
  [](failures = {} /\ ctl \notin {"closing_timeout", "timed_out"}) => <>(ctl = "returned")

\* The ready timeout surfaces as a TimeoutError of run().
TimeoutSurfaces == (ctl = "closing_timeout") ~> (ctl = "timed_out")

=============================================================================
