---------------------------- MODULE ServerStartup ----------------------------
(***************************************************************************)
(* The boot and shutdown sequence of a GAIA-Server process,                *)
(* gaia_server/entrypoint.py, with what it calls: create_registry and its  *)
(* idempotent bootstrap (storage/factory.py, storage/bootstrap.py), the    *)
(* health checks of the stores and their aggregation (storage/registry.py, *)
(* health.py).                                                             *)
(*                                                                         *)
(* Several replicas boot against the same NATS, MinIO and etcd.  Every     *)
(* request to a store is a step of its own, so the replicas' look-then-    *)
(* create sequences interleave; stores go away and come back, processes    *)
(* die at any point and are started again by the orchestrator of the       *)
(* containers, and an operator may change a stream after it was created.   *)
(***************************************************************************)
EXTENDS Naturals

CONSTANTS
  Servers,     \* the replicas
  N,           \* number of canonical streams: 5 in the code
  MaxFaults,   \* bound: store outages and process deaths
  MaxSignals   \* bound: SIGINT and SIGTERM

ASSUME NAssumption == N \in Nat \ {0}
ASSUME BoundAssumption == MaxFaults \in Nat /\ MaxSignals \in Nat

\* The canonical streams, in the order in which _STREAMS lists them.
Streams == 1 .. N
Stores  == {"nats", "minio", "etcd"}

VARIABLES
  pc,        \* pc[s]: where main() of s is
  next,      \* next[s]: the stream ensure_streams is at
  waiting,   \* waiting[s]: stores whose health check has not returned
  failed,    \* failed[s]: stores whose health check returned an error
  stop,      \* stop[s]: the stop event is set
  code,      \* code[s]: how the process ended
  streams,   \* streams[i]: "absent", "canonical", or "tuned" by the operator
  bucket,    \* the MinIO bucket exists
  up,        \* external: the stores that answer
  faults, signals

boot   == <<next, waiting, failed>>
proc   == <<pc, boot, stop, code>>
shared == <<streams, bucket>>
env    == <<up, faults, signals>>
vars   == <<proc, shared, env>>

Starting == {"connect", "find", "add", "bucket", "make", "wire", "probe"}
Running  == Starting \cup {"ready", "draining"}

Init ==
  /\ pc = [s \in Servers |-> "exited"]
  /\ next = [s \in Servers |-> 1]
  /\ waiting = [s \in Servers |-> {}]
  /\ failed = [s \in Servers |-> {}]
  /\ stop = [s \in Servers |-> FALSE]
  /\ code = [s \in Servers |-> "killed"]
  /\ streams \in [Streams -> {"absent", "canonical", "tuned"}]
  /\ bucket \in BOOLEAN
  /\ up = Stores
  /\ faults = 0
  /\ signals = 0

-----------------------------------------------------------------------------
Goto(s, step) == pc' = [pc EXCEPT ![s] = step] /\ UNCHANGED <<stop, code>>

Exit(s, how) ==
  /\ pc' = [pc EXCEPT ![s] = "exited"]
  /\ code' = [code EXCEPT ![s] = how]
  /\ UNCHANGED stop

\* The process is started (again): python -m gaia_server.
Boot(s) ==
  /\ pc[s] = "exited"
  /\ pc' = [pc EXCEPT ![s] = "connect"]
  /\ next' = [next EXCEPT ![s] = 1]
  /\ waiting' = [waiting EXCEPT ![s] = {}]
  /\ failed' = [failed EXCEPT ![s] = {}]
  /\ stop' = [stop EXCEPT ![s] = FALSE]
  /\ code' = [code EXCEPT ![s] = "none"]
  /\ UNCHANGED <<shared, env>>

\* nats.connect; nothing in create_registry catches an exception of a client.
Connect(s) ==
  /\ pc[s] = "connect"
  /\ IF "nats" \in up THEN Goto(s, "find") ELSE Exit(s, "1")
  /\ UNCHANGED <<boot, shared, env>>

\* Mutant of NextStream: the loop runs one stream too far.
NextStreamLate(s) ==
  /\ next' = [next EXCEPT ![s] = @ + 1]
  /\ Goto(s, IF next[s] > N THEN "bucket" ELSE "find")

\* The loop of ensure_streams goes on to the next stream, or ends.
NextStream(s) ==
  /\ next' = [next EXCEPT ![s] = @ + 1]
  /\ Goto(s, IF next[s] = N THEN "bucket" ELSE "find")

\* Mutants of FindStream: a stream that exists ends the loop, and a stream is
\* added without looking.
FindStreamAny(s) ==
  /\ pc[s] = "find"
  /\ IF "nats" \notin up
       THEN Exit(s, "1") /\ UNCHANGED next
     ELSE IF streams[next[s]] # "absent"
       THEN Goto(s, "bucket") /\ UNCHANGED next
       ELSE Goto(s, "add") /\ UNCHANGED next
  /\ UNCHANGED <<waiting, failed, shared, env>>

FindStreamSkipped(s) ==
  /\ pc[s] = "find"
  /\ Goto(s, "add")
  /\ UNCHANGED <<boot, shared, env>>

\* _ensure_stream: look for the stream ...
FindStream(s) ==
  /\ pc[s] = "find"
  /\ IF "nats" \notin up
       THEN Exit(s, "1") /\ UNCHANGED next
     ELSE IF streams[next[s]] # "absent"
       THEN NextStream(s)
       ELSE Goto(s, "add") /\ UNCHANGED next
  /\ UNCHANGED <<waiting, failed, shared, env>>

\* Mutant of AddStream: the stream is created or updated.
AddStreamUpdate(s) ==
  /\ pc[s] = "add"
  /\ streams' = [streams EXCEPT ![next[s]] = "canonical"]
  /\ NextStream(s)
  /\ UNCHANGED <<waiting, failed, bucket, env>>

\* ... and create it.  JetStream takes the creation of a stream that exists
\* with the same configuration as done, and refuses it with another one.
AddStream(s) ==
  /\ pc[s] = "add"
  /\ IF "nats" \notin up \/ streams[next[s]] = "tuned"
       THEN Exit(s, "1") /\ UNCHANGED <<next, streams>>
       ELSE /\ streams' = [streams EXCEPT ![next[s]] = "canonical"]
            /\ NextStream(s)
  /\ UNCHANGED <<waiting, failed, bucket, env>>

\* _ensure_bucket: bucket_exists, then make_bucket, which is refused when the
\* bucket has come to exist in between.
CheckBucket(s) ==
  /\ pc[s] = "bucket"
  /\ IF "minio" \notin up THEN Exit(s, "1")
     ELSE Goto(s, IF bucket THEN "wire" ELSE "make")
  /\ UNCHANGED <<boot, shared, env>>

MakeBucket(s) ==
  /\ pc[s] = "make"
  /\ IF "minio" \notin up \/ bucket
       THEN Exit(s, "1") /\ UNCHANGED bucket
       ELSE Goto(s, "wire") /\ bucket' = TRUE
  /\ UNCHANGED <<boot, streams, env>>

\* The etcd client connects lazily, and create_router falls back to the mock
\* backend when a model does not load: neither can fail.
Wire(s) ==
  /\ pc[s] = "wire"
  /\ Goto(s, "probe")
  /\ waiting' = [waiting EXCEPT ![s] = Stores]
  /\ UNCHANGED <<next, failed, shared, env>>

\* health() of one store: any exception becomes the status "error".
Probe(s, b) ==
  /\ pc[s] = "probe"
  /\ b \in waiting[s]
  /\ waiting' = [waiting EXCEPT ![s] = @ \ {b}]
  /\ failed' = [failed EXCEPT ![s] = IF b \in up THEN @ ELSE @ \cup {b}]
  /\ UNCHANGED <<pc, next, stop, code, shared, env>>

\* StorageRegistry.health, InferenceRouter.health (both backends always answer
\* "ok") and the aggregation of the two in HealthAggregator.check.
StorageHealth(s) == IF failed[s] = {} THEN "ok" ELSE "degraded"
RouterHealth(s)  == "ok"

Overall(statuses) ==
  IF statuses = {"ok"} THEN "ok"
  ELSE IF "down" \in statuses THEN "down"
  ELSE "degraded"

\* The report decides; the handlers are installed before the next await.
Judge(s) ==
  /\ pc[s] = "probe"
  /\ waiting[s] = {}
  /\ IF Overall({StorageHealth(s), RouterHealth(s)}) = "down"
       THEN Exit(s, "1")
       ELSE Goto(s, "ready")
  /\ UNCHANGED <<boot, shared, env>>

Shutdown(s) ==
  /\ pc[s] = "ready"
  /\ stop[s]
  /\ Goto(s, "draining")
  /\ UNCHANGED <<boot, shared, env>>

\* Mutant of Drain: an error of nc.drain is not caught.
DrainUncaught(s) ==
  /\ pc[s] = "draining"
  /\ Exit(s, IF "nats" \in up THEN "0" ELSE "1")
  /\ UNCHANGED <<boot, shared, env>>

\* _shutdown: whatever nc.drain does, main() returns.
Drain(s) ==
  /\ pc[s] = "draining"
  /\ Exit(s, "0")
  /\ UNCHANGED <<boot, shared, env>>

ServerStep(s) ==
  \/ Boot(s) \/ Connect(s) \/ FindStream(s) \/ AddStream(s)
  \/ CheckBucket(s) \/ MakeBucket(s) \/ Wire(s)
  \/ \E b \in Stores : Probe(s, b)
  \/ Judge(s) \/ Shutdown(s) \/ Drain(s)

-----------------------------------------------------------------------------
\* A signal before the handlers are installed ends the process; later it sets
\* the stop event, and a second one changes nothing.
Signal(s) ==
  /\ signals < MaxSignals
  /\ signals' = signals + 1
  /\ \/ pc[s] \in Starting /\ Exit(s, "killed")
     \/ pc[s] \in {"ready", "draining"} /\ stop' = [stop EXCEPT ![s] = TRUE]
        /\ UNCHANGED <<pc, code>>
  /\ UNCHANGED <<boot, shared, up, faults>>

Fault == faults < MaxFaults /\ faults' = faults + 1

Die(s) ==
  /\ Fault
  /\ pc[s] \in Running
  /\ Exit(s, "killed")
  /\ UNCHANGED <<boot, shared, up, signals>>

StoreDown(b) ==
  /\ Fault
  /\ b \in up
  /\ up' = up \ {b}
  /\ UNCHANGED <<proc, shared, signals>>

StoreUp(b) ==
  /\ b \notin up
  /\ up' = up \cup {b}
  /\ UNCHANGED <<proc, shared, faults, signals>>

\* "Replicas: 1 for dev; override via stream update in production."
TuneStream(i) ==
  /\ streams[i] = "canonical"
  /\ streams' = [streams EXCEPT ![i] = "tuned"]
  /\ UNCHANGED <<proc, bucket, env>>

Next ==
  \/ \E s \in Servers : ServerStep(s) \/ Signal(s) \/ Die(s)
  \/ \E b \in Stores : StoreDown(b) \/ StoreUp(b)
  \/ \E i \in Streams : TuneStream(i)

Spec == Init /\ [][Next]_vars

(***************************************************************************)
(* Fairness: a process runs, and is started again after it ended; a store  *)
(* that went away comes back.  Nobody has to send a signal or to die.      *)
(***************************************************************************)
FairSpec ==
  /\ Spec
  /\ \A s \in Servers : WF_vars(ServerStep(s))
  /\ \A b \in Stores : WF_vars(StoreUp(b))

-----------------------------------------------------------------------------
\* Type invariant.
TypeOK ==
  /\ pc \in [Servers -> Running \cup {"exited"}]
  /\ next \in [Servers -> 1 .. N + 1]
  /\ waiting \in [Servers -> SUBSET Stores]
  /\ failed \in [Servers -> SUBSET Stores]
  /\ stop \in [Servers -> BOOLEAN]
  /\ code \in [Servers -> {"none", "0", "1", "killed"}]
  /\ streams \in [Streams -> {"absent", "canonical", "tuned"}]
  /\ bucket \in BOOLEAN
  /\ up \subseteq Stores
  /\ faults \in 0 .. MaxFaults
  /\ signals \in 0 .. MaxSignals
  /\ \A s \in Servers : pc[s] \in {"find", "add"} => next[s] \in Streams

(***************************************************************************)
(* A server that says it is ready has every canonical stream and its       *)
(* bucket, whichever replica created them, and whoever died half way       *)
(* through the bootstrap ("call once at startup before any event writes"). *)
(***************************************************************************)
ReadyProvisioned ==
  \A s \in Servers : pc[s] \in {"ready", "draining"} =>
    bucket /\ \A i \in Streams : streams[i] # "absent"

(***************************************************************************)
(* A process that ends by itself exits 0 exactly when it was asked to      *)
(* stop: a store that is gone while it drains does not make the shutdown a *)
(* failure, and no failed boot looks like a shutdown.                      *)
(***************************************************************************)
GracefulExit ==
  \A s \in Servers : pc[s] = "exited" /\ code[s] # "killed" =>
    (code[s] = "0") = stop[s]

(***************************************************************************)
(* bootstrap.py: existing streams are left unchanged.  The configuration   *)
(* an operator gave a stream is never lost to a replica that looked before *)
(* the stream existed and creates it afterwards.                           *)
(***************************************************************************)
TuningKept ==
  [][\A i \in Streams : streams[i] = "tuned" => streams'[i] = "tuned"]_vars

(***************************************************************************)
(* Once outages, deaths and signals are over, every replica is ready for   *)
(* good: no race between replicas, no half-finished bootstrap and no       *)
(* tuned stream keeps one of them from booting.                            *)
(***************************************************************************)
EventuallyReady ==
  \A s \in Servers : <>[](pc[s] = "ready")

(***************************************************************************)
(* entrypoint.py line 7: "HealthAggregator.check() -- verify all backends  *)
(* reachable", after which a server with a critical subsystem down aborts  *)
(* (lines 60-62): a ready server found all of its stores reachable.        *)
(***************************************************************************)
ReadyMeansReachable ==
  \A s \in Servers : pc[s] = "ready" => failed[s] = {}
=============================================================================
