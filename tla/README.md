# TLA+ models of GAIA-Server

This directory holds a TLA+ development of the server package `gaia_server`:
modules that model its components, TLC configurations that check them on small
instances, and TLAPS proofs of the properties that matter most for instances of
any size. Paths below are relative to the repository. `gaia_core`, the NATS,
MinIO and etcd clients and `llama_cpp` are not part of the repository; they are
modelled from the way `gaia_server` uses them.

## 1. The system and its parts

| Component | State | Operations | Talks to |
|---|---|---|---|
| `ipc/causal_broadcast.py` | vector clock, hold queue, delivery log, handlers, one lock | `send`, `receive`, `subscribe`, `clock_snapshot` | a transport outside the repository |
| `restore/orchestrator.py` | none of its own; etcd keys, MinIO objects and the event log | `restore`: load, hash, attest, fetch, replay, CRIU gate, promote | the three stores |
| `storage/etcd.py`, `minio.py`, `jetstream.py` | the stores | `get`, `put` (with lease), `compare_and_swap`; `put_checkpoint`, `get_checkpoint`; `write_event`, `read_events`; `health` | client libraries |
| `storage/factory.py`, `bootstrap.py`, `registry.py`, `health.py`, `entrypoint.py` | streams, bucket, stop event, exit code | `create_registry`, `ensure_streams`, `_ensure_bucket`, `check`, signal handlers, `_shutdown` | stores, router |
| `inference/router.py`, `factory.py`, `backends/` | table of backends; requests and timers on the event loop | `register`, `infer`, `health` | backends |
| `tenancy/tenant_registry.py` | table of tenants, capacity, one lock | `register`, `deregister`, `get`, `list_tenants` | - |
| `sandbox/guest_sandbox.py` | registry of guests | `admit_guest`, `terminate_guest`, `list_guests` | install gate, UNIVERSE, environmental monitor, codex |
| `planetary/state_hub.py`, `ipc/grpc_server.py` | last snapshot per node | `push`, `push_dict`, `clear`, `fleet_summary`; `planetary_state_push` | nodes, over the network |
| `observability/telemetry.py` | flag, threads, bounded history, one lock | `start`, `stop`, `_collect_loop`, `latest`, `history` | the substrate |
| `security/artifact_signer.py`, `pqc_profile.py` | keys, number of the last artifact | `sign`, `verify` | callers that keep the payload |

What is hard, and cannot easily be provoked by a test: messages of several
actors in an unlucky order; restores that race with each other and with the
writers of the stores between two awaited calls; a reply that is lost after the
write took effect; replicas that boot against the same stores and die half way;
a timeout that races the answer on an event loop which a synchronous call can
hold; a collector that is stopped and started again while its old thread sleeps;
admissions and terminations of one guest that race and fail half way; snapshots
that arrive late or broken; a payload that changes after it was signed.
`PROJECT.json` lists these hazards at the lines where they bite, with the
properties that would catch them.

What makes each modelled part correct:

- *broadcast*: no effect before its cause, nothing twice, nothing left behind;
- *restore*: trust is written only for a checked manifest, a split-brain token
  admits one restore, the returned state is the one the manifest names, an
  error the caller can recognise means that nothing happened, and every call ends;
- *startup*: "ready" means provisioned, exit codes mean what they say, an
  operator's configuration survives, and every replica gets ready in the end;
- *inference*: every request is answered, in time unless the loop was held;
- *telemetry*: the history is the end of what was recorded, in order, and a
  stopped collector falls silent;
- *sandbox*: a rejected guest leaves no trace, a running one is never lost from
  sight, and none is terminated twice;
- *tenants*: the three rules of the class docstring;
- *fleet*: what is shown of a node is what it was last accepted with, and a
  summary that fails was announced by a push that failed;
- *signer*: what verifies is what was signed.

## 2. Modules

```
CausalOrder <--implements-- CausalBroadcast <-- MCCausalBroadcast   (4 cfgs)
                            CausalBroadcast <-- CausalBroadcastProofs
SplitBrainToken <--implements-- RestoreOrchestrator
GuestLifecycle  <--implements-- GuestSandbox
RestoreOrchestrator <-- MCRestoreOrchestrator (3 cfgs), RestoreOrchestratorProofs
ServerStartup       <-- MCServerStartup (2 cfgs),       ServerStartupProofs
InferenceRouter     <-- MCInferenceRouter (1 cfg),      InferenceRouterProofs
TelemetryCollector, GuestSandbox, TenantRegistry, PlanetaryFleet, ArtifactSigner
                    <-- MCNode (2 cfgs)
TelemetryCollector  <-- TelemetryCollectorProofs
GuestSandbox        <-- GuestSandboxProofs
TenantRegistry, PlanetaryFleet, ArtifactSigner <-- NodeProofs
MCNode, the three proof modules above <-- CompositionProofs
```

An MC module only names model values and the functions and sets a `.cfg` cannot
write. `MCNode` does a little more: it puts the five small components side by
side. None of them calls another or shares a variable with it, so a behaviour of
all five is, for each, one of its own with stuttering steps, and nothing is
gained by interleaving them: `part` names the one that runs. `CompositionProofs`
proves that each component is implemented by that composition. Definitions marked *Mutant* stand before the definition they vary and
are used by no specification: each is a plausible slip in that code, and
replacing the real definition by it must break the property it is listed with
in `PROJECT.json`.

### CausalBroadcast (with CausalOrder)

One object per actor. `Send` is `send()`; `ReceiveHealth` is `receive()` of a
beacon, which is delivered at once; `Receive` buffers a causal message, takes the
lock and begins `_try_deliver_buffered`, whose inner loop is `ScanDeliver` /
`ScanKeep`, one message of the hold queue per step, and whose outer loop turns at
`EndPass`. While `scanning[a]` holds, no other operation of `a` starts: that is
the lock. `log[a]` is `_delivered` and at the same time the sequence of handler
calls. `past[m]` is a history variable: what the sender of `m` knew; the code does
not have it, and the properties compare the vector clocks with it. The
transport (`inflight`) reorders, loses (by never handing over) and duplicates.

`CausalOrder` is the abstract specification: no clocks, no queues; a message is
delivered once, by an actor that knows the message's whole causal past. Under
the mapping `seen <- Seen` (what an actor sent or delivered) the layer implements
it as long as no beacons are sent.

### RestoreOrchestrator (with SplitBrainToken)

`restore()` is split at its awaited storage calls; between two of them any other
task and any writer of the stores may act. `pc[t]` is the step that comes next,
`man`, `payload`, `replayed` are its locals. The writers are actions too:
`PutManifest`, `Attest`, `LeaseExpires`, `PlaceToken`, the two writes of
`put_checkpoint` (`PutRef`, then `PutPayload`), `WriteEvent`, and the retention of
the stream (`DropOldest`). A task may die or lose its connection anywhere
(`Interrupt`), and the reply to the promotion may be lost after it took effect
(`PromoteReplyLost`). `read_events` returns any prefix of what the log has after
the cursor, up to the limit: it stops at the first half second without a
message. `grants` records every trust value a restore wrote, with what was
attested at some moment of the call that wrote it (`seen`): an attestation that
expired before a retry began does not justify the retry. A `manifest.json` that
does not deserialise, which `put_checkpoint` never writes, is folded into
`Interrupt`.

Data is abstracted to what the checks compare: the hash of a payload is the
payload, and the signature of a manifest is the outcome of the comparison of
`manifest_hash` (`"none"`, `"match"`, `"mismatch"`).

`SplitBrainToken` is the abstract token: fresh, then live, and from there once
and for good claimed by one restore or void. Under the mapping `Stage`,
`Admitted` (read off the trust keys, the tokens placed so far and the grants)
the keys of etcd, which restores with a token compare and swap, restores without
one overwrite and writers of tokens replace, implement it.

### ServerStartup

`main()` of several replicas against shared stores: `Connect`, the loop of
`ensure_streams` split into the look-up (`FindStream`) and the creation
(`AddStream`), the same for the bucket (`CheckBucket`, `MakeBucket`), the wiring of
the router, one `Probe` per store, the aggregation (`Judge`), then the wait for
the stop event and the drain. Stores go away and come back, processes die and
are started again, signals arrive at any moment, and an operator updates a
stream that exists (`TuneStream`).

### InferenceRouter

All calls of `infer()` share one event loop. A backend is a `MockBackend` (answers
without waiting), a `LlamaCppBackend` (calls the model synchronously and so holds
the loop), or a "remote" one as in `tests/inference/test_router.py`: it waits, may
raise, may never answer. Time is discrete and passes only while a model call
holds the loop or when the loop has nothing to run and no timer is due.
`str()` of a `RuntimeBackend` member is taken to be the name it compares equal to,
which the fallback and the tests rely on. The model has no `NO_BACKEND` response:
"mock" is registered in the constructor and nothing removes an entry.

### TelemetryCollector

Every call of `start()` is a thread of its own, `loop[t]` its place in
`_collect_loop`: test the flag, collect, record under the lock, sleep. All threads
look at the same `running`. `Collect` either takes a snapshot, stamped with the
clock, or raises; `RecordSnapshot` appends and trims. `recorded` (everything ever
recorded), `overlapped` (a `start()` fell on a living thread) and `late` (recorded
since the flag was cleared) are history variables.

### GuestSandbox (with GuestLifecycle)

Calls of `admit_guest` and `terminate_guest` from several threads, split where the
code leaves the sandbox: `AdmitGuest`, `InstallGate`, `LaunchApp`, `RegisterGuest`,
`ReportEnergyDraw`; `TerminateGuest` (the look-up), `RemoveEntry` (the `del`),
`FinalSeal`. `installed` says which of the four optional modules can be imported;
without one its step is skipped or stubbed, with it the step may raise. `apps`
is what UNIVERSE has launched; `launch_app` is outside the repository, and taken
to have started nothing when it raises. `took` and `replaced` remember who removed or
wrote over an entry. `GuestLifecycle` is a registry without calls and threads: an
admission is pending, then rejected or listed, and a listed one is replaced or
terminated, each in a single step. `Fate` maps the states of the calls to it.

### TenantRegistry

Each method holds the lock throughout and is one action. `Register` looks at the
capacity first and at the id afterwards, as the code does; `outcome` is what the
call returned or raised.

### PlanetaryFleet

Nodes `Publish` snapshots; any of them may reach `PlanetaryStatePush` at any time
and any number of times, or never. A snapshot is complete; or refused by `float()`
before it is stored (`PushDict`); or stored and then followed by an exception,
because `push` takes the length of null observations for its log call (`Push`); or
it has null or a text for its timestamp, which is stored as it comes and accepted.
`newest` and `tardy` record what was accepted and who was late, by the order in
which the node made its snapshots. The hub compares timestamps in one place, the
`max()` of `fleet_summary`: `Incomparable` are the nodes at which it raises,
`Unmeasurable` those whose observations have no length, and `SummaryRaises` says
when the summary of the whole fleet fails. The values of timestamps that are
numbers decide nothing and are left out.

### ArtifactSigner

`SignArtifact` stores the canonical text as digest and signature and keeps a
reference to the caller's dictionary, which `ChangePayload` changes afterwards;
`ChangeDigest` is an artifact that comes back with another digest, as in
`tests/test_pqc_profile.py`. `Verify` is `verify` with both backends. The canonical
text does not tell a value from its string, since `json.dumps` is called with
`default=str`: "as signed" means the same text.

## 3. What TLC checks

| Run | Result | Distinct states | Shows |
|---|---|---|---|
| `broadcast_mixed` | holds | 274,218 | with beacons: `AtMostOnce`, `NoCausalInversion`, `GapsOnlyBehindBeacons`, `NothingLost`, `CausalUpToBeacons` |
| `broadcast_causal` | holds | 82,783 | without: `CausalDelivery`, `DrainComplete`, `CaughtUp`, refinement of `CausalOrder`, `EventuallyDelivered` |
| `beacon_gap` | violated | - | `SourceOrder`: a beacon overtakes a message, and a later one is delivered before it |
| `beacon_stall` | violated | - | `DrainComplete`: a beacon makes a buffered message ready and nobody looks |
| `restore` | holds | 446,338 | `PromotionJustified`, `OneClaimPerToken`, `RestoredStateMatches`, `TypedFailureHasNoEffect`, `RestoreTerminates`, refinement of `SplitBrainToken` |
| `restore_gap` | violated | - | `ContinuityVerified`: a partial replay passes for the tail |
| `restore_untyped` | violated | - | `FailuresTyped`: a missing checkpoint raises the client's exception |
| `startup` | holds | 251,780 | `ReadyProvisioned`, `GracefulExit`, `TuningKept`, `EventuallyReady` |
| `startup_unreachable` | violated | - | `ReadyMeansReachable`: no subsystem ever reports "down" |
| `inference` | holds | 161,754 | `LateOnlyWhenHeld`, `EveryRequestAnswered` |
| `node` | holds | 466,049 | telemetry: `HistoryWindow`, `OrderedUnlessOverlap`, `LateAtMostOne`, `QuietAfterStop`; sandbox: `RejectedHasNoEffect`, `TerminatedOnce`, `RunningAccounted`, refinement of `GuestLifecycle`; `RegistryRules`; `FleetView`; `VerifiedIsAsSigned` |
| `hub_stale` | violated | - | `LatestPerNode`: a delayed push replaces a newer snapshot |

Every passing run also checks its module's `TypeOK` where it is listed. The
violated properties quote a docstring of the code; `PROJECT.json` gives the
quotation and what the counterexample shows.

### Bounds, and why they are enough

- *broadcast*: three actors, since a causal dependency on a third party needs
  three; `a` sends twice, so that one of its messages can overtake the other, and
  `b` once, so that its message can depend on one of `a`; one duplicate. `c` only
  listens. The two violations need one sender of three messages.
- *restore*: one node, one manifest key, one checkpoint, one token: everything is
  contended. Two tasks, one of which may retry; six manifests that differ in the
  optional checks they meet; one step of an outside writer, which can fall
  between any two steps of a task (from every initial content of the stores); one
  event. `restore_gap` needs two events, of which the replay sees one.
- *startup*: two replicas, two streams (the loop has a first and a last), two
  faults and one signal. The code has five streams; the proofs are for any number.
- *inference*: three requests, one for the model, one for a name that is not
  registered, one for the default; timeout 2, so that a call can be in time, late
  by its own model call, or late by another's; one registration in flight.
- *node*: three collector threads, so that two can be left over when a third
  starts, a history of two (`Cap`, 1000 in the code) and four snapshots, so that it
  is trimmed twice; three admissions and two terminations of one package, so that
  everything is contended (packages share nothing but the table); three tenants
  for two places; two nodes with two snapshots each,
  of any form, so that their timestamps can differ in kind; two payloads, two texts, two
  keys that may be equal, two artifacts.

`MaxSends`, `MaxDups`, `MaxTries`, `MaxChurn`, `MaxEvents`, `MaxFaults`,
`MaxSignals`, `MaxNow`, `MaxRegs`, `MaxSnaps`, `MaxPublished` and `MaxSigned` are
the bounds; none is in the code. A collector that has reached `MaxSnaps` still
runs, and its collections fail. With
`MaxNow` a request starts only while its deadline is still within the horizon, so
that the bound never hides a timeout. Deadlock is not checked, because each
system may rest: all messages sent and delivered, no tries left, all servers
waiting for a signal, all requests answered, all guests terminated.

### Fairness

- `CausalBroadcast`: a thread that is inside `receive()` goes on, and the transport
  keeps handing over while it holds something. Only `EventuallyDelivered` uses it;
  the safety properties hold under a transport that loses everything.
- `RestoreOrchestrator`: a call that has begun goes on. Each awaited call has an
  outcome (`read_events` ends by its own timeout). Nobody is obliged to call
  `restore()`, to write to a store or to keep it as it is.
- `ServerStartup`: a process runs and is started again after it ended (the server
  is a Deployment of three replicas, `deploy/k8s/deployment.yaml`, whose pods are
  restarted by Kubernetes), and a store that went away comes back. Signals and
  deaths are never obliged to happen.
- `InferenceRouter`: time passes, the loop runs what is ready, and a model call
  ends. A remote backend is not obliged to answer; the timeout does the work.
- `MCNode`: a collector thread that exists goes on (the interpreter schedules it,
  and `sleep()` ends). Nobody is obliged to call `start()` or `stop()`. The other
  four components have no fairness: nothing about them is a liveness property.

## 4. What is proved

The theorems hold for every value of the constants, under the named `ASSUME`s of
the modules (which only give the constants their types, and keep `None` and
tokens apart from ordinary values).

- **CausalBroadcastProofs.** `CausalInv` is the inductive invariant. Besides
  `TypeOK` it says: the number of a message identifies it among those of its source
  (`NumbersUnique`); no clock, of an actor or in a message, is ahead of the source
  itself (`KnowledgeSound`); the causal past of a message
  lies below its vector clock (`PastBelow`); the clock of an actor
  covers what it delivered, a beacon in its own entry only (`LogCovered`). None of the properties is
  inductive without these: `IsDeliverable` looks only at numbers, and the facts
  connect numbers with causal pasts. From it follow `DeliveredAtMostOnce`,
  `NeverInverted`, `OnlyBeaconsSkip`, and, when `Kinds` has no health kind,
  `DeliveredInCausalOrder`, `NothingReadyIsHeld` and the refinement
  `ImplementsCausalOrder`: initial states map to initial states, and each step
  is a `Broadcast`, a `Deliver` or a stutter of `CausalOrder`.
  Two violated docstrings are matched by what does hold: `OrderedUpToBeacons` says
  what a beacon can cost (of the past of a delivered message, only messages that a
  beacon of their own source overtook), and `SourceOrderWithoutBeacons` that
  without beacons the order per source is kept.
  `NoMessageLost` follows the messages through the hold queue, the list a pass puts
  aside and the log. `IdleIsCaughtUp` is the safety half of `EventuallyDelivered`:
  no set of buffered messages can wait for each other, or for a message that
  will not come. It needs the converse of `CausalInv`: every entry of a clock is
  there because a message with that number was seen (`ClockWitnessed`,
  `PastWitnessed`). It also needs that the causal past is well founded. That is not
  proved by induction over the messages, which the provers cannot do, but stated
  as an invariant (`PastFounded`: of any messages that were sent, one has none of
  the others in its past), which `Send` keeps because the new message is in
  nobody's past. An idle actor that lacked something would then lack a message
  whose past it knows; that one is ready, it is in the hold queue (`NothingLost`),
  and `DrainComplete` excludes that.
- **RestoreOrchestratorProofs.** `CallsChecked` says what a call has established
  at each step about the manifest it loaded (not about what the key holds now),
  and that whatever is attested while it runs is in `seen`;
  `TokensAccounted` that a placed token is at one node or was claimed, and that a
  claimed one is nowhere; `GrantsLanded` that a call whose current try has a grant
  has returned, or has ended in an exception that is not a `RestoreError`.
  From these follow `EveryPromotionJustified`, `SplitBrainExclusion`,
  `ReturnsWhatTheManifestNames` and `RestoreErrorsAreClean`. The split-brain theorem
  rests on tokens being placed once (`PlaceToken`) and on a token never being the
  name of a trust class (`TokenAssumption`). `ImplementsTokenLifecycle` shows, step
  by step, the refinement of `SplitBrainToken`: a promotion that compares and swaps
  is a `Claim`, a blind put over a token an `Overwrite`, `PlaceToken` a `Place`, and
  every other step a stutter; `TokensAccounted` makes the token that a key holds
  a live one.
- **ServerStartupProofs.** `Provisioned` (all streams before the one a booting
  replica is at exist) and `ExitKnown` (the stop event is set exactly in the states
  after it was waited for) strengthen `ReadyProvisioned` and `GracefulExit`.
- **InferenceRouterProofs.** `Waiting`: a pending request has no response, its
  timer stands at its deadline, and the clock is past the deadline only if the
  loop was held. It gives `LateOnlyBehindAModelCall`. Under the
  hypothesis that no `LlamaCppBackend` is ever registered, `OnTimeWithoutModel`
  gives the exact timeout: no response is later than its deadline (`LoopFree`).
- **TelemetryCollectorProofs.** `WindowSlides` is the fact about slices that makes
  `HistoryWindow` inductive: appending to the last n and trimming again gives the
  last n of the whole. `OrderedUnlessOverlap` needs that there is one living thread
  at most (`Alone`) and that what it holds is newer than what is recorded (`Fresh`);
  `LateAtMostOne` that a thread with a late record no longer collects (`LateDone`).
  `LatestIsNewest` puts the first two together: without an overlap, what `latest()`
  returns is the newest of all snapshots ever recorded, those trimmed away included.
- **GuestSandboxProofs.** An admission enters the registry once, under its own
  package, and leaves it once. `Absent` says where it is not before it was entered,
  `InPlace` that an entry is under the package of its admission, `Removed` what a
  termination has deleted; with these the three properties follow.
  `ImplementsLifecycle` is the refinement of `GuestLifecycle`. It needs in addition
  that a replaced admission is neither listed nor taken (`ReplacedGone`).
  `RemoveEntry` terminates the admission that is listed when it deletes the entry,
  which need not be the one that the look-up found.
- **NodeProofs.** `RegistryRules` from the capacity between the calls (`TenantInv`);
  `FleetView` from `FleetInv`: stored null observations were answered by an exception
  whatever the timestamps are (`FailureReported`), there is nothing stored without a
  hub (`Unwired`), and numbers always compare (`NumbersCompare`); `VerifiedIsAsSigned` from `SignerInv`, by which a signature
  carries the text that was signed. `LatestUnlessLate` says when the docstring that
  `hub_stale` refutes is kept: as long as no snapshot arrived behind a newer one.
- **CompositionProofs.** `NodeImplementsParts`: a step of one component leaves the
  variables of the others alone, so the composition of `MCNode` implements each
  component, and `NodeTyped` combines their types. The other theorems are stated for
  the specifications of the components themselves; since the run `node` lets one
  component run at a time, repeating them for the composition would add nothing.

Only model-checked: the liveness properties (`EventuallyDelivered`,
`RestoreTerminates`, `EventuallyReady`, `EveryRequestAnswered`, `QuietAfterStop`).
They rest on fairness and on `ENABLED`, which are outside what the proof system
treats; `IdleIsCaughtUp` is as much of the first as is a safety property. Every
invariant, action property and refinement that a passing run checks is also
stated by a theorem. For two of the
violated properties (`SourceOrder`, `LatestPerNode`) and for `DrainComplete` the
condition under which they hold is proved; for `ContinuityVerified`,
`FailuresTyped` and `ReadyMeansReachable` it would be a condition on the stores
alone (they lose nothing, answer in time and never fail), and proving it would
say nothing about the code.

## 5. Disagreements between the code and what it says

Six have a run (section 3). Others were met while reading and have none:

- a soft restart without an attestation is granted the class it asks for, while
  `restore/orchestrator.py:170-171` speaks of DEGRADED trust;
- `inference/router.py:12` promises `accepted=False` on any timeout, but a
  synchronous model call that returns late is accepted (`LateOnlyWhenHeld` bounds
  who can be late);
- `inference/backends/llamacpp.py:10` says that other task types return an error;
  the router maps them to `generate`;
- `sandbox/guest_sandbox.py:9-10`: the admission gate is skipped when its import
  fails; and `terminate_guest`, which says "Terminate a running guest workload"
  (line 173), deletes the entry and stops nothing that UNIVERSE launched;
- `planetary/state_hub.py:4` speaks of merging; a partial snapshot replaces the
  whole entry of its node;
- `planetary/state_hub.py:87` says that `fleet_summary` returns a summary "across all
  known nodes". `push_dict` stores any value given as timestamp and answers
  `accepted`, and with a null or a text among the timestamps of two nodes line 93
  raises `TypeError` for the whole fleet, until the node pushes a number: nobody was
  told. `FleetView` therefore excludes unreported failures only while the stored
  timestamps are numbers;
- `tests/test_pqc_profile.py:30` expects a fresh artifact to verify, but the stub
  signs with the private and verifies with the public key, two independent random
  strings: verification succeeds only for a signer that was given equal keys.
  `security/artifact_signer.py:20-24` asks for checks of the signer, of revocation
  and of the sequence, of which `verify` makes none;
- `tenancy/tenant_registry.py:49` logs "already registered" and returns the record
  also for a tenant that is deregistered: the caller gets an inactive one;
- `history(0)` of the collector and `memory_replay(0)` return everything, since
  `[-0:]` is the whole list.

## 6. What is not modelled

`delete`, `get_prefix` and `exists` of the stores have no caller. Handlers of the
broadcast are a log of their calls: they come from users of the package, and one
that calls back into its own object would wait for the lock for ever; `subscribe`
is left out with them. The services of `ipc/grpc_server.py` other than the
planetary one forward a call to the substrate (`gaia_core`), which is outside the
repository, and its service thread only sleeps while a flag is set. Key
generation and encapsulation of `pqc_profile.py` return random bytes and keep no
state; the TLS profile is a constant. The hub assumes a single event loop
(`state_hub.py:39-40`), and the model does too. The signer is used by one thread:
nothing in the repository shares one. Configuration and logging have no
behaviour of their own.

What could come next: an abstract bootstrap (absent, canonical, tuned) that the
racing replicas of `ServerStartup` refine.
