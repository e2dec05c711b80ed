------------------------- MODULE RestoreOrchestrator -------------------------
(***************************************************************************)
(* restore() of gaia_server/restore/orchestrator.py and the stores it      *)
(* works on: etcd (manifests, attestations, the trust key of a node),      *)
(* MinIO (a checkpoint is two objects) and the JetStream event log.        *)
(*                                                                         *)
(* A task is one restore() call on one of the replicas of the server.  It  *)
(* is a sequence of awaited storage calls; between any two of them other   *)
(* tasks, and the parties that write the stores, take steps.  Those        *)
(* parties are external: they publish manifests and attestations, place    *)
(* split-brain tokens, write checkpoints and events, and their number of   *)
(* steps is bounded by MaxChurn.                                           *)
(***************************************************************************)
EXTENDS Naturals, FiniteSets

CONSTANTS
  Tasks,        \* concurrent restore() calls
  Ids,          \* manifest ids
  Nodes,        \* node ids
  Refs,         \* attestation references
  Tokens,       \* split-brain tokens
  Checkpoints,  \* checkpoint ids
  Payloads,     \* payload contents; the hash of one stands for itself
  Cursors,      \* sequence numbers a manifest may carry
  None,         \* an absent key, or an empty optional field
  Garbled,      \* a stored value that does not deserialise
  Catalogue,    \* the manifests the external writers publish
  Limit,        \* `limit` of read_events: 1000 in the code
  MaxTries,     \* bound: MaxTries[t] calls of restore() by task t
  MaxChurn,     \* bound: steps of the external writers
  MaxEvents     \* bound: length of the event log

\* The Enum members of gaia_core that the orchestrator names.
SoftRestart == "SOFT_RESTART"
CriuMigration == "CRIU_MIGRATION"
Quarantined == "QUARANTINED_FOREIGN_HOST"
Paths == {SoftRestart, "CROSS_HOST", "K8S_STATEFUL_RESTORE", Quarantined, CriuMigration}
TrustClasses == {"unverified", "trusted", "degraded", "quarantined"}

(***************************************************************************)
(* A RestoreManifest.  sig compares manifest_hash with the rest of the     *)
(* record: it is empty, it matches the content, or the content was changed *)
(* after hashing.  The cursor is absent, a sequence number, or malformed.  *)
(***************************************************************************)
Manifest ==
  [node : Nodes, path : Paths, want : TrustClasses, sig : {"none", "match", "mismatch"},
   ref : Refs \cup {None}, token : Tokens \cup {None}, policy : BOOLEAN,
   ckpt : Checkpoints, hash : Payloads \cup {None}, cursor : Cursors \cup {None, Garbled}]

ASSUME NoneAssumption ==
  /\ None \notin Refs \cup Tokens \cup Payloads \cup Cursors \cup {Garbled}
  /\ Garbled \notin Cursors
ASSUME CatalogueAssumption ==
  Catalogue \subseteq Manifest /\ None \notin Catalogue /\ Garbled \notin Catalogue
ASSUME CursorAssumption == Cursors \subseteq Nat
ASSUME BoundAssumption ==
  Limit \in Nat /\ MaxTries \in [Tasks -> Nat] /\ MaxChurn \in Nat /\ MaxEvents \in Nat
\* A token is never the name of a trust class, and never placed twice.
ASSUME TokenAssumption == Tokens \cap (TrustClasses \cup {None}) = {}

VARIABLES
  pc,          \* pc[t]: the step of restore() that comes next
  man,         \* man[t]: the manifest as loaded
  payload,     \* payload[t]: what get_checkpoint returned
  replayed,    \* replayed[t]: sequence numbers read_events returned
  tail,        \* history: the end of the log when the replay read it
  err,         \* err[t]: the exception that ended the call
  tries,       \* how often t has called restore()
  manifests,   \* etcd manifests/<id>
  attested,    \* etcd attestations/<ref> that exist
  trust,       \* etcd nodes/<node>/trust
  hasRef,      \* MinIO manifest.json objects
  objects,     \* MinIO payload.bin objects
  putting,     \* payload a put_checkpoint has still to write
  first, last, \* the event log holds first .. last
  captured,    \* a stream captures the subject gaia-checkpoints.>
  grants,      \* history: every trust value written by a restore
  seen,        \* history: seen[t], refs attested at some moment of t's last call
  placed, churn

local  == <<man, payload, replayed, tail>>
task   == <<pc, err, tries, local>>
etcd   == <<manifests, attested, trust>>
minio  == <<hasRef, objects, putting>>
stream == <<first, last, captured>>
hist   == <<grants, seen, placed, churn>>
vars   == <<task, etcd, minio, stream, hist>>

Steps == {"load", "hashes", "attest", "ref", "payload", "replay", "criu", "promote"}
Typed == {"ManifestError", "AttestationError", "CausalReplayError", "TrustPromotionError"}

Init ==
  /\ pc = [t \in Tasks |-> "idle"]
  /\ man = [t \in Tasks |-> None]
  /\ payload = [t \in Tasks |-> None]
  /\ replayed = [t \in Tasks |-> {}]
  /\ tail = [t \in Tasks |-> 0]
  /\ err = [t \in Tasks |-> None]
  /\ tries = [t \in Tasks |-> 0]
  /\ manifests \in [Ids -> Catalogue \cup {None, Garbled}]
  /\ attested \in SUBSET Refs
  /\ trust \in [Nodes -> {None} \cup Tokens]
  /\ \A m, n \in Nodes : trust[m] \in Tokens /\ trust[m] = trust[n] => m = n
  /\ objects \in [Checkpoints -> Payloads \cup {None}]
  /\ hasRef = [c \in Checkpoints |-> objects[c] # None]
  /\ putting = [c \in Checkpoints |-> None]
  /\ first = 1 /\ last \in 0 .. MaxEvents
  /\ captured \in BOOLEAN /\ (last > 0 => captured)
  /\ grants = {}
  /\ seen = [t \in Tasks |-> {}]
  /\ placed = {tok \in Tokens : \E n \in Nodes : trust[n] = tok}
  /\ churn = 0

-----------------------------------------------------------------------------
(***************************************************************************)
(* One restore() call.  A step either goes on or raises; an exception ends *)
(* the call, and its local variables with it.                              *)
(***************************************************************************)
Advance(t, step) == pc' = [pc EXCEPT ![t] = step] /\ UNCHANGED err

Goto(t, step) == Advance(t, step) /\ UNCHANGED local

Raise(t, e) ==
  /\ pc' = [pc EXCEPT ![t] = "failed"]
  /\ err' = [err EXCEPT ![t] = e]
  /\ man' = [man EXCEPT ![t] = None]
  /\ payload' = [payload EXCEPT ![t] = None]
  /\ replayed' = [replayed EXCEPT ![t] = {}]
  /\ tail' = [tail EXCEPT ![t] = 0]

Start(t) ==
  /\ pc[t] \in {"idle", "failed"}
  /\ tries[t] < MaxTries[t]
  /\ pc' = [pc EXCEPT ![t] = "load"]
  /\ err' = [err EXCEPT ![t] = None]
  /\ tries' = [tries EXCEPT ![t] = @ + 1]
  /\ seen' = [seen EXCEPT ![t] = attested]
  /\ UNCHANGED <<local, etcd, minio, stream, grants, placed, churn>>

\* load_manifest: absent, unreadable and unsigned manifests are refused.
LoadManifest(t, id) ==
  LET raw == manifests[id]
  IN  /\ pc[t] = "load"
      /\ IF raw \in {None, Garbled}
           THEN Raise(t, "ManifestError")
         ELSE IF raw.sig = "none"
           THEN Raise(t, "ManifestError")
           ELSE /\ Advance(t, "hashes")
                /\ man' = [man EXCEPT ![t] = raw]
                /\ UNCHANGED <<payload, replayed, tail>>
      /\ UNCHANGED <<tries, etcd, minio, stream, hist>>

\* verify_hashes: only manifest_hash is compared; state_hash is never looked at.
VerifyHashes(t) ==
  /\ pc[t] = "hashes"
  /\ IF man[t].sig = "match" THEN Goto(t, "attest") ELSE Raise(t, "ManifestError")
  /\ UNCHANGED <<tries, etcd, minio, stream, hist>>

\* The two sets named cross_host_paths differ: a quarantined foreign host
\* needs an attestation, and is granted a class of its own.
AttestedPaths == {"CROSS_HOST", "K8S_STATEFUL_RESTORE", Quarantined, CriuMigration}
DegradedPaths == {"CROSS_HOST", "K8S_STATEFUL_RESTORE", CriuMigration}

\* verify_attestation: a reference that is present must exist, and every path
\* but the soft restart must have one.  What the artifact says is not read.
VerifyAttestation(t) ==
  /\ pc[t] = "attest"
  /\ IF \/ man[t].path \in AttestedPaths /\ man[t].ref = None
        \/ man[t].ref # None /\ man[t].ref \notin attested
       THEN Raise(t, "AttestationError")
       ELSE Goto(t, "ref")
  /\ UNCHANGED <<tries, etcd, minio, stream, hist>>

\* _fetch_payload / get_checkpoint: manifest.json first; its content is unused.
\* A missing object is an S3Error, which nothing converts.  One that does not
\* deserialise, which put_checkpoint never writes, is folded into Interrupt.
FetchRef(t) ==
  /\ pc[t] = "ref"
  /\ IF hasRef[man[t].ckpt] THEN Goto(t, "payload") ELSE Raise(t, "other")
  /\ UNCHANGED <<tries, etcd, minio, stream, hist>>

\* Mutant of FetchPayload: the payload is not compared with payload_hash.
FetchPayloadUnchecked(t) ==
  LET p == objects[man[t].ckpt]
  IN  /\ pc[t] = "payload"
      /\ IF p = None
           THEN Raise(t, "other")
           ELSE /\ Advance(t, "replay")
                /\ payload' = [payload EXCEPT ![t] = p]
                /\ UNCHANGED <<man, replayed, tail>>
      /\ UNCHANGED <<tries, etcd, minio, stream, hist>>

\* Then payload.bin, checked against payload_hash when the manifest has one.
FetchPayload(t) ==
  LET p == objects[man[t].ckpt]
  IN  /\ pc[t] = "payload"
      /\ IF p = None
           THEN Raise(t, "other")
         ELSE IF man[t].hash # None /\ man[t].hash # p
           THEN Raise(t, "ManifestError")
           ELSE /\ Advance(t, "replay")
                /\ payload' = [payload EXCEPT ![t] = p]
                /\ UNCHANGED <<man, replayed, tail>>
      /\ UNCHANGED <<tries, etcd, minio, stream, hist>>

-----------------------------------------------------------------------------
(***************************************************************************)
(* read_events: an ephemeral consumer from cursor + 1, or from the oldest  *)
(* event that is left, up to `limit` events; the first wait of 0.5 s with  *)
(* no message ends the read, so any prefix of the tail may come back.      *)
(*                                                                         *)
(* The subject is gaia-checkpoints.>, while the stream that ensure_streams *)
(* creates takes gaia.checkpoints.>: `captured` holds only where another   *)
(* stream was set up.  Without one, subscribing raises an error of the     *)
(* client library.                                                         *)
(***************************************************************************)
ReadEvents(cursor) ==
  LET start == IF first > cursor + 1 THEN first ELSE cursor + 1
  IN  {start .. (start + n - 1) : n \in {k \in 0 .. Limit : start + k <= last + 1 \/ k = 0}}

\* Mutant of ReplayEvents: the read waits for an event instead of timing out.
ReplayEventsWait(t) ==
  LET cursor == man[t].cursor
  IN  /\ pc[t] = "replay"
      /\ \/ cursor = None /\ Goto(t, "criu")
         \/ cursor = Garbled /\ Raise(t, "CausalReplayError")
         \/ cursor \in Cursors /\ ~captured /\ Raise(t, "other")
         \/ /\ cursor \in Cursors /\ captured
            /\ \E events \in ReadEvents(cursor) \ {{}} :
                 replayed' = [replayed EXCEPT ![t] = events]
            /\ tail' = [tail EXCEPT ![t] = last]
            /\ Advance(t, "criu")
            /\ UNCHANGED <<man, payload>>
      /\ UNCHANGED <<tries, etcd, minio, stream, hist>>

\* replay_events: no cursor, no replay; a cursor needs at least one event.
ReplayEvents(t) ==
  LET cursor == man[t].cursor
  IN  /\ pc[t] = "replay"
      /\ \/ cursor = None /\ Goto(t, "criu")
         \/ cursor = Garbled /\ Raise(t, "CausalReplayError")
         \/ cursor \in Cursors /\ ~captured /\ Raise(t, "other")
         \/ /\ cursor \in Cursors /\ captured
            /\ \E events \in ReadEvents(cursor) :
                 IF events = {}
                   THEN Raise(t, "CausalReplayError")
                   ELSE /\ Advance(t, "criu")
                        /\ replayed' = [replayed EXCEPT ![t] = events]
                        /\ tail' = [tail EXCEPT ![t] = last]
                        /\ UNCHANGED <<man, payload>>
      /\ UNCHANGED <<tries, etcd, minio, stream, hist>>

-----------------------------------------------------------------------------
\* Mutant of Granted: a claimed token is written back.
GrantedToken(m) ==
  IF m.token # None THEN m.token
  ELSE IF m.path = Quarantined THEN "quarantined"
  ELSE m.want

\* The trust class a restore path earns.
Granted(m) ==
  IF m.path \in DegradedPaths THEN "degraded"
  ELSE IF m.path = Quarantined THEN "quarantined"
  ELSE m.want

Grant(t, m) ==
  [by |-> t, try |-> tries[t], m |-> m, class |-> Granted(m), seen |-> seen[t]]

\* Mutant of Claimable: any current value is taken for the token.
ClaimableAny(m) == m.token = None \/ trust[m.node] # None

\* promote_trust: with a token a compare-and-swap from the token to the class,
\* without one an unconditional put.  etcd performs either atomically.
Claimable(m) == m.token = None \/ trust[m.node] = m.token

WriteTrust(t, m) ==
  /\ Claimable(m)
  /\ trust' = [trust EXCEPT ![m.node] = Granted(m)]
  /\ grants' = grants \cup {Grant(t, m)}
  /\ UNCHANGED <<manifests, attested, seen, placed, churn>>

\* Mutant of CheckCriu: the trust key is written before the check.
CheckCriuLate(t) ==
  /\ pc[t] = "criu"
  /\ IF man[t].path = CriuMigration /\ ~man[t].policy
       THEN WriteTrust(t, man[t]) /\ Raise(t, "ManifestError")
       ELSE Goto(t, "promote") /\ UNCHANGED <<etcd, hist>>
  /\ UNCHANGED <<tries, minio, stream>>

\* _check_criu_invariant
CheckCriu(t) ==
  /\ pc[t] = "criu"
  /\ IF man[t].path = CriuMigration /\ ~man[t].policy
       THEN Raise(t, "ManifestError")
       ELSE Goto(t, "promote")
  /\ UNCHANGED <<tries, etcd, minio, stream, hist>>

\* Mutant of PromoteTrust: the manifest is read again before the write.
PromoteTrustReread(t) ==
  /\ pc[t] = "promote"
  /\ \E id \in Ids : manifests[id] \in Catalogue /\ WriteTrust(t, manifests[id])
  /\ Goto(t, "done")
  /\ UNCHANGED <<tries, minio, stream>>

PromoteTrust(t) ==
  /\ pc[t] = "promote"
  /\ WriteTrust(t, man[t])
  /\ Goto(t, "done")
  /\ UNCHANGED <<tries, minio, stream>>

PromoteRefused(t) ==
  /\ pc[t] = "promote"
  /\ ~Claimable(man[t])
  /\ Raise(t, "TrustPromotionError")
  /\ UNCHANGED <<tries, etcd, minio, stream, hist>>

\* The write takes effect, but the reply is lost: the call still raises.
PromoteReplyLost(t) ==
  /\ pc[t] = "promote"
  /\ WriteTrust(t, man[t])
  /\ Raise(t, "other")
  /\ UNCHANGED <<tries, minio, stream>>

\* The host dies, or a store cannot be reached, before the next step takes effect.
Interrupt(t) ==
  /\ pc[t] \in Steps
  /\ Raise(t, "crash")
  /\ UNCHANGED <<tries, etcd, minio, stream, hist>>

-----------------------------------------------------------------------------
(***************************************************************************)
(* The external writers of the stores.                                     *)
(***************************************************************************)
Churn == churn < MaxChurn /\ churn' = churn + 1

PutManifest(id, m) ==
  /\ Churn
  /\ manifests' = [manifests EXCEPT ![id] = m]
  /\ UNCHANGED <<task, attested, trust, minio, stream, grants, seen, placed>>

Attest(r) ==
  /\ Churn
  /\ attested' = attested \cup {r}
  /\ seen' = [t \in Tasks |-> IF pc[t] \in Steps THEN seen[t] \cup {r} ELSE seen[t]]
  /\ UNCHANGED <<task, manifests, trust, minio, stream, grants, placed>>

\* A key put with ttl_seconds goes away with its lease.
LeaseExpires(r) ==
  /\ Churn
  /\ r \in attested
  /\ attested' = attested \ {r}
  /\ UNCHANGED <<task, manifests, trust, minio, stream, grants, seen, placed>>

PlaceToken(n, tok) ==
  /\ Churn
  /\ tok \notin placed
  /\ trust' = [trust EXCEPT ![n] = tok]
  /\ placed' = placed \cup {tok}
  /\ UNCHANGED <<task, manifests, attested, minio, stream, grants, seen>>

\* put_checkpoint: manifest.json, then payload.bin; the writer may die between.
PutRef(c, p) ==
  /\ Churn
  /\ hasRef' = [hasRef EXCEPT ![c] = TRUE]
  /\ putting' = [putting EXCEPT ![c] = p]
  /\ UNCHANGED <<task, etcd, objects, stream, grants, seen, placed>>

PutPayload(c) ==
  /\ putting[c] # None
  /\ objects' = [objects EXCEPT ![c] = putting[c]]
  /\ putting' = [putting EXCEPT ![c] = None]
  /\ UNCHANGED <<task, etcd, hasRef, stream, hist>>

\* write_event appends; retention (max_age, discard old) drops the oldest.
WriteEvent ==
  /\ Churn
  /\ captured
  /\ last < MaxEvents
  /\ last' = last + 1
  /\ UNCHANGED <<task, etcd, minio, first, captured, grants, seen, placed>>

DropOldest ==
  /\ Churn
  /\ first <= last
  /\ first' = first + 1
  /\ UNCHANGED <<task, etcd, minio, last, captured, grants, seen, placed>>

TaskStep(t) ==
  \/ \E id \in Ids : LoadManifest(t, id)
  \/ VerifyHashes(t)
  \/ VerifyAttestation(t)
  \/ FetchRef(t)
  \/ FetchPayload(t)
  \/ ReplayEvents(t)
  \/ CheckCriu(t)
  \/ PromoteTrust(t)
  \/ PromoteRefused(t)

Environment ==
  \/ \E id \in Ids, m \in Catalogue : PutManifest(id, m)
  \/ \E r \in Refs : Attest(r) \/ LeaseExpires(r)
  \/ \E n \in Nodes, tok \in Tokens : PlaceToken(n, tok)
  \/ \E c \in Checkpoints, p \in Payloads : PutRef(c, p)
  \/ \E c \in Checkpoints : PutPayload(c)
  \/ WriteEvent
  \/ DropOldest

Next ==
  \/ \E t \in Tasks : Start(t) \/ TaskStep(t) \/ PromoteReplyLost(t) \/ Interrupt(t)
  \/ Environment

Spec == Init /\ [][Next]_vars

\* A call that has begun keeps running; nobody is obliged to call restore(),
\* and the stores are obliged to nothing.
FairSpec == Spec /\ \A t \in Tasks : WF_vars(TaskStep(t))

-----------------------------------------------------------------------------
GrantRecords ==
  [by : Tasks, try : Nat, m : Catalogue, class : TrustClasses, seen : SUBSET Refs]

(***************************************************************************)
(* Type invariant.                                                         *)
(***************************************************************************)
TypeOK ==
  /\ pc \in [Tasks -> Steps \cup {"idle", "done", "failed"}]
  /\ man \in [Tasks -> Catalogue \cup {None}]
  /\ payload \in [Tasks -> Payloads \cup {None}]
  /\ replayed \in [Tasks -> SUBSET Nat]
  /\ tail \in [Tasks -> Nat]
  /\ err \in [Tasks -> Typed \cup {"other", "crash", None}]
  /\ tries \in [Tasks -> Nat] /\ \A t \in Tasks : tries[t] <= MaxTries[t]
  /\ manifests \in [Ids -> Catalogue \cup {None, Garbled}]
  /\ attested \subseteq Refs
  /\ trust \in [Nodes -> TrustClasses \cup Tokens \cup {None}]
  /\ hasRef \in [Checkpoints -> BOOLEAN]
  /\ objects \in [Checkpoints -> Payloads \cup {None}]
  /\ putting \in [Checkpoints -> Payloads \cup {None}]
  /\ first \in Nat /\ last \in Nat /\ first <= last + 1 /\ captured \in BOOLEAN
  /\ grants \subseteq GrantRecords
  /\ seen \in [Tasks -> SUBSET Refs]
  /\ placed \subseteq Tokens
  /\ churn \in 0 .. MaxChurn

(***************************************************************************)
(* Tier 2 invariants 1, 3 and 4 for every trust value ever written by a    *)
(* restore, however the manifest key, the attestations and the other tasks *)
(* changed between its steps: the manifest is signed and intact, a path    *)
(* that leaves the host had its attestation at some moment of that very    *)
(* call (one that expired before it, or came after it, does not count) and *)
(* is never trusted, and a CRIU migration is policy-gated.                 *)
(***************************************************************************)
Admissible(m, refs) ==
  /\ m.sig = "match"
  /\ m.path \in AttestedPaths => m.ref \in refs
  /\ m.path = CriuMigration => m.policy

PromotionJustified ==
  \A g \in grants :
    /\ Admissible(g.m, g.seen)
    /\ g.m.path # SoftRestart => g.class \in {"degraded", "quarantined"}

(***************************************************************************)
(* Split-brain exclusion: a token admits one restore, whichever tasks use  *)
(* it, retry after a lost reply, or are overtaken by tokenless restores.   *)
(***************************************************************************)
OneClaimPerToken ==
  \A g, h \in grants : g.m.token # None /\ g.m.token = h.m.token => g = h

(***************************************************************************)
(* The trust key, written by restores with and without a token, by retries *)
(* and by whoever places tokens, treats every token as SplitBrainToken     *)
(* says: only a live token is claimed, by one try of one call, and no step *)
(* brings a claimed or replaced token back.                                *)
(***************************************************************************)
Admitted(k) == {<<g.by, g.try>> : g \in {h \in grants : h.m.token = k}}

Stage(k) ==
  IF Admitted(k) # {} THEN "claimed"
  ELSE IF k \notin placed THEN "fresh"
  ELSE IF \E n \in Nodes : trust[n] = k THEN "live"
  ELSE "void"

Lifecycle == INSTANCE SplitBrainToken
  WITH stage <- [k \in Tokens |-> Stage(k)], admitted <- [k \in Tokens |-> Admitted(k)]

TokenLifecycle == Lifecycle!Spec

(***************************************************************************)
(* A restore that returns hands out the payload its manifest names and has *)
(* replayed only events after its cursor, even when the checkpoint is      *)
(* rewritten or half written and the log is trimmed while it runs.         *)
(***************************************************************************)
RestoredStateMatches ==
  \A t \in Tasks : pc[t] = "done" =>
    /\ payload[t] # None
    /\ man[t].hash # None => payload[t] = man[t].hash
    /\ man[t].cursor # None =>
         replayed[t] # {} /\ \A s \in replayed[t] : s > man[t].cursor

(***************************************************************************)
(* A restore that ends in a RestoreError has not written the trust key:    *)
(* only an untyped failure leaves the caller in doubt.                     *)
(***************************************************************************)
TypedFailureHasNoEffect ==
  \A t \in Tasks : pc[t] = "failed" /\ err[t] \in Typed =>
    \A g \in grants : ~(g.by = t /\ g.try = tries[t])

(***************************************************************************)
(* Every restore() call ends: no combination of missing keys, objects or   *)
(* events makes it wait for ever.                                          *)
(***************************************************************************)
RestoreTerminates ==
  \A t \in Tasks : pc[t] \in Steps ~> pc[t] \in {"done", "failed"}

(***************************************************************************)
(* orchestrator.py line 5: "No continuity claim without causal replay      *)
(* verification": a restore with a cursor that returns has replayed the    *)
(* whole tail of the log after its cursor.                                 *)
(***************************************************************************)
ContinuityVerified ==
  \A t \in Tasks : pc[t] = "done" /\ man[t].cursor # None =>
    (man[t].cursor + 1) .. tail[t] \subseteq replayed[t]

(***************************************************************************)
(* errors.py line 3: "All restore failures raise a subclass of             *)
(* RestoreError so callers can catch the entire family", for the failures  *)
(* a running server answers with.                                          *)
(***************************************************************************)
FailuresTyped ==
  \A t \in Tasks : pc[t] = "failed" => err[t] \in Typed \cup {"crash"}
=============================================================================
