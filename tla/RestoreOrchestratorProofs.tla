---------------------- MODULE RestoreOrchestratorProofs ----------------------
(***************************************************************************)
(* Theorems about RestoreOrchestrator, for every number of tasks, nodes,   *)
(* manifests and tokens, and every bound.                                  *)
(***************************************************************************)
EXTENDS RestoreOrchestrator, TLAPS

\* The steps of restore() that come after a given check.
PastLoad    == {"hashes", "attest", "ref", "payload", "replay", "criu", "promote", "done"}
PastHashes  == {"attest", "ref", "payload", "replay", "criu", "promote", "done"}
PastAttest  == {"ref", "payload", "replay", "criu", "promote", "done"}
PastPayload == {"replay", "criu", "promote", "done"}
PastReplay  == {"criu", "promote", "done"}
PastCriu    == {"promote", "done"}

\* A call that has got past load_manifest works on a manifest of its own.
Loaded == \A t \in Tasks : pc[t] \in PastLoad => man[t] \in Catalogue

TypeInv == TypeOK /\ Loaded

USE DEF task, local, etcd, minio, stream, hist

\* What a restore of a published manifest may write is a trust class.
LEMMA GrantedIsClass ==
  ASSUME NEW m \in Catalogue
  PROVE  Granted(m) \in TrustClasses /\ m \in Manifest /\ m.node \in Nodes /\ m.ckpt \in Checkpoints
BY CatalogueAssumption DEF Granted, Manifest, TrustClasses

\* The initial states have the types.
LEMMA TypeInitially == Init => TypeInv
<1> SUFFICES ASSUME Init PROVE TypeInv
  OBVIOUS
<1>1. TypeOK
  <2>1. /\ pc \in [Tasks -> Steps \cup {"idle", "done", "failed"}]
        /\ man \in [Tasks -> Catalogue \cup {None}]
        /\ payload \in [Tasks -> Payloads \cup {None}]
        /\ replayed \in [Tasks -> SUBSET Nat]
        /\ tail \in [Tasks -> Nat]
        /\ err \in [Tasks -> Typed \cup {"other", "crash", None}]
    BY DEF Init
  <2>2. tries \in [Tasks -> Nat] /\ \A t \in Tasks : tries[t] <= MaxTries[t]
    BY BoundAssumption DEF Init
  <2>3. /\ trust \in [Nodes -> TrustClasses \cup Tokens \cup {None}]
        /\ hasRef \in [Checkpoints -> BOOLEAN]
        /\ attested \subseteq Refs /\ seen \in [Tasks -> SUBSET Refs]
    BY DEF Init
  <2>4. first \in Nat /\ last \in Nat /\ first <= last + 1 /\ churn \in 0 .. MaxChurn
    BY BoundAssumption DEF Init
  <2> QED
    BY <2>1, <2>2, <2>3, <2>4 DEF Init, TypeOK
<1>2. Loaded
  BY DEF Init, Loaded, PastLoad
<1> QED
  BY <1>1, <1>2 DEF TypeInv

\* Steps that only move a call on, or end it with an exception.
LEMMA TypeMove ==
  ASSUME TypeInv, NEW t \in Tasks,
         NEW e \in Typed \cup {"other", "crash"}, NEW s \in Steps \cup {"done"},
         s = "load" \/ pc[t] \in PastLoad,
         Raise(t, e) \/ Goto(t, s),
         UNCHANGED <<tries, etcd, minio, stream, hist>>
  PROVE  TypeInv'
<1>1. CASE Raise(t, e)
  <2>1. TypeOK'
    BY <1>1 DEF TypeInv, TypeOK, Raise
  <2>2. Loaded'
    BY <1>1 DEF TypeInv, TypeOK, Loaded, Raise, PastLoad
  <2> QED
    BY <2>1, <2>2 DEF TypeInv
<1>2. CASE Goto(t, s)
  <2>1. TypeOK'
    BY <1>2 DEF TypeInv, TypeOK, Goto, Advance
  <2>2. Loaded'
    BY <1>2 DEF TypeInv, TypeOK, Loaded, Goto, Advance, PastLoad
  <2> QED
    BY <2>1, <2>2 DEF TypeInv
<1> QED
  BY <1>1, <1>2

\* Calling restore() keeps the types.
LEMMA TypeStart ==
  ASSUME TypeInv, NEW t \in Tasks, Start(t)
  PROVE  TypeInv'
<1>1. tries' \in [Tasks -> Nat] /\ \A u \in Tasks : tries'[u] <= MaxTries[u]
  <2>1. /\ tries \in [Tasks -> Nat] /\ \A u \in Tasks : tries[u] <= MaxTries[u]
        /\ tries' = [tries EXCEPT ![t] = tries[t] + 1]
        /\ tries[t] < MaxTries[t] /\ MaxTries[t] \in Nat
    BY BoundAssumption DEF TypeInv, TypeOK, Start
  <2>2. tries[t] + 1 <= MaxTries[t]
    BY <2>1
  <2> QED
    BY <2>1, <2>2
<1>2. pc' \in [Tasks -> Steps \cup {"idle", "done", "failed"}]
  BY DEF TypeInv, TypeOK, Start, Steps
<1>3. seen' \in [Tasks -> SUBSET Refs]
  BY DEF TypeInv, TypeOK, Start
<1>4. TypeOK'
  BY <1>1, <1>2, <1>3 DEF TypeInv, TypeOK, Start
<1>5. Loaded'
  BY DEF TypeInv, TypeOK, Loaded, Start, PastLoad
<1> QED
  BY <1>4, <1>5 DEF TypeInv

\* Loading a manifest keeps the types.
LEMMA TypeLoad ==
  ASSUME TypeInv, NEW t \in Tasks, NEW id \in Ids, LoadManifest(t, id)
  PROVE  TypeInv'
<1>1. CASE Raise(t, "ManifestError")
  <2>1. UNCHANGED <<tries, etcd, minio, stream, hist>>
    BY DEF LoadManifest
  <2> QED
    BY <1>1, <2>1, TypeMove DEF Steps, Typed
<1>2. CASE ~Raise(t, "ManifestError")
  <2>1. /\ manifests[id] \notin {None, Garbled}
        /\ Advance(t, "hashes")
        /\ man' = [man EXCEPT ![t] = manifests[id]]
        /\ UNCHANGED <<payload, replayed, tail, tries, etcd, minio, stream, hist>>
    BY <1>2 DEF LoadManifest
  <2>2. manifests[id] \in Catalogue
    BY <2>1 DEF TypeInv, TypeOK
  <2>3. TypeOK'
    BY <2>1, <2>2 DEF TypeInv, TypeOK, Advance, Steps
  <2>4. Loaded'
    BY <2>1, <2>2 DEF TypeInv, TypeOK, Loaded, Advance
  <2> QED
    BY <2>3, <2>4 DEF TypeInv
<1> QED
  BY <1>1, <1>2

\* The steps that only check and go on, or raise, keep the types.
LEMMA TypeCheck ==
  ASSUME TypeInv, NEW t \in Tasks,
         VerifyHashes(t) \/ VerifyAttestation(t) \/ FetchRef(t) \/ CheckCriu(t)
           \/ PromoteRefused(t) \/ Interrupt(t)
  PROVE  TypeInv'
<1>1. CASE VerifyHashes(t)
  BY <1>1, TypeMove DEF VerifyHashes, Steps, Typed, PastLoad
<1>2. CASE VerifyAttestation(t)
  BY <1>2, TypeMove DEF VerifyAttestation, Steps, Typed, PastLoad
<1>3. CASE FetchRef(t)
  BY <1>3, TypeMove DEF FetchRef, Steps, Typed, PastLoad
<1>4. CASE CheckCriu(t)
  BY <1>4, TypeMove DEF CheckCriu, Steps, Typed, PastLoad
<1>5. CASE PromoteRefused(t)
  BY <1>5, TypeMove DEF PromoteRefused, Steps, Typed, PastLoad
<1>6. CASE Interrupt(t)
  BY <1>6, TypeMove DEF Interrupt, Steps
<1> QED
  BY <1>1, <1>2, <1>3, <1>4, <1>5, <1>6

\* Fetching the payload keeps the types.
LEMMA TypePayload ==
  ASSUME TypeInv, NEW t \in Tasks, FetchPayload(t)
  PROVE  TypeInv'
<1>1. CASE Raise(t, "other") \/ Raise(t, "ManifestError")
  <2>1. UNCHANGED <<tries, etcd, minio, stream, hist>>
    BY DEF FetchPayload
  <2> QED
    BY <1>1, <2>1, TypeMove DEF Steps, Typed
<1>2. CASE ~(Raise(t, "other") \/ Raise(t, "ManifestError"))
  <2>1. /\ pc[t] = "payload"
        /\ Advance(t, "replay")
        /\ payload' = [payload EXCEPT ![t] = objects[man[t].ckpt]]
        /\ UNCHANGED <<man, replayed, tail, tries, etcd, minio, stream, hist>>
    BY <1>2 DEF FetchPayload
  <2>2. man[t] \in Catalogue
    BY <2>1 DEF TypeInv, Loaded, PastLoad
  <2>3. objects[man[t].ckpt] \in Payloads \cup {None}
    BY <2>2, GrantedIsClass DEF TypeInv, TypeOK
  <2>4. TypeOK'
    BY <2>1, <2>3 DEF TypeInv, TypeOK, Advance, Steps
  <2>5. Loaded'
    BY <2>1, <2>2 DEF TypeInv, TypeOK, Loaded, Advance
  <2> QED
    BY <2>4, <2>5 DEF TypeInv
<1> QED
  BY <1>1, <1>2

\* What the event log returns for a cursor: numbers beyond the cursor.
LEMMA ReadEventsFacts ==
  ASSUME TypeInv, NEW cursor \in Cursors, NEW events \in ReadEvents(cursor)
  PROVE  events \in SUBSET Nat /\ \A s \in events : s > cursor
<1>1. cursor \in Nat /\ first \in Nat
  BY CursorAssumption DEF TypeInv, TypeOK
<1> DEFINE start == IF first > cursor + 1 THEN first ELSE cursor + 1
<1>2. start \in Nat /\ start > cursor
  BY <1>1
<1>3. PICK k \in Nat : events = start .. (start + k - 1)
  BY BoundAssumption DEF ReadEvents
<1> HIDE DEF start
<1> QED
  BY <1>1, <1>2, <1>3

\* Replaying events keeps the types.
LEMMA TypeReplay ==
  ASSUME TypeInv, NEW t \in Tasks, ReplayEvents(t)
  PROVE  TypeInv'
<1>1. CASE Raise(t, "other") \/ Raise(t, "CausalReplayError") \/ Goto(t, "criu")
  <2>1. pc[t] = "replay" /\ UNCHANGED <<tries, etcd, minio, stream, hist>>
    BY DEF ReplayEvents
  <2> QED
    BY <1>1, <2>1, TypeMove DEF Steps, Typed, PastLoad
<1>2. CASE ~(Raise(t, "other") \/ Raise(t, "CausalReplayError") \/ Goto(t, "criu"))
  <2>1. PICK events \in ReadEvents(man[t].cursor) :
          /\ pc[t] = "replay"
          /\ man[t].cursor \in Cursors
          /\ Advance(t, "criu")
          /\ replayed' = [replayed EXCEPT ![t] = events]
          /\ tail' = [tail EXCEPT ![t] = last]
          /\ UNCHANGED <<man, payload, tries, etcd, minio, stream, hist>>
    BY <1>2 DEF ReplayEvents
  <2>2. events \in SUBSET Nat
    BY <2>1, ReadEventsFacts
  <2>3. TypeOK'
    BY <2>1, <2>2 DEF TypeInv, TypeOK, Advance, Steps
  <2>4. Loaded'
    BY <2>1 DEF TypeInv, TypeOK, Loaded, Advance, PastLoad
  <2> QED
    BY <2>3, <2>4 DEF TypeInv
<1> QED
  BY <1>1, <1>2

\* Writing the trust key keeps the types.
LEMMA TypePromote ==
  ASSUME TypeInv, NEW t \in Tasks, PromoteTrust(t) \/ PromoteReplyLost(t)
  PROVE  TypeInv'
<1>1. /\ pc[t] = "promote"
      /\ WriteTrust(t, man[t])
      /\ Goto(t, "done") \/ Raise(t, "other")
      /\ UNCHANGED <<tries, minio, stream>>
  BY DEF PromoteTrust, PromoteReplyLost
<1>2. man[t] \in Catalogue
  BY <1>1 DEF TypeInv, Loaded, PastLoad
<1>3. Granted(man[t]) \in TrustClasses /\ man[t].node \in Nodes
  BY <1>2, GrantedIsClass
<1>4. Grant(t, man[t]) \in GrantRecords
  BY <1>2, <1>3 DEF Grant, GrantRecords, TypeInv, TypeOK
<1>5. /\ trust' \in [Nodes -> TrustClasses \cup Tokens \cup {None}]
      /\ grants' \subseteq GrantRecords
      /\ UNCHANGED <<manifests, attested, seen, placed, churn>>
  BY <1>1, <1>3, <1>4 DEF WriteTrust, TypeInv, TypeOK
<1>6. TypeOK'
  BY <1>1, <1>5 DEF TypeInv, TypeOK, Goto, Advance, Raise, Steps
<1>7. Loaded'
  BY <1>1, <1>2 DEF TypeInv, TypeOK, Loaded, Goto, Advance, Raise, PastLoad
<1> QED
  BY <1>6, <1>7 DEF TypeInv

\* What a running call may have seen attested: a step of the external writers
\* takes nothing from it, and adds what it attests.
SeenGrows ==
  \A t \in Tasks :
    /\ seen[t] \subseteq seen'[t]
    /\ pc[t] \in Steps /\ attested \subseteq seen[t] => attested' \subseteq seen'[t]

\* The external writers keep the types.
LEMMA TypeEnvironment ==
  ASSUME TypeInv, Environment
  PROVE  TypeInv' /\ UNCHANGED <<task, grants>> /\ SeenGrows
<1>1. UNCHANGED <<task, grants>>
  BY DEF Environment, PutManifest, Attest, LeaseExpires, PlaceToken, PutRef, PutPayload,
         WriteEvent, DropOldest
<1>2. Loaded'
  BY <1>1 DEF TypeInv, Loaded
<1>3. churn' \in 0 .. MaxChurn
  BY BoundAssumption
     DEF TypeInv, TypeOK, Environment, Churn, PutManifest, Attest, LeaseExpires, PlaceToken,
         PutRef, PutPayload, WriteEvent, DropOldest
<1>4. ASSUME NEW id \in Ids, NEW m \in Catalogue, PutManifest(id, m)
      PROVE  TypeOK' /\ SeenGrows
  BY <1>3, <1>4 DEF TypeInv, TypeOK, PutManifest, SeenGrows
<1>5. ASSUME NEW r \in Refs, Attest(r) \/ LeaseExpires(r)
      PROVE  TypeOK' /\ SeenGrows
  BY <1>3, <1>5 DEF TypeInv, TypeOK, Attest, LeaseExpires, SeenGrows
<1>6. ASSUME NEW n \in Nodes, NEW tok \in Tokens, PlaceToken(n, tok)
      PROVE  TypeOK' /\ SeenGrows
  BY <1>3, <1>6 DEF TypeInv, TypeOK, PlaceToken, SeenGrows
<1>7. ASSUME NEW c \in Checkpoints, NEW p \in Payloads, PutRef(c, p)
      PROVE  TypeOK' /\ SeenGrows
  BY <1>3, <1>7 DEF TypeInv, TypeOK, PutRef, SeenGrows
<1>8. ASSUME NEW c \in Checkpoints, PutPayload(c)
      PROVE  TypeOK' /\ SeenGrows
  BY <1>3, <1>8 DEF TypeInv, TypeOK, PutPayload, SeenGrows
<1>9. ASSUME WriteEvent \/ DropOldest
      PROVE  TypeOK' /\ SeenGrows
  BY <1>3, <1>9 DEF TypeInv, TypeOK, WriteEvent, DropOldest, SeenGrows
<1>10. TypeOK' /\ SeenGrows
  BY <1>4, <1>5, <1>6, <1>7, <1>8, <1>9 DEF Environment
<1> QED
  BY <1>1, <1>2, <1>10 DEF TypeInv

\* Every step keeps the types.
LEMMA TypeStep == TypeInv /\ [Next]_vars => TypeInv'
<1> SUFFICES ASSUME TypeInv, [Next]_vars PROVE TypeInv'
  OBVIOUS
<1>1. ASSUME NEW t \in Tasks, TaskStep(t)
      PROVE  TypeInv'
  BY <1>1, TypeLoad, TypeCheck, TypePayload, TypeReplay, TypePromote DEF TaskStep
<1>2. CASE UNCHANGED vars
  <2>1. TypeOK'
    BY <1>2 DEF TypeInv, TypeOK, vars
  <2>2. Loaded'
    BY <1>2 DEF TypeInv, Loaded, vars
  <2> QED
    BY <2>1, <2>2 DEF TypeInv
<1> QED
  BY <1>1, <1>2, TypeStart, TypePromote, TypeCheck, TypeEnvironment DEF Next

(***************************************************************************)
(* Stores, calls and the record of grants keep their types, and the event  *)
(* log never loses more than it holds.                                     *)
(***************************************************************************)
THEOREM TypeCorrect == Spec => []TypeOK
<1>1. Spec => []TypeInv
  BY TypeInitially, TypeStep, PTL DEF Spec
<1> QED
  BY <1>1, PTL DEF TypeInv

-----------------------------------------------------------------------------
(***************************************************************************)
(* The inductive invariant: what each step of restore() has established    *)
(* about the manifest it loaded stays true of that manifest until the end, *)
(* because the call never reads the manifest key again.                    *)
(***************************************************************************)
Checked(t) ==
  /\ pc[t] \in Steps => attested \subseteq seen[t]
  /\ pc[t] \in PastHashes => man[t].sig = "match"
  /\ pc[t] \in PastAttest /\ man[t].path \in AttestedPaths => man[t].ref \in seen[t]
  /\ pc[t] \in PastPayload => /\ payload[t] # None
                              /\ man[t].hash # None => payload[t] = man[t].hash
  /\ pc[t] \in PastReplay /\ man[t].cursor # None =>
       replayed[t] # {} /\ \A s \in replayed[t] : s > man[t].cursor
  /\ pc[t] \in PastCriu /\ man[t].path = CriuMigration => man[t].policy

CallsChecked == \A t \in Tasks : Checked(t)

USE DEF PastHashes, PastAttest, PastPayload, PastReplay, PastCriu

\* A step of one call leaves what the others have established alone.
LEMMA OthersChecked ==
  ASSUME TypeInv, CallsChecked, NEW t \in Tasks,
         Start(t) \/ TaskStep(t) \/ PromoteReplyLost(t) \/ Interrupt(t)
  PROVE  /\ UNCHANGED attested
         /\ Start(t) \/ UNCHANGED seen
         /\ \A u \in Tasks \ {t} :
              /\ pc'[u] = pc[u] /\ man'[u] = man[u] /\ payload'[u] = payload[u]
              /\ replayed'[u] = replayed[u] /\ err'[u] = err[u] /\ tries'[u] = tries[u]
              /\ Checked(u)'
<1>1. /\ UNCHANGED attested
      /\ Start(t) \/ UNCHANGED seen
      /\ \A u \in Tasks \ {t} :
           /\ seen'[u] = seen[u]
           /\ pc'[u] = pc[u] /\ man'[u] = man[u] /\ payload'[u] = payload[u]
           /\ replayed'[u] = replayed[u] /\ err'[u] = err[u] /\ tries'[u] = tries[u]
  <2> USE DEF TypeInv, TypeOK, Advance, Goto, Raise
  <2>1. CASE Start(t)
    BY <2>1 DEF Start
  <2>2. CASE \E id \in Ids : LoadManifest(t, id)
    BY <2>2 DEF LoadManifest
  <2>3. CASE VerifyHashes(t)
    BY <2>3 DEF VerifyHashes
  <2>4. CASE VerifyAttestation(t)
    BY <2>4 DEF VerifyAttestation
  <2>5. CASE FetchRef(t)
    BY <2>5 DEF FetchRef
  <2>6. CASE FetchPayload(t)
    BY <2>6 DEF FetchPayload
  <2>7. CASE ReplayEvents(t)
    BY <2>7 DEF ReplayEvents
  <2>8. CASE CheckCriu(t)
    BY <2>8 DEF CheckCriu
  <2>9. CASE PromoteTrust(t)
    BY <2>9 DEF PromoteTrust, WriteTrust
  <2>10. CASE PromoteRefused(t)
    BY <2>10 DEF PromoteRefused
  <2>11. CASE PromoteReplyLost(t)
    BY <2>11 DEF PromoteReplyLost, WriteTrust
  <2>12. CASE Interrupt(t)
    BY <2>12 DEF Interrupt
  <2> QED
    BY <2>1, <2>2, <2>3, <2>4, <2>5, <2>6, <2>7, <2>8, <2>9, <2>10, <2>11, <2>12 DEF TaskStep
<1>2. \A u \in Tasks \ {t} : Checked(u)'
  BY <1>1 DEF CallsChecked, Checked
<1> QED
  BY <1>1, <1>2

\* A step of a call establishes what its next step relies on.
LEMMA OwnChecked ==
  ASSUME TypeInv, CallsChecked, NEW t \in Tasks,
         Start(t) \/ TaskStep(t) \/ PromoteReplyLost(t) \/ Interrupt(t)
  PROVE  Checked(t)'
<1>1. /\ Checked(t) /\ UNCHANGED attested
      /\ pc[t] \in Steps => UNCHANGED seen /\ attested \subseteq seen[t]
  BY OthersChecked DEF CallsChecked, Checked, Start, Steps
<1>2. \A e : Raise(t, e) => Checked(t)'
  BY DEF Raise, Checked, TypeInv, TypeOK, Steps
<1>3. CASE Start(t)
  BY <1>3 DEF Start, Checked, TypeInv, TypeOK
<1> USE DEF Steps
<1>4. ASSUME NEW id \in Ids, LoadManifest(t, id)
      PROVE  Checked(t)'
  <2>1. CASE Raise(t, "ManifestError")
    BY <1>2, <2>1
  <2>2. CASE Advance(t, "hashes")
    BY <1>1, <1>4, <2>2 DEF Advance, Checked, TypeInv, TypeOK, LoadManifest
  <2> QED
    BY <1>4, <2>1, <2>2 DEF LoadManifest
<1>5. CASE VerifyHashes(t)
  BY <1>1, <1>2, <1>5 DEF VerifyHashes, Goto, Advance, Checked, TypeInv, TypeOK
<1>6. CASE VerifyAttestation(t)
  <2>1. CASE Raise(t, "AttestationError")
    BY <1>2, <2>1
  <2>2. CASE ~Raise(t, "AttestationError")
    <3>1. /\ pc[t] = "attest" /\ Goto(t, "ref")
          /\ man[t].path \in AttestedPaths => man[t].ref \in attested
      BY <1>6, <2>2 DEF VerifyAttestation
    <3> QED
      BY <1>1, <3>1 DEF Goto, Advance, Checked, TypeInv, TypeOK
  <2> QED
    BY <2>1, <2>2
<1>7. CASE FetchRef(t)
  BY <1>1, <1>2, <1>7 DEF FetchRef, Goto, Advance, Checked, TypeInv, TypeOK
<1>8. CASE FetchPayload(t)
  <2>1. CASE Raise(t, "other") \/ Raise(t, "ManifestError")
    BY <1>2, <2>1
  <2>2. CASE ~(Raise(t, "other") \/ Raise(t, "ManifestError"))
    <3>1. /\ pc[t] = "payload"
          /\ objects[man[t].ckpt] # None
          /\ man[t].hash # None => man[t].hash = objects[man[t].ckpt]
          /\ Advance(t, "replay")
          /\ payload' = [payload EXCEPT ![t] = objects[man[t].ckpt]]
          /\ UNCHANGED <<man, replayed>>
      BY <1>8, <2>2 DEF FetchPayload
    <3> QED
      BY <1>1, <3>1 DEF Advance, Checked, TypeInv, TypeOK
  <2> QED
    BY <2>1, <2>2
<1>9. CASE ReplayEvents(t)
  <2>1. CASE Raise(t, "other") \/ Raise(t, "CausalReplayError")
    BY <1>2, <2>1
  <2>2. CASE pc[t] = "replay" /\ man[t].cursor = None /\ Goto(t, "criu")
    BY <1>1, <2>2 DEF Goto, Advance, Checked, TypeInv, TypeOK
  <2>3. ASSUME NEW events \in ReadEvents(man[t].cursor), events # {},
               pc[t] = "replay", man[t].cursor \in Cursors,
               Advance(t, "criu"), replayed' = [replayed EXCEPT ![t] = events],
               UNCHANGED <<man, payload>>
        PROVE  Checked(t)'
    <3>1. \A s \in events : s > man[t].cursor
      BY <2>3, ReadEventsFacts
    <3> QED
      BY <1>1, <2>3, <3>1 DEF Advance, Checked, TypeInv, TypeOK
  <2> QED
    BY <1>9, <2>1, <2>2, <2>3 DEF ReplayEvents
<1>10. CASE CheckCriu(t)
  BY <1>1, <1>2, <1>10 DEF CheckCriu, Goto, Advance, Checked, TypeInv, TypeOK
<1>11. CASE PromoteTrust(t)
  BY <1>1, <1>11 DEF PromoteTrust, Goto, Advance, Checked, TypeInv, TypeOK
<1>12. CASE PromoteRefused(t) \/ PromoteReplyLost(t) \/ Interrupt(t)
  BY <1>2, <1>12 DEF PromoteRefused, PromoteReplyLost, Interrupt
<1> QED
  BY <1>3, <1>4, <1>5, <1>6, <1>7, <1>8, <1>9, <1>10, <1>11, <1>12 DEF TaskStep

\* What the trust key, the grants and the attestations can see of a step.
LEMMA StepKinds ==
  ASSUME TypeInv, [Next]_vars
  PROVE  \/ \E t \in Tasks : /\ pc[t] = "promote"
                             /\ WriteTrust(t, man[t])
                             /\ tries' = tries
                             /\ Goto(t, "done") \/ Raise(t, "other")
         \/ /\ UNCHANGED <<trust, grants, placed>>
            /\ \E t \in Tasks : Start(t) \/ TaskStep(t) \/ Interrupt(t)
         \/ Environment
         \/ UNCHANGED vars
<1>1. ASSUME NEW t \in Tasks, TaskStep(t), ~PromoteTrust(t)
      PROVE  UNCHANGED <<trust, grants, placed>>
  BY <1>1 DEF TaskStep, LoadManifest, VerifyHashes, VerifyAttestation, FetchRef, FetchPayload,
              ReplayEvents, CheckCriu, PromoteRefused
<1>2. ASSUME NEW t \in Tasks, Start(t) \/ Interrupt(t)
      PROVE  UNCHANGED <<trust, grants, placed>>
  BY <1>2 DEF Start, Interrupt
<1>3. ASSUME NEW t \in Tasks, PromoteTrust(t) \/ PromoteReplyLost(t)
      PROVE  /\ pc[t] = "promote"
             /\ WriteTrust(t, man[t])
             /\ tries' = tries
             /\ Goto(t, "done") \/ Raise(t, "other")
  BY <1>3 DEF PromoteTrust, PromoteReplyLost
<1> QED
  BY <1>1, <1>2, <1>3 DEF Next

\* No step of anybody invalidates what a call has checked.
LEMMA CheckedStep ==
  ASSUME TypeInv, CallsChecked, [Next]_vars
  PROVE  CallsChecked'
<1>1. ASSUME NEW t \in Tasks,
             Start(t) \/ TaskStep(t) \/ PromoteReplyLost(t) \/ Interrupt(t)
      PROVE  CallsChecked'
  <2>1. Checked(t)'
    BY <1>1, OwnChecked
  <2>2. \A u \in Tasks \ {t} : Checked(u)'
    BY <1>1, OthersChecked
  <2> QED
    BY <2>1, <2>2 DEF CallsChecked
<1>2. CASE Environment
  <2>1. UNCHANGED task /\ SeenGrows
    BY <1>2, TypeEnvironment
  <2> QED
    BY <2>1 DEF CallsChecked, Checked, SeenGrows
<1>3. CASE UNCHANGED vars
  BY <1>3 DEF vars, CallsChecked, Checked
<1> QED
  BY <1>1, <1>2, <1>3 DEF Next

\* In every reachable state a call has passed the checks of the steps behind it.
LEMMA CheckedInvariant == Spec => [](TypeInv /\ CallsChecked)
<1>1. Init => CallsChecked
  BY DEF Init, CallsChecked, Checked, Steps
<1> QED
  BY <1>1, TypeInitially, TypeStep, CheckedStep, PTL DEF Spec

(***************************************************************************)
(* A restore that returns hands out the payload its manifest names and     *)
(* replayed only events after its cursor, whatever is rewritten meanwhile. *)
(***************************************************************************)
THEOREM ReturnsWhatTheManifestNames == Spec => []RestoredStateMatches
<1>1. CallsChecked => RestoredStateMatches
  BY DEF CallsChecked, Checked, RestoredStateMatches
<1> QED
  BY <1>1, CheckedInvariant, PTL

-----------------------------------------------------------------------------
\* A write of the trust key is justified by the checks of the call that does it.
LEMMA JustifiedStep ==
  ASSUME TypeInv, CallsChecked, PromotionJustified, [Next]_vars
  PROVE  PromotionJustified'
<1>1. ASSUME NEW t \in Tasks, pc[t] = "promote", WriteTrust(t, man[t])
      PROVE  PromotionJustified'
  <2>1. man[t] \in Catalogue /\ Checked(t)
    BY <1>1 DEF TypeInv, Loaded, PastLoad, CallsChecked
  <2>2. Admissible(man[t], seen[t])
    BY <1>1, <2>1 DEF Checked, Admissible
  <2>3. man[t].path # SoftRestart => Granted(man[t]) \in {"degraded", "quarantined"}
    BY <2>1, GrantedIsClass DEF Granted, Manifest, Paths, DegradedPaths
  <2>4. grants' = grants \cup {Grant(t, man[t])}
    BY <1>1 DEF WriteTrust
  <2>5. /\ Grant(t, man[t]).m = man[t] /\ Grant(t, man[t]).class = Granted(man[t])
        /\ Grant(t, man[t]).seen = seen[t]
    BY DEF Grant
  <2> QED
    BY <2>2, <2>3, <2>4, <2>5 DEF PromotionJustified, Admissible
<1>2. CASE UNCHANGED <<trust, grants, placed>>
  BY <1>2 DEF PromotionJustified, Admissible
<1>3. CASE Environment
  <2>1. grants' = grants
    BY <1>3, TypeEnvironment
  <2> QED
    BY <2>1 DEF PromotionJustified, Admissible
<1>4. CASE UNCHANGED vars
  BY <1>4 DEF vars, PromotionJustified, Admissible
<1> QED
  BY <1>1, <1>2, <1>3, <1>4, StepKinds

(***************************************************************************)
(* Tier 2 invariants 1, 3 and 4: every trust value a restore ever writes   *)
(* rests on a signed, intact manifest that was attested during that call   *)
(* where its path needs it, is policy-gated for CRIU, and never makes a    *)
(* node trusted that came from another host.                               *)
(***************************************************************************)
THEOREM EveryPromotionJustified == Spec => []PromotionJustified
<1>1. Init => PromotionJustified
  BY DEF Init, PromotionJustified
<1>2. TypeInv /\ CallsChecked /\ PromotionJustified /\ [Next]_vars => PromotionJustified'
  BY JustifiedStep
<1> QED
  BY <1>1, <1>2, CheckedInvariant, PTL DEF Spec

-----------------------------------------------------------------------------
(***************************************************************************)
(* Split-brain exclusion: a token that has been placed is at one node, or  *)
(* has been claimed, and a claimed one is nowhere.                         *)
(***************************************************************************)
TokensAccounted ==
  /\ \A m, n \in Nodes : trust[m] \in Tokens /\ trust[m] = trust[n] => m = n
  /\ \A n \in Nodes : trust[n] \in Tokens => trust[n] \in placed
  /\ \A g \in grants : g.m.token # None =>
       g.m.token \in placed /\ \A n \in Nodes : trust[n] # g.m.token

\* A token is consumed by the write that claims it and never comes back.
LEMMA TokenStep ==
  ASSUME TypeInv, TokensAccounted, OneClaimPerToken, [Next]_vars
  PROVE  TokensAccounted' /\ OneClaimPerToken'
<1>1. ASSUME NEW t \in Tasks, pc[t] = "promote", WriteTrust(t, man[t])
      PROVE  TokensAccounted' /\ OneClaimPerToken'
  <2> DEFINE m == man[t]
             h == Grant(t, m)
  <2>1. m \in Catalogue
    BY <1>1 DEF TypeInv, Loaded, PastLoad
  <2>2. m.node \in Nodes /\ Granted(m) \in TrustClasses /\ m.token \in Tokens \cup {None}
    BY <2>1, GrantedIsClass DEF Manifest
  <2>3. Granted(m) \notin Tokens
    BY <2>2, TokenAssumption
  <2>4. /\ m.token = None \/ trust[m.node] = m.token
        /\ trust' = [trust EXCEPT ![m.node] = Granted(m)]
        /\ grants' = grants \cup {h}
        /\ placed' = placed
    BY <1>1 DEF WriteTrust, Claimable
  <2>5. h.m = m
    BY DEF Grant
  <2>6. \A n \in Nodes : trust'[n] = IF n = m.node THEN Granted(m) ELSE trust[n]
    BY <2>2, <2>4 DEF TypeInv, TypeOK
  <2> HIDE DEF m, h
  <2>7. m.token # None => /\ m.token \in placed
                          /\ \A n \in Nodes : trust'[n] # m.token
                          /\ \A g \in grants : g.m.token # m.token
    BY <2>2, <2>3, <2>4, <2>6 DEF TokensAccounted
  <2>8. \A g \in grants : g.m.token \in Tokens \cup {None}
    BY CatalogueAssumption DEF TypeInv, TypeOK, GrantRecords, Manifest
  <2>9. TokensAccounted'
    BY <2>2, <2>3, <2>4, <2>5, <2>6, <2>7, <2>8 DEF TokensAccounted
  <2>10. OneClaimPerToken'
    BY <2>4, <2>5, <2>7 DEF OneClaimPerToken
  <2> QED
    BY <2>9, <2>10
<1>2. CASE UNCHANGED <<trust, grants, placed>>
  BY <1>2 DEF TokensAccounted, OneClaimPerToken
<1>3. CASE Environment
  <2>1. ASSUME NEW n \in Nodes, NEW tok \in Tokens, PlaceToken(n, tok)
        PROVE  TokensAccounted'
    <3>1. /\ tok \notin placed /\ placed' = placed \cup {tok} /\ grants' = grants
          /\ \A k \in Nodes : trust'[k] = IF k = n THEN tok ELSE trust[k]
      BY <2>1 DEF PlaceToken, TypeInv, TypeOK
    <3> QED
      BY <3>1 DEF TokensAccounted
  <2>2. ASSUME ~\E n \in Nodes, tok \in Tokens : PlaceToken(n, tok)
        PROVE  UNCHANGED <<trust, grants, placed>>
    BY <1>3, <2>2 DEF Environment, PutManifest, Attest, LeaseExpires, PutRef, PutPayload,
                      WriteEvent, DropOldest
  <2>3. TokensAccounted'
    BY <2>1, <2>2 DEF TokensAccounted
  <2>4. grants' = grants
    BY <1>3, TypeEnvironment
  <2> QED
    BY <2>3, <2>4 DEF OneClaimPerToken
<1>4. CASE UNCHANGED vars
  BY <1>4 DEF vars, TokensAccounted, OneClaimPerToken
<1> QED
  BY <1>1, <1>2, <1>3, <1>4, StepKinds

(***************************************************************************)
(* A split-brain token admits at most one restore, for every number of     *)
(* replicas, retries and lost replies, provided that tokens are fresh and  *)
(* none is the name of a trust class.                                      *)
(***************************************************************************)
THEOREM SplitBrainExclusion == Spec => []OneClaimPerToken
<1>1. Init => TokensAccounted /\ OneClaimPerToken
  BY DEF Init, TokensAccounted, OneClaimPerToken
<1>2. TypeInv /\ TokensAccounted /\ OneClaimPerToken /\ [Next]_vars
        => TokensAccounted' /\ OneClaimPerToken'
  BY TokenStep
<1> QED
  BY <1>1, <1>2, CheckedInvariant, PTL DEF Spec

(***************************************************************************)
(* The refinement of SplitBrainToken.  A token that is a node's value is   *)
(* live: TokensAccounted says that nobody has claimed it.                  *)
(***************************************************************************)
LEMMA StageOfToken ==
  ASSUME TokensAccounted, NEW n \in Nodes, trust[n] \in Tokens
  PROVE  Stage(trust[n]) = "live" /\ Admitted(trust[n]) = {}
<1>1. Admitted(trust[n]) = {}
  BY TokenAssumption DEF Admitted, TokensAccounted
<1> QED
  BY <1>1 DEF Stage, TokensAccounted

\* The mapped variables, token by token.
LEMMA MappedUnchanged ==
  ASSUME \A k \in Tokens : Stage(k)' = Stage(k) /\ Admitted(k)' = Admitted(k)
  PROVE  UNCHANGED Lifecycle!vars
BY DEF Lifecycle!vars

\* A value that is no token replaces the value of one key: what it replaces, if
\* that is a token, is live no longer; nothing else about the tokens changes.
LEMMA ReplacedToken ==
  ASSUME TypeInv, TokensAccounted, NEW n \in Nodes, NEW v, v \notin Tokens,
         trust' = [trust EXCEPT ![n] = v], placed' = placed
  PROVE  /\ \A k \in Tokens \ {trust[n]} : Admitted(k)' = Admitted(k) => Stage(k)' = Stage(k)
         /\ trust[n] \in Tokens => \A j \in Nodes : trust'[j] # trust[n]
<1>1. \A j \in Nodes : trust'[j] = IF j = n THEN v ELSE trust[j]
  BY DEF TypeInv, TypeOK
<1>2. \A k \in Tokens \ {trust[n]} :
        (\E j \in Nodes : trust'[j] = k) <=> (\E j \in Nodes : trust[j] = k)
  BY <1>1
<1>3. ASSUME NEW k \in Tokens \ {trust[n]}, Admitted(k)' = Admitted(k)
      PROVE  Stage(k)' = Stage(k)
  BY <1>2, <1>3 DEF Stage
<1>4. trust[n] \in Tokens => \A j \in Nodes : trust'[j] # trust[n]
  BY <1>1 DEF TokensAccounted
<1> QED
  BY <1>3, <1>4

\* promote_trust with a token claims it; without one it may overwrite one.
LEMMA WriteRefines ==
  ASSUME TypeInv, TokensAccounted, NEW t \in Tasks, pc[t] = "promote", WriteTrust(t, man[t])
  PROVE  [Lifecycle!Next]_(Lifecycle!vars)
<1>1. PICK m \in Catalogue : m = man[t]
  BY DEF TypeInv, Loaded, PastLoad
<1>2. m.node \in Nodes /\ Granted(m) \notin Tokens /\ m.token \in Tokens \cup {None}
  BY GrantedIsClass, TokenAssumption DEF Manifest
<1>3. PICK h : h = Grant(t, m)
  OBVIOUS
<1>4. /\ h.m = m
      /\ m.token = None \/ trust[m.node] = m.token
      /\ trust' = [trust EXCEPT ![m.node] = Granted(m)]
      /\ grants' = grants \cup {h}
      /\ placed' = placed
  BY <1>1, <1>3 DEF WriteTrust, Claimable, Grant
<1>5. /\ \A k \in Tokens \ {m.token} : Admitted(k)' = Admitted(k)
      /\ Admitted(m.token)' = Admitted(m.token) \cup {<<h.by, h.try>>}
  BY <1>4 DEF Admitted
<1>6. PICK old : old = trust[m.node]
  OBVIOUS
<1>7. /\ \A k \in Tokens \ {old} : Admitted(k)' = Admitted(k) => Stage(k)' = Stage(k)
      /\ old \in Tokens => \A j \in Nodes : trust'[j] # old
  BY <1>2, <1>4, <1>6, ReplacedToken
<1>8. old \in Tokens => Stage(old) = "live" /\ Admitted(old) = {} /\ old \in placed
  BY <1>2, <1>6, StageOfToken DEF TokensAccounted
<1>9. CASE m.token # None
  <2>1. m.token \in Tokens /\ old = m.token
    BY <1>2, <1>4, <1>6, <1>9
  <2>2. Admitted(old)' = {<<h.by, h.try>>}
    BY <1>5, <1>8, <2>1
  <2>3. Stage(old)' = "claimed"
    BY <2>2 DEF Stage
  <2>4. \A k \in Tokens \ {old} : Stage(k)' = Stage(k) /\ Admitted(k)' = Admitted(k)
    BY <1>5, <1>7, <2>1
  <2>5. Lifecycle!Claim(old)
    BY <1>8, <2>1, <2>2, <2>3, <2>4 DEF Lifecycle!Claim
  <2> QED
    BY <2>1, <2>5 DEF Lifecycle!Next
<1>10. CASE m.token = None
  <2>1. \A k \in Tokens : Admitted(k)' = Admitted(k)
    BY <1>5, <1>10, TokenAssumption
  <2>2. CASE old \in Tokens
    <3>1. Admitted(old)' = {} /\ old \in placed' /\ \A j \in Nodes : trust'[j] # old
      BY <1>4, <1>7, <1>8, <2>1, <2>2
    <3>2. Stage(old)' = "void"
      BY <3>1 DEF Stage
    <3>3. Lifecycle!Overwrite(old)
      BY <1>7, <1>8, <2>1, <2>2, <3>2 DEF Lifecycle!Overwrite
    <3> QED
      BY <2>2, <3>3 DEF Lifecycle!Next
  <2>3. CASE old \notin Tokens
    BY <1>7, <2>1, <2>3, MappedUnchanged
  <2> QED
    BY <2>2, <2>3
<1> QED
  BY <1>9, <1>10

\* A placed token was fresh, and may replace a live one at its key.
LEMMA PlaceRefines ==
  ASSUME TypeInv, TokensAccounted, NEW n \in Nodes, NEW tok \in Tokens, PlaceToken(n, tok)
  PROVE  Lifecycle!Next
<1>1. /\ tok \notin placed /\ placed' = placed \cup {tok} /\ grants' = grants
      /\ \A j \in Nodes : trust'[j] = IF j = n THEN tok ELSE trust[j]
  BY DEF PlaceToken, TypeInv, TypeOK
<1>2. \A k \in Tokens : Admitted(k)' = Admitted(k)
  BY <1>1 DEF Admitted
<1>3. Admitted(tok) = {} /\ Stage(tok) = "fresh"
  <2>1. Admitted(tok) = {}
    BY <1>1, TokenAssumption DEF Admitted, TokensAccounted
  <2> QED
    BY <1>1, <2>1 DEF Stage
<1>4. Stage(tok)' = "live"
  BY <1>1, <1>2, <1>3 DEF Stage
<1>5. PICK old : old = trust[n]
  OBVIOUS
<1>6. ASSUME NEW k \in Tokens \ {tok, old}
      PROVE  Stage(k)' = Stage(k)
  <2>1. (\E j \in Nodes : trust'[j] = k) <=> (\E j \in Nodes : trust[j] = k)
    BY <1>1, <1>5
  <2> QED
    BY <1>1, <1>2, <2>1 DEF Stage
<1>7. CASE old \in Tokens
  <2>1. Stage(old) = "live" /\ Admitted(old) = {} /\ old \in placed
    BY <1>5, <1>7, StageOfToken DEF TokensAccounted
  <2>2. old # tok /\ \A j \in Nodes : trust'[j] # old
    BY <1>1, <1>5, <1>7, <2>1 DEF TokensAccounted
  <2>3. Stage(old)' = "void"
    BY <1>1, <1>2, <1>7, <2>1, <2>2 DEF Stage
  <2>4. {old} \in {{}} \cup {{j} : j \in Lifecycle!Live}
    BY <1>7, <2>1 DEF Lifecycle!Live
  <2>5. Lifecycle!Place(tok, {old})
    BY <1>2, <1>3, <1>4, <1>6, <2>2, <2>3 DEF Lifecycle!Place
  <2> QED
    BY <2>4, <2>5 DEF Lifecycle!Next
<1>8. CASE old \notin Tokens
  <2>1. Lifecycle!Place(tok, {})
    BY <1>2, <1>3, <1>4, <1>6, <1>8 DEF Lifecycle!Place
  <2> QED
    BY <2>1 DEF Lifecycle!Next
<1> QED
  BY <1>7, <1>8

\* Whatever else happens, the tokens stay as they are.
LEMMA LifecycleStep ==
  ASSUME TypeInv, TokensAccounted, [Next]_vars
  PROVE  [Lifecycle!Next]_(Lifecycle!vars)
<1>1. ASSUME UNCHANGED <<trust, grants, placed>>
      PROVE  UNCHANGED Lifecycle!vars
  BY <1>1, MappedUnchanged DEF Stage, Admitted
<1>2. CASE Environment
  <2>1. ASSUME ~\E n \in Nodes, tok \in Tokens : PlaceToken(n, tok)
        PROVE  UNCHANGED <<trust, grants, placed>>
    BY <1>2, <2>1 DEF Environment, PutManifest, Attest, LeaseExpires, PutRef, PutPayload,
                      WriteEvent, DropOldest
  <2> QED
    BY <1>1, <2>1, PlaceRefines
<1>3. CASE UNCHANGED vars
  BY <1>1, <1>3 DEF vars
<1> QED
  BY <1>1, <1>2, <1>3, WriteRefines, StepKinds

(***************************************************************************)
(* The trust key of the code implements SplitBrainToken: whatever replicas *)
(* restore, retry or lose replies, and whoever writes the key, a token     *)
(* goes from fresh to live and from there, once, to claimed or void.       *)
(***************************************************************************)
THEOREM ImplementsTokenLifecycle == Spec => TokenLifecycle
<1>1. Init => Lifecycle!Init
  <2> SUFFICES ASSUME Init PROVE Lifecycle!Init
    OBVIOUS
  <2>1. \A k \in Tokens : Admitted(k) = {}
    BY DEF Init, Admitted
  <2>2. \A k \in Tokens : Stage(k) \in {"fresh", "live"}
    BY <2>1 DEF Init, Stage
  <2> QED
    BY <2>1, <2>2 DEF Lifecycle!Init
<1>2. Init => TokensAccounted /\ OneClaimPerToken
  BY DEF Init, TokensAccounted, OneClaimPerToken
<1>3. TypeInv /\ TokensAccounted /\ OneClaimPerToken /\ [Next]_vars
        => TokensAccounted' /\ OneClaimPerToken'
  BY TokenStep
<1>4. TypeInv /\ TokensAccounted /\ [Next]_vars => [Lifecycle!Next]_(Lifecycle!vars)
  BY LifecycleStep
<1> QED
  BY <1>1, <1>2, <1>3, <1>4, CheckedInvariant, PTL DEF Spec, TokenLifecycle, Lifecycle!Spec

-----------------------------------------------------------------------------
(***************************************************************************)
(* A grant of the current try of a call means that the call has returned,  *)
(* or has ended in an exception that is not a RestoreError.                *)
(***************************************************************************)
Landed(t) == pc[t] = "done" \/ (pc[t] = "failed" /\ err[t] = "other")

GrantsLanded ==
  \A g \in grants : /\ g.try <= tries[g.by]
                    /\ g.try = tries[g.by] => Landed(g.by)

\* The write of a call is followed by its end, without a typed error.
LEMMA LandedStep ==
  ASSUME TypeInv, CallsChecked, GrantsLanded, [Next]_vars
  PROVE  GrantsLanded'
<1>1. \A g \in grants : g.by \in Tasks /\ g.try \in Nat /\ tries[g.by] \in Nat
  BY DEF TypeInv, TypeOK, GrantRecords
<1>2. ASSUME NEW t \in Tasks, pc[t] = "promote", WriteTrust(t, man[t]), tries' = tries,
             Goto(t, "done") \/ Raise(t, "other")
      PROVE  GrantsLanded'
  <2>1. Landed(t)' /\ \A u \in Tasks \ {t} : pc'[u] = pc[u] /\ err'[u] = err[u]
    BY <1>2 DEF Landed, Goto, Advance, Raise, TypeInv, TypeOK
  <2>2. /\ grants' = grants \cup {Grant(t, man[t])}
        /\ Grant(t, man[t]).by = t /\ Grant(t, man[t]).try = tries[t]
        /\ tries[t] \in Nat
    BY <1>2 DEF WriteTrust, Grant, TypeInv, TypeOK
  <2>3. ASSUME NEW g \in grants, g.by # t
        PROVE  g.try <= tries'[g.by] /\ (g.try = tries'[g.by] => Landed(g.by)')
    BY <1>1, <1>2, <2>1, <2>3 DEF GrantsLanded, Landed
  <2>4. ASSUME NEW g \in grants, g.by = t
        PROVE  g.try <= tries'[g.by] /\ (g.try = tries'[g.by] => Landed(g.by)')
    BY <1>1, <1>2, <2>1, <2>4 DEF GrantsLanded
  <2> QED
    BY <1>2, <2>1, <2>2, <2>3, <2>4 DEF GrantsLanded
<1>3. ASSUME NEW t \in Tasks, grants' = grants, Start(t) \/ TaskStep(t) \/ Interrupt(t)
      PROVE  GrantsLanded'
  <2>1. \A u \in Tasks \ {t} : pc'[u] = pc[u] /\ err'[u] = err[u] /\ tries'[u] = tries[u]
    BY <1>3, OthersChecked
  <2>2. CASE Start(t)
    <3>1. tries'[t] = tries[t] + 1
      BY <2>2 DEF Start, TypeInv, TypeOK
    <3> QED
      BY <1>1, <1>3, <2>1, <3>1 DEF GrantsLanded, Landed
  <2>3. CASE TaskStep(t) \/ Interrupt(t)
    <3>1. pc[t] \in Steps /\ tries' = tries
      BY <2>3 DEF TaskStep, Interrupt, LoadManifest, VerifyHashes, VerifyAttestation, FetchRef,
                  FetchPayload, ReplayEvents, CheckCriu, PromoteTrust, PromoteRefused, Steps
    <3>2. ~Landed(t)
      BY <3>1 DEF Landed, Steps
    <3> QED
      BY <1>1, <1>3, <2>1, <3>1, <3>2 DEF GrantsLanded, Landed
  <2> QED
    BY <1>3, <2>2, <2>3
<1>4. CASE Environment
  <2>1. UNCHANGED <<task, grants>>
    BY <1>4, TypeEnvironment
  <2> QED
    BY <2>1 DEF GrantsLanded, Landed
<1>5. CASE UNCHANGED vars
  BY <1>5 DEF vars, GrantsLanded, Landed
<1> QED
  BY <1>2, <1>3, <1>4, <1>5, StepKinds

(***************************************************************************)
(* A restore that ends in a RestoreError never wrote the trust key in that *)
(* try: a caller may repeat it without asking what it did.                 *)
(***************************************************************************)
THEOREM RestoreErrorsAreClean == Spec => []TypedFailureHasNoEffect
<1>1. Init => GrantsLanded
  BY DEF Init, GrantsLanded
<1>2. TypeInv /\ CallsChecked /\ GrantsLanded /\ [Next]_vars => GrantsLanded'
  BY LandedStep
<1>3. TypeInv /\ GrantsLanded => TypedFailureHasNoEffect
  BY DEF TypeInv, TypeOK, GrantsLanded, Landed, TypedFailureHasNoEffect, Typed
<1> QED
  BY <1>1, <1>2, <1>3, CheckedInvariant, PTL DEF Spec
=============================================================================
