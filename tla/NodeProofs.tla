----------------------------- MODULE NodeProofs -----------------------------
(***************************************************************************)
(* Proofs about the parts of a node whose operations are single steps:     *)
(* TenantRegistry for any set of ids and any capacity; PlanetaryFleet for  *)
(* any number of nodes and snapshots and any order, loss and repetition of *)
(* the pushes; ArtifactSigner for any payloads, keys and changes.          *)
(***************************************************************************)
EXTENDS TenantRegistry, PlanetaryFleet, ArtifactSigner, FiniteSetTheorems, SequenceTheorems,
        TLAPS

\* TenantRegistry.  What the rules rest on: the capacity is kept between the calls too.
TenantInv == TenantTypes /\ Cardinality(ListTenants) <= MaxTenants

\* The number of active tenants is a number.
LEMMA ActiveFinite == IsFiniteSet(ListTenants) /\ Cardinality(ListTenants) \in Nat
<1>1. ListTenants \subseteq TenantIds
  BY DEF ListTenants
<1> QED
  BY <1>1, TenantAssumption, FS_Subset, FS_CardinalityType

\* An empty registry keeps the rules.
LEMMA TenantInitial == TenantInit => TenantInv
<1> SUFFICES ASSUME TenantInit PROVE TenantInv
  OBVIOUS
<1>1. ListTenants = {}
  BY DEF TenantInit, ListTenants
<1> QED
  BY <1>1, FS_EmptySet, TenantAssumption DEF TenantInit, TenantInv, TenantTypes

\* A registration adds at most the one it was asked for, and only below the limit.
LEMMA RegisterKeeps ==
  ASSUME TenantInv, NEW i \in TenantIds, Register(i)
  PROVE  TenantInv'
<1> USE DEF TenantInv, TenantTypes
<1>1. CASE UNCHANGED tenants
  BY <1>1 DEF Register, ListTenants
<1>2. CASE /\ Cardinality(ListTenants) < MaxTenants /\ tenants[i] = "absent"
           /\ outcome' = "active" /\ tenants' = [tenants EXCEPT ![i] = "active"]
  <2>1. ListTenants' = ListTenants \cup {i} /\ i \notin ListTenants
    BY <1>2 DEF ListTenants
  <2>2. Cardinality(ListTenants \cup {i}) = Cardinality(ListTenants) + 1
    BY <2>1, ActiveFinite, FS_AddElement
  <2> QED
    BY <1>2, <2>1, <2>2, ActiveFinite, TenantAssumption
<1> QED
  BY <1>1, <1>2 DEF Register

\* A deregistration only takes away.
LEMMA DeregisterKeeps ==
  ASSUME TenantInv, NEW i \in TenantIds, Deregister(i)
  PROVE  TenantInv'
<1> USE DEF TenantInv, TenantTypes
<1>1. ListTenants' \subseteq ListTenants
  BY DEF Deregister, ListTenants
<1>2. Cardinality(ListTenants') <= Cardinality(ListTenants) /\ Cardinality(ListTenants') \in Nat
  BY <1>1, ActiveFinite, FS_Subset, FS_CardinalityType
<1>3. TenantTypes'
  BY DEF Deregister
<1> QED
  BY <1>2, <1>3, ActiveFinite, TenantAssumption

\* Every call keeps the invariant, and so does no call.
LEMMA TenantStep == TenantInv /\ [TenantNext]_tenantVars => TenantInv'
<1> SUFFICES ASSUME TenantInv, [TenantNext]_tenantVars PROVE TenantInv'
  OBVIOUS
<1>1. CASE TenantNext
  <2> PICK i \in TenantIds : Register(i) \/ Deregister(i) \/ GetTenant(i)
    BY <1>1 DEF TenantNext
  <2>1. CASE GetTenant(i)
    BY <2>1 DEF GetTenant, TenantInv, TenantTypes, ListTenants
  <2> QED
    BY <2>1, RegisterKeeps, DeregisterKeeps
<1>2. CASE UNCHANGED tenantVars
  BY <1>2 DEF tenantVars, TenantInv, TenantTypes, ListTenants
<1> QED
  BY <1>1, <1>2

(***************************************************************************)
(* Type correctness of the registry.                                       *)
(***************************************************************************)
THEOREM TenantsTyped == TenantSpec => []TenantTypes
<1>1. TenantInv => TenantTypes
  BY DEF TenantInv
<1> QED
  BY <1>1, TenantInitial, TenantStep, PTL DEF TenantSpec

(***************************************************************************)
(* No sequence of register and deregister exceeds max_tenants, forgets a   *)
(* tenant, or makes a deregistered one active again.                       *)
(***************************************************************************)
THEOREM RulesKept == TenantSpec => RegistryRules
<1> DEFINE Rules ==
      /\ Cardinality(ListTenants') <= MaxTenants
      /\ \A i \in TenantIds :
           /\ tenants[i] # "absent" => tenants'[i] # "absent"
           /\ tenants[i] = "inactive" => tenants'[i] = "inactive"
<1>1. TenantInv /\ [TenantNext]_tenantVars => [Rules]_tenantVars
  <2> SUFFICES ASSUME TenantInv, TenantNext PROVE Rules
    OBVIOUS
  <2>1. Cardinality(ListTenants') <= MaxTenants
    BY TenantStep DEF TenantInv
  <2>2. \A i \in TenantIds :
           /\ tenants[i] # "absent" => tenants'[i] # "absent"
           /\ tenants[i] = "inactive" => tenants'[i] = "inactive"
    BY DEF TenantInv, TenantTypes, TenantNext, Register, Deregister, GetTenant
  <2> QED
    BY <2>1, <2>2
<1> QED
  BY <1>1, TenantInitial, TenantStep, PTL DEF TenantSpec, RegistryRules

-----------------------------------------------------------------------------
\* PlanetaryFleet.  What keeps the second half of FleetView is a fact about every
\* stored snapshot without observations, whatever the timestamps are.
FailureReported == \A n \in Unmeasurable : answer[n] = "error"

FleetInv == FleetTypes /\ StaleOnlyWhenLate /\ FailureReported

\* Numbers compare with numbers, so that only observations are left to raise.
LEMMA NumbersCompare == FleetInv => FleetView
<1> SUFFICES ASSUME FleetInv, SummaryRaises,
                    \A n \in Known : TimeKind(snapshots[n]) = "number"
             PROVE  Unmeasurable # {}
  BY DEF FleetInv, FleetView, OutageWasReported, FailureReported
<1>1. Incomparable = {}
  BY DEF Incomparable, Comparable
<1> QED
  BY <1>1 DEF SummaryRaises

\* A snapshot is not the mark for none, and has its fields.
LEMMA SnapshotIsKnown ==
  ASSUME NEW s \in Snapshots
  PROVE  s # NoSnapshot /\ s.node \in Nodes /\ s.made \in Nat
BY FleetAssumption DEF Snapshots

\* A service that has heard of nobody.
LEMMA FleetInitial == FleetInit => FleetInv
BY DEF FleetInit, FleetInv, FleetTypes, StaleOnlyWhenLate, FailureReported, Unmeasurable,
       Known

\* Storing a snapshot keeps the types ...
LEMMA PushTypes ==
  ASSUME FleetTypes, NEW s \in Snapshots, Push(s), UNCHANGED <<wired, made, published>>
  PROVE  FleetTypes'
<1>1. snapshots' \in [Nodes -> Snapshots \cup {NoSnapshot}]
  BY SnapshotIsKnown DEF Push, FleetTypes
<1>2. \A n \in Known' : snapshots'[n].node = n
  BY SnapshotIsKnown DEF Push, FleetTypes, Known
<1>3. answer' \in [Nodes -> {"none", "accepted", "dropped", "error"}]
  BY SnapshotIsKnown DEF Push, FleetTypes, Answer
<1>4. newest' \in [Nodes -> Nat]
  BY SnapshotIsKnown DEF Push, FleetTypes, Accepted
<1>5. tardy' \subseteq Nodes
  BY SnapshotIsKnown DEF Push, FleetTypes
<1> QED
  BY <1>1, <1>2, <1>3, <1>4, <1>5 DEF FleetTypes

\* ... leaves a node behind its newest only if it is late ...
LEMMA PushStale ==
  ASSUME FleetInv, NEW s \in Snapshots, Push(s)
  PROVE  StaleOnlyWhenLate'
<1> SUFFICES ASSUME NEW n \in Nodes, newest'[n] > 0, n \notin tardy'
             PROVE  n \in Known' /\ snapshots'[n].made >= newest'[n]
  BY DEF StaleOnlyWhenLate
<1>1. CASE n = s.node
  <2>1. s.made >= newest[n] /\ snapshots'[n] = s
    BY <1>1, SnapshotIsKnown DEF Push, FleetInv, FleetTypes
  <2>2. newest'[n] <= s.made
    BY <1>1, <2>1, SnapshotIsKnown DEF Push, Accepted, FleetInv, FleetTypes
  <2> QED
    BY <1>1, <2>1, <2>2, SnapshotIsKnown DEF Known, FleetInv, FleetTypes, Push, Accepted
<1>2. CASE n # s.node
  <2>1. newest'[n] = newest[n] /\ snapshots'[n] = snapshots[n] /\ n \notin tardy
    BY <1>2, SnapshotIsKnown DEF Push, Accepted, FleetInv, FleetTypes
  <2> QED
    BY <2>1 DEF FleetInv, StaleOnlyWhenLate, Known
<1> QED
  BY <1>1, <1>2

\* ... and reports a failure when it stores what the summary cannot measure.
LEMMA PushReported ==
  ASSUME FleetInv, NEW s \in Snapshots, Push(s)
  PROVE  FailureReported'
BY SnapshotIsKnown
   DEF Push, Answer, FleetInv, FleetTypes, FailureReported, Unmeasurable, Known

\* A push that stores nothing: refused by float(), or no hub.
LEMMA NothingStored ==
  ASSUME FleetInv, NEW s \in Snapshots, NEW a \in {"dropped", "error"},
         a = "dropped" => ~wired,
         Answer(s.node, a), UNCHANGED <<wired, made, published, snapshots, newest, tardy>>,
         ~wired => Known = {}
  PROVE  FleetInv'
<1>1. FleetTypes'
  BY SnapshotIsKnown DEF FleetInv, FleetTypes, Answer, Known
<1>2. StaleOnlyWhenLate'
  BY DEF FleetInv, StaleOnlyWhenLate, Known
<1>3. FailureReported'
  BY SnapshotIsKnown
     DEF FleetInv, FleetTypes, FailureReported, Unmeasurable, Known, Answer
<1> QED
  BY <1>1, <1>2, <1>3 DEF FleetInv

\* Without a hub nothing is ever known.
Unwired == ~wired => Known = {}

\* Every step keeps the invariant.
LEMMA FleetStep == FleetInv /\ Unwired /\ [FleetNext]_fleetVars => FleetInv' /\ Unwired'
<1> SUFFICES ASSUME FleetInv, Unwired, [FleetNext]_fleetVars PROVE FleetInv' /\ Unwired'
  OBVIOUS
<1>1. CASE ClearHub
  BY <1>1 DEF ClearHub, FleetInv, FleetTypes, StaleOnlyWhenLate, FailureReported,
              Unmeasurable, Known, Unwired
<1>2. ASSUME NEW n \in Nodes, NEW f \in Forms, Publish(n, f)
      PROVE  FleetInv' /\ Unwired'
  <2>1. [node |-> n, made |-> made[n] + 1, form |-> f] \in Snapshots
    BY DEF FleetInv, FleetTypes, Snapshots
  <2>2. FleetTypes'
    BY <1>2, <2>1 DEF Publish, FleetInv, FleetTypes, Known
  <2>3. StaleOnlyWhenLate' /\ FailureReported' /\ Unwired'
    BY <1>2 DEF Publish, FleetInv, StaleOnlyWhenLate, FailureReported, Unmeasurable, Known,
                Unwired
  <2> QED
    BY <2>2, <2>3 DEF FleetInv
<1>3. ASSUME NEW s \in published, PlanetaryStatePush(s)
      PROVE  FleetInv' /\ Unwired'
  <2>1. s \in Snapshots
    BY DEF FleetInv, FleetTypes
  <2>2. CASE wired /\ Push(s)
    BY <1>3, <2>1, <2>2, PushTypes, PushStale, PushReported
       DEF FleetInv, Unwired, PlanetaryStatePush
  <2>3. CASE wired /\ Answer(s.node, "error") /\ UNCHANGED <<snapshots, newest, tardy>>
    BY <1>3, <2>1, <2>3, NothingStored DEF PlanetaryStatePush, Unwired
  <2>4. CASE ~wired /\ Answer(s.node, "dropped") /\ UNCHANGED <<snapshots, newest, tardy>>
    <3>1. FleetInv'
      BY <1>3, <2>1, <2>4, NothingStored DEF PlanetaryStatePush, Unwired
    <3> QED
      BY <1>3, <2>4, <3>1 DEF Unwired, Known, PlanetaryStatePush
  <2> QED
    BY <1>3, <2>2, <2>3, <2>4 DEF PlanetaryStatePush, PushDict
<1>4. CASE UNCHANGED fleetVars
  BY <1>4 DEF fleetVars, FleetInv, FleetTypes, StaleOnlyWhenLate, FailureReported,
              Unmeasurable, Known, Unwired
<1> QED
  BY <1>1, <1>2, <1>3, <1>4 DEF FleetNext

\* The invariant holds throughout.
LEMMA FleetInvariant == FleetSpec => [](FleetInv /\ Unwired)
<1>1. FleetInit => Unwired
  BY DEF FleetInit, Unwired, Known
<1> QED
  BY <1>1, FleetInitial, FleetStep, PTL DEF FleetSpec

(***************************************************************************)
(* Type correctness: what is stored under a node is a snapshot of it.      *)
(***************************************************************************)
THEOREM FleetTyped == FleetSpec => []FleetTypes
BY FleetInvariant, PTL DEF FleetInv

(***************************************************************************)
(* A node is shown behind what it was accepted with only after one of its  *)
(* snapshots arrived late, and, as long as the timestamps stored are       *)
(* numbers, a snapshot that breaks the summary is there only for a node    *)
(* that was told that its push failed.                                     *)
(***************************************************************************)
THEOREM FleetViewHolds == FleetSpec => []FleetView
BY FleetInvariant, NumbersCompare, PTL

(***************************************************************************)
(* "Return the latest snapshot for a specific node" holds as far as the    *)
(* network allows: while no snapshot arrived behind a newer one of its     *)
(* node, the hub shows nothing older than what it accepted.  That is the   *)
(* whole condition under which LatestPerNode is kept.                      *)
(***************************************************************************)
THEOREM LatestUnlessLate == FleetSpec => [](tardy = {} => LatestPerNode)
<1>1. FleetInv => (tardy = {} => LatestPerNode)
  <2> SUFFICES ASSUME FleetInv, tardy = {}, NEW n \in Known
               PROVE  snapshots[n].made >= newest[n]
    BY DEF LatestPerNode
  <2>1. n \in Nodes /\ snapshots[n] \in Snapshots /\ newest[n] \in Nat
    BY DEF FleetInv, FleetTypes, Known
  <2>2. snapshots[n].made \in Nat
    BY <2>1, SnapshotIsKnown
  <2> QED
    BY <2>1, <2>2 DEF FleetInv, StaleOnlyWhenLate
<1> QED
  BY <1>1, FleetInvariant, PTL

-----------------------------------------------------------------------------
\* ArtifactSigner: a signature carries the text that was signed, whatever became
\* of the dictionary and of the digest.
SignerInv ==
  SignerTypes /\ \A i \in 1 .. Len(artifacts) : artifacts[i].signature.text = signedAs[i]

ArtifactSet == [payload : Payloads, digest : Texts, sequence : Nat,
                signature : [key : Keys, text : Texts]]

\* Nothing is signed yet.
LEMMA SignerInitial == SignerInit => SignerInv
<1> SUFFICES ASSUME SignerInit PROVE SignerInv
  OBVIOUS
<1>1. /\ artifacts \in Seq(ArtifactSet) /\ Len(artifacts) = 0
      /\ signedAs \in Seq(Texts) /\ Len(signedAs) = 0
  BY EmptySeq DEF SignerInit
<1> QED
  BY <1>1 DEF SignerInit, SignerInv, SignerTypes, ArtifactSet

\* A signature and the text it is made of are added together.
LEMMA SignKeeps ==
  ASSUME SignerInv, NEW d \in Payloads, SignArtifact(d)
  PROVE  SignerInv'
<1> DEFINE new == Artifact(d, Canonical(d), StubMac(privateKey, Canonical(d)), sequence + 1)
<1>1. CASE UNCHANGED <<sequence, artifacts, signedAs>>
  BY <1>1 DEF SignArtifact, SignerInv, SignerTypes
<1>2. CASE /\ sequence' = sequence + 1
           /\ artifacts' = Append(artifacts, new)
           /\ signedAs' = Append(signedAs, Canonical(d))
  <2>0. Canonical(d) \in Texts
    BY DEF Canonical, SignerInv, SignerTypes, Contents
  <2>1. Len(artifacts) \in Nat /\ sequence \in Nat
    BY LenProperties DEF SignerInv, SignerTypes
  <2>2. new \in ArtifactSet /\ new.signature.text = Canonical(d)
    BY <2>0, <2>1 DEF ArtifactSet, Artifact, StubMac, SignerInv, SignerTypes
  <2> HIDE DEF new
  <2>3. /\ artifacts' \in Seq(ArtifactSet) /\ Len(artifacts') = Len(artifacts) + 1
        /\ \A i \in 1 .. Len(artifacts) : artifacts'[i] = artifacts[i]
        /\ artifacts'[Len(artifacts) + 1] = new
    <3>1. artifacts \in Seq(ArtifactSet)
      BY DEF SignerInv, SignerTypes, ArtifactSet
    <3> QED
      BY <1>2, <2>2, <3>1, AppendProperties
  <2>4. /\ signedAs' \in Seq(Texts) /\ Len(signedAs') = Len(signedAs) + 1
        /\ \A i \in 1 .. Len(signedAs) : signedAs'[i] = signedAs[i]
        /\ signedAs'[Len(signedAs) + 1] = Canonical(d)
    BY <1>2, <2>0, AppendProperties DEF SignerInv, SignerTypes
  <2>5. SignerTypes'
    BY <1>2, <2>3, <2>4 DEF SignArtifact, SignerInv, SignerTypes, ArtifactSet
  <2>6. ASSUME NEW i \in 1 .. Len(artifacts')
        PROVE  artifacts'[i].signature.text = signedAs'[i]
    <3>1. CASE i \in 1 .. Len(artifacts)
      BY <2>3, <2>4, <3>1 DEF SignerInv, SignerTypes
    <3>2. CASE i = Len(artifacts) + 1
      BY <2>2, <2>3, <2>4, <3>2 DEF SignerInv, SignerTypes
    <3> QED
      BY <2>1, <2>3, <3>1, <3>2
  <2> QED
    BY <2>5, <2>6 DEF SignerInv
<1> QED
  BY <1>1, <1>2 DEF SignArtifact

\* Another digest leaves the signature as it is.
LEMMA DigestKeeps ==
  ASSUME SignerInv, NEW j \in 1 .. Len(artifacts), NEW x \in Texts, ChangeDigest(j, x)
  PROVE  SignerInv'
<1>1. /\ artifacts' \in Seq(ArtifactSet) /\ Len(artifacts') = Len(artifacts)
      /\ \A i \in 1 .. Len(artifacts) : artifacts'[i].signature = artifacts[i].signature
  <2>0. artifacts \in Seq(ArtifactSet)
    BY DEF SignerInv, SignerTypes, ArtifactSet
  <2>1. artifacts \in Seq(ArtifactSet) /\ artifacts[j] \in ArtifactSet
    BY <2>0, ElementOfSeq
  <2>2. PICK new : new = Artifact(artifacts[j].payload, x, artifacts[j].signature,
                                  artifacts[j].sequence)
    OBVIOUS
  <2>3. new \in ArtifactSet /\ new.signature = artifacts[j].signature
    BY <2>1, <2>2 DEF Artifact, ArtifactSet
  <2>4. artifacts' = [artifacts EXCEPT ![j] = new]
    BY <2>2 DEF ChangeDigest
  <2> QED
    BY <2>1, <2>3, <2>4
<1> QED
  BY <1>1 DEF ChangeDigest, SignerInv, SignerTypes, ArtifactSet

\* The invariant holds throughout.
LEMMA SignerInvariant == SignerSpec => []SignerInv
<1>1. SignerInv /\ [SignerNext]_signerVars => SignerInv'
  <2> SUFFICES ASSUME SignerInv, [SignerNext]_signerVars PROVE SignerInv'
    OBVIOUS
  <2>1. CASE UNCHANGED signerVars
    BY <2>1 DEF signerVars, SignerInv, SignerTypes
  <2>2. ASSUME NEW d \in Payloads, NEW x \in Contents, ChangePayload(d, x)
        PROVE  SignerInv'
    BY <2>2 DEF ChangePayload, SignerInv, SignerTypes
  <2> QED
    BY <2>1, <2>2, SignKeeps, DigestKeeps DEF SignerNext
<1> QED
  BY <1>1, SignerInitial, PTL DEF SignerSpec

(***************************************************************************)
(* Type correctness of the signer; its number counts the artifacts.        *)
(***************************************************************************)
THEOREM SignerTyped == SignerSpec => []SignerTypes
BY SignerInvariant, PTL DEF SignerInv

(***************************************************************************)
(* Whatever verify() accepts renders to the text that was signed, however  *)
(* the caller's dictionary or the digest changed in between.               *)
(***************************************************************************)
THEOREM VerifiedMeansSigned == SignerSpec => []VerifiedIsAsSigned
<1>1. SignerInv => VerifiedIsAsSigned
  <2> SUFFICES ASSUME SignerInv, NEW i \in 1 .. Len(artifacts), Verify(artifacts[i]) = "verified"
               PROVE  Canonical(artifacts[i].payload) = signedAs[i]
    BY DEF VerifiedIsAsSigned
  <2>1. VerifyStub(artifacts[i])
    BY DEF Verify
  <2>2. artifacts[i].signature.text = Canonical(artifacts[i].payload)
    BY <2>1 DEF VerifyStub, StubMac
  <2> QED
    BY <2>2 DEF SignerInv
<1> QED
  BY <1>1, SignerInvariant, PTL
=============================================================================
