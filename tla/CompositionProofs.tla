-------------------------- MODULE CompositionProofs --------------------------
(***************************************************************************)
(* The node of MCNode implements each of its five components: a step of    *)
(* one part is a stuttering step of the others.  So what was proved of a   *)
(* component alone holds of it in the node, for every value of the         *)
(* constants, and the node's own type invariant follows from theirs.       *)
(***************************************************************************)
EXTENDS MCNode, TelemetryCollectorProofs, GuestSandboxProofs, NodeProofs

\* A step of the node is a step of one part that leaves the others alone.
LEMMA NodeStep ==
  ASSUME [Next]_allVars
  PROVE  /\ part' = part
         /\ [TelemetryNext]_telemetryVars
         /\ [SandboxNext]_sandboxVars
         /\ [TenantNext]_tenantVars
         /\ [FleetNext]_fleetVars
         /\ [SignerNext]_signerVars
<1>1. CASE UNCHANGED allVars
  BY <1>1 DEF allVars
<1>2. CASE Next
  BY <1>2 DEF Next
<1> QED
  BY <1>1, <1>2

\* The node, without its fairness, is what the components are instances of.
LEMMA NodeImplementsParts ==
  Init /\ [][Next]_allVars =>
    TelemetrySpec /\ SandboxSpec /\ TenantSpec /\ FleetSpec /\ SignerSpec
<1>1. Init => TelemetryInit /\ SandboxInit /\ TenantInit /\ FleetInit /\ SignerInit
  BY DEF Init
<1>2. [Next]_allVars => /\ [TelemetryNext]_telemetryVars
                        /\ [SandboxNext]_sandboxVars
                        /\ [TenantNext]_tenantVars
                        /\ [FleetNext]_fleetVars
                        /\ [SignerNext]_signerVars
  BY NodeStep
<1> QED
  BY <1>1, <1>2, PTL DEF TelemetrySpec, SandboxSpec, TenantSpec, FleetSpec, SignerSpec

(***************************************************************************)
(* Type correctness of the whole node: the state of every component stays  *)
(* well formed, whichever of them runs.                                    *)
(***************************************************************************)
THEOREM NodeTyped == FairSpec => []TypeOK
<1>1. Init => part \in Parts
  BY DEF Init
<1>2. part \in Parts /\ [Next]_allVars => (part \in Parts)'
  BY NodeStep
<1>3. /\ part \in Parts /\ TelemetryTypes /\ SandboxTypes /\ TenantTypes /\ FleetTypes
      /\ SignerTypes
      => TypeOK
  BY DEF TypeOK
<1> QED
  BY <1>1, <1>2, <1>3, NodeImplementsParts, TelemetryTyped, SandboxTyped, TenantsTyped,
     FleetTyped, SignerTyped, PTL DEF FairSpec
=============================================================================
