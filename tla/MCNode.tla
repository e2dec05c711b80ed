------------------------------- MODULE MCNode -------------------------------
(***************************************************************************)
(* An instance for TLC of the five small components of a node.  They share *)
(* no variable and call nothing of each other, so that a step of one       *)
(* leaves the states of the others alone, and what can be said of each     *)
(* does not depend on how their steps interleave.  Each behaviour here     *)
(* runs the one that part names; the others stay in an initial state.      *)
(***************************************************************************)
EXTENDS TelemetryCollector, GuestSandbox, TenantRegistry, PlanetaryFleet, ArtifactSigner

CONSTANTS th1, th2, th3, adm1, adm2, adm3, del1, del2, pkg1, ten1, ten2, ten3,
          nod1, nod2, dict1, dict2, txt1, txt2, key1, key2

VARIABLE part

allVars == <<part, telemetryVars, sandboxVars, tenantVars, fleetVars, signerVars>>

Parts == {"telemetry", "sandbox", "tenants", "fleet", "signer"}

Init ==
  /\ part \in Parts
  /\ TelemetryInit /\ SandboxInit /\ TenantInit /\ FleetInit /\ SignerInit
  /\ part # "sandbox" => installed = Modules
  /\ part # "fleet" => wired
  /\ part # "signer" =>
       /\ backend = "software-stub" /\ privateKey = key1 /\ publicKey = key1
       /\ contents = [d \in Payloads |-> [text |-> txt1, native |-> FALSE]]

Next ==
  \/ /\ part = "telemetry" /\ TelemetryNext
     /\ UNCHANGED <<part, sandboxVars, tenantVars, fleetVars, signerVars>>
  \/ /\ part = "sandbox" /\ SandboxNext
     /\ UNCHANGED <<part, telemetryVars, tenantVars, fleetVars, signerVars>>
  \/ /\ part = "tenants" /\ TenantNext
     /\ UNCHANGED <<part, telemetryVars, sandboxVars, fleetVars, signerVars>>
  \/ /\ part = "fleet" /\ FleetNext
     /\ UNCHANGED <<part, telemetryVars, sandboxVars, tenantVars, signerVars>>
  \/ /\ part = "signer" /\ SignerNext
     /\ UNCHANGED <<part, telemetryVars, sandboxVars, tenantVars, fleetVars>>

\* A thread that runs goes on: the scheduler forgets none, and sleep() ends.
FairSpec ==
  /\ Init /\ [][Next]_allVars
  /\ \A t \in Threads : WF_allVars(part = "telemetry" /\ CollectorStep(t)
       /\ UNCHANGED <<part, sandboxVars, tenantVars, fleetVars, signerVars>>)

\* The hub alone, reached by the service.
HubSpec == Init /\ part = "fleet" /\ [][Next]_allVars

TypeOK ==
  /\ part \in Parts
  /\ TelemetryTypes /\ SandboxTypes /\ TenantTypes /\ FleetTypes /\ SignerTypes
=============================================================================
