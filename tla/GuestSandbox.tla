---------------------------- MODULE GuestSandbox ----------------------------
(***************************************************************************)
(* gaia_server/sandbox/guest_sandbox.py: one sandbox, the registry of its  *)
(* guests, and calls of admit_guest and terminate_guest from the threads   *)
(* of the server.  A call is split where it leaves the sandbox (install    *)
(* gate, UNIVERSE, environmental monitor, codex) and between the test and  *)
(* the deletion in terminate_guest; no lock guards the registry.           *)
(*                                                                         *)
(* A guest id is the package: the tenant is the same for all of them.      *)
(***************************************************************************)
EXTENDS Naturals

CONSTANTS
  Admits,      \* calls of admit_guest
  Terminates,  \* calls of terminate_guest
  Packages,    \* package URLs
  NoCall       \* no entry in the registry

Calls == Admits \cup Terminates

\* What may be missing from the installation: importing it raises ImportError.
Modules == {"gate", "universe", "monitor", "codex"}

ASSUME CallsAssumption == Admits \cap Terminates = {} /\ NoCall \notin Calls \cup Packages

VARIABLES
  installed,  \* the modules that can be imported
  stage,      \* stage[c]: the next step of call c, or how it ended
  target,     \* target[c]: package_url or guest_id of c
  guests,     \* _active_guests: the admission that made the entry, or NoCall
  apps,       \* external: admissions whose workload UNIVERSE has launched
  took,       \* history: took[c] is the entry that termination c deleted
  replaced    \* history: entries that a later admission wrote over

sandboxVars == <<installed, stage, target, guests, apps, took, replaced>>

SandboxInit ==
  /\ installed \in SUBSET Modules
  /\ stage = [c \in Calls |-> "idle"]
  /\ target = [c \in Calls |-> NoCall]
  /\ guests = [p \in Packages |-> NoCall]
  /\ apps = {}
  /\ took = [c \in Terminates |-> NoCall]
  /\ replaced = {}

\* Call c goes on at, or ends with, s.
Become(c, s) == stage' = [stage EXCEPT ![c] = s] /\ UNCHANGED <<installed, target>>

-----------------------------------------------------------------------------
AdmitGuest(c, p) ==
  /\ stage[c] = "idle"
  /\ stage' = [stage EXCEPT ![c] = "gate"]
  /\ target' = [target EXCEPT ![c] = p]
  /\ UNCHANGED <<installed, guests, apps, took, replaced>>

\* Step 1: without gaia_hypervisor the gate is skipped.
InstallGate(c) ==
  /\ stage[c] = "gate"
  /\ Become(c, "launch") \/ ("gate" \in installed /\ Become(c, "rejected"))
  /\ UNCHANGED <<guests, apps, took, replaced>>

\* Mutant of LaunchApp: the guest is entered before it is launched.
LaunchAppEntered(c) ==
  /\ stage[c] = "launch"
  /\ guests' = [guests EXCEPT ![target[c]] = c]
  /\ \/ "universe" \in installed /\ apps' = apps \cup {c} /\ Become(c, "register")
     \/ "universe" \in installed /\ UNCHANGED apps /\ Become(c, "rejected")
     \/ "universe" \notin installed /\ UNCHANGED apps /\ Become(c, "register")
  /\ UNCHANGED <<took, replaced>>

\* Step 2: launch_app runs the workload or raises; a stub result without it.
\* launch_app is external, and taken to have started nothing when it raises.
LaunchApp(c) ==
  /\ stage[c] = "launch"
  /\ \/ "universe" \in installed /\ apps' = apps \cup {c} /\ Become(c, "register")
     \/ "universe" \in installed /\ UNCHANGED apps /\ Become(c, "rejected")
     \/ "universe" \notin installed /\ UNCHANGED apps /\ Become(c, "register")
  /\ UNCHANGED <<guests, took, replaced>>

\* Step 3: the entry of an earlier admission of the package is replaced.
RegisterGuest(c) ==
  /\ stage[c] = "register"
  /\ guests' = [guests EXCEPT ![target[c]] = c]
  /\ replaced' = replaced \cup ({guests[target[c]]} \ {NoCall})
  /\ Become(c, "report")
  /\ UNCHANGED <<apps, took>>

\* Mutant of ReportEnergyDraw: a failed report takes the entry back.
ReportRollback(c) ==
  /\ stage[c] = "report"
  /\ \/ Become(c, "admitted") /\ UNCHANGED guests
     \/ /\ "monitor" \in installed /\ Become(c, "failed")
        /\ guests' = [guests EXCEPT ![target[c]] = NoCall]
  /\ UNCHANGED <<apps, took, replaced>>

\* Step 4: only ImportError is caught; what the monitor raises goes to the caller.
ReportEnergyDraw(c) ==
  /\ stage[c] = "report"
  /\ Become(c, "admitted") \/ ("monitor" \in installed /\ Become(c, "failed"))
  /\ UNCHANGED <<guests, apps, took, replaced>>

-----------------------------------------------------------------------------
\* The look-up of terminate_guest.
TerminateGuest(c, p) ==
  /\ stage[c] = "idle"
  /\ stage' = [stage EXCEPT ![c] = IF guests[p] = NoCall THEN "not_found" ELSE "remove"]
  /\ target' = [target EXCEPT ![c] = p]
  /\ UNCHANGED <<installed, guests, apps, took, replaced>>

\* Mutant of RemoveEntry: pop(guest_id, None) instead of del.
RemoveEntryPop(c) ==
  /\ stage[c] = "remove"
  /\ Become(c, "seal")
  /\ guests' = [guests EXCEPT ![target[c]] = NoCall]
  /\ took' = [took EXCEPT ![c] = guests[target[c]]]
  /\ UNCHANGED <<apps, replaced>>

\* del raises KeyError when another thread was faster.
RemoveEntry(c) ==
  /\ stage[c] = "remove"
  /\ \/ guests[target[c]] = NoCall /\ Become(c, "failed") /\ UNCHANGED <<guests, took>>
     \/ /\ guests[target[c]] # NoCall
        /\ Become(c, "seal")
        /\ guests' = [guests EXCEPT ![target[c]] = NoCall]
        /\ took' = [took EXCEPT ![c] = guests[target[c]]]
  /\ UNCHANGED <<apps, replaced>>

\* The Final Seal; _StubCodex never raises.
FinalSeal(c) ==
  /\ stage[c] = "seal"
  /\ Become(c, "terminated") \/ ("codex" \in installed /\ Become(c, "failed"))
  /\ UNCHANGED <<guests, apps, took, replaced>>

AdmitStep(c) ==
  InstallGate(c) \/ LaunchApp(c) \/ RegisterGuest(c) \/ ReportEnergyDraw(c)

SandboxNext ==
  \/ \E c \in Admits : AdmitStep(c) \/ \E p \in Packages : AdmitGuest(c, p)
  \/ \E c \in Terminates :
       RemoveEntry(c) \/ FinalSeal(c) \/ \E p \in Packages : TerminateGuest(c, p)

SandboxSpec == SandboxInit /\ [][SandboxNext]_sandboxVars

-----------------------------------------------------------------------------
SandboxTypes ==
  /\ installed \subseteq Modules
  /\ stage \in [Calls -> {"idle", "gate", "launch", "register", "report", "admitted",
                          "rejected", "failed", "remove", "seal", "terminated", "not_found"}]
  /\ target \in [Calls -> Packages \cup {NoCall}]
  /\ \A c \in Calls : stage[c] # "idle" => target[c] \in Packages
  /\ guests \in [Packages -> Admits \cup {NoCall}]
  /\ apps \subseteq Admits
  /\ took \in [Terminates -> Admits \cup {NoCall}]
  /\ replaced \subseteq Admits

(***************************************************************************)
(* SandboxAdmissionError means that nothing happened: the rejected guest   *)
(* neither runs, nor is or was in the registry, whatever other calls do    *)
(* with the same package.                                                  *)
(***************************************************************************)
RejectedHasNoEffect ==
  \A c \in Admits : stage[c] = "rejected" =>
    /\ c \notin apps \cup replaced
    /\ \A p \in Packages : guests[p] # c
    /\ \A d \in Terminates : took[d] # c

(***************************************************************************)
(* An admitted guest is terminated once: each termination that reports     *)
(* "terminated" removed an entry of its own, also when two of them found   *)
(* the same guest, or when it was admitted again in between.               *)
(***************************************************************************)
TerminatedOnce ==
  \A c \in Terminates :
    /\ stage[c] = "terminated" => took[c] # NoCall
    /\ \A d \in Terminates \ {c} : took[c] # NoCall => took[c] # took[d]

(***************************************************************************)
(* No workload gets lost: one that UNIVERSE has launched is about to be    *)
(* entered, or list_guests shows it, or somebody terminated it, or a later *)
(* admission of the same package took its place -- also when the energy    *)
(* report or the Final Seal raises.                                        *)
(***************************************************************************)
RunningAccounted ==
  \A c \in apps :
    \/ stage[c] = "register"
    \/ guests[target[c]] = c
    \/ c \in replaced
    \/ \E d \in Terminates : took[d] = c

(***************************************************************************)
(* The calls, interleaved in any way and failing at any step, act on the   *)
(* registry as the single steps of GuestLifecycle: no admission is listed  *)
(* twice, none comes back, and none leaves the list but by a termination   *)
(* or a later admission of its package.                                    *)
(***************************************************************************)
Fate(c) ==
  IF \E d \in Terminates : took[d] = c THEN "terminated"
  ELSE IF c \in replaced THEN "replaced"
  ELSE IF \E p \in Packages : guests[p] = c THEN "listed"
  ELSE IF stage[c] = "rejected" THEN "rejected"
  ELSE "pending"

Guest == INSTANCE GuestLifecycle
  WITH Guests <- Admits, NoGuest <- NoCall,
       listed <- guests, fate <- [c \in Admits |-> Fate(c)]

RegistryLifecycle == Guest!Spec
=============================================================================
