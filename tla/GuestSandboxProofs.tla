------------------------- MODULE GuestSandboxProofs -------------------------
(***************************************************************************)
(* Proofs about GuestSandbox, for any number of concurrent calls and       *)
(* packages and any set of installed modules.                              *)
(*                                                                         *)
(* The three properties hold because an admission enters the registry      *)
(* once, under its own package, and leaves it once: Absent says where an   *)
(* admission is not before it was entered, InPlace that an entry is under  *)
(* the package of its admission, Removed what a termination has deleted.   *)
(***************************************************************************)
EXTENDS GuestSandbox, TLAPS

\* Nowhere in the registry, nor was it ever.
Unseen(c) ==
  /\ c \notin replaced
  /\ \A p \in Packages : guests[p] # c
  /\ \A d \in Terminates : took[d] # c

Absent ==
  \A c \in Admits :
    /\ stage[c] \in {"idle", "gate", "launch", "register", "rejected"} => Unseen(c)
    /\ stage[c] \in {"idle", "gate", "launch", "rejected"} => c \notin apps

InPlace == \A p \in Packages : guests[p] # NoCall => target[guests[p]] = p

Removed ==
  \A d \in Terminates :
    /\ stage[d] \in {"idle", "remove", "not_found"} => took[d] = NoCall
    /\ stage[d] \in {"seal", "terminated"} => took[d] # NoCall
    /\ took[d] # NoCall =>
         /\ \A p \in Packages : guests[p] # took[d]
         /\ \A e \in Terminates \ {d} : took[e] # took[d]

SandboxInv == SandboxTypes /\ Absent /\ InPlace /\ Removed /\ RunningAccounted

-----------------------------------------------------------------------------
\* An idle sandbox.
LEMMA SandboxInitial == SandboxInit => SandboxInv
BY CallsAssumption
   DEF SandboxInit, SandboxInv, SandboxTypes, Absent, Unseen, InPlace, Removed,
       RunningAccounted, Calls

\* A call of admit_guest begins, or goes on without touching the registry.
LEMMA AdmitGuestKeeps ==
  ASSUME SandboxInv, NEW c \in Admits, NEW p \in Packages, AdmitGuest(c, p)
  PROVE  SandboxInv'
<1> USE CallsAssumption DEF AdmitGuest, SandboxInv, SandboxTypes, Calls
<1>1. SandboxTypes'
  OBVIOUS
<1>2. Absent'
  BY DEF Absent, Unseen
<1>3. InPlace'
  BY DEF InPlace, Absent, Unseen
<1>4. Removed'
  BY DEF Removed
<1>5. RunningAccounted'
  BY DEF RunningAccounted, Absent
<1> QED
  BY <1>1, <1>2, <1>3, <1>4, <1>5

\* The gate and the energy report change only the stage of the call.
LEMMA StageOnlyKeeps ==
  ASSUME SandboxInv, NEW c \in Admits, InstallGate(c) \/ ReportEnergyDraw(c)
  PROVE  SandboxInv'
<1> USE CallsAssumption
    DEF InstallGate, ReportEnergyDraw, Become, SandboxInv, SandboxTypes, Calls
<1>1. SandboxTypes'
  OBVIOUS
<1>2. Absent'
  BY DEF Absent, Unseen
<1>3. InPlace'
  BY DEF InPlace
<1>4. Removed'
  BY DEF Removed
<1>5. RunningAccounted'
  BY DEF RunningAccounted
<1> QED
  BY <1>1, <1>2, <1>3, <1>4, <1>5

\* A launched workload is about to be entered, a refused one does not run.
LEMMA LaunchAppKeeps ==
  ASSUME SandboxInv, NEW c \in Admits, LaunchApp(c)
  PROVE  SandboxInv'
<1> USE CallsAssumption DEF LaunchApp, Become, SandboxInv, SandboxTypes, Calls
<1>1. SandboxTypes'
  OBVIOUS
<1>2. Absent'
  BY DEF Absent, Unseen
<1>3. InPlace'
  BY DEF InPlace
<1>4. Removed'
  BY DEF Removed
<1>5. RunningAccounted'
  BY DEF RunningAccounted
<1> QED
  BY <1>1, <1>2, <1>3, <1>4, <1>5

\* The entry of an admission that was nowhere before.
LEMMA RegisterGuestKeeps ==
  ASSUME SandboxInv, NEW c \in Admits, RegisterGuest(c)
  PROVE  SandboxInv'
<1> USE CallsAssumption DEF RegisterGuest, Become, SandboxInv, SandboxTypes, Calls
<1>0. target[c] \in Packages /\ Unseen(c)
  BY DEF Absent
<1>1. SandboxTypes'
  BY <1>0
<1>2. Absent'
  BY <1>0 DEF Absent, Unseen
<1>3. InPlace'
  BY <1>0 DEF InPlace
<1>4. Removed'
  BY <1>0 DEF Removed, Unseen
<1>5. RunningAccounted'
  BY <1>0 DEF RunningAccounted
<1> QED
  BY <1>1, <1>2, <1>3, <1>4, <1>5

\* The look-up of a termination.
LEMMA TerminateGuestKeeps ==
  ASSUME SandboxInv, NEW d \in Terminates, NEW p \in Packages, TerminateGuest(d, p)
  PROVE  SandboxInv'
<1> USE CallsAssumption DEF TerminateGuest, SandboxInv, SandboxTypes, Calls
<1>1. SandboxTypes'
  OBVIOUS
<1>2. Absent'
  BY DEF Absent, Unseen
<1>3. InPlace'
  BY DEF InPlace
<1>4. Removed'
  BY DEF Removed
<1>5. RunningAccounted'
  BY DEF RunningAccounted
<1> QED
  BY <1>1, <1>2, <1>3, <1>4, <1>5

\* A deletion: what d takes is in the registry no more, and nobody else has it.
LEMMA RemoveEntryKeeps ==
  ASSUME SandboxInv, NEW d \in Terminates, RemoveEntry(d)
  PROVE  SandboxInv'
<1> USE CallsAssumption DEF RemoveEntry, Become, SandboxInv, SandboxTypes, Calls
<1>0. target[d] \in Packages /\ took[d] = NoCall
  BY DEF Removed
<1>1. SandboxTypes'
  BY <1>0
<1>2. Absent'
  BY <1>0 DEF Absent, Unseen
<1>3. InPlace'
  BY <1>0 DEF InPlace
<1>4. Removed'
  BY <1>0 DEF Removed, InPlace
<1>5. RunningAccounted'
  <2> SUFFICES ASSUME NEW c \in apps
               PROVE  \/ stage'[c] = "register"
                      \/ guests'[target[c]] = c
                      \/ c \in replaced
                      \/ \E e \in Terminates : took'[e] = c
    BY DEF RunningAccounted
  <2>0. c \in Admits /\ c # d /\ c # NoCall /\ target[c] \in Packages
    BY DEF Absent
  <2>1. CASE stage[c] = "register"
    BY <2>0, <2>1
  <2>2. CASE guests[target[c]] = c /\ target[c] # target[d]
    BY <2>0, <2>2
  <2>3. CASE guests[target[c]] = c /\ target[c] = target[d]
    <3>1. took'[d] = c
      BY <2>0, <2>3
    <3> QED BY <3>1
  <2>4. CASE c \in replaced
    BY <2>4
  <2>5. CASE \E e \in Terminates : took[e] = c
    BY <1>0, <2>0, <2>5
  <2> QED
    BY <2>1, <2>2, <2>3, <2>4, <2>5 DEF RunningAccounted
<1> QED
  BY <1>1, <1>2, <1>3, <1>4, <1>5

\* The Final Seal changes only the stage of the call.
LEMMA FinalSealKeeps ==
  ASSUME SandboxInv, NEW d \in Terminates, FinalSeal(d)
  PROVE  SandboxInv'
<1> USE CallsAssumption DEF FinalSeal, Become, SandboxInv, SandboxTypes, Calls
<1>1. SandboxTypes'
  OBVIOUS
<1>2. Absent'
  BY DEF Absent, Unseen
<1>3. InPlace'
  BY DEF InPlace
<1>4. Removed'
  BY DEF Removed
<1>5. RunningAccounted'
  BY DEF RunningAccounted
<1> QED
  BY <1>1, <1>2, <1>3, <1>4, <1>5

\* The invariant holds throughout.
LEMMA SandboxInvariant == SandboxSpec => []SandboxInv
<1>1. SandboxInv /\ [SandboxNext]_sandboxVars => SandboxInv'
  <2> SUFFICES ASSUME SandboxInv, [SandboxNext]_sandboxVars PROVE SandboxInv'
    OBVIOUS
  <2>1. CASE UNCHANGED sandboxVars
    BY <2>1 DEF sandboxVars, SandboxInv, SandboxTypes, Absent, Unseen, InPlace, Removed,
                RunningAccounted
  <2>2. ASSUME NEW c \in Admits, AdmitStep(c) \/ \E p \in Packages : AdmitGuest(c, p)
        PROVE  SandboxInv'
    BY <2>2, AdmitGuestKeeps, StageOnlyKeeps, LaunchAppKeeps, RegisterGuestKeeps DEF AdmitStep
  <2>3. ASSUME NEW d \in Terminates,
               RemoveEntry(d) \/ FinalSeal(d) \/ \E p \in Packages : TerminateGuest(d, p)
        PROVE  SandboxInv'
    BY <2>3, TerminateGuestKeeps, RemoveEntryKeeps, FinalSealKeeps
  <2> QED
    BY <2>1, <2>2, <2>3 DEF SandboxNext
<1> QED
  BY <1>1, SandboxInitial, PTL DEF SandboxSpec

-----------------------------------------------------------------------------
(***************************************************************************)
(* Type correctness of the calls and the registry.                         *)
(***************************************************************************)
THEOREM SandboxTyped == SandboxSpec => []SandboxTypes
BY SandboxInvariant, PTL DEF SandboxInv

(***************************************************************************)
(* An admission that raises SandboxAdmissionError runs nothing and never   *)
(* shows in the registry, whatever other calls do with the same package.   *)
(***************************************************************************)
THEOREM RejectionIsClean == SandboxSpec => []RejectedHasNoEffect
<1>1. SandboxInv => RejectedHasNoEffect
  BY DEF SandboxInv, Absent, Unseen, RejectedHasNoEffect
<1> QED
  BY <1>1, SandboxInvariant, PTL

(***************************************************************************)
(* No two terminations remove the same admission, and one that reports     *)
(* "terminated" removed one.                                               *)
(***************************************************************************)
THEOREM EachTerminatedOnce == SandboxSpec => []TerminatedOnce
<1>1. SandboxInv => TerminatedOnce
  BY DEF SandboxInv, Removed, TerminatedOnce
<1> QED
  BY <1>1, SandboxInvariant, PTL

(***************************************************************************)
(* A workload that was launched is about to be entered, is listed, was     *)
(* terminated or was replaced, also when a later step of its call raised.  *)
(***************************************************************************)
THEOREM NoWorkloadLost == SandboxSpec => []RunningAccounted
BY SandboxInvariant, PTL DEF SandboxInv

-----------------------------------------------------------------------------
(***************************************************************************)
(* The refinement of GuestLifecycle needs one more fact: an admission that *)
(* was replaced is neither in the registry nor taken by a termination.     *)
(***************************************************************************)
ReplacedGone ==
  \A c \in replaced :
    /\ \A p \in Packages : guests[p] # c
    /\ \A d \in Terminates : took[d] # c

\* The steps that leave the registry alone.
QuietStep ==
  \/ UNCHANGED sandboxVars
  \/ \E c \in Admits :
       InstallGate(c) \/ LaunchApp(c) \/ ReportEnergyDraw(c)
       \/ \E p \in Packages : AdmitGuest(c, p)
  \/ \E d \in Terminates : FinalSeal(d) \/ \E p \in Packages : TerminateGuest(d, p)

\* A step enters an admission, deletes an entry, or leaves the registry alone.
LEMMA SandboxStepKinds ==
  ASSUME [SandboxNext]_sandboxVars
  PROVE  \/ \E c \in Admits : RegisterGuest(c)
         \/ \E d \in Terminates : RemoveEntry(d)
         \/ QuietStep
BY DEF SandboxNext, AdmitStep, QuietStep

\* ... and then only an admission that was never listed changes its fate.
LEMMA QuietFacts ==
  ASSUME SandboxInv, QuietStep
  PROVE  /\ UNCHANGED <<guests, took, replaced>>
         /\ \/ stage' = stage
            \/ \E c \in Calls : /\ \A e \in Calls \ {c} : stage'[e] = stage[e]
                                /\ stage[c] # "rejected"
<1> USE DEF SandboxInv, SandboxTypes, Become, Calls
<1>1. CASE UNCHANGED sandboxVars
  BY <1>1 DEF sandboxVars
<1>2. ASSUME NEW c \in Admits,
             InstallGate(c) \/ LaunchApp(c) \/ ReportEnergyDraw(c)
             \/ \E p \in Packages : AdmitGuest(c, p)
      PROVE  /\ UNCHANGED <<guests, took, replaced>>
             /\ stage[c] # "rejected" /\ \A e \in Calls \ {c} : stage'[e] = stage[e]
  BY <1>2 DEF InstallGate, LaunchApp, ReportEnergyDraw, AdmitGuest
<1>3. ASSUME NEW d \in Terminates, FinalSeal(d) \/ \E p \in Packages : TerminateGuest(d, p)
      PROVE  /\ UNCHANGED <<guests, took, replaced>>
             /\ stage[d] # "rejected" /\ \A e \in Calls \ {d} : stage'[e] = stage[e]
  BY <1>3 DEF FinalSeal, TerminateGuest
<1> QED
  BY <1>1, <1>2, <1>3 DEF QuietStep

\* Whoever leaves the registry leaves it for one reason.
LEMMA ReplacedStep ==
  ASSUME SandboxInv, ReplacedGone, [SandboxNext]_sandboxVars
  PROVE  ReplacedGone'
<1> USE CallsAssumption DEF SandboxInv, SandboxTypes, Calls
<1>1. ASSUME NEW c \in Admits, RegisterGuest(c)
      PROVE  ReplacedGone'
  <2>1. target[c] \in Packages /\ Unseen(c)
    BY <1>1 DEF RegisterGuest, Absent
  <2>2. PICK old : old = guests[target[c]]
    OBVIOUS
  <2>3. /\ took' = took
        /\ \A p \in Packages : guests'[p] = IF p = target[c] THEN c ELSE guests[p]
        /\ replaced' = replaced \cup ({old} \ {NoCall})
    BY <1>1, <2>1, <2>2 DEF RegisterGuest
  <2>4. old # NoCall => /\ old # c
                        /\ \A p \in Packages \ {target[c]} : guests[p] # old
                        /\ \A d \in Terminates : took[d] # old
    BY <2>1, <2>2 DEF Unseen, InPlace, Removed
  <2> QED
    BY <2>1, <2>3, <2>4 DEF ReplacedGone, Unseen
<1>2. ASSUME NEW d \in Terminates, RemoveEntry(d)
      PROVE  ReplacedGone'
  <2>1. target[d] \in Packages
    BY <1>2 DEF RemoveEntry
  <2>2. /\ replaced' = replaced
        /\ \A p \in Packages : guests'[p] \in {guests[p], NoCall}
        /\ \A e \in Terminates : took'[e] \in {took[e], guests[target[d]]}
    BY <1>2, <2>1 DEF RemoveEntry
  <2> QED
    BY <2>1, <2>2 DEF ReplacedGone
<1>3. CASE QuietStep
  BY <1>3, QuietFacts DEF ReplacedGone
<1> QED
  BY <1>1, <1>2, <1>3, SandboxStepKinds

\* Step 3 of admit_guest is the Enter of the abstract registry.
LEMMA RegisterRefines ==
  ASSUME SandboxInv, ReplacedGone, NEW c \in Admits, RegisterGuest(c)
  PROVE  Guest!Enter(c, target[c]) /\ target[c] \in Packages
<1> USE CallsAssumption DEF SandboxInv, SandboxTypes, Calls
<1>1. target[c] \in Packages /\ Unseen(c) /\ stage[c] = "register"
  BY DEF RegisterGuest, Absent
<1>2. PICK p \in Packages : p = target[c]
  BY <1>1
<1>3. PICK old : old = guests[p]
  OBVIOUS
<1>4. /\ took' = took
      /\ guests' = [guests EXCEPT ![p] = c]
      /\ replaced' = replaced \cup ({old} \ {NoCall})
      /\ \A e \in Admits \ {c} : stage'[e] = stage[e]
  BY <1>2, <1>3 DEF RegisterGuest, Become
<1>5. \A q \in Packages : guests'[q] = IF q = p THEN c ELSE guests[q]
  BY <1>4
<1>6. Fate(c) = "pending"
  BY <1>1 DEF Unseen, Fate
<1>7. Fate(c)' = "listed"
  <2>1. c # old
    BY <1>1, <1>3 DEF Unseen
  <2> QED
    BY <1>1, <1>4, <1>5, <2>1 DEF Unseen, Fate
<1>8. old # NoCall => /\ old \in Admits
                      /\ Fate(old)' = "replaced"
  <2>1. old # NoCall => \A d \in Terminates : took[d] # old
    BY <1>3 DEF Removed
  <2> QED
    BY <1>3, <1>4, <2>1 DEF Fate
<1>9. ASSUME NEW e \in Admits \ {c, old}
      PROVE  Fate(e)' = Fate(e)
  <2>1. (\E q \in Packages : guests'[q] = e) <=> (\E q \in Packages : guests[q] = e)
    BY <1>3, <1>5
  <2>2. e \in replaced' <=> e \in replaced
    BY <1>4
  <2> QED
    BY <1>4, <2>1, <2>2 DEF Fate
<1>10. old \in Admits => old # NoCall
  OBVIOUS
<1> QED
  BY <1>2, <1>3, <1>4, <1>6, <1>7, <1>8, <1>9, <1>10 DEF Guest!Enter

\* The deletion in terminate_guest is the Terminate of the abstract registry; a
\* termination that comes too late changes nothing.
LEMMA RemoveRefines ==
  ASSUME SandboxInv, ReplacedGone, NEW d \in Terminates, RemoveEntry(d)
  PROVE  [Guest!Next]_(Guest!vars)
<1> USE CallsAssumption DEF SandboxInv, SandboxTypes, Calls
<1>1. PICK p \in Packages : p = target[d]
  BY DEF RemoveEntry
<1>2. PICK old : old = guests[p]
  OBVIOUS
<1>3. /\ replaced' = replaced /\ took[d] = NoCall
      /\ \A e \in Admits : stage'[e] = stage[e]
  BY DEF RemoveEntry, Become, Removed
<1>4. CASE old = NoCall
  <2>1. UNCHANGED <<guests, took>>
    BY <1>1, <1>2, <1>4 DEF RemoveEntry
  <2>2. \A e \in Admits : Fate(e)' = Fate(e)
    BY <1>3, <2>1 DEF Fate
  <2> QED
    BY <2>1, <2>2 DEF Guest!vars
<1>5. CASE old # NoCall
  <2>1. /\ guests' = [guests EXCEPT ![p] = NoCall]
        /\ took' = [took EXCEPT ![d] = old]
    BY <1>1, <1>2, <1>5 DEF RemoveEntry
  <2>2. old \in Admits /\ Fate(old)' = "terminated"
    BY <1>2, <1>5, <2>1 DEF Fate
  <2>3. ASSUME NEW e \in Admits \ {old}
        PROVE  Fate(e)' = Fate(e)
    <3>1. (\E q \in Packages : guests'[q] = e) <=> (\E q \in Packages : guests[q] = e)
      BY <1>2, <2>1
    <3>2. (\E f \in Terminates : took'[f] = e) <=> (\E f \in Terminates : took[f] = e)
      BY <1>3, <2>1
    <3> QED
      BY <1>3, <3>1, <3>2 DEF Fate
  <2>4. Guest!Terminate(p)
    BY <1>2, <1>5, <2>1, <2>2, <2>3 DEF Guest!Terminate
  <2> QED
    BY <2>4 DEF Guest!Next
<1> QED
  BY <1>4, <1>5

\* A step that leaves the registry alone rejects an admission, or is nothing.
LEMMA QuietRefines ==
  ASSUME SandboxInv, QuietStep, SandboxInv'
  PROVE  [Guest!Next]_(Guest!vars)
<1> USE CallsAssumption DEF SandboxInv, SandboxTypes, Calls
<1>1. UNCHANGED <<guests, took, replaced>>
  BY QuietFacts
<1>2. \A e \in Admits : stage'[e] = stage[e] => Fate(e)' = Fate(e)
  BY <1>1 DEF Fate
<1>3. CASE \A e \in Admits : Fate(e)' = Fate(e)
  BY <1>1, <1>3 DEF Guest!vars
<1>4. CASE \E e \in Admits : Fate(e)' # Fate(e)
  <2>1. PICK c \in Admits : Fate(c)' # Fate(c)
    BY <1>4
  <2>2. stage[c] # "rejected" /\ \A e \in Admits \ {c} : stage'[e] = stage[e]
    BY <1>2, <2>1, QuietFacts
  <2>3. stage'[c] = "rejected"
    BY <1>1, <2>1, <2>2 DEF Fate
  <2>4. Unseen(c)
    BY <1>1, <2>3 DEF Absent, Unseen
  <2>5. Fate(c) = "pending" /\ Fate(c)' = "rejected"
    BY <1>1, <2>2, <2>3, <2>4 DEF Fate, Unseen
  <2>6. Guest!Reject(c)
    BY <1>1, <1>2, <2>2, <2>5 DEF Guest!Reject
  <2> QED
    BY <2>6 DEF Guest!Next
<1> QED
  BY <1>3, <1>4

(***************************************************************************)
(* admit_guest and terminate_guest, with no lock and with exceptions at    *)
(* any step, implement the atomic registry of GuestLifecycle, for every    *)
(* number of concurrent calls.                                             *)
(***************************************************************************)
THEOREM ImplementsLifecycle == SandboxSpec => RegistryLifecycle
<1>1. SandboxInit => Guest!Init /\ ReplacedGone
  <2> SUFFICES ASSUME SandboxInit PROVE Guest!Init /\ ReplacedGone
    OBVIOUS
  <2>1. \A c \in Admits : Fate(c) = "pending"
    BY CallsAssumption DEF SandboxInit, Fate, Calls
  <2> QED
    BY <2>1 DEF SandboxInit, Guest!Init, ReplacedGone
<1>2. SandboxInv /\ SandboxInv' /\ ReplacedGone /\ [SandboxNext]_sandboxVars
        => ReplacedGone' /\ [Guest!Next]_(Guest!vars)
  <2> SUFFICES ASSUME SandboxInv, SandboxInv', ReplacedGone, [SandboxNext]_sandboxVars
               PROVE  ReplacedGone' /\ [Guest!Next]_(Guest!vars)
    OBVIOUS
  <2>1. ReplacedGone'
    BY ReplacedStep
  <2>2. ASSUME NEW c \in Admits, RegisterGuest(c)
        PROVE  [Guest!Next]_(Guest!vars)
    BY <2>2, RegisterRefines DEF Guest!Next
  <2> QED
    BY <2>1, <2>2, RemoveRefines, QuietRefines, SandboxStepKinds
<1> QED
  BY <1>1, <1>2, SandboxInvariant, PTL DEF SandboxSpec, RegistryLifecycle, Guest!Spec

=============================================================================
