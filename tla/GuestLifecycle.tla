--------------------------- MODULE GuestLifecycle ---------------------------
(***************************************************************************)
(* What the registry of a sandbox promises, with neither calls nor         *)
(* threads: every operation takes effect at once, an admission is listed   *)
(* at most once, and it leaves the list once, replaced by a later          *)
(* admission of its package or terminated.                                 *)
(***************************************************************************)
CONSTANTS Guests, Packages, NoGuest

VARIABLES
  listed,  \* listed[p]: the admission that list_guests shows for p, or NoGuest
  fate     \* fate[g]: "pending", "rejected", "listed", "replaced" or "terminated"

vars == <<listed, fate>>

Init ==
  /\ listed = [p \in Packages |-> NoGuest]
  /\ fate = [g \in Guests |-> "pending"]

Reject(g) ==
  /\ fate[g] = "pending"
  /\ fate' = [fate EXCEPT ![g] = "rejected"]
  /\ UNCHANGED listed

\* The admission that the package had, if any, is replaced in the same step.
Enter(g, p) ==
  /\ fate[g] = "pending"
  /\ listed' = [listed EXCEPT ![p] = g]
  /\ fate' = [h \in Guests |-> IF h = g THEN "listed"
                               ELSE IF h = listed[p] THEN "replaced" ELSE fate[h]]

Terminate(p) ==
  /\ listed[p] # NoGuest
  /\ listed' = [listed EXCEPT ![p] = NoGuest]
  /\ fate' = [fate EXCEPT ![listed[p]] = "terminated"]

Next ==
  \/ \E g \in Guests : Reject(g) \/ \E p \in Packages : Enter(g, p)
  \/ \E p \in Packages : Terminate(p)

Spec == Init /\ [][Next]_vars
=============================================================================
