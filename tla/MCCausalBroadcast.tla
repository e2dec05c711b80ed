-------------------------- MODULE MCCausalBroadcast --------------------------
(***************************************************************************)
(* Instances of CausalBroadcast for TLC.  Three actors, so that a message  *)
(* can depend on one from a third party; the first sends twice, so that    *)
(* its messages can overtake one another.                                  *)
(***************************************************************************)
EXTENDS CausalBroadcast, TLC

CONSTANTS a, b, c

\* c only listens: it is where the messages of a and b meet.
Listener == a :> 2 @@ b :> 1 @@ c :> 0

\* One sender and one receiver: three messages in flight at once.
Burst == a :> 3 @@ b :> 0
=============================================================================
