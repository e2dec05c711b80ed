--------------------------- MODULE SplitBrainToken ---------------------------
(***************************************************************************)
(* What a split-brain token promises, with neither keys nor replicas: it   *)
(* is placed once, and from then on it admits one restore or none.  A      *)
(* token that was claimed, or that another write to its key replaced, is   *)
(* spent for good.                                                         *)
(***************************************************************************)
CONSTANT Tokens

VARIABLES
  stage,     \* stage[k]: "fresh", "live", "claimed" or "void"
  admitted   \* admitted[k]: the restores that k has admitted

vars == <<stage, admitted>>

Live == {k \in Tokens : stage[k] = "live"}

Init ==
  /\ stage \in [Tokens -> {"fresh", "live"}]
  /\ admitted = [k \in Tokens |-> {}]

\* A fresh token is placed; one that was live at the same key, if any, is lost.
Place(k, lost) ==
  /\ stage[k] = "fresh"
  /\ stage' = [j \in Tokens |-> IF j = k THEN "live"
                                ELSE IF j \in lost THEN "void" ELSE stage[j]]
  /\ UNCHANGED admitted

\* One restore is admitted by a live token.
Claim(k) ==
  /\ stage[k] = "live"
  /\ stage' = [stage EXCEPT ![k] = "claimed"]
  /\ \E r \in admitted'[k] : admitted' = [admitted EXCEPT ![k] = {r}]

\* A write that needs no token replaces a live one.
Overwrite(k) ==
  /\ stage[k] = "live"
  /\ stage' = [stage EXCEPT ![k] = "void"]
  /\ UNCHANGED admitted

Next ==
  \E k \in Tokens :
    \/ \E lost \in {{}} \cup {{j} : j \in Live} : Place(k, lost)
    \/ Claim(k)
    \/ Overwrite(k)

Spec == Init /\ [][Next]_vars
=============================================================================
