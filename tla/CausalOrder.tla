----------------------------- MODULE CausalOrder -----------------------------
(***************************************************************************)
(* What a causal broadcast promises, with neither clocks nor queues: a     *)
(* message carries the set of messages its sender knew when it sent it,    *)
(* and an actor delivers it, once, only when it knows all of them.         *)
(***************************************************************************)
CONSTANT Actors

VARIABLES
  sent,   \* the messages broadcast so far
  past,   \* past[m]: what the sender of m knew when it sent m
  seen    \* seen[a]: what a has sent or delivered

vars == <<sent, past, seen>>

Init ==
  /\ sent = {}
  /\ past = [m \in {} |-> {}]
  /\ seen = [a \in Actors |-> {}]

\* Actor a broadcasts one new message.
Broadcast(a) ==
  \E m \in sent' \ sent :
    /\ sent' = sent \cup {m}
    /\ past' = [n \in sent \cup {m} |-> IF n \in sent THEN past[n] ELSE seen[a]]
    /\ seen' = [seen EXCEPT ![a] = @ \cup {m}]

\* Actor a delivers a message whose causal past it knows.
Deliver(a, m) ==
  /\ m \notin seen[a]
  /\ past[m] \subseteq seen[a]
  /\ seen' = [seen EXCEPT ![a] = @ \cup {m}]
  /\ UNCHANGED <<sent, past>>

Next == \E a \in Actors : Broadcast(a) \/ \E m \in sent : Deliver(a, m)

Spec == Init /\ [][Next]_vars
=============================================================================
