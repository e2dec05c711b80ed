--------------------------- MODULE PlanetaryFleet ---------------------------
(***************************************************************************)
(* gaia_server/planetary/state_hub.py behind planetary_state_push of       *)
(* gaia_server/ipc/grpc_server.py: nodes that publish snapshots, a network *)
(* that loses, repeats and reorders them, and the hub.  The hub runs on    *)
(* one event loop, so a push is one step.                                  *)
(*                                                                         *)
(* A snapshot is the node, when it was made, and its form: "full", or with *)
(* a love_score that float() refuses ("badscore"), with null for its       *)
(* observations ("nullobs"), or with null or a text for its timestamp      *)
(* ("nulltime", "texttime"), which push_dict stores as it comes.  made is  *)
(* the order in which the node made it, never seen by the hub, which       *)
(* compares timestamps only in fleet_summary.                              *)
(***************************************************************************)
EXTENDS Naturals

CONSTANTS
  Nodes,
  NoSnapshot,
  MaxPublished   \* bound: snapshots that one node makes

Forms == {"full", "badscore", "nullobs", "nulltime", "texttime"}

Snapshots == [node : Nodes, made : Nat, form : Forms]

ASSUME FleetAssumption == MaxPublished \in Nat /\ NoSnapshot \notin Snapshots

VARIABLES
  wired,      \* whether the service was given a hub
  made,       \* made[n]: snapshots node n has made
  published,  \* external: all of them; the network may hand one over any time
  snapshots,  \* _snapshots
  answer,     \* answer[n]: what the last push of n was answered
  newest,     \* history: newest[n], the newest of n that was accepted
  tardy       \* history: nodes of which an older one was stored after a newer

fleetVars == <<wired, made, published, snapshots, answer, newest, tardy>>

FleetInit ==
  /\ wired \in BOOLEAN
  /\ made = [n \in Nodes |-> 0]
  /\ published = {}
  /\ snapshots = [n \in Nodes |-> NoSnapshot]
  /\ answer = [n \in Nodes |-> "none"]
  /\ newest = [n \in Nodes |-> 0]
  /\ tardy = {}

\* gaia_iot.planetary.publisher on a node.
Publish(n, f) ==
  /\ made[n] < MaxPublished
  /\ made' = [made EXCEPT ![n] = @ + 1]
  /\ published' = published \cup {[node |-> n, made |-> made[n] + 1, form |-> f]}
  /\ UNCHANGED <<wired, snapshots, answer, newest, tardy>>

Answer(n, a) == answer' = [answer EXCEPT ![n] = a]

Accepted(s) == newest' = [newest EXCEPT ![s.node] = IF s.made > @ THEN s.made ELSE @]

\* Mutant of Push: the first snapshot of a node stays (setdefault).
PushFirst(s) ==
  /\ snapshots' = [snapshots EXCEPT ![s.node] = IF @ = NoSnapshot THEN s ELSE @]
  /\ tardy' = IF s.made < newest[s.node] THEN tardy \cup {s.node} ELSE tardy
  /\ \/ s.form = "nullobs" /\ Answer(s.node, "error") /\ UNCHANGED newest
     \/ s.form # "nullobs" /\ Answer(s.node, "accepted") /\ Accepted(s)

\* push stores the snapshot, then the arguments of its log call are evaluated:
\* len(None) raises, to the client, with the snapshot already stored.  A
\* timestamp that "%.3f" cannot format raises nothing here: logging drops the
\* record, and the push is accepted.
Push(s) ==
  /\ snapshots' = [snapshots EXCEPT ![s.node] = s]
  /\ tardy' = IF s.made < newest[s.node] THEN tardy \cup {s.node} ELSE tardy
  /\ \/ s.form = "nullobs" /\ Answer(s.node, "error") /\ UNCHANGED newest
     \/ s.form # "nullobs" /\ Answer(s.node, "accepted") /\ Accepted(s)

\* push_dict: float() raises before anything is stored; it is applied to the
\* love_score, not to the timestamp.
PushDict(s) ==
  \/ s.form # "badscore" /\ Push(s)
  \/ s.form = "badscore" /\ Answer(s.node, "error") /\ UNCHANGED <<snapshots, newest, tardy>>

PlanetaryStatePush(s) ==
  /\ s \in published
  /\ \/ wired /\ PushDict(s)
     \/ ~wired /\ Answer(s.node, "dropped") /\ UNCHANGED <<snapshots, newest, tardy>>
  /\ UNCHANGED <<wired, made, published>>

\* clear: the hub starts again with nothing, in safe mode.
ClearHub ==
  /\ snapshots' = [n \in Nodes |-> NoSnapshot]
  /\ newest' = [n \in Nodes |-> 0]
  /\ tardy' = {}
  /\ UNCHANGED <<wired, made, published, answer>>

Known == {n \in Nodes : snapshots[n] # NoSnapshot}

\* Nodes of whose observations fleet_summary cannot take the length.
Unmeasurable == {n \in Known : snapshots[n].form = "nullobs"}

\* What the timestamp of a snapshot is, for max().
TimeKind(s) ==
  CASE s.form = "nulltime" -> "null"
    [] s.form = "texttime" -> "text"
    [] OTHER -> "number"

\* Whether < of two timestamps has an answer: numbers and texts have one among
\* themselves, None has none even with None.
Comparable(s, z) == TimeKind(s) = TimeKind(z) /\ TimeKind(s) # "null"

\* Nodes with a timestamp that max() cannot compare with that of another node.
Incomparable ==
  {n \in Known : \E o \in Known \ {n} : ~Comparable(snapshots[n], snapshots[o])}

\* fleet_summary, for the whole fleet: max() of the timestamps, then the
\* length of everybody's observations.
SummaryRaises == Incomparable \cup Unmeasurable # {}

FleetNext ==
  \/ ClearHub
  \/ \E n \in Nodes, f \in Forms : Publish(n, f)
  \/ \E s \in published : PlanetaryStatePush(s)

FleetSpec == FleetInit /\ [][FleetNext]_fleetVars

-----------------------------------------------------------------------------
FleetTypes ==
  /\ wired \in BOOLEAN
  /\ made \in [Nodes -> Nat] /\ newest \in [Nodes -> Nat]
  /\ published \subseteq Snapshots
  /\ snapshots \in [Nodes -> Snapshots \cup {NoSnapshot}]
  /\ \A n \in Known : snapshots[n].node = n
  /\ answer \in [Nodes -> {"none", "accepted", "dropped", "error"}]
  /\ tardy \subseteq Nodes

\* What the hub holds of a node is at least as new as the newest it accepted,
\* unless an older snapshot arrived behind it.
StaleOnlyWhenLate ==
  \A n \in Nodes : newest[n] > 0 /\ n \notin tardy =>
    n \in Known /\ snapshots[n].made >= newest[n]

\* When fleet_summary raises and every timestamp stored is a number, it is for
\* nodes whose last push was answered by an exception: the failure was
\* reported, though the snapshot was stored.  With other timestamps it is not:
\* those are accepted, and break the summary once a second node is known.
OutageWasReported ==
  SummaryRaises /\ (\A n \in Known : TimeKind(snapshots[n]) = "number") =>
    /\ Unmeasurable # {}
    /\ \A n \in Unmeasurable : answer[n] = "error"

(***************************************************************************)
(* What planetary_state_snapshot shows, through losses, repetitions and    *)
(* failing pushes: a node is shown with less than it was last accepted     *)
(* with only after an older snapshot of it arrived late, and, as long as   *)
(* timestamps are numbers, one node breaks the summary of all only after   *)
(* it was told that its push failed.                                       *)
(***************************************************************************)
FleetView == StaleOnlyWhenLate /\ OutageWasReported

(***************************************************************************)
(* state_hub.py: "maintains a latest-per-node registry", and snapshot()    *)
(* is to "Return the latest snapshot for a specific node": once a snapshot *)
(* was accepted the hub shows no older one of that node.                   *)
(***************************************************************************)
LatestPerNode == \A n \in Known : snapshots[n].made >= newest[n]
=============================================================================
