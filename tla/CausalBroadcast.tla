--------------------------- MODULE CausalBroadcast ---------------------------
(***************************************************************************)
(* The causal broadcast layer, gaia_server/ipc/causal_broadcast.py: one    *)
(* CausalBroadcast object per actor and a transport, external to the       *)
(* repository, that carries what send() returns to receive() of the other  *)
(* actors.  The transport reorders, may lose a message (by never handing   *)
(* it over) and hands over at most MaxDups of them a second time.          *)
(*                                                                         *)
(* Every public operation runs under the object's lock.  receive() of a    *)
(* causal message is split at its loop iterations: Receive takes the lock, *)
(* Scan is one iteration of the inner loop of _try_deliver_buffered,       *)
(* EndPass the end of a pass, and the last EndPass gives the lock back.    *)
(* While an actor holds its lock no other operation of that actor starts,  *)
(* so the steps of one receive() are never mixed with its others.          *)
(***************************************************************************)
EXTENDS Naturals, Sequences, Functions

CONSTANTS
  Actors,     \* the local_actor names
  Kinds,      \* the message kinds the actors send
  MaxSends,   \* bound: how many messages each actor sends
  MaxDups     \* bound: how often the transport hands over a message again

HEALTH_KINDS == {"health"}

ASSUME KindsAssumption    == Kinds \subseteq {"control", "memory", "policy", "health"}
ASSUME MaxSendsAssumption == MaxSends \in [Actors -> Nat]
ASSUME MaxDupsAssumption  == MaxDups \in Nat

VARIABLES
  clock,      \* clock[a]: _clock of actor a; an absent key counts as 0
  hold,       \* hold[a]: _hold_queue
  remaining,  \* remaining[a]: the local `remaining` of _try_deliver_buffered
  scanning,   \* scanning[a]: a thread is inside _try_deliver_buffered, lock held
  deliveredAny, \* deliveredAny[a]: the local `delivered_any`
  log,        \* log[a]: _delivered; also the sequence of handler calls
  sent,       \* history: every message send() returned
  past,       \* history: what the sender had sent or delivered before m
  inflight,   \* external: what the transport still has to hand over
  dups        \* external: how often it has handed over and kept a message

network == <<inflight, dups>>

vars == <<clock, hold, remaining, scanning, deliveredAny, log, sent, past, network>>

(***************************************************************************)
(* A BroadcastMessage.  message_id is left out: a random id is unique, and *)
(* so is the pair of the source and its own counter.  The payload, the     *)
(* trace id and `dependencies` are never read by the layer.                *)
(***************************************************************************)
Message == [source : Actors, kind : Kinds, vc : [Actors -> Nat]]

Packets(m) == [to : Actors \ {m.source}, msg : {m}]

IsHealth(m) == m.kind \in HEALTH_KINDS

\* What actor a has sent or delivered so far: the causal past of its next message.
Seen(a) == Range(log[a]) \cup {m \in sent : m.source = a}

Init ==
  /\ clock = [a \in Actors |-> [b \in Actors |-> 0]]
  /\ hold = [a \in Actors |-> <<>>]
  /\ remaining = [a \in Actors |-> <<>>]
  /\ scanning = [a \in Actors |-> FALSE]
  /\ deliveredAny = [a \in Actors |-> FALSE]
  /\ log = [a \in Actors |-> <<>>]
  /\ sent = {}
  /\ past = [m \in {} |-> {}]
  /\ inflight = {}
  /\ dups = 0

-----------------------------------------------------------------------------
(***************************************************************************)
(* send: the sender's own entry is incremented and the whole clock copied  *)
(* into the message, under the lock.  target_cores is ignored by the code. *)
(***************************************************************************)
Ticked(a) == [clock[a] EXCEPT ![a] = @ + 1]

Send(a, kind) ==
  LET m == [source |-> a, kind |-> kind, vc |-> Ticked(a)]
  IN  /\ ~scanning[a]
      /\ clock[a][a] < MaxSends[a]
      /\ clock' = [clock EXCEPT ![a] = Ticked(a)]
      /\ sent' = sent \cup {m}
      /\ past' = [n \in sent \cup {m} |-> IF n \in sent THEN past[n] ELSE Seen(a)]
      /\ inflight' = inflight \cup Packets(m)
      /\ UNCHANGED <<dups, hold, remaining, scanning, deliveredAny, log>>

\* Mutants of IsDeliverable: not newer than expected, other entries ignored,
\* any later message of the sender.
IsDeliverableStale(a, m) ==
  /\ m.vc[m.source] <= clock[a][m.source] + 1
  /\ \A b \in Actors \ {m.source} : m.vc[b] <= clock[a][b]

IsDeliverableFifo(a, m) == m.vc[m.source] = clock[a][m.source] + 1

IsDeliverableSkip(a, m) ==
  /\ m.vc[m.source] > clock[a][m.source]
  /\ \A b \in Actors \ {m.source} : m.vc[b] <= clock[a][b]

\* _is_deliverable: the next message of its sender, and nothing else in it unknown.
IsDeliverable(a, m) ==
  /\ m.vc[m.source] = clock[a][m.source] + 1
  /\ \A b \in Actors \ {m.source} : m.vc[b] <= clock[a][b]

\* Mutant of Deliver: the whole clock of the message is merged.
DeliverMerge(a, m) ==
  /\ clock' = [clock EXCEPT ![a] =
                 [b \in Actors |-> IF m.vc[b] > @[b] THEN m.vc[b] ELSE @[b]]]
  /\ log' = [log EXCEPT ![a] = Append(@, m)]

\* _deliver: the entry of the sender never decreases; no other entry is merged.
\* A handler's exception is caught, so a delivery always completes.
Deliver(a, m) ==
  /\ clock' = [clock EXCEPT ![a][m.source] =
                 IF m.vc[m.source] > @ THEN m.vc[m.source] ELSE @]
  /\ log' = [log EXCEPT ![a] = Append(@, m)]

\* The transport hands p over, and may keep it to hand it over again.
HandOver(p) ==
  \/ inflight' = inflight \ {p} /\ UNCHANGED dups
  \/ dups < MaxDups /\ dups' = dups + 1 /\ UNCHANGED inflight

(***************************************************************************)
(* receive of a health message: delivered at once.  The hold queue is not  *)
(* looked at again, although the clock may have moved.                     *)
(***************************************************************************)
ReceiveHealth(p) ==
  /\ IsHealth(p.msg)
  /\ ~scanning[p.to]
  /\ HandOver(p)
  /\ Deliver(p.to, p.msg)
  /\ UNCHANGED <<hold, remaining, scanning, deliveredAny, sent, past>>

\* receive of any other message: buffer it and start draining, lock held.
Receive(p) ==
  /\ ~IsHealth(p.msg)
  /\ ~scanning[p.to]
  /\ HandOver(p)
  /\ hold' = [hold EXCEPT ![p.to] = Append(@, p.msg)]
  /\ scanning' = [scanning EXCEPT ![p.to] = TRUE]
  /\ UNCHANGED <<clock, remaining, deliveredAny, log, sent, past>>

\* One iteration of the inner loop that delivers the popped message ...
ScanDeliver(a) ==
  /\ scanning[a]
  /\ hold[a] # <<>>
  /\ IsDeliverable(a, Head(hold[a]))
  /\ hold' = [hold EXCEPT ![a] = Tail(@)]
  /\ Deliver(a, Head(hold[a]))
  /\ deliveredAny' = [deliveredAny EXCEPT ![a] = TRUE]
  /\ UNCHANGED <<remaining, scanning, sent, past, network>>

\* Mutant of ScanKeep: the popped message is not put back.
ScanKeepDrop(a) ==
  /\ scanning[a]
  /\ hold[a] # <<>>
  /\ ~IsDeliverable(a, Head(hold[a]))
  /\ hold' = [hold EXCEPT ![a] = Tail(@)]
  /\ UNCHANGED <<clock, remaining, scanning, deliveredAny, log, sent, past, network>>

\* ... and one that keeps it.
ScanKeep(a) ==
  /\ scanning[a]
  /\ hold[a] # <<>>
  /\ ~IsDeliverable(a, Head(hold[a]))
  /\ hold' = [hold EXCEPT ![a] = Tail(@)]
  /\ remaining' = [remaining EXCEPT ![a] = Append(@, Head(hold[a]))]
  /\ UNCHANGED <<clock, scanning, deliveredAny, log, sent, past, network>>

\* Mutants of EndPass: `remaining` not renewed, and a single pass only.
EndPassStale(a) ==
  /\ scanning[a]
  /\ hold[a] = <<>>
  /\ hold' = [hold EXCEPT ![a] = remaining[a]]
  /\ scanning' = [scanning EXCEPT ![a] = deliveredAny[a]]
  /\ deliveredAny' = [deliveredAny EXCEPT ![a] = FALSE]
  /\ UNCHANGED <<clock, remaining, log, sent, past, network>>

EndPassOnce(a) ==
  /\ scanning[a]
  /\ hold[a] = <<>>
  /\ hold' = [hold EXCEPT ![a] = remaining[a]]
  /\ remaining' = [remaining EXCEPT ![a] = <<>>]
  /\ scanning' = [scanning EXCEPT ![a] = FALSE]
  /\ deliveredAny' = [deliveredAny EXCEPT ![a] = FALSE]
  /\ UNCHANGED <<clock, log, sent, past, network>>

\* The end of a pass: another one when something was delivered, else unlock.
EndPass(a) ==
  /\ scanning[a]
  /\ hold[a] = <<>>
  /\ hold' = [hold EXCEPT ![a] = remaining[a]]
  /\ remaining' = [remaining EXCEPT ![a] = <<>>]
  /\ scanning' = [scanning EXCEPT ![a] = deliveredAny[a]]
  /\ deliveredAny' = [deliveredAny EXCEPT ![a] = FALSE]
  /\ UNCHANGED <<clock, log, sent, past, network>>

Drain(a) == ScanDeliver(a) \/ ScanKeep(a) \/ EndPass(a)

Next ==
  \/ \E a \in Actors, kind \in Kinds : Send(a, kind)
  \/ \E p \in inflight : ReceiveHealth(p)
  \/ \E p \in inflight : Receive(p)
  \/ \E a \in Actors : Drain(a)

Spec == Init /\ [][Next]_vars

(***************************************************************************)
(* Fairness: the thread that holds the lock runs on, and the transport     *)
(* keeps handing over to each actor while it has something for it.         *)
(***************************************************************************)
ReceiveAny(a) == \E p \in inflight : p.to = a /\ (Receive(p) \/ ReceiveHealth(p))

Fairness == \A a \in Actors : WF_vars(Drain(a)) /\ WF_vars(ReceiveAny(a))

FairSpec == Spec /\ Fairness

-----------------------------------------------------------------------------
(***************************************************************************)
(* Type invariant: queues and logs hold messages that were sent, and a     *)
(* scan leaves nothing behind in `remaining` when the lock is free.        *)
(***************************************************************************)
TypeOK ==
  /\ clock \in [Actors -> [Actors -> Nat]]
  /\ sent \subseteq Message
  /\ past \in [sent -> SUBSET sent]
  /\ inflight \subseteq [to : Actors, msg : sent]
  /\ dups \in 0 .. MaxDups
  /\ hold \in [Actors -> Seq(sent)]
  /\ remaining \in [Actors -> Seq(sent)]
  /\ scanning \in [Actors -> BOOLEAN]
  /\ deliveredAny \in [Actors -> BOOLEAN]
  /\ log \in [Actors -> Seq(sent)]
  /\ \A a \in Actors : ~scanning[a] => remaining[a] = <<>>

(***************************************************************************)
(* A causal message reaches the handlers of an actor at most once, however *)
(* many copies of it arrive and whatever beacons come between.             *)
(***************************************************************************)
AtMostOnce ==
  \A a \in Actors : \A i, j \in 1 .. Len(log[a]) :
    i # j /\ log[a][i] = log[a][j] => IsHealth(log[a][i])

(***************************************************************************)
(* Handlers never see an effect before its cause: of two causal messages   *)
(* delivered at an actor, the later one was not known to the sender of the *)
(* earlier one.  This holds with health beacons too.                       *)
(***************************************************************************)
NoCausalInversion ==
  \A a \in Actors : \A i, j \in 1 .. Len(log[a]) :
    i < j /\ ~IsHealth(log[a][i]) /\ ~IsHealth(log[a][j])
      => log[a][j] \notin past[log[a][i]]

(***************************************************************************)
(* What the clock of an actor claims to have delivered was delivered, or   *)
(* was overtaken by a health beacon of the same source: beacons are the    *)
(* only way a message can be skipped.                                      *)
(***************************************************************************)
GapsOnlyBehindBeacons ==
  \A a \in Actors : \A m \in sent :
    /\ m.source # a
    /\ m.vc[m.source] <= clock[a][m.source]
    => \/ m \in Range(log[a])
       \/ \E h \in Range(log[a]) :
            /\ IsHealth(h)
            /\ h.source = m.source
            /\ h.vc[m.source] > m.vc[m.source]

(***************************************************************************)
(* A causal message is delivered only after every causal message its       *)
(* sender had sent or delivered before it.  Holds when no beacons are sent.*)
(***************************************************************************)
CausalDelivery ==
  \A a \in Actors : \A m \in Range(log[a]) :
    ~IsHealth(m) => \A p \in past[m] : ~IsHealth(p) => p \in Seen(a)

(***************************************************************************)
(* The same with beacons: of what the sender of a delivered causal message *)
(* knew, the receiver can only lack causal messages that a later beacon of *)
(* their own source has overtaken at the receiver.                         *)
(***************************************************************************)
CausalUpToBeacons ==
  \A a \in Actors : \A m \in Range(log[a]) : ~IsHealth(m) =>
    \A p \in past[m] :
      \/ p \in Seen(a)
      \/ \E h \in Range(log[a]) :
           IsHealth(h) /\ h.source = p.source /\ h.vc[p.source] > p.vc[p.source]

(***************************************************************************)
(* The class docstring, lines 28-29: "A message is DELIVERED only when all *)
(* causally prior messages from the same source have already been          *)
(* delivered", for the kinds that take part in causal ordering.            *)
(***************************************************************************)
SourceOrder ==
  \A a \in Actors : \A m \in Range(log[a]) :
    ~IsHealth(m) =>
      \A p \in past[m] : ~IsHealth(p) /\ p.source = m.source => p \in Range(log[a])

(***************************************************************************)
(* The docstring of receive, lines 83-84: "Deliver immediately if causally *)
(* ready; otherwise buffer until dependencies are satisfied": once         *)
(* receive() has returned, nothing in the hold queue is ready.             *)
(***************************************************************************)
DrainComplete ==
  \A a \in Actors : ~scanning[a] =>
    \A m \in Range(hold[a]) : ~IsDeliverable(a, m)

(***************************************************************************)
(* Nothing that was sent to an actor gets lost inside the layer: it is     *)
(* still in the transport, buffered, put aside by the running scan, or     *)
(* delivered, whatever beacons come between and however often the passes   *)
(* of _try_deliver_buffered rebuild the hold queue.                        *)
(***************************************************************************)
NothingLost ==
  \A a \in Actors : \A m \in sent : m.source # a =>
    \/ [to |-> a, msg |-> m] \in inflight
    \/ m \in Range(hold[a]) \cup Range(remaining[a]) \cup Range(log[a])

(***************************************************************************)
(* An actor to which the transport has handed over everything, and whose   *)
(* lock is free, has delivered everything: no two messages wait for each   *)
(* other in the hold queue, and none for one that will never come.  Holds  *)
(* when no beacons are sent.                                               *)
(***************************************************************************)
CaughtUp ==
  \A a \in Actors :
    ~scanning[a] /\ (\A p \in inflight : p.to # a)
      => \A m \in sent : m.source # a => m \in Range(log[a])

\* The layer implements the abstract causal broadcast (when no beacons are sent).
Order == INSTANCE CausalOrder WITH seen <- [a \in Actors |-> Seen(a)]

CausalOrderSpec == Order!Spec

(***************************************************************************)
(* With a transport that hands over every message, every actor catches up: *)
(* again and again it has delivered all that the others have sent, in      *)
(* whatever order and however often the messages arrive.                   *)
(***************************************************************************)
EventuallyDelivered ==
  \A a \in Actors :
    []<>(\A m \in sent : m.source # a => m \in Range(log[a]))
=============================================================================
