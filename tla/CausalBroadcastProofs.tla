------------------------ MODULE CausalBroadcastProofs ------------------------
(***************************************************************************)
(* Theorems about CausalBroadcast, for every set of actors and every       *)
(* bound.                                                                  *)
(***************************************************************************)
EXTENDS CausalBroadcast, SequenceTheorems, TLAPS

(***************************************************************************)
(* Appending to a log of sent messages: what the new log is and holds.     *)
(***************************************************************************)
LEMMA AppendFacts ==
  ASSUME NEW S, NEW s \in Seq(S), NEW x \in S
  PROVE  /\ Append(s, x) \in Seq(S)
         /\ Len(Append(s, x)) = Len(s) + 1
         /\ \A i \in 1 .. Len(s) : Append(s, x)[i] = s[i]
         /\ Append(s, x)[Len(s) + 1] = x
         /\ Range(Append(s, x)) = Range(s) \cup {x}
<1>1. /\ Append(s, x) \in Seq(S)
      /\ Len(Append(s, x)) = Len(s) + 1
      /\ \A i \in 1 .. Len(s) : Append(s, x)[i] = s[i]
      /\ Append(s, x)[Len(s) + 1] = x
  BY AppendProperties
<1>2. DOMAIN Append(s, x) = 1 .. Len(s) + 1 /\ DOMAIN s = 1 .. Len(s)
  BY <1>1, LenProperties
<1>3. Range(Append(s, x)) = Range(s) \cup {x}
  BY <1>1, <1>2, LenProperties DEF Range
<1> QED
  BY <1>1, <1>3

(***************************************************************************)
(* Type correctness is preserved by every step.                            *)
(***************************************************************************)
LEMMA TypeInitially == Init => TypeOK
BY MaxDupsAssumption DEF Init, TypeOK

\* Sending a message keeps the types: it is a message with a full clock.
LEMMA TypeSend ==
  ASSUME TypeOK, NEW a \in Actors, NEW kind \in Kinds, Send(a, kind)
  PROVE  TypeOK'
<1> DEFINE m == [source |-> a, kind |-> kind, vc |-> Ticked(a)]
<1>1. /\ clock' = [clock EXCEPT ![a] = Ticked(a)]
      /\ sent' = sent \cup {m}
      /\ past' = [n \in sent \cup {m} |-> IF n \in sent THEN past[n] ELSE Seen(a)]
      /\ inflight' = inflight \cup Packets(m)
      /\ UNCHANGED <<dups, hold, remaining, scanning, deliveredAny, log>>
  BY DEF Send
<1>2. Ticked(a) \in [Actors -> Nat]
  BY DEF TypeOK, Ticked
<1>3. m \in Message
  BY <1>2 DEF Message
<1>4. clock' \in [Actors -> [Actors -> Nat]] /\ sent' \subseteq Message
  BY <1>1, <1>2, <1>3 DEF TypeOK
<1>5. Range(log[a]) \subseteq sent
  BY RangeOfSeq DEF TypeOK
<1>6. past' \in [sent' -> SUBSET sent']
  BY <1>1, <1>5 DEF TypeOK, Seen
<1>7. inflight' \subseteq [to : Actors, msg : sent']
  BY <1>1 DEF TypeOK, Packets
<1>8. Seq(sent) \subseteq Seq(sent')
  BY <1>1, SeqMonotonic
<1> HIDE DEF m
<1> QED
  BY <1>1, <1>4, <1>6, <1>7, <1>8 DEF TypeOK

\* The transport only forgets packets.
LEMMA TypeHandOver ==
  ASSUME TypeOK, NEW p \in inflight, HandOver(p)
  PROVE  inflight' \subseteq [to : Actors, msg : sent] /\ dups' \in 0 .. MaxDups
BY MaxDupsAssumption DEF TypeOK, HandOver

\* Delivering a sent message keeps clock and log in their types.
LEMMA TypeDeliver ==
  ASSUME TypeOK, NEW a \in Actors, NEW m \in sent, Deliver(a, m)
  PROVE  clock' \in [Actors -> [Actors -> Nat]] /\ log' \in [Actors -> Seq(sent)]
<1>1. m \in Message
  BY DEF TypeOK
<1>2. Append(log[a], m) \in Seq(sent)
  BY AppendFacts DEF TypeOK
<1> QED
  BY <1>1, <1>2 DEF TypeOK, Deliver, Message

\* Buffering a message keeps the types.
LEMMA TypeReceive ==
  ASSUME TypeOK, NEW p \in inflight, Receive(p)
  PROVE  TypeOK'
<1>1. p.to \in Actors /\ p.msg \in sent
  BY DEF TypeOK
<1>2. Append(hold[p.to], p.msg) \in Seq(sent)
  BY <1>1, AppendFacts DEF TypeOK
<1>3. inflight' \subseteq [to : Actors, msg : sent] /\ dups' \in 0 .. MaxDups
  BY TypeHandOver DEF Receive
<1> QED
  BY <1>1, <1>2, <1>3 DEF TypeOK, Receive

\* Delivering a beacon at once keeps the types.
LEMMA TypeReceiveHealth ==
  ASSUME TypeOK, NEW p \in inflight, ReceiveHealth(p)
  PROVE  TypeOK'
<1>1. p.to \in Actors /\ p.msg \in sent
  BY DEF TypeOK
<1>2. clock' \in [Actors -> [Actors -> Nat]] /\ log' \in [Actors -> Seq(sent)]
  BY <1>1, TypeDeliver DEF ReceiveHealth
<1>3. inflight' \subseteq [to : Actors, msg : sent] /\ dups' \in 0 .. MaxDups
  BY TypeHandOver DEF ReceiveHealth
<1> QED
  BY <1>2, <1>3 DEF TypeOK, ReceiveHealth

\* Every iteration and every end of a pass of the drain keeps the types.
LEMMA TypeDrain ==
  ASSUME TypeOK, NEW a \in Actors, Drain(a)
  PROVE  TypeOK'
<1>1. hold[a] # <<>> => Head(hold[a]) \in sent /\ Tail(hold[a]) \in Seq(sent)
  BY HeadTailProperties DEF TypeOK
<1>2. CASE ScanDeliver(a)
  <2>1. clock' \in [Actors -> [Actors -> Nat]] /\ log' \in [Actors -> Seq(sent)]
    BY <1>1, <1>2, TypeDeliver DEF ScanDeliver
  <2> QED
    BY <1>1, <1>2, <2>1 DEF TypeOK, ScanDeliver, network
<1>3. CASE ScanKeep(a)
  <2>1. Append(remaining[a], Head(hold[a])) \in Seq(sent)
    BY <1>1, <1>3, AppendFacts DEF TypeOK, ScanKeep
  <2> QED
    BY <1>1, <1>3, <2>1 DEF TypeOK, ScanKeep, network
<1>4. CASE EndPass(a)
  BY <1>4, EmptySeq DEF TypeOK, EndPass, network
<1> QED
  BY <1>2, <1>3, <1>4 DEF Drain

\* Every step keeps the types.
LEMMA TypeStep == TypeOK /\ [Next]_vars => TypeOK'
<1> SUFFICES ASSUME TypeOK, [Next]_vars PROVE TypeOK'
  OBVIOUS
<1>1. CASE UNCHANGED vars
  BY <1>1 DEF TypeOK, vars, network
<1> QED
  BY <1>1, TypeSend, TypeReceive, TypeReceiveHealth, TypeDrain DEF Next

(***************************************************************************)
(* Every queue, log and packet holds messages that were really sent, and   *)
(* the scratch queue of a scan is empty whenever the lock is free.         *)
(***************************************************************************)
THEOREM TypeCorrect == Spec => []TypeOK
BY TypeInitially, TypeStep, PTL DEF Spec

-----------------------------------------------------------------------------
(***************************************************************************)
(* Three kinds of step, as far as clocks and logs are concerned: a send, a *)
(* delivery of a message that is ready or is a beacon, and the rest.       *)
(***************************************************************************)
Delivery(a, m) ==
  /\ Deliver(a, m)
  /\ IsDeliverable(a, m) \/ IsHealth(m)
  /\ UNCHANGED <<sent, past>>

\* For the clocks and logs, every step is a send, one delivery, or nothing.
LEMMA StepKinds ==
  ASSUME TypeOK, [Next]_vars
  PROVE  \/ \E a \in Actors, kind \in Kinds : Send(a, kind)
         \/ \E a \in Actors, m \in sent : Delivery(a, m)
         \/ UNCHANGED <<clock, log, sent, past>>
<1>1. ASSUME NEW p \in inflight, ReceiveHealth(p)
      PROVE  \E a \in Actors, m \in sent : Delivery(a, m)
  <2>1. p.to \in Actors /\ p.msg \in sent
    BY DEF TypeOK
  <2>2. Delivery(p.to, p.msg)
    BY <1>1 DEF ReceiveHealth, Delivery
  <2> QED
    BY <2>1, <2>2
<1>2. ASSUME NEW a \in Actors, ScanDeliver(a)
      PROVE  \E m \in sent : Delivery(a, m)
  <2>1. Head(hold[a]) \in sent
    BY <1>2, HeadTailProperties DEF TypeOK, ScanDeliver
  <2>2. Delivery(a, Head(hold[a]))
    BY <1>2 DEF ScanDeliver, Delivery
  <2> QED
    BY <2>1, <2>2
<1>3. ASSUME NEW p \in inflight, Receive(p)
      PROVE  UNCHANGED <<clock, log, sent, past>>
  BY <1>3 DEF Receive
<1>4. ASSUME NEW a \in Actors, ScanKeep(a) \/ EndPass(a)
      PROVE  UNCHANGED <<clock, log, sent, past>>
  BY <1>4 DEF ScanKeep, EndPass
<1>5. CASE UNCHANGED vars
  BY <1>5 DEF vars
<1> QED
  BY <1>1, <1>2, <1>3, <1>4, <1>5 DEF Next, Drain

-----------------------------------------------------------------------------
(***************************************************************************)
(* The inductive invariant.  A number of a source names one message;       *)
(* nobody, and no message, knows more of a source than the source itself;  *)
(* the causal past of a message lies below its vector clock; and the clock *)
(* of an actor covers what it delivered: a beacon in its own entry only, a *)
(* causal message in every entry.                                          *)
(***************************************************************************)
NumbersUnique ==
  \A m, n \in sent :
    m.source = n.source /\ m.vc[m.source] = n.vc[m.source] => m = n

KnowledgeSound ==
  /\ \A a, b \in Actors : clock[a][b] <= clock[b][b]
  /\ \A m \in sent : \A b \in Actors : m.vc[b] <= clock[b][b]

PastBelow ==
  \A m \in sent : \A p \in past[m] :
    /\ p.vc[p.source] <= m.vc[p.source]
    /\ p.source = m.source => p.vc[p.source] < m.vc[p.source]

LogCovered ==
  \A a \in Actors : \A m \in Range(log[a]) :
    /\ m.vc[m.source] <= clock[a][m.source]
    /\ ~IsHealth(m) => \A b \in Actors : m.vc[b] <= clock[a][b]

CausalInv ==
  /\ TypeOK
  /\ NumbersUnique
  /\ KnowledgeSound
  /\ PastBelow
  /\ LogCovered

\* Nothing is sent initially, so the invariant holds.
LEMMA CausalInitially == Init => CausalInv
<1> SUFFICES ASSUME Init PROVE CausalInv
  OBVIOUS
<1>1. TypeOK
  BY TypeInitially
<1>2. \A a \in Actors : Range(log[a]) = {}
  BY EmptySeq DEF Init, Range
<1> QED
  BY <1>1, <1>2 DEF Init, CausalInv, NumbersUnique, KnowledgeSound, PastBelow, LogCovered

\* What a send changes, and what the new message knows.
LEMMA SendFacts ==
  ASSUME TypeOK, KnowledgeSound, NEW a \in Actors, NEW kind \in Kinds, Send(a, kind)
  PROVE  \E m \in Message :
           /\ m.source = a
           /\ m.vc[a] = clock[a][a] + 1
           /\ \A b \in Actors \ {a} : m.vc[b] = clock[a][b]
           /\ m \notin sent
           /\ sent' = sent \cup {m}
           /\ past'[m] = Seen(a)
           /\ \A n \in sent : past'[n] = past[n]
           /\ log' = log
           /\ \A b, c \in Actors :
                clock'[b][c] = IF b = a /\ c = a THEN clock[a][a] + 1 ELSE clock[b][c]
<1> DEFINE m == [source |-> a, kind |-> kind, vc |-> Ticked(a)]
<1>1. /\ clock' = [clock EXCEPT ![a] = Ticked(a)]
      /\ sent' = sent \cup {m}
      /\ past' = [n \in sent \cup {m} |-> IF n \in sent THEN past[n] ELSE Seen(a)]
      /\ log' = log
  BY DEF Send
<1>2. /\ Ticked(a) \in [Actors -> Nat]
      /\ Ticked(a)[a] = clock[a][a] + 1
      /\ \A b \in Actors \ {a} : Ticked(a)[b] = clock[a][b]
  BY DEF TypeOK, Ticked
<1>3. /\ m \in Message
      /\ m.source = a
      /\ m.vc[a] = clock[a][a] + 1
      /\ \A b \in Actors \ {a} : m.vc[b] = clock[a][b]
  BY <1>2 DEF Message
<1>4. m \notin sent
  <2>1. clock[a][a] \in Nat
    BY DEF TypeOK
  <2> QED
    BY <1>3, <2>1 DEF KnowledgeSound
<1>5. \A b, c \in Actors :
        clock'[b][c] = IF b = a /\ c = a THEN clock[a][a] + 1 ELSE clock[b][c]
  BY <1>1, <1>2 DEF TypeOK
<1> HIDE DEF m
<1>6. past'[m] = Seen(a) /\ \A n \in sent : past'[n] = past[n]
  BY <1>1, <1>4
<1> QED
  BY <1>1, <1>3, <1>4, <1>5, <1>6

\* What a delivery changes.
LEMMA DeliveryFacts ==
  ASSUME TypeOK, NEW a \in Actors, NEW m \in sent, Delivery(a, m)
  PROVE  /\ sent' = sent /\ past' = past
         /\ m.source \in Actors /\ m.vc \in [Actors -> Nat]
         /\ log' = [log EXCEPT ![a] = Append(log[a], m)]
         /\ Range(log'[a]) = Range(log[a]) \cup {m}
         /\ \A b \in Actors \ {a} : log'[b] = log[b]
         /\ \A b, c \in Actors : b # a \/ c # m.source => clock'[b][c] = clock[b][c]
         /\ clock'[a][m.source] =
              IF m.vc[m.source] > clock[a][m.source]
              THEN m.vc[m.source] ELSE clock[a][m.source]
         /\ ~IsHealth(m) => IsDeliverable(a, m)
<1>1. m \in Message
  BY DEF TypeOK
<1>2. log[a] \in Seq(sent)
  BY DEF TypeOK
<1>3. Range(Append(log[a], m)) = Range(log[a]) \cup {m}
  BY <1>2, AppendFacts
<1> QED
  BY <1>1, <1>3 DEF TypeOK, Delivery, Deliver, Message

\* Sends and deliveries preserve each conjunct of the invariant.
LEMMA CausalStep == CausalInv /\ [Next]_vars => CausalInv'
<1> SUFFICES ASSUME CausalInv, [Next]_vars PROVE CausalInv'
  OBVIOUS
<1> USE DEF CausalInv
<1>1. TypeOK'
  BY TypeStep
<1>2. ASSUME NEW a \in Actors, NEW kind \in Kinds, Send(a, kind)
      PROVE  (NumbersUnique /\ KnowledgeSound /\ PastBelow /\ LogCovered)'
  <2>1. PICK m \in Message :
           /\ m.source = a
           /\ m.vc[a] = clock[a][a] + 1
           /\ \A b \in Actors \ {a} : m.vc[b] = clock[a][b]
           /\ m \notin sent
           /\ sent' = sent \cup {m}
           /\ past'[m] = Seen(a)
           /\ \A n \in sent : past'[n] = past[n]
           /\ log' = log
           /\ \A b, c \in Actors :
                clock'[b][c] = IF b = a /\ c = a THEN clock[a][a] + 1 ELSE clock[b][c]
    BY <1>2, SendFacts
  <2>2. /\ \A b, c \in Actors : clock[b][c] \in Nat
        /\ \A n \in sent : n.source \in Actors /\ \A b \in Actors : n.vc[b] \in Nat
    BY DEF TypeOK, Message
  <2>3. NumbersUnique'
    BY <2>1, <2>2 DEF NumbersUnique, KnowledgeSound
  <2>4. KnowledgeSound'
    BY <2>1, <2>2 DEF KnowledgeSound
  <2>5. \A p \in Seen(a) : /\ p \in sent
                           /\ p.vc[p.source] <= clock[a][p.source]
    <3>1. Range(log[a]) \subseteq sent
      BY RangeOfSeq DEF TypeOK
    <3> QED
      BY <3>1, <2>2 DEF Seen, LogCovered, KnowledgeSound
  <2>6. PastBelow'
    <3>1. \A p \in past'[m] : /\ p.vc[p.source] <= m.vc[p.source]
                              /\ p.source = m.source => p.vc[p.source] < m.vc[p.source]
      BY <2>1, <2>2, <2>5
    <3> QED
      BY <3>1, <2>1 DEF PastBelow
  <2>7. LogCovered'
    <3>1. \A b \in Actors : Range(log[b]) \subseteq sent
      BY RangeOfSeq DEF TypeOK
    <3> QED
      BY <3>1, <2>1, <2>2 DEF LogCovered, IsHealth
  <2> QED
    BY <2>3, <2>4, <2>6, <2>7
<1>3. ASSUME NEW a \in Actors, NEW m \in sent, Delivery(a, m)
      PROVE  (NumbersUnique /\ KnowledgeSound /\ PastBelow /\ LogCovered)'
  <2>1. /\ sent' = sent /\ past' = past
        /\ m.source \in Actors /\ m.vc \in [Actors -> Nat]
        /\ Range(log'[a]) = Range(log[a]) \cup {m}
        /\ \A b \in Actors \ {a} : log'[b] = log[b]
        /\ \A b, c \in Actors : b # a \/ c # m.source => clock'[b][c] = clock[b][c]
        /\ clock'[a][m.source] =
             IF m.vc[m.source] > clock[a][m.source]
             THEN m.vc[m.source] ELSE clock[a][m.source]
        /\ ~IsHealth(m) => IsDeliverable(a, m)
    BY <1>3, DeliveryFacts
  <2>2. /\ \A b, c \in Actors : clock[b][c] \in Nat
        /\ \A n \in sent : n.source \in Actors /\ \A b \in Actors : n.vc[b] \in Nat
    BY DEF TypeOK, Message
  <2>3. NumbersUnique' /\ PastBelow'
    BY <2>1 DEF NumbersUnique, PastBelow
  <2>4. \A b, c \in Actors : clock[b][c] <= clock'[b][c]
    BY <2>1, <2>2
  <2>5. \A b \in Actors : clock'[b][b] = clock[b][b]
    BY <2>1, <2>2 DEF KnowledgeSound
  <2>6. KnowledgeSound'
    BY <2>1, <2>2, <2>5 DEF KnowledgeSound
  <2>7. /\ m.vc[m.source] <= clock'[a][m.source]
        /\ ~IsHealth(m) => \A b \in Actors : m.vc[b] <= clock'[a][b]
    BY <2>1, <2>2, <2>4 DEF IsDeliverable
  <2>8. LogCovered'
    <3>1. \A b \in Actors : Range(log[b]) \subseteq sent
      BY RangeOfSeq DEF TypeOK
    <3>2. \A b, c \in Actors : clock'[b][c] \in Nat
      BY <1>1 DEF TypeOK
    <3>3. ASSUME NEW b \in Actors, NEW n \in Range(log'[b]), n \in Range(log[b])
          PROVE  /\ n.vc[n.source] <= clock'[b][n.source]
                 /\ ~IsHealth(n) => \A c \in Actors : n.vc[c] <= clock'[b][c]
      BY <3>1, <3>2, <3>3, <2>2, <2>4 DEF LogCovered
    <3> QED
      BY <3>3, <2>1, <2>7 DEF LogCovered, IsHealth
  <2> QED
    BY <2>3, <2>6, <2>8
<1>4. ASSUME UNCHANGED <<clock, log, sent, past>>
      PROVE  (NumbersUnique /\ KnowledgeSound /\ PastBelow /\ LogCovered)'
  BY <1>4 DEF NumbersUnique, KnowledgeSound, PastBelow, LogCovered, IsHealth
<1>5. (NumbersUnique /\ KnowledgeSound /\ PastBelow /\ LogCovered)'
  BY <1>2, <1>3, <1>4, StepKinds
<1> QED
  BY <1>1, <1>5

\* The clocks and logs always agree with the true causal past of the messages:
\* the invariant on which every ordering theorem about _deliver rests.
THEOREM CausalInvariant == Spec => []CausalInv
BY CausalInitially, CausalStep, PTL DEF Spec

-----------------------------------------------------------------------------
(***************************************************************************)
(* A message that is ready is not in the log yet, nor is it in the causal  *)
(* past of a causal message that is: its number is still above the clock.  *)
(***************************************************************************)
LEMMA ReadyIsNew ==
  ASSUME CausalInv, NEW a \in Actors, NEW m \in sent, IsDeliverable(a, m)
  PROVE  /\ m \notin Range(log[a])
         /\ \A x \in Range(log[a]) : ~IsHealth(x) => m \notin past[x]
<1>1. /\ \A b, c \in Actors : clock[b][c] \in Nat
      /\ \A n \in sent : n.source \in Actors /\ \A b \in Actors : n.vc[b] \in Nat
  BY DEF CausalInv, TypeOK, Message
<1>2. Range(log[a]) \subseteq sent
  BY RangeOfSeq DEF CausalInv, TypeOK
<1>3. m.vc[m.source] > clock[a][m.source]
  BY <1>1 DEF IsDeliverable
<1>4. m \notin Range(log[a])
  BY <1>1, <1>3 DEF CausalInv, LogCovered
<1>5. ASSUME NEW x \in Range(log[a]), ~IsHealth(x), m \in past[x]
      PROVE  FALSE
  <2>1. x \in sent
    BY <1>2
  <2>2. m.vc[m.source] <= x.vc[m.source]
    BY <1>5, <2>1 DEF CausalInv, PastBelow
  <2>3. x.vc[m.source] <= clock[a][m.source]
    BY <1>1, <1>5 DEF CausalInv, LogCovered
  <2> QED
    BY <1>1, <1>3, <2>1, <2>2, <2>3
<1> QED
  BY <1>4, <1>5

\* A delivery adds a message that the log neither holds nor should follow.
LEMMA OnceStep ==
  ASSUME CausalInv, AtMostOnce, NoCausalInversion, [Next]_vars
  PROVE  AtMostOnce' /\ NoCausalInversion'
<1>1. TypeOK
  BY DEF CausalInv
<1>2. \A a \in Actors : /\ Len(log[a]) \in Nat
                        /\ \A i \in 1 .. Len(log[a]) : log[a][i] \in sent
                        /\ Range(log[a]) = {log[a][i] : i \in 1 .. Len(log[a])}
  BY <1>1, LenProperties, ElementOfSeq, RangeEquality DEF TypeOK
<1>3. ASSUME NEW a \in Actors, NEW kind \in Kinds, Send(a, kind)
      PROVE  AtMostOnce' /\ NoCausalInversion'
  <2>1. log' = log /\ \A n \in sent : past'[n] = past[n]
    BY <1>1, <1>3, SendFacts DEF CausalInv
  <2> QED
    BY <1>2, <2>1 DEF AtMostOnce, NoCausalInversion, IsHealth
<1>4. ASSUME NEW a \in Actors, NEW m \in sent, Delivery(a, m)
      PROVE  AtMostOnce' /\ NoCausalInversion'
  <2>1. /\ past' = past
        /\ log' = [log EXCEPT ![a] = Append(log[a], m)]
        /\ ~IsHealth(m) => IsDeliverable(a, m)
    BY <1>1, <1>4, DeliveryFacts
  <2>2. log[a] \in Seq(sent)
    BY <1>1 DEF TypeOK
  <2>3. /\ Len(log'[a]) = Len(log[a]) + 1
        /\ \A i \in 1 .. Len(log[a]) : log'[a][i] = log[a][i]
        /\ log'[a][Len(log[a]) + 1] = m
        /\ \A b \in Actors \ {a} : log'[b] = log[b]
    BY <1>1, <2>1, <2>2, AppendFacts DEF TypeOK
  <2>4. ~IsHealth(m) => /\ \A i \in 1 .. Len(log[a]) : log[a][i] # m
                        /\ \A i \in 1 .. Len(log[a]) :
                             ~IsHealth(log[a][i]) => m \notin past[log[a][i]]
    BY <1>2, <2>1, ReadyIsNew
  <2>5. ASSUME NEW i \in 1 .. Len(log[a]) + 1, NEW j \in 1 .. Len(log[a]) + 1
        PROVE  /\ i # j /\ log'[a][i] = log'[a][j] => IsHealth(log'[a][i])
               /\ i < j /\ ~IsHealth(log'[a][i]) /\ ~IsHealth(log'[a][j])
                    => log'[a][j] \notin past'[log'[a][i]]
    <3>1. i \in 1 .. Len(log[a]) \/ i = Len(log[a]) + 1
      BY <1>2
    <3>2. j \in 1 .. Len(log[a]) \/ j = Len(log[a]) + 1
      BY <1>2
    <3> QED
      BY <1>2, <2>1, <2>3, <2>4, <3>1, <3>2 DEF AtMostOnce, NoCausalInversion
  <2>6. ASSUME NEW b \in Actors \ {a}, NEW i \in 1 .. Len(log[b]), NEW j \in 1 .. Len(log[b])
        PROVE  /\ i # j /\ log'[b][i] = log'[b][j] => IsHealth(log'[b][i])
               /\ i < j /\ ~IsHealth(log'[b][i]) /\ ~IsHealth(log'[b][j])
                    => log'[b][j] \notin past'[log'[b][i]]
    BY <2>1, <2>3 DEF AtMostOnce, NoCausalInversion
  <2>7. ASSUME NEW b \in Actors, NEW i \in 1 .. Len(log'[b]), NEW j \in 1 .. Len(log'[b])
        PROVE  /\ i # j /\ log'[b][i] = log'[b][j] => IsHealth(log'[b][i])
               /\ i < j /\ ~IsHealth(log'[b][i]) /\ ~IsHealth(log'[b][j])
                    => log'[b][j] \notin past'[log'[b][i]]
    <3>1. CASE b = a
      BY <2>3, <2>5, <3>1
    <3>2. CASE b # a
      BY <2>3, <2>6, <3>2
    <3> QED
      BY <3>1, <3>2
  <2> QED
    BY <2>7 DEF AtMostOnce, NoCausalInversion, IsHealth
<1>5. CASE UNCHANGED <<clock, log, sent, past>>
  BY <1>5 DEF AtMostOnce, NoCausalInversion, IsHealth
<1> QED
  BY <1>1, <1>3, <1>4, <1>5, StepKinds

(***************************************************************************)
(* A causal message is delivered at most once at each actor, for every     *)
(* number of duplicates and every mix of kinds.                            *)
(***************************************************************************)
THEOREM DeliveredAtMostOnce == Spec => []AtMostOnce
<1>1. Init => AtMostOnce /\ NoCausalInversion
  BY EmptySeq DEF Init, AtMostOnce, NoCausalInversion
<1>2. CausalInv /\ AtMostOnce /\ NoCausalInversion /\ [Next]_vars
        => AtMostOnce' /\ NoCausalInversion'
  BY OnceStep
<1> QED
  BY <1>1, <1>2, CausalInvariant, PTL DEF Spec

(***************************************************************************)
(* No actor delivers a causal message after one that was sent by somebody  *)
(* who already knew it, for every mix of kinds.                            *)
(***************************************************************************)
THEOREM NeverInverted == Spec => []NoCausalInversion
<1>1. Init => AtMostOnce /\ NoCausalInversion
  BY EmptySeq DEF Init, AtMostOnce, NoCausalInversion
<1>2. CausalInv /\ AtMostOnce /\ NoCausalInversion /\ [Next]_vars
        => AtMostOnce' /\ NoCausalInversion'
  BY OnceStep
<1> QED
  BY <1>1, <1>2, CausalInvariant, PTL DEF Spec

-----------------------------------------------------------------------------
\* m is in the log of a, or a later beacon of its source is.
Accounted(a, m) ==
  \/ m \in Range(log[a])
  \/ \E h \in Range(log[a]) :
       IsHealth(h) /\ h.source = m.source /\ h.vc[m.source] > m.vc[m.source]

\* A delivery moves the clock by one, or is a beacon that covers the gap.
LEMMA GapsStep ==
  ASSUME CausalInv, GapsOnlyBehindBeacons, [Next]_vars
  PROVE  GapsOnlyBehindBeacons'
<1>1. TypeOK
  BY DEF CausalInv
<1>2. /\ \A b, c \in Actors : clock[b][c] \in Nat
      /\ \A n \in sent : n.source \in Actors /\ \A b \in Actors : n.vc[b] \in Nat
  BY <1>1 DEF TypeOK, Message
<1>3. ASSUME NEW a \in Actors, NEW kind \in Kinds, Send(a, kind)
      PROVE  GapsOnlyBehindBeacons'
  <2>1. PICK m \in Message :
           /\ m.source = a
           /\ m.vc[a] = clock[a][a] + 1
           /\ sent' = sent \cup {m}
           /\ log' = log
           /\ \A b, c \in Actors :
                clock'[b][c] = IF b = a /\ c = a THEN clock[a][a] + 1 ELSE clock[b][c]
    BY <1>1, <1>3, SendFacts DEF CausalInv
  <2>2. \A b \in Actors : clock[b][a] <= clock[a][a]
    BY DEF CausalInv, KnowledgeSound
  <2>3. ASSUME NEW b \in Actors, NEW n \in sent',
               n.source # b, n.vc[n.source] <= clock'[b][n.source]
        PROVE  n \in sent /\ n.vc[n.source] <= clock[b][n.source]
    BY <1>2, <2>1, <2>2, <2>3
  <2> QED
    BY <2>1, <2>3 DEF GapsOnlyBehindBeacons, IsHealth
<1>4. ASSUME NEW a \in Actors, NEW m \in sent, Delivery(a, m)
      PROVE  GapsOnlyBehindBeacons'
  <2>1. /\ sent' = sent
        /\ Range(log'[a]) = Range(log[a]) \cup {m}
        /\ \A b \in Actors \ {a} : log'[b] = log[b]
        /\ \A b, c \in Actors : b # a \/ c # m.source => clock'[b][c] = clock[b][c]
        /\ clock'[a][m.source] =
             IF m.vc[m.source] > clock[a][m.source]
             THEN m.vc[m.source] ELSE clock[a][m.source]
        /\ ~IsHealth(m) => IsDeliverable(a, m)
    BY <1>1, <1>4, DeliveryFacts
  <2>2. \A b \in Actors : Range(log[b]) \subseteq Range(log'[b])
    BY <2>1
  <2>3. ASSUME NEW b \in Actors, NEW n \in sent,
               n.source # b, n.vc[n.source] <= clock[b][n.source]
        PROVE  Accounted(b, n)'
    <3>1. Accounted(b, n)
      BY <2>3 DEF GapsOnlyBehindBeacons, Accounted
    <3> QED
      BY <3>1, <2>2 DEF Accounted, IsHealth
  <2>4. ASSUME NEW n \in sent, n.source = m.source,
               n.vc[n.source] <= m.vc[n.source], n.vc[n.source] > clock[a][n.source]
        PROVE  Accounted(a, n)'
    <3>1. CASE n.vc[n.source] = m.vc[n.source]
      <4>1. n = m
        BY <2>4, <3>1 DEF CausalInv, NumbersUnique
      <4> QED
        BY <4>1, <2>1 DEF Accounted
    <3>2. CASE n.vc[n.source] < m.vc[n.source]
      <4>1. IsHealth(m)
        BY <1>2, <2>1, <2>4, <3>2 DEF IsDeliverable
      <4> QED
        BY <4>1, <2>1, <2>4, <3>2, <1>2 DEF Accounted, IsHealth
    <3> QED
      BY <1>2, <2>4, <3>1, <3>2
  <2>5. ASSUME NEW b \in Actors, NEW n \in sent,
               n.source # b, n.vc[n.source] <= clock'[b][n.source]
        PROVE  Accounted(b, n)'
    <3>1. CASE n.vc[n.source] <= clock[b][n.source]
      BY <2>3, <2>5, <3>1
    <3>2. CASE n.vc[n.source] > clock[b][n.source]
      <4>1. b = a /\ n.source = m.source /\ n.vc[n.source] <= m.vc[n.source]
        BY <1>2, <2>1, <2>5, <3>2
      <4> QED
        BY <2>4, <3>2, <4>1
    <3> QED
      BY <1>2, <3>1, <3>2
  <2> QED
    BY <2>1, <2>5 DEF GapsOnlyBehindBeacons, Accounted
<1>5. CASE UNCHANGED <<clock, log, sent, past>>
  BY <1>5 DEF GapsOnlyBehindBeacons, IsHealth
<1> QED
  BY <1>1, <1>3, <1>4, <1>5, StepKinds

(***************************************************************************)
(* A message below the clock of an actor was delivered there or overtaken  *)
(* by a health beacon of its source, for every mix of kinds: _deliver of a *)
(* beacon is the only place where the layer can skip a message.            *)
(***************************************************************************)
THEOREM OnlyBeaconsSkip == Spec => []GapsOnlyBehindBeacons
<1>1. Init => GapsOnlyBehindBeacons
  BY DEF Init, GapsOnlyBehindBeacons
<1>2. CausalInv /\ GapsOnlyBehindBeacons /\ [Next]_vars => GapsOnlyBehindBeacons'
  BY GapsStep
<1> QED
  BY <1>1, <1>2, CausalInvariant, PTL DEF Spec

(***************************************************************************)
(* With beacons too, what a delivered causal message depends on is known   *)
(* to the receiver, or was overtaken there by a beacon of its own source:  *)
(* this is all that the immediate delivery of beacons costs.               *)
(***************************************************************************)
THEOREM OrderedUpToBeacons == Spec => []CausalUpToBeacons
<1>1. CausalInv /\ GapsOnlyBehindBeacons => CausalUpToBeacons
  <2> SUFFICES ASSUME CausalInv, GapsOnlyBehindBeacons, NEW a \in Actors,
                      NEW m \in Range(log[a]), ~IsHealth(m), NEW p \in past[m]
               PROVE  p \in Seen(a) \/ Accounted(a, p)
    BY DEF CausalUpToBeacons, Accounted, Seen
  <2>1. m \in sent
    BY RangeOfSeq DEF CausalInv, TypeOK
  <2>2. p \in sent
    BY <2>1 DEF CausalInv, TypeOK
  <2>3. /\ \A b, c \in Actors : clock[b][c] \in Nat
        /\ \A n \in sent : n.source \in Actors /\ \A b \in Actors : n.vc[b] \in Nat
    BY DEF CausalInv, TypeOK, Message
  <2>4. p.vc[p.source] <= m.vc[p.source] /\ m.vc[p.source] <= clock[a][p.source]
    BY <2>1, <2>2, <2>3 DEF CausalInv, PastBelow, LogCovered
  <2>5. p.vc[p.source] <= clock[a][p.source]
    BY <2>1, <2>2, <2>3, <2>4
  <2> QED
    BY <2>2, <2>5 DEF GapsOnlyBehindBeacons, Accounted, Seen
<1> QED
  BY <1>1, CausalInvariant, OnlyBeaconsSkip, PTL

-----------------------------------------------------------------------------
(***************************************************************************)
(* From here on no actor sends health beacons.                             *)
(***************************************************************************)
NoBeacons == Kinds \cap HEALTH_KINDS = {}

\* A message that is ready is new to the actor and all its past is known.
LEMMA ReadyIsOrdered ==
  ASSUME NoBeacons, CausalInv, GapsOnlyBehindBeacons,
         NEW a \in Actors, NEW m \in sent, IsDeliverable(a, m)
  PROVE  m \notin Seen(a) /\ past[m] \subseteq Seen(a)
<1>1. /\ \A b, c \in Actors : clock[b][c] \in Nat
      /\ \A n \in sent : n.source \in Actors /\ \A b \in Actors : n.vc[b] \in Nat
      /\ \A n \in sent : n.kind \in Kinds
  BY DEF CausalInv, TypeOK, Message
<1>2. Range(log[a]) \subseteq sent
  BY RangeOfSeq DEF CausalInv, TypeOK
<1>3. \A n \in sent : ~IsHealth(n)
  BY <1>1 DEF NoBeacons, IsHealth
<1>4. m.source # a
  BY <1>1 DEF IsDeliverable, CausalInv, KnowledgeSound
<1>5. m \notin Seen(a)
  BY <1>4, ReadyIsNew DEF Seen
<1>6. ASSUME NEW p \in past[m]
      PROVE  p \in Seen(a)
  <2>1. p \in sent
    BY DEF CausalInv, TypeOK
  <2>2. /\ p.vc[p.source] <= m.vc[p.source]
        /\ p.source = m.source => p.vc[p.source] < m.vc[p.source]
    BY DEF CausalInv, PastBelow
  <2>3. p.vc[p.source] <= clock[a][p.source]
    <3>1. CASE p.source = m.source
      BY <1>1, <2>1, <2>2, <3>1 DEF IsDeliverable
    <3>2. CASE p.source # m.source
      BY <1>1, <2>1, <2>2, <3>2 DEF IsDeliverable
    <3> QED
      BY <3>1, <3>2
  <2> QED
    BY <1>2, <1>3, <2>1, <2>3 DEF GapsOnlyBehindBeacons, Seen
<1> QED
  BY <1>5, <1>6

\* Without beacons, what an actor has seen changes as the abstract layer says.
LEMMA OrderStep ==
  ASSUME NoBeacons, CausalInv, GapsOnlyBehindBeacons, [Next]_vars
  PROVE  [Order!Next]_(Order!vars)
<1> DEFINE S == [a \in Actors |-> Seen(a)]
<1>1. TypeOK
  BY DEF CausalInv
<1>2. ASSUME NEW a \in Actors, NEW kind \in Kinds, Send(a, kind)
      PROVE  Order!Broadcast(a)
  <2>1. PICK m \in Message :
           /\ m.source = a
           /\ m \notin sent
           /\ sent' = sent \cup {m}
           /\ log' = log
    BY <1>1, <1>2, SendFacts DEF CausalInv
  <2>2. past' = [n \in sent \cup {m} |-> IF n \in sent THEN past[n] ELSE Seen(a)]
    <3>1. past' = [n \in sent' |-> IF n \in sent THEN past[n] ELSE Seen(a)]
      BY <1>2 DEF Send
    <3> QED
      BY <2>1, <3>1
  <2>3. Seen(a)' = Seen(a) \cup {m} /\ \A b \in Actors \ {a} : Seen(b)' = Seen(b)
    BY <2>1 DEF Seen
  <2>4. S' = [S EXCEPT ![a] = S[a] \cup {m}]
    BY <2>3
  <2> QED
    BY <2>1, <2>2, <2>4 DEF Order!Broadcast
<1>3. ASSUME NEW a \in Actors, NEW m \in sent, Delivery(a, m)
      PROVE  Order!Deliver(a, m)
  <2>1. /\ sent' = sent /\ past' = past
        /\ Range(log'[a]) = Range(log[a]) \cup {m}
        /\ \A b \in Actors \ {a} : log'[b] = log[b]
        /\ ~IsHealth(m) => IsDeliverable(a, m)
    BY <1>1, <1>3, DeliveryFacts
  <2>2. m.kind \in Kinds
    BY <1>1 DEF TypeOK, Message
  <2>3. IsDeliverable(a, m)
    BY <2>1, <2>2 DEF NoBeacons, IsHealth
  <2>4. m \notin Seen(a) /\ past[m] \subseteq Seen(a)
    BY <2>3, ReadyIsOrdered
  <2>5. Seen(a)' = Seen(a) \cup {m} /\ \A b \in Actors \ {a} : Seen(b)' = Seen(b)
    BY <2>1 DEF Seen
  <2>6. S' = [S EXCEPT ![a] = S[a] \cup {m}]
    BY <2>5
  <2> QED
    BY <2>1, <2>4, <2>6 DEF Order!Deliver
<1>4. ASSUME UNCHANGED <<clock, log, sent, past>>
      PROVE  UNCHANGED Order!vars
  BY <1>4 DEF Order!vars, Seen
<1> QED
  BY <1>1, <1>2, <1>3, <1>4, StepKinds DEF Order!Next

(***************************************************************************)
(* Without beacons the vector clocks and the hold queue implement the      *)
(* abstract causal broadcast: every delivery finds its true causal past    *)
(* already delivered.                                                      *)
(***************************************************************************)
THEOREM ImplementsCausalOrder ==
  ASSUME NoBeacons
  PROVE  Spec => CausalOrderSpec
<1>1. Init => Order!Init
  <2> SUFFICES ASSUME Init PROVE Order!Init
    OBVIOUS
  <2>1. \A a \in Actors : Seen(a) = {}
    BY EmptySeq DEF Init, Seen, Range
  <2> QED
    BY <2>1 DEF Init, Order!Init
<1>2. CausalInv /\ GapsOnlyBehindBeacons /\ [Next]_vars => [Order!Next]_(Order!vars)
  BY OrderStep
<1> QED
  BY <1>1, <1>2, CausalInvariant, OnlyBeaconsSkip, PTL DEF Spec, CausalOrderSpec, Order!Spec

\* A delivery finds the causal past of its message already seen.
LEMMA DeliveryOrderStep ==
  ASSUME NoBeacons, CausalInv, GapsOnlyBehindBeacons, CausalDelivery, [Next]_vars
  PROVE  CausalDelivery'
<1>1. TypeOK
  BY DEF CausalInv
<1>2. \A a \in Actors : Range(log[a]) \subseteq sent
  BY <1>1, RangeOfSeq DEF TypeOK
<1>3. ASSUME NEW a \in Actors, NEW kind \in Kinds, Send(a, kind)
      PROVE  CausalDelivery'
  <2>1. log' = log /\ sent \subseteq sent' /\ \A n \in sent : past'[n] = past[n]
    BY <1>1, <1>3, SendFacts DEF CausalInv
  <2> QED
    BY <1>2, <2>1 DEF CausalDelivery, Seen, IsHealth
<1>4. ASSUME NEW a \in Actors, NEW m \in sent, Delivery(a, m)
      PROVE  CausalDelivery'
  <2>1. /\ sent' = sent /\ past' = past
        /\ Range(log'[a]) = Range(log[a]) \cup {m}
        /\ \A b \in Actors \ {a} : log'[b] = log[b]
        /\ ~IsHealth(m) => IsDeliverable(a, m)
    BY <1>1, <1>4, DeliveryFacts
  <2>2. \A b \in Actors : Seen(b) \subseteq Seen(b)'
    BY <2>1 DEF Seen
  <2>3. ~IsHealth(m) => past[m] \subseteq Seen(a)
    BY <2>1, ReadyIsOrdered
  <2> QED
    BY <2>1, <2>2, <2>3 DEF CausalDelivery, IsHealth
<1>5. CASE UNCHANGED <<clock, log, sent, past>>
  BY <1>5 DEF CausalDelivery, Seen, IsHealth
<1> QED
  BY <1>1, <1>3, <1>4, <1>5, StepKinds

(***************************************************************************)
(* Without beacons a message is delivered only after everything its sender *)
(* had sent or delivered before sending it.                                *)
(***************************************************************************)
THEOREM DeliveredInCausalOrder ==
  ASSUME NoBeacons
  PROVE  Spec => []CausalDelivery
<1>1. Init => CausalDelivery
  <2> SUFFICES ASSUME Init PROVE CausalDelivery
    OBVIOUS
  <2>1. \A a \in Actors : Range(log[a]) = {}
    BY EmptySeq DEF Init, Range
  <2> QED
    BY <2>1 DEF CausalDelivery
<1>2. /\ CausalInv /\ GapsOnlyBehindBeacons /\ CausalDelivery /\ [Next]_vars
      => CausalDelivery'
  BY DeliveryOrderStep
<1> QED
  BY <1>1, <1>2, CausalInvariant, OnlyBeaconsSkip, PTL DEF Spec

-----------------------------------------------------------------------------
(***************************************************************************)
(* DrainComplete needs what holds during a scan: as long as nothing was    *)
(* delivered in this pass, what the pass has put aside is not ready.       *)
(***************************************************************************)
PutAsideNotReady ==
  \A a \in Actors : ~deliveredAny[a] =>
    \A m \in Range(remaining[a]) : ~IsDeliverable(a, m)

\* What a pass puts aside is not ready until something is delivered.
LEMMA DrainStep ==
  ASSUME NoBeacons, CausalInv, DrainComplete, PutAsideNotReady, [Next]_vars
  PROVE  DrainComplete' /\ PutAsideNotReady'
<1>1. TypeOK /\ TypeOK'
  BY TypeStep DEF CausalInv
<1>2. /\ \A b, c \in Actors : clock[b][c] \in Nat
      /\ \A n \in sent : n.source \in Actors /\ \A b \in Actors : n.vc[b] \in Nat
      /\ \A n \in sent : n.kind \in Kinds
      /\ \A b \in Actors : Range(hold[b]) \subseteq sent /\ Range(remaining[b]) \subseteq sent
  BY <1>1, RangeOfSeq DEF TypeOK, Message
<1>3. ASSUME NEW a \in Actors, NEW kind \in Kinds, Send(a, kind)
      PROVE  DrainComplete' /\ PutAsideNotReady'
  <2>1. \A b, c \in Actors :
          clock'[b][c] = IF b = a /\ c = a THEN clock[a][a] + 1 ELSE clock[b][c]
    BY <1>1, <1>3, SendFacts DEF CausalInv
  <2>2. ASSUME NEW b \in Actors, NEW n \in sent, IsDeliverable(b, n)'
        PROVE  IsDeliverable(b, n)
    <3>1. \A c \in Actors : n.vc[c] <= clock[c][c]
      BY DEF CausalInv, KnowledgeSound
    <3>2. /\ n.vc[n.source] = clock'[b][n.source] + 1
          /\ \A c \in Actors \ {n.source} : n.vc[c] <= clock'[b][c]
      BY <2>2 DEF IsDeliverable
    <3> QED
      BY <1>2, <2>1, <3>1, <3>2 DEF IsDeliverable
  <2>3. UNCHANGED <<hold, remaining, scanning, deliveredAny>>
    BY <1>3 DEF Send
  <2> QED
    BY <1>2, <2>2, <2>3 DEF DrainComplete, PutAsideNotReady
<1>4. ASSUME NEW p \in inflight, ReceiveHealth(p)
      PROVE  FALSE
  BY <1>1, <1>2, <1>4 DEF TypeOK, ReceiveHealth, NoBeacons, IsHealth
<1>5. ASSUME NEW p \in inflight, Receive(p)
      PROVE  DrainComplete' /\ PutAsideNotReady'
  <2>1. p.to \in Actors
    BY <1>1 DEF TypeOK
  <2>2. /\ \A b \in Actors : ~scanning'[b] => ~scanning[b] /\ hold'[b] = hold[b]
        /\ UNCHANGED <<clock, remaining, deliveredAny>>
    BY <1>1, <1>5, <2>1 DEF TypeOK, Receive
  <2> QED
    BY <2>2 DEF DrainComplete, PutAsideNotReady, IsDeliverable
<1>6. ASSUME NEW a \in Actors, ScanDeliver(a)
      PROVE  DrainComplete' /\ PutAsideNotReady'
  <2>1. /\ deliveredAny'[a] /\ scanning[a] /\ scanning' = scanning
        /\ remaining' = remaining
        /\ \A b \in Actors \ {a} : /\ hold'[b] = hold[b]
                                   /\ deliveredAny'[b] = deliveredAny[b]
                                   /\ clock'[b] = clock[b]
    BY <1>1, <1>6 DEF TypeOK, ScanDeliver, Deliver
  <2> QED
    BY <2>1 DEF DrainComplete, PutAsideNotReady, IsDeliverable
<1>7. ASSUME NEW a \in Actors, ScanKeep(a)
      PROVE  DrainComplete' /\ PutAsideNotReady'
  <2>1. /\ remaining[a] \in Seq(sent) /\ Head(hold[a]) \in sent
        /\ ~IsDeliverable(a, Head(hold[a]))
    BY <1>1, <1>7, HeadTailProperties DEF TypeOK, ScanKeep
  <2>2. Range(Append(remaining[a], Head(hold[a]))) = Range(remaining[a]) \cup {Head(hold[a])}
    BY <2>1, AppendFacts
  <2>3. /\ scanning[a] /\ UNCHANGED <<clock, scanning, deliveredAny>>
        /\ remaining'[a] = Append(remaining[a], Head(hold[a]))
        /\ \A b \in Actors \ {a} : hold'[b] = hold[b] /\ remaining'[b] = remaining[b]
    BY <1>1, <1>7 DEF TypeOK, ScanKeep
  <2>4. DrainComplete'
    BY <2>3 DEF DrainComplete, IsDeliverable
  <2>5. ASSUME NEW b \in Actors, ~deliveredAny'[b], NEW n \in Range(remaining'[b])
        PROVE  ~IsDeliverable(b, n)
    <3>1. CASE b = a
      BY <2>1, <2>2, <2>3, <2>5, <3>1 DEF PutAsideNotReady
    <3>2. CASE b # a
      BY <2>3, <2>5, <3>2 DEF PutAsideNotReady
    <3> QED
      BY <3>1, <3>2
  <2>6. PutAsideNotReady'
    BY <2>3, <2>5 DEF PutAsideNotReady, IsDeliverable
  <2> QED
    BY <2>4, <2>6
<1>8. ASSUME NEW a \in Actors, EndPass(a)
      PROVE  DrainComplete' /\ PutAsideNotReady'
  <2>1. /\ hold'[a] = remaining[a] /\ remaining'[a] = <<>>
        /\ ~scanning'[a] => ~deliveredAny[a]
        /\ clock' = clock
        /\ \A b \in Actors \ {a} : /\ hold'[b] = hold[b]
                                   /\ remaining'[b] = remaining[b]
                                   /\ scanning'[b] = scanning[b]
                                   /\ deliveredAny'[b] = deliveredAny[b]
    BY <1>1, <1>8 DEF TypeOK, EndPass
  <2>2. Range(<<>>) = {}
    BY EmptySeq DEF Range
  <2>3. DrainComplete'
    BY <2>1 DEF DrainComplete, PutAsideNotReady, IsDeliverable
  <2>4. PutAsideNotReady'
    BY <2>1, <2>2 DEF PutAsideNotReady, IsDeliverable
  <2> QED
    BY <2>3, <2>4
<1>9. CASE UNCHANGED vars
  BY <1>9 DEF vars, DrainComplete, PutAsideNotReady, IsDeliverable
<1> QED
  BY <1>3, <1>4, <1>5, <1>6, <1>7, <1>8, <1>9 DEF Next, Drain

(***************************************************************************)
(* Without beacons, whenever the lock of an actor is free nothing in its   *)
(* hold queue is ready: the repeated passes of _try_deliver_buffered reach *)
(* every message that became ready.                                        *)
(***************************************************************************)
THEOREM NothingReadyIsHeld ==
  ASSUME NoBeacons
  PROVE  Spec => []DrainComplete
<1>1. Init => DrainComplete /\ PutAsideNotReady
  <2> SUFFICES ASSUME Init PROVE DrainComplete /\ PutAsideNotReady
    OBVIOUS
  <2>1. \A a \in Actors : Range(hold[a]) = {} /\ Range(remaining[a]) = {}
    BY EmptySeq DEF Init, Range
  <2> QED
    BY <2>1 DEF DrainComplete, PutAsideNotReady
<1>2. /\ CausalInv /\ DrainComplete /\ PutAsideNotReady /\ [Next]_vars
      => DrainComplete' /\ PutAsideNotReady'
  BY DrainStep
<1> QED
  BY <1>1, <1>2, CausalInvariant, PTL DEF Spec

-----------------------------------------------------------------------------
(***************************************************************************)
(* Where a message can be: the inductive part of NothingLost.  An actor    *)
(* is never handed its own messages.                                       *)
(***************************************************************************)
AtActor(a) == Range(hold[a]) \cup Range(remaining[a]) \cup Range(log[a])

FromOthers ==
  /\ \A p \in inflight : p.to # p.msg.source
  /\ \A a \in Actors : \A m \in AtActor(a) : m.source # a

\* No queue and no log holds anything initially.
LEMMA EmptyAtFirst == Init => \A a \in Actors : AtActor(a) = {}
BY EmptySeq DEF Init, AtActor, Range

\* An operation on the queues and the log of a that takes nothing away, and
\* adds at most a message x of somebody else, keeps both.
LEMMA QueuesKeep ==
  ASSUME TypeOK, NothingLost, FromOthers, NEW a \in Actors, NEW x \in sent, x.source # a,
         sent' = sent,
         \A b \in Actors \ {a} : AtActor(b)' = AtActor(b),
         AtActor(a) \subseteq AtActor(a)',
         AtActor(a)' \subseteq AtActor(a) \cup {x},
         inflight' \subseteq inflight,
         \A q \in inflight \ inflight' : q.to = a /\ q.msg \in AtActor(a)'
  PROVE  NothingLost' /\ FromOthers'
<1>1. FromOthers'
  BY DEF FromOthers
<1>2. ASSUME NEW b \in Actors, NEW m \in sent', m.source # b
      PROVE  [to |-> b, msg |-> m] \in inflight' \/ m \in AtActor(b)'
  <2>1. [to |-> b, msg |-> m] \in inflight \/ m \in AtActor(b)
    BY <1>2 DEF NothingLost, AtActor
  <2> QED
    BY <2>1
<1> QED
  BY <1>1, <1>2 DEF NothingLost, AtActor

\* What the transport gives up, it hands over.
LEMMA HandedOver ==
  ASSUME NEW p \in inflight, HandOver(p)
  PROVE  inflight' \subseteq inflight /\ \A q \in inflight \ inflight' : q = p
BY DEF HandOver

\* Taking the head of a queue and appending it elsewhere moves one message.
LEMMA HeadMoves ==
  ASSUME NEW S, NEW s \in Seq(S), s # <<>>
  PROVE  Head(s) \in S /\ Range(s) = Range(Tail(s)) \cup {Head(s)}
<1>1. /\ Head(s) \in S /\ Tail(s) \in Seq(S)
      /\ Len(s) \in Nat /\ Len(s) >= 1
      /\ Len(Tail(s)) = Len(s) - 1
      /\ \A i \in 1 .. Len(Tail(s)) : Tail(s)[i] = s[i + 1]
      /\ Head(s) = s[1]
  BY HeadTailProperties, LenProperties, EmptySeq
<1>2. /\ Range(s) = {s[i] : i \in 1 .. Len(s)}
      /\ Range(Tail(s)) = {Tail(s)[i] : i \in 1 .. Len(Tail(s))}
  BY <1>1, RangeEquality
<1>3. ASSUME NEW i \in 1 .. Len(s)
      PROVE  i = 1 \/ (i - 1 \in 1 .. Len(Tail(s)) /\ Tail(s)[i - 1] = s[i])
  BY <1>1
<1>4. ASSUME NEW i \in 1 .. Len(Tail(s))
      PROVE  i + 1 \in 1 .. Len(s) /\ Tail(s)[i] = s[i + 1]
  BY <1>1
<1>5. Range(s) \subseteq Range(Tail(s)) \cup {Head(s)}
  BY <1>1, <1>2, <1>3
<1>6. Range(Tail(s)) \subseteq Range(s) /\ Head(s) \in Range(s)
  BY <1>1, <1>2, <1>4
<1> QED
  BY <1>1, <1>5, <1>6

\* A new message is handed to the transport for everybody but its sender.
LEMMA SendKeepsAll ==
  ASSUME TypeOK, NothingLost, FromOthers, NEW a \in Actors, NEW kind \in Kinds, Send(a, kind)
  PROVE  NothingLost' /\ FromOthers'
<1> DEFINE m == [source |-> a, kind |-> kind, vc |-> Ticked(a)]
<1>1. /\ sent' = sent \cup {m}
      /\ inflight' = inflight \cup Packets(m)
      /\ UNCHANGED <<hold, remaining, log>>
  BY DEF Send
<1>2. m.source = a
  OBVIOUS
<1> HIDE DEF m
<1>3. /\ \A p \in Packets(m) : p.msg = m /\ p.to \in Actors \ {a}
      /\ \A b \in Actors \ {a} : [to |-> b, msg |-> m] \in Packets(m)
  BY <1>2 DEF Packets
<1>4. FromOthers'
  BY <1>1, <1>2, <1>3 DEF FromOthers, AtActor
<1>5. NothingLost'
  BY <1>1, <1>2, <1>3 DEF NothingLost
<1> QED
  BY <1>4, <1>5

\* What is handed over is buffered, or delivered if it is a beacon.
LEMMA ReceiveKeepsAll ==
  ASSUME TypeOK, NothingLost, FromOthers, NEW p \in inflight, Receive(p) \/ ReceiveHealth(p)
  PROVE  NothingLost' /\ FromOthers'
<1> DEFINE a == p.to
           x == p.msg
<1>1. a \in Actors /\ x \in sent /\ x.source # a
  BY DEF TypeOK, FromOthers
<1>2. hold[a] \in Seq(sent) /\ log[a] \in Seq(sent)
  BY <1>1 DEF TypeOK
<1>3. /\ Range(Append(hold[a], x)) = Range(hold[a]) \cup {x}
      /\ Range(Append(log[a], x)) = Range(log[a]) \cup {x}
  BY <1>1, <1>2, AppendFacts
<1>4. /\ sent' = sent /\ remaining' = remaining
      /\ inflight' \subseteq inflight /\ \A q \in inflight \ inflight' : q = p
  BY HandedOver DEF Receive, ReceiveHealth
<1>5. /\ \A b \in Actors \ {a} : hold'[b] = hold[b] /\ log'[b] = log[b]
      /\ \/ hold'[a] = Append(hold[a], x) /\ log'[a] = log[a]
         \/ hold'[a] = hold[a] /\ log'[a] = Append(log[a], x)
  BY <1>1 DEF Receive, ReceiveHealth, Deliver, TypeOK
<1>6. AtActor(a)' = AtActor(a) \cup {x} /\ \A b \in Actors \ {a} : AtActor(b)' = AtActor(b)
  BY <1>3, <1>4, <1>5 DEF AtActor
<1> HIDE DEF a, x
<1>7. \A q \in inflight \ inflight' : q.to = a /\ q.msg = x
  BY <1>4 DEF a, x
<1> QED
  BY <1>1, <1>4, <1>6, <1>7, QueuesKeep

\* A scan moves messages between the queues and the log of its actor.
LEMMA DrainKeepsAll ==
  ASSUME TypeOK, NothingLost, FromOthers, NEW a \in Actors, Drain(a)
  PROVE  NothingLost' /\ FromOthers'
<1>1. hold[a] \in Seq(sent) /\ remaining[a] \in Seq(sent) /\ log[a] \in Seq(sent)
  BY DEF TypeOK
<1>2. UNCHANGED <<sent, inflight>>
  BY DEF Drain, ScanDeliver, ScanKeep, EndPass, network
<1>3. \A b \in Actors \ {a} : AtActor(b)' = AtActor(b)
  BY DEF Drain, ScanDeliver, ScanKeep, EndPass, Deliver, AtActor, TypeOK
<1>4. AtActor(a)' = AtActor(a)
  <2>1. CASE hold[a] # <<>>
    <3>1. Head(hold[a]) \in sent /\ Range(hold[a]) = Range(Tail(hold[a])) \cup {Head(hold[a])}
      BY <1>1, <2>1, HeadMoves
    <3>2. /\ Range(Append(remaining[a], Head(hold[a]))) = Range(remaining[a]) \cup {Head(hold[a])}
          /\ Range(Append(log[a], Head(hold[a]))) = Range(log[a]) \cup {Head(hold[a])}
      BY <1>1, <3>1, AppendFacts
    <3>3. /\ hold'[a] = Tail(hold[a])
          /\ \/ log'[a] = Append(log[a], Head(hold[a])) /\ remaining'[a] = remaining[a]
             \/ log'[a] = log[a] /\ remaining'[a] = Append(remaining[a], Head(hold[a]))
      BY <2>1 DEF Drain, ScanDeliver, ScanKeep, EndPass, Deliver, TypeOK
    <3> QED
      BY <3>1, <3>2, <3>3 DEF AtActor
  <2>2. CASE hold[a] = <<>>
    <3>1. hold'[a] = remaining[a] /\ remaining'[a] = <<>> /\ log'[a] = log[a]
      BY <2>2 DEF Drain, ScanDeliver, ScanKeep, EndPass, TypeOK
    <3>2. Range(<<>>) = {}
      BY EmptySeq DEF Range
    <3> QED
      BY <2>2, <3>1, <3>2 DEF AtActor
  <2> QED
    BY <2>1, <2>2
<1>5. FromOthers'
  BY <1>2, <1>3, <1>4 DEF FromOthers
<1>6. NothingLost'
  BY <1>2, <1>3, <1>4 DEF NothingLost, AtActor
<1> QED
  BY <1>5, <1>6

\* Both hold throughout, for every mix of kinds.
LEMMA QueuesInvariant == Spec => [](NothingLost /\ FromOthers)
<1>1. Init => NothingLost /\ FromOthers
  BY EmptyAtFirst DEF Init, NothingLost, FromOthers
<1>2. TypeOK /\ NothingLost /\ FromOthers /\ [Next]_vars => (NothingLost /\ FromOthers)'
  <2> SUFFICES ASSUME TypeOK, NothingLost, FromOthers, [Next]_vars
               PROVE  NothingLost' /\ FromOthers'
    OBVIOUS
  <2>1. CASE UNCHANGED vars
    BY <2>1 DEF vars, network, NothingLost, FromOthers, AtActor
  <2> QED
    BY <2>1, SendKeepsAll, ReceiveKeepsAll, DrainKeepsAll DEF Next
<1> QED
  BY <1>1, <1>2, TypeCorrect, PTL DEF Spec

(***************************************************************************)
(* No pass of _try_deliver_buffered and no beacon makes a message vanish:  *)
(* it is in the transport, in a queue of its receiver, or delivered there. *)
(***************************************************************************)
THEOREM NoMessageLost == Spec => []NothingLost
BY QueuesInvariant, PTL

(***************************************************************************)
(* Without beacons the docstring of the class holds: a message is          *)
(* delivered only when all earlier messages of its source have been.       *)
(***************************************************************************)
THEOREM SourceOrderWithoutBeacons ==
  ASSUME NoBeacons
  PROVE  Spec => []SourceOrder
<1>1. FromOthers /\ CausalDelivery => SourceOrder
  BY DEF FromOthers, AtActor, CausalDelivery, SourceOrder, Seen
<1> QED
  BY <1>1, QueuesInvariant, DeliveredInCausalOrder, PTL

-----------------------------------------------------------------------------
(***************************************************************************)
(* The clocks know nothing without a reason: an entry of a clock is the    *)
(* number of a message its owner has sent or delivered, and an entry of a  *)
(* message is the number of one in its past (the one before it, for its    *)
(* own entry).  And the past is well founded: among any messages that were *)
(* sent there is one that has none of the others in its past, so that no   *)
(* circle of messages can wait for one another.                            *)
(***************************************************************************)
ClockWitnessed ==
  \A a, b \in Actors : clock[a][b] > 0 =>
    \E p \in Seen(a) : p.source = b /\ p.vc[b] = clock[a][b]

PastWitnessed ==
  \A m \in sent : \A b \in Actors :
    /\ b # m.source /\ m.vc[b] > 0 =>
         \E p \in past[m] : p.source = b /\ p.vc[b] = m.vc[b]
    /\ b = m.source /\ m.vc[b] > 1 =>
         \E p \in past[m] : p.source = b /\ p.vc[b] + 1 = m.vc[b]

PastFounded ==
  \A S \in SUBSET sent : S # {} => \E m \in S : past[m] \cap S = {}

WitnessInv == ClockWitnessed /\ PastWitnessed /\ PastFounded

\* Nothing is known and nothing sent.
LEMMA WitnessInitially == Init => WitnessInv
BY DEF Init, WitnessInv, ClockWitnessed, PastWitnessed, PastFounded

\* A new message has the reasons of its sender's clock in its past, and is in
\* the past of no message yet.
LEMMA WitnessSend ==
  ASSUME CausalInv, WitnessInv, NEW a \in Actors, NEW kind \in Kinds, Send(a, kind)
  PROVE  WitnessInv'
<1>1. TypeOK
  BY DEF CausalInv
<1>2. PICK m \in Message :
         /\ m.source = a
         /\ m.vc[a] = clock[a][a] + 1
         /\ \A b \in Actors \ {a} : m.vc[b] = clock[a][b]
         /\ m \notin sent
         /\ sent' = sent \cup {m}
         /\ past'[m] = Seen(a)
         /\ \A n \in sent : past'[n] = past[n]
         /\ log' = log
         /\ \A b, c \in Actors :
              clock'[b][c] = IF b = a /\ c = a THEN clock[a][a] + 1 ELSE clock[b][c]
  BY <1>1, SendFacts DEF CausalInv
<1>3. \A b, c \in Actors : clock[b][c] \in Nat
  BY <1>1 DEF TypeOK
<1>4. \A b \in Actors : Seen(b) \subseteq Seen(b)' /\ Seen(b) \subseteq sent
  <2>1. \A b \in Actors : Range(log[b]) \subseteq sent
    BY <1>1, RangeOfSeq DEF TypeOK
  <2> QED
    BY <1>2, <2>1 DEF Seen
<1>5. m \in Seen(a)'
  BY <1>2 DEF Seen
<1>6. ClockWitnessed'
  <2> SUFFICES ASSUME NEW b \in Actors, NEW c \in Actors, clock'[b][c] > 0
               PROVE  \E p \in Seen(b)' : p.source = c /\ p.vc[c] = clock'[b][c]
    BY DEF ClockWitnessed
  <2>1. CASE b = a /\ c = a
    BY <1>2, <1>5, <2>1
  <2>2. CASE ~(b = a /\ c = a)
    <3>1. clock'[b][c] = clock[b][c]
      BY <1>2, <2>2
    <3>2. \E p \in Seen(b) : p.source = c /\ p.vc[c] = clock[b][c]
      BY <3>1 DEF WitnessInv, ClockWitnessed
    <3> QED
      BY <1>4, <3>1, <3>2
  <2> QED
    BY <2>1, <2>2
<1>7. PastWitnessed'
  <2>1. ASSUME NEW b \in Actors
        PROVE  /\ b # a /\ m.vc[b] > 0 =>
                    \E p \in Seen(a) : p.source = b /\ p.vc[b] = m.vc[b]
               /\ b = a /\ m.vc[b] > 1 =>
                    \E p \in Seen(a) : p.source = b /\ p.vc[b] + 1 = m.vc[b]
    <3>1. clock[a][b] > 0 => \E p \in Seen(a) : p.source = b /\ p.vc[b] = clock[a][b]
      BY DEF WitnessInv, ClockWitnessed
    <3> QED
      BY <1>2, <1>3, <3>1
  <2>2. ASSUME NEW n \in sent, NEW b \in Actors
        PROVE  /\ b # n.source /\ n.vc[b] > 0 =>
                    \E p \in past'[n] : p.source = b /\ p.vc[b] = n.vc[b]
               /\ b = n.source /\ n.vc[b] > 1 =>
                    \E p \in past'[n] : p.source = b /\ p.vc[b] + 1 = n.vc[b]
    BY <1>2 DEF WitnessInv, PastWitnessed
  <2> QED
    BY <1>2, <2>1, <2>2 DEF PastWitnessed
<1>8. PastFounded'
  <2> SUFFICES ASSUME NEW S \in SUBSET (sent \cup {m}), S # {}
               PROVE  \E n \in S : past'[n] \cap S = {}
    BY <1>2 DEF PastFounded
  <2>1. CASE S \ {m} # {}
    <3>1. S \ {m} \in SUBSET sent
      OBVIOUS
    <3>2. PICK n \in S \ {m} : past[n] \cap (S \ {m}) = {}
      BY <2>1, <3>1 DEF WitnessInv, PastFounded
    <3>3. past[n] \subseteq sent /\ n \in sent
      BY <1>1, <3>1 DEF TypeOK
    <3> QED
      BY <1>2, <3>2, <3>3
  <2>2. CASE S \ {m} = {}
    <3>1. S = {m}
      BY <2>2
    <3> QED
      BY <1>2, <1>4, <3>1
  <2> QED
    BY <2>1, <2>2
<1> QED
  BY <1>6, <1>7, <1>8 DEF WitnessInv

\* A delivery that moves a clock adds the reason to what the actor has seen.
LEMMA WitnessDelivery ==
  ASSUME CausalInv, WitnessInv, NEW a \in Actors, NEW m \in sent, Delivery(a, m)
  PROVE  WitnessInv'
<1>1. TypeOK
  BY DEF CausalInv
<1>2. /\ sent' = sent /\ past' = past
      /\ Range(log'[a]) = Range(log[a]) \cup {m}
      /\ \A b \in Actors \ {a} : log'[b] = log[b]
      /\ \A b, c \in Actors : b # a \/ c # m.source => clock'[b][c] = clock[b][c]
      /\ clock'[a][m.source] =
           IF m.vc[m.source] > clock[a][m.source]
           THEN m.vc[m.source] ELSE clock[a][m.source]
  BY <1>1, DeliveryFacts
<1>3. (\A b \in Actors : Seen(b) \subseteq Seen(b)') /\ m \in Seen(a)'
  BY <1>2 DEF Seen
<1>4. ClockWitnessed'
  <2> SUFFICES ASSUME NEW b \in Actors, NEW c \in Actors, clock'[b][c] > 0
               PROVE  \E p \in Seen(b)' : p.source = c /\ p.vc[c] = clock'[b][c]
    BY DEF ClockWitnessed
  <2>1. CASE clock'[b][c] = clock[b][c]
    <3>1. \E p \in Seen(b) : p.source = c /\ p.vc[c] = clock[b][c]
      BY <2>1 DEF WitnessInv, ClockWitnessed
    <3> QED
      BY <1>3, <2>1, <3>1
  <2>2. CASE clock'[b][c] # clock[b][c]
    <3>1. b = a /\ c = m.source /\ clock'[b][c] = m.vc[c]
      BY <1>2, <2>2
    <3> QED
      BY <1>3, <3>1
  <2> QED
    BY <2>1, <2>2
<1>5. PastWitnessed' /\ PastFounded'
  BY <1>2 DEF WitnessInv, PastWitnessed, PastFounded
<1> QED
  BY <1>4, <1>5 DEF WitnessInv

\* Every clock entry has its reason, for every mix of kinds.
LEMMA WitnessInvariant == Spec => []WitnessInv
<1>1. CausalInv /\ WitnessInv /\ [Next]_vars => WitnessInv'
  <2> SUFFICES ASSUME CausalInv, WitnessInv, [Next]_vars PROVE WitnessInv'
    OBVIOUS
  <2>1. CASE UNCHANGED <<clock, log, sent, past>>
    BY <2>1 DEF WitnessInv, ClockWitnessed, PastWitnessed, PastFounded, Seen
  <2>2. TypeOK
    BY DEF CausalInv
  <2> QED
    BY <2>1, <2>2, StepKinds, WitnessSend, WitnessDelivery
<1> QED
  BY <1>1, WitnessInitially, CausalInvariant, PTL DEF Spec

\* A message of somebody else whose past is known is delivered or ready: its
\* sender's previous message moved the clock to just below it, and every other
\* entry is the number of a message that was seen.
LEMMA PastKnownIsReady ==
  ASSUME NoBeacons, CausalInv, GapsOnlyBehindBeacons, WitnessInv,
         NEW a \in Actors, NEW m \in sent, m.source # a,
         m \notin Range(log[a]), past[m] \subseteq Seen(a),
         m.vc[m.source] > 0
  PROVE  IsDeliverable(a, m)
<1>1. /\ \A b, c \in Actors : clock[b][c] \in Nat
      /\ \A n \in sent : n.source \in Actors /\ \A b \in Actors : n.vc[b] \in Nat
      /\ \A n \in sent : n.kind \in Kinds
  BY DEF CausalInv, TypeOK, Message
<1>2. Range(log[a]) \subseteq sent
  BY RangeOfSeq DEF CausalInv, TypeOK
<1>3. \A n \in sent : ~IsHealth(n)
  BY <1>1 DEF NoBeacons, IsHealth
<1>4. \A p \in Seen(a) : p.vc[p.source] <= clock[a][p.source]
  BY <1>1, <1>2 DEF Seen, CausalInv, LogCovered, KnowledgeSound
<1>5. m.vc[m.source] > clock[a][m.source]
  BY <1>1, <1>2, <1>3 DEF GapsOnlyBehindBeacons
<1>6. m.vc[m.source] <= clock[a][m.source] + 1
  <2>1. CASE m.vc[m.source] > 1
    <3>1. PICK p \in past[m] : p.source = m.source /\ p.vc[m.source] + 1 = m.vc[m.source]
      BY <1>1, <2>1 DEF WitnessInv, PastWitnessed
    <3>2. p \in sent /\ p.vc[m.source] <= clock[a][m.source]
      BY <1>4, <3>1 DEF CausalInv, TypeOK
    <3> QED
      BY <1>1, <3>1, <3>2
  <2>2. CASE m.vc[m.source] <= 1
    BY <1>1, <2>2
  <2> QED
    BY <1>1, <2>1, <2>2
<1>7. ASSUME NEW b \in Actors \ {m.source}
      PROVE  m.vc[b] <= clock[a][b]
  <2>1. CASE m.vc[b] > 0
    <3>1. PICK p \in past[m] : p.source = b /\ p.vc[b] = m.vc[b]
      BY <2>1 DEF WitnessInv, PastWitnessed
    <3> QED
      BY <1>4, <3>1
  <2>2. CASE m.vc[b] = 0
    BY <1>1, <2>2
  <2> QED
    BY <1>1, <2>1, <2>2
<1> QED
  BY <1>1, <1>5, <1>6, <1>7 DEF IsDeliverable

(***************************************************************************)
(* Numbers begin at 1, as send() increments before it copies the clock.    *)
(***************************************************************************)
Numbered == \A m \in sent : m.vc[m.source] > 0

\* Every message has a number of its own.
LEMMA NumberedInvariant == Spec => []Numbered
<1>1. Init => Numbered
  BY DEF Init, Numbered
<1>2. CausalInv /\ Numbered /\ [Next]_vars => Numbered'
  <2> SUFFICES ASSUME CausalInv, Numbered, [Next]_vars PROVE Numbered'
    OBVIOUS
  <2>1. TypeOK
    BY DEF CausalInv
  <2>2. ASSUME NEW a \in Actors, NEW kind \in Kinds, Send(a, kind)
        PROVE  Numbered'
    <3>1. PICK m \in Message :
             m.source = a /\ m.vc[a] = clock[a][a] + 1 /\ sent' = sent \cup {m}
      BY <2>1, <2>2, SendFacts DEF CausalInv
    <3>2. clock[a][a] \in Nat
      BY <2>1 DEF TypeOK
    <3> QED
      BY <3>1, <3>2 DEF Numbered
  <2>3. ASSUME NEW a \in Actors, NEW m \in sent, Delivery(a, m)
        PROVE  Numbered'
    BY <2>3 DEF Delivery, Numbered
  <2>4. CASE UNCHANGED <<clock, log, sent, past>>
    BY <2>4 DEF Numbered
  <2> QED
    BY <2>1, <2>2, <2>3, <2>4, StepKinds
<1> QED
  BY <1>1, <1>2, CausalInvariant, PTL DEF Spec

\* If an idle actor lacked a message, it would lack one whose past it has: that
\* one would be in its hold queue and ready.
LEMMA NothingLacking ==
  ASSUME NoBeacons, CausalInv, GapsOnlyBehindBeacons, WitnessInv, Numbered,
         NothingLost, DrainComplete
  PROVE  CaughtUp
<1> SUFFICES ASSUME NEW a \in Actors, ~scanning[a], \A p \in inflight : p.to # a,
                    NEW x \in sent, x.source # a, x \notin Range(log[a])
             PROVE  FALSE
  BY DEF CaughtUp
<1> DEFINE Lacking == {m \in sent : m.source # a /\ m \notin Range(log[a])}
<1>1. Lacking \in SUBSET sent /\ Lacking # {}
  OBVIOUS
<1>2. PICK m \in Lacking : past[m] \cap Lacking = {}
  BY <1>1 DEF WitnessInv, PastFounded
<1>3. past[m] \subseteq Seen(a)
  BY <1>2 DEF CausalInv, TypeOK, Seen
<1>4. IsDeliverable(a, m)
  BY <1>2, <1>3, PastKnownIsReady DEF Numbered
<1>5. m \in Range(hold[a])
  <2>1. remaining[a] = <<>>
    BY DEF CausalInv, TypeOK
  <2>2. Range(remaining[a]) = {}
    BY <2>1, EmptySeq DEF Range
  <2>3. [to |-> a, msg |-> m] \notin inflight
    OBVIOUS
  <2> QED
    BY <1>2, <2>2, <2>3 DEF NothingLost
<1> QED
  BY <1>4, <1>5 DEF DrainComplete

(***************************************************************************)
(* Without beacons an actor that has been handed everything, in any order  *)
(* and with any duplicates, has delivered everything once its receive()    *)
(* has returned: the hold queue cannot deadlock on itself.  This is the    *)
(* safety half of EventuallyDelivered, for every number of actors.         *)
(***************************************************************************)
THEOREM IdleIsCaughtUp ==
  ASSUME NoBeacons
  PROVE  Spec => []CaughtUp
<1>1. CausalInv /\ GapsOnlyBehindBeacons /\ WitnessInv /\ Numbered /\ NothingLost
        /\ DrainComplete => CaughtUp
  BY NothingLacking
<1> QED
  BY <1>1, CausalInvariant, OnlyBeaconsSkip, WitnessInvariant, NumberedInvariant,
     NoMessageLost, NothingReadyIsHeld, PTL
=============================================================================
