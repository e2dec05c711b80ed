------------------------- MODULE ServerStartupProofs -------------------------
(***************************************************************************)
(* Proofs about ServerStartup, for any number of replicas and streams.     *)
(*                                                                         *)
(* ReadyProvisioned is not inductive: it needs what a replica knows while  *)
(* it is still booting.  Provisioned says that all streams before the one  *)
(* ensure_streams is at exist, that all of them exist when the loop is     *)
(* over, and that the bucket exists once _ensure_bucket has returned.      *)
(* ExitKnown does the same for GracefulExit: the stop event is not set     *)
(* while a process boots, and is set when it drains.                       *)
(***************************************************************************)
EXTENDS ServerStartup, TLAPS

\* The loop of ensure_streams starts at the first stream.
TypeInv == TypeOK /\ \A s \in Servers : pc[s] = "connect" => next[s] = 1

PastLoop   == {"bucket", "make", "wire", "probe", "ready", "draining"}
PastBucket == {"wire", "probe", "ready", "draining"}

Provisioned ==
  \A s \in Servers :
    /\ pc[s] \in {"connect", "find", "add"} =>
         \A i \in Streams : i < next[s] => streams[i] # "absent"
    /\ pc[s] \in PastLoop => \A i \in Streams : streams[i] # "absent"
    /\ pc[s] \in PastBucket => bucket = TRUE

ExitKnown ==
  \A s \in Servers :
    /\ pc[s] \in Starting => stop[s] = FALSE
    /\ pc[s] = "draining" => stop[s] = TRUE
    /\ pc[s] = "exited" /\ code[s] = "0" => stop[s] = TRUE
    /\ pc[s] = "exited" /\ code[s] \in {"none", "1"} => stop[s] = FALSE

-----------------------------------------------------------------------------
\* The initial states satisfy the three invariants: no process runs.
LEMMA InitHolds == Init => TypeInv /\ Provisioned /\ ExitKnown
  BY NAssumption, BoundAssumption
  DEF Init, TypeInv, TypeOK, Provisioned, ExitKnown, Streams, Stores, Running, Starting,
      PastLoop, PastBucket

\* TypeInv in two parts: what a change of control can disturb, and the rest.
Control ==
  /\ pc \in [Servers -> Running \cup {"exited"}]
  /\ next \in [Servers -> 1 .. N + 1]
  /\ stop \in [Servers -> BOOLEAN]
  /\ code \in [Servers -> {"none", "0", "1", "killed"}]
  /\ \A s \in Servers : pc[s] \in {"find", "add"} => next[s] \in Streams
  /\ \A s \in Servers : pc[s] = "connect" => next[s] = 1

Data ==
  /\ waiting \in [Servers -> SUBSET Stores]
  /\ failed \in [Servers -> SUBSET Stores]
  /\ streams \in [Streams -> {"absent", "canonical", "tuned"}]
  /\ bucket \in BOOLEAN
  /\ up \subseteq Stores
  /\ faults \in 0 .. MaxFaults
  /\ signals \in 0 .. MaxSignals

\* Going on within main(), past the start of the loop, keeps the control types.
LEMMA GotoTypes ==
  ASSUME Control, NEW s \in Servers, NEW step \in Running \ {"connect"}, Goto(s, step),
         UNCHANGED next, step \in {"find", "add"} => next[s] \in Streams
  PROVE  Control'
  BY DEF Control, Goto, Running, Starting

\* So does the end of a process.
LEMMA ExitTypes ==
  ASSUME Control, NEW s \in Servers, NEW how \in {"0", "1", "killed"}, Exit(s, how),
         UNCHANGED next
  PROVE  Control'
  BY DEF Control, Exit, Running, Starting

\* And the end of an iteration, which leaves the loop or goes on with a stream.
LEMMA LoopTypes ==
  ASSUME Control, NEW s \in Servers, pc[s] \in {"find", "add"}, NextStream(s)
  PROVE  Control'
<1> USE NAssumption DEF Control, Streams, Running, Starting, NextStream, Goto
<1>1. next[s] \in 1 .. N /\ next[s] + 1 \in 1 .. N + 1
  OBVIOUS
<1>2. next' \in [Servers -> 1 .. N + 1]
  BY <1>1
<1>3. pc' \in [Servers -> Running \cup {"exited"}]
  OBVIOUS
<1>4. \A t \in Servers : pc'[t] \in {"find", "add"} => next'[t] \in Streams
  BY <1>1
<1> QED BY <1>2, <1>3, <1>4

\* Every step of the system keeps the types.
LEMMA TypeStep == TypeInv /\ [Next]_vars => TypeInv'
<1> SUFFICES ASSUME Control, Data, [Next]_vars PROVE Control' /\ Data'
  BY DEF TypeInv, TypeOK, Control, Data
<1>c. ASSUME NEW s \in Servers, ServerStep(s) PROVE Control'
  <2> USE DEF boot
  <2>1. CASE Boot(s)
    BY <2>1, NAssumption DEF Boot, Control, Running, Starting, Streams
  <2>2. CASE Connect(s)
    <3>1. next[s] \in Streams
      BY <2>2, NAssumption DEF Connect, Control, Streams
    <3> QED
      BY <2>2, <3>1, GotoTypes, ExitTypes DEF Connect, Running, Starting
  <2>3. CASE FindStream(s)
    BY <2>3, GotoTypes, ExitTypes, LoopTypes DEF FindStream, Control, Running, Starting
  <2>4. CASE AddStream(s)
    BY <2>4, ExitTypes, LoopTypes DEF AddStream
  <2>5. CASE CheckBucket(s)
    BY <2>5, GotoTypes, ExitTypes DEF CheckBucket, Running, Starting
  <2>6. CASE MakeBucket(s)
    BY <2>6, GotoTypes, ExitTypes DEF MakeBucket, Running, Starting
  <2>7. CASE Wire(s)
    BY <2>7, GotoTypes DEF Wire, Running, Starting
  <2>8. CASE \E b \in Stores : Probe(s, b)
    BY <2>8 DEF Probe, Control
  <2>9. CASE Judge(s)
    BY <2>9, GotoTypes, ExitTypes DEF Judge, Running
  <2>10. CASE Shutdown(s) \/ Drain(s)
    BY <2>10, GotoTypes, ExitTypes DEF Shutdown, Drain, Running
  <2> QED
    BY <1>c, <2>1, <2>2, <2>3, <2>4, <2>5, <2>6, <2>7, <2>8, <2>9, <2>10 DEF ServerStep
<1>d. ASSUME NEW s \in Servers, ServerStep(s) PROVE Data'
  <2> USE DEF Data, boot, shared, env
  <2>1. CASE Boot(s) \/ Connect(s) \/ FindStream(s)
    BY <1>d, <2>1 DEF Boot, Connect, FindStream
  <2>2. CASE AddStream(s) \/ CheckBucket(s) \/ MakeBucket(s)
    BY <1>d, <2>2 DEF AddStream, CheckBucket, MakeBucket
  <2>3. CASE Wire(s) \/ Judge(s) \/ Shutdown(s) \/ Drain(s)
    BY <1>d, <2>3 DEF Wire, Judge, Shutdown, Drain
  <2>4. CASE \E b \in Stores : Probe(s, b)
    BY <1>d, <2>4 DEF Probe
  <2> QED
    BY <1>d, <2>1, <2>2, <2>3, <2>4 DEF ServerStep
<1>1. ASSUME NEW s \in Servers, Signal(s) PROVE Control' /\ Data'
  <2>1. Data'
    BY <1>1, BoundAssumption DEF Signal, Data, boot, shared
  <2>2. CASE Exit(s, "killed")
    BY <1>1, <2>1, <2>2, ExitTypes DEF Signal, boot
  <2>3. CASE stop' = [stop EXCEPT ![s] = TRUE] /\ UNCHANGED <<pc, code>>
    BY <1>1, <2>1, <2>3 DEF Signal, Control, boot
  <2> QED BY <1>1, <2>2, <2>3 DEF Signal
<1>2. ASSUME NEW s \in Servers, Die(s) PROVE Control' /\ Data'
  <2>1. Data'
    BY <1>2, BoundAssumption DEF Die, Fault, Data, boot, shared
  <2> QED BY <1>2, <2>1, ExitTypes DEF Die, boot
<1>3. ASSUME NEW b \in Stores, StoreDown(b) \/ StoreUp(b) PROVE Control' /\ Data'
  <2>1. Control'
    BY <1>3 DEF StoreDown, StoreUp, Control, proc, boot
  <2>2. Data'
    BY <1>3, BoundAssumption DEF StoreDown, StoreUp, Fault, Data, proc, boot, shared
  <2> QED BY <2>1, <2>2
<1>4. ASSUME NEW i \in Streams, TuneStream(i) PROVE Control' /\ Data'
  BY <1>4 DEF TuneStream, Control, Data, proc, boot, env
<1>5. CASE UNCHANGED vars
  BY <1>5 DEF vars, Control, Data, proc, boot, shared, env
<1> QED
  BY <1>c, <1>d, <1>1, <1>2, <1>3, <1>4, <1>5 DEF Next

(***************************************************************************)
(* A stream that exists and a bucket that exists never go away again.      *)
(***************************************************************************)
LEMMA NothingVanishes ==
  ASSUME TypeInv, [Next]_vars
  PROVE  /\ \A i \in Streams : streams[i] # "absent" => streams'[i] # "absent"
         /\ bucket = TRUE => bucket' = TRUE
<1> USE DEF TypeInv, TypeOK, shared
<1>1. ASSUME NEW s \in Servers, ServerStep(s)
      PROVE  /\ \A i \in Streams : streams[i] # "absent" => streams'[i] # "absent"
             /\ bucket = TRUE => bucket' = TRUE
  BY <1>1 DEF ServerStep, Boot, Connect, FindStream, AddStream, CheckBucket, MakeBucket,
              Wire, Probe, Judge, Shutdown, Drain, NextStream
<1> QED
  BY <1>1 DEF Next, Signal, Die, StoreDown, StoreUp, TuneStream, vars, proc, env

\* Every step keeps what a booting replica knows about the bootstrap.
LEMMA ProvisionedStep == TypeInv /\ Provisioned /\ [Next]_vars => Provisioned'
<1> SUFFICES ASSUME TypeInv, Provisioned, [Next]_vars,
                    NEW t \in Servers
             PROVE  Provisioned!(t)'
  BY DEF Provisioned
<1>a. /\ \A i \in Streams : streams[i] # "absent" => streams'[i] # "absent"
      /\ bucket = TRUE => bucket' = TRUE
  BY NothingVanishes
<1>b. CASE pc'[t] = pc[t] /\ next'[t] = next[t]
  BY <1>a, <1>b DEF Provisioned
<1>1. ASSUME NEW s \in Servers, ServerStep(s) PROVE Provisioned!(t)'
  <2> USE NAssumption
      DEF TypeInv, TypeOK, Provisioned, PastLoop, PastBucket, Running, Starting, Streams,
          Goto, Exit, boot, shared, env
  <2>1. CASE s # t
    <3>1. pc'[t] = pc[t] /\ next'[t] = next[t]
      BY <1>1, <2>1 DEF ServerStep, Boot, Connect, FindStream, AddStream, CheckBucket,
           MakeBucket, Wire, Probe, Judge, Shutdown, Drain, NextStream
    <3> QED BY <3>1, <1>b
  <2>2. CASE s = t
    <3>1. CASE Boot(s) \/ Connect(s)
      BY <3>1, <2>2, <1>a DEF Boot, Connect
    <3>2. CASE FindStream(s)
      BY <3>2, <2>2, <1>a DEF FindStream, NextStream
    <3>3. CASE AddStream(s)
      BY <3>3, <2>2, <1>a DEF AddStream, NextStream
    <3>4. CASE CheckBucket(s)
      BY <3>4, <2>2, <1>a DEF CheckBucket
    <3>5. CASE MakeBucket(s)
      BY <3>5, <2>2, <1>a DEF MakeBucket
    <3>6. CASE Wire(s) \/ Judge(s) \/ Shutdown(s) \/ Drain(s)
      BY <3>6, <2>2, <1>a DEF Wire, Judge, Shutdown, Drain
    <3>7. CASE \E b \in Stores : Probe(s, b)
      BY <3>7, <2>2, <1>b DEF Probe
    <3> QED
      BY <1>1, <3>1, <3>2, <3>3, <3>4, <3>5, <3>6, <3>7 DEF ServerStep
  <2> QED BY <2>1, <2>2
<1>2. ASSUME NEW s \in Servers, Signal(s) \/ Die(s) PROVE Provisioned!(t)'
  BY <1>2, <1>a
  DEF Signal, Die, Exit, TypeInv, TypeOK, Provisioned, PastLoop, PastBucket, boot, shared
<1>3. CASE \/ \E b \in Stores : StoreDown(b) \/ StoreUp(b)
           \/ \E i \in Streams : TuneStream(i)
           \/ UNCHANGED vars
  BY <1>3, <1>b DEF StoreDown, StoreUp, TuneStream, proc, boot, vars
<1> QED
  BY <1>1, <1>2, <1>3 DEF Next

\* Every step keeps the relation of the exit code to the stop event.
LEMMA ExitStep == TypeInv /\ ExitKnown /\ [Next]_vars => ExitKnown'
<1> SUFFICES ASSUME TypeInv, ExitKnown, [Next]_vars,
                    NEW t \in Servers
             PROVE  ExitKnown!(t)'
  BY DEF ExitKnown
<1> USE DEF TypeInv, TypeOK, ExitKnown, Running, Starting
<1>b. CASE pc'[t] = pc[t] /\ stop'[t] = stop[t] /\ code'[t] = code[t]
  BY <1>b
<1>1. ASSUME NEW s \in Servers, ServerStep(s) PROVE ExitKnown!(t)'
  <2> USE DEF Goto, Exit
  <2>1. CASE Boot(s) \/ Connect(s) \/ Wire(s)
    BY <2>1 DEF Boot, Connect, Wire
  <2>2. CASE FindStream(s) \/ AddStream(s)
    BY <2>2 DEF FindStream, AddStream, NextStream
  <2>3. CASE CheckBucket(s) \/ MakeBucket(s)
    BY <2>3 DEF CheckBucket, MakeBucket
  <2>4. CASE \E b \in Stores : Probe(s, b)
    BY <2>4, <1>b DEF Probe
  <2>5. CASE Judge(s)
    BY <2>5 DEF Judge
  <2>6. CASE Shutdown(s) \/ Drain(s)
    BY <2>6 DEF Shutdown, Drain
  <2> QED
    BY <1>1, <2>1, <2>2, <2>3, <2>4, <2>5, <2>6 DEF ServerStep
<1>2. ASSUME NEW s \in Servers, Signal(s) \/ Die(s) PROVE ExitKnown!(t)'
  BY <1>2 DEF Signal, Die, Exit
<1>3. CASE \/ \E b \in Stores : StoreDown(b) \/ StoreUp(b)
           \/ \E i \in Streams : TuneStream(i)
           \/ UNCHANGED vars
  BY <1>3, <1>b DEF StoreDown, StoreUp, TuneStream, proc, vars
<1> QED
  BY <1>1, <1>2, <1>3 DEF Next

-----------------------------------------------------------------------------
\* The three invariants hold in every reachable state.
LEMMA StartInvariant == Spec => [](TypeInv /\ Provisioned /\ ExitKnown)
<1>1. TypeInv /\ Provisioned /\ ExitKnown /\ [Next]_vars
        => (TypeInv /\ Provisioned /\ ExitKnown)'
  BY TypeStep, ProvisionedStep, ExitStep
<1> QED
  BY InitHolds, <1>1, PTL DEF Spec

\* Types are kept by booting, failing and restarting replicas.
THEOREM TypeCorrect == Spec => []TypeOK
<1>1. TypeInv => TypeOK
  BY DEF TypeInv
<1> QED
  BY StartInvariant, <1>1, PTL

\* A ready server has all canonical streams and its bucket, however many
\* replicas boot at once and wherever they die.
THEOREM ReadyIsProvisioned == Spec => []ReadyProvisioned
<1>1. Provisioned => ReadyProvisioned
  BY DEF Provisioned, ReadyProvisioned, PastLoop, PastBucket
<1> QED
  BY StartInvariant, <1>1, PTL

\* A process that ends by itself exits 0 exactly when it was asked to stop.
THEOREM ExitsGracefully == Spec => []GracefulExit
<1>1. TypeInv /\ ExitKnown => GracefulExit
  <2> SUFFICES ASSUME TypeInv, ExitKnown, NEW s \in Servers, pc[s] = "exited",
                      code[s] # "killed"
               PROVE  (code[s] = "0") = stop[s]
    BY DEF GracefulExit
  <2>1. CASE code[s] = "0"
    <3>1. stop[s] = TRUE
      BY <2>1 DEF ExitKnown
    <3> QED BY <2>1, <3>1
  <2>2. CASE code[s] \in {"none", "1"}
    <3>1. stop[s] = FALSE
      BY <2>2 DEF ExitKnown
    <3>2. ~(code[s] = "0")
      BY <2>2
    <3> QED BY <3>1, <3>2
  <2> QED BY <2>1, <2>2 DEF TypeInv, TypeOK
<1> QED
  BY StartInvariant, <1>1, PTL

\* No replica overwrites a stream that an operator has reconfigured.
THEOREM TuningIsKept == Spec => TuningKept
<1>1. TypeInv /\ [Next]_vars
        => [\A i \in Streams : streams[i] = "tuned" => streams'[i] = "tuned"]_vars
  <2> SUFFICES ASSUME TypeInv, [Next]_vars, NEW i \in Streams, streams[i] = "tuned"
               PROVE  streams'[i] = "tuned"
    OBVIOUS
  <2> USE DEF TypeInv, TypeOK, shared
  <2>1. ASSUME NEW s \in Servers, ServerStep(s) PROVE streams'[i] = "tuned"
    BY <2>1 DEF ServerStep, Boot, Connect, FindStream, AddStream, CheckBucket, MakeBucket,
                Wire, Probe, Judge, Shutdown, Drain, NextStream
  <2> QED
    BY <2>1 DEF Next, Signal, Die, StoreDown, StoreUp, TuneStream, vars, proc, env
<1> QED
  BY StartInvariant, <1>1, PTL DEF Spec, TuningKept
=============================================================================
