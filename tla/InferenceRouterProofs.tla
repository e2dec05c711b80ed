----------------------- MODULE InferenceRouterProofs -----------------------
(***************************************************************************)
(* Proofs about InferenceRouter, for any number of requests, any timeout   *)
(* and any registration of backends.                                       *)
(***************************************************************************)
EXTENDS InferenceRouter, TLAPS

\* What is known of a request that waits: it has no response, its timer is
\* set, and the clock is past the deadline only if the loop was held.
Waiting ==
  \A r \in Requests : Pending(r) =>
    /\ resp[r] = None
    /\ timer[r] = start[r] + Timeout
    /\ now <= start[r] + Timeout \/ r \in held

RouterInv == TypeOK /\ Waiting /\ LateOnlyWhenHeld

-----------------------------------------------------------------------------
\* The fallback exists, so a request is always given to some backend.
LEMMA ResolveType ==
  ASSUME TypeOK, NEW r \in Requests
  PROVE  Resolve(r) \in Kinds
BY NamesAssumption, AskedAssumption DEF TypeOK, Resolve, Kinds

\* create_router starts the router in a state of the invariant.
LEMMA InitRouter == Init => RouterInv
<1> SUFFICES ASSUME Init PROVE RouterInv
  OBVIOUS
<1> USE NamesAssumption, TimeAssumption
<1>1. TypeOK
  BY DEF Init, TypeOK, Kinds, Codes
<1>2. Waiting /\ LateOnlyWhenHeld
  BY DEF Init, Waiting, LateOnlyWhenHeld, Pending
<1> QED BY <1>1, <1>2 DEF RouterInv

\* A response leaves the invariant intact: what ends is one waiting request.
LEMMA RespondKeeps ==
  ASSUME RouterInv, NEW r \in Requests, NEW code \in Codes,
         Pending(r), Respond(r, code),
         \/ busy = None /\ busy' = None /\ coro[r] = "suspended"
         \/ busy = r /\ busy' = None
  PROVE  RouterInv'
<1> USE NamesAssumption, TimeAssumption DEF RouterInv
<1>1. TypeOK'
  <2>1. now \in Nat
    BY DEF TypeOK
  <2>2. resp' \in [Requests -> [code : Codes, at : Nat] \cup {None}]
    BY <2>1 DEF TypeOK, Respond
  <2>3. \A q \in Requests : coro'[q] = "running" <=> busy' = q
    BY DEF TypeOK, Respond, Pending
  <2> QED BY <2>2, <2>3 DEF TypeOK, Respond
<1>2. Waiting'
  BY DEF TypeOK, Waiting, Pending, Respond
<1>3. LateOnlyWhenHeld'
  BY DEF TypeOK, Waiting, LateOnlyWhenHeld, Pending, Respond
<1> QED BY <1>1, <1>2, <1>3

\* Every step of the loop, and the passing of time, keeps the invariant.
LEMMA NextRouter == RouterInv /\ [Next]_vars => RouterInv'
<1> SUFFICES ASSUME RouterInv, [Next]_vars PROVE RouterInv'
  OBVIOUS
<1> USE NamesAssumption, TimeAssumption DEF RouterInv
<1>1. ASSUME NEW n \in Names, NEW kind \in Kinds, Register(n, kind)
      PROVE  RouterInv'
  <2>1. TypeOK'
    BY <1>1 DEF TypeOK, Register, calls, Kinds
  <2>2. Waiting' /\ LateOnlyWhenHeld'
    BY <1>1 DEF Waiting, LateOnlyWhenHeld, Pending, Register, calls
  <2> QED BY <2>1, <2>2
<1>2. ASSUME NEW r \in Requests, Infer(r) PROVE RouterInv'
  <2>1. TypeOK'
    BY <1>2, ResolveType DEF TypeOK, Infer, Pending
  <2>2. Waiting'
    BY <1>2 DEF TypeOK, Waiting, Pending, Infer
  <2>3. LateOnlyWhenHeld'
    BY <1>2 DEF TypeOK, LateOnlyWhenHeld, Infer
  <2> QED BY <2>1, <2>2, <2>3
<1>3. ASSUME NEW r \in Requests, Answer(r) PROVE RouterInv'
  BY <1>3, RespondKeeps DEF Answer, Pending, Codes
<1>4. ASSUME NEW r \in Requests, CallModel(r) PROVE RouterInv'
  <2>1. TypeOK'
    BY <1>4 DEF TypeOK, CallModel
  <2>2. Waiting' /\ LateOnlyWhenHeld'
    BY <1>4 DEF TypeOK, Waiting, LateOnlyWhenHeld, Pending, CallModel
  <2> QED BY <2>1, <2>2
<1>5. ASSUME NEW r \in Requests, ModelReturns(r) PROVE RouterInv'
  <2>1. Pending(r)
    BY <1>5 DEF TypeOK, Pending, ModelReturns
  <2> QED BY <1>5, <2>1, RespondKeeps DEF ModelReturns, Codes
<1>6. ASSUME NEW r \in Requests, TimeOut(r) PROVE RouterInv'
  BY <1>6, RespondKeeps DEF TimeOut, Pending, Codes
<1>7. CASE Tick
  <2>1. TypeOK'
    BY <1>7 DEF TypeOK, Tick, calls
  <2>2. Waiting'
    BY <1>7 DEF TypeOK, Waiting, Pending, Tick, calls
  <2>3. LateOnlyWhenHeld'
    BY <1>7 DEF TypeOK, LateOnlyWhenHeld, Tick, calls
  <2> QED BY <2>1, <2>2, <2>3
<1>8. CASE UNCHANGED vars
  BY <1>8 DEF TypeOK, Waiting, LateOnlyWhenHeld, Pending, vars, calls
<1> QED
  BY <1>1, <1>2, <1>3, <1>4, <1>5, <1>6, <1>7, <1>8 DEF Next

\* RouterInv is an invariant of the router on its loop.
THEOREM RouterInvariant == Spec => []RouterInv
BY InitRouter, NextRouter, PTL DEF Spec

\* Types, and that the loop is held by exactly the call that runs.
THEOREM TypeCorrect == Spec => []TypeOK
<1>1. RouterInv => TypeOK
  BY DEF RouterInv
<1> QED BY <1>1, RouterInvariant, PTL

\* infer() answers later than its timeout only a request whose deadline
\* passed while a synchronous model call held the loop.
THEOREM LateOnlyBehindAModelCall == Spec => []LateOnlyWhenHeld
<1>1. RouterInv => LateOnlyWhenHeld
  BY DEF RouterInv
<1> QED BY <1>1, RouterInvariant, PTL

-----------------------------------------------------------------------------
\* No LlamaCppBackend is registered.
NoLlama == \A n \in Names : backends[n] # "llama"

\* A response is given within the timeout.
OnTime == \A r \in Requests : resp[r] # None => resp[r].at <= start[r] + Timeout

\* The loop was never held, and none of the backends that serve can hold it.
LoopFree == busy = None /\ held = {} /\ \A r \in Requests : served[r] # "llama"

\* A router starts with a free loop.
LEMMA LoopFreeInitially == Init => LoopFree
BY NamesAssumption DEF Init, LoopFree, Kinds

\* As long as no model is registered, the loop stays free.
LEMMA LoopStaysFree ==
  ASSUME TypeOK, LoopFree, NoLlama, [Next]_vars
  PROVE  LoopFree'
<1> USE DEF LoopFree
<1>1. ASSUME NEW n \in Names, NEW kind \in Kinds, Register(n, kind) PROVE LoopFree'
  BY <1>1 DEF Register, calls
<1>2. ASSUME NEW r \in Requests, Infer(r) PROVE LoopFree'
  <2>1. Resolve(r) # "llama"
    BY NamesAssumption, AskedAssumption DEF NoLlama, Resolve
  <2> QED
    BY <1>2, <2>1 DEF Infer, TypeOK
<1>3. ASSUME NEW r \in Requests, Answer(r) \/ TimeOut(r) PROVE LoopFree'
  BY <1>3 DEF Answer, TimeOut, Respond
<1>4. ASSUME NEW r \in Requests, CallModel(r) \/ ModelReturns(r) PROVE FALSE
  BY <1>4, NamesAssumption DEF CallModel, ModelReturns
<1>5. CASE Tick
  BY <1>5 DEF Tick, calls
<1>6. CASE UNCHANGED vars
  BY <1>6 DEF vars, calls
<1> QED
  BY <1>1, <1>2, <1>3, <1>4, <1>5, <1>6 DEF Next

(***************************************************************************)
(* The timeout of infer() is kept, exactly, by a router that never has a   *)
(* LlamaCppBackend registered, whatever other backends do: only a model    *)
(* call that blocks the loop can make a response late.                     *)
(***************************************************************************)
THEOREM OnTimeWithoutModel == Spec /\ []NoLlama => []OnTime
<1>1. TypeOK /\ LoopFree /\ NoLlama /\ [Next]_vars => LoopFree'
  BY LoopStaysFree
<1>2. RouterInv /\ LoopFree => OnTime
  <2> SUFFICES ASSUME RouterInv, LoopFree, NEW r \in Requests, resp[r] # None
               PROVE  resp[r].at <= start[r] + Timeout
    BY DEF OnTime
  <2>1. resp[r].at \in Nat /\ start[r] \in Nat
    BY DEF RouterInv, TypeOK
  <2>2. ~(resp[r].at > start[r] + Timeout)
    BY DEF RouterInv, LateOnlyWhenHeld, LoopFree
  <2> QED
    BY <2>1, <2>2, TimeAssumption
<1> QED
  BY <1>1, <1>2, LoopFreeInitially, RouterInvariant, TypeCorrect, PTL DEF Spec
=============================================================================
