--------------------------- MODULE InferenceRouter ---------------------------
(***************************************************************************)
(* infer() of gaia_server/inference/router.py, the backends it dispatches  *)
(* to and the asyncio loop they share.                                     *)
(*                                                                         *)
(* All requests run on one event loop.  A backend is one of three kinds:   *)
(* MockBackend answers without waiting for anything; LlamaCppBackend calls *)
(* the model synchronously, and nothing else runs on the loop until the    *)
(* call returns; a "remote" backend, of which the repository's tests have  *)
(* examples, gives the loop back while it waits and may never answer.      *)
(*                                                                         *)
(* Time is discrete.  The loop does what it can do before time passes: the *)
(* clock moves only when the loop is held by a model call, or when it has  *)
(* neither a coroutine to run nor a timer that is due.                     *)
(***************************************************************************)
EXTENDS Integers

CONSTANTS
  Requests,   \* calls of infer()
  Asked,      \* Asked[r]: request.backend, None when it is empty
  Names,      \* RuntimeBackend members
  Default,    \* settings.inference_default_backend
  Timeout,    \* _timeout_s
  None,
  MaxNow,     \* bound: the last moment
  MaxRegs     \* bound: calls of register() after create_router

\* Objects a router is given: MockBackend, a loaded LlamaCppBackend, or another one.
Kinds == {"mock", "llama", "remote"}

ASSUME NamesAssumption ==
  /\ {"mock", "llama.cpp", Default} \subseteq Names
  /\ None \notin Names \cup Kinds \cup Requests \cup Int
ASSUME AskedAssumption == Asked \in [Requests -> Names \cup {None}]
ASSUME TimeAssumption == Timeout \in Nat \ {0} /\ MaxNow \in Nat /\ MaxRegs \in Nat

VARIABLES
  backends,  \* backends[n]: kind of the object registered under n, or None
  coro,      \* coro[r]: the backend's coroutine: "none", "suspended" or "running"
  served,    \* served[r]: kind of the object that serves r
  start,     \* start[r]: when infer(r) was called
  timer,     \* timer[r]: when wait_for gives up, None when no timer is set
  resp,      \* resp[r]: the response: its code and when it was given, or None
  busy,      \* the request whose model call holds the loop, or None
  now, regs,
  held       \* history: requests whose deadline passed while the loop was held

calls == <<coro, served, start, timer, resp>>
vars  == <<backends, calls, busy, now, regs, held>>

\* How a response reads: accepted, or refused with an error code.
Codes == {"ok", "TIMEOUT", "BACKEND_ERROR"}

\* create_router: mock is always there; the model was loaded, or it was not.
Init ==
  /\ backends \in {[n \in Names |-> IF n = "mock" THEN "mock"
                                    ELSE IF n = "llama.cpp" THEN llama ELSE None] :
                     llama \in {"llama", None}}
  /\ coro = [r \in Requests |-> "none"]
  /\ served = [r \in Requests |-> None]
  /\ start = [r \in Requests |-> 0]
  /\ timer = [r \in Requests |-> None]
  /\ resp = [r \in Requests |-> None]
  /\ busy = None
  /\ now = 0
  /\ regs = 0
  /\ held = {}

-----------------------------------------------------------------------------
\* register: a later object replaces an earlier one of the same name.
Register(n, kind) ==
  /\ busy = None
  /\ regs < MaxRegs
  /\ regs' = regs + 1
  /\ backends' = [backends EXCEPT ![n] = kind]
  /\ UNCHANGED <<calls, busy, now, held>>

\* The explicit choice, else the default; mock when nothing is registered.
Resolve(r) ==
  LET key == IF Asked[r] = None THEN Default ELSE Asked[r]
  IN  IF backends[key] # None THEN backends[key] ELSE backends["mock"]

\* The coroutine that _dispatch made for r has not ended.
Pending(r) == coro[r] # "none"

\* A coroutine that the loop can run at once: it does not wait for anything.
Ready(r) == coro[r] = "suspended" /\ served[r] \in {"mock", "llama"}

\* Mutant of Infer: the backend is awaited without wait_for.
InferUntimed(r) ==
  /\ busy = None
  /\ ~Pending(r) /\ resp[r] = None
  /\ now + Timeout <= MaxNow
  /\ coro' = [coro EXCEPT ![r] = "suspended"]
  /\ served' = [served EXCEPT ![r] = Resolve(r)]
  /\ start' = [start EXCEPT ![r] = now]
  /\ UNCHANGED <<timer, resp, backends, busy, now, regs, held>>

\* infer, up to the await: generate and embed are the same to the router.
Infer(r) ==
  /\ busy = None
  /\ ~Pending(r) /\ resp[r] = None
  /\ now + Timeout <= MaxNow
  /\ coro' = [coro EXCEPT ![r] = "suspended"]
  /\ served' = [served EXCEPT ![r] = Resolve(r)]
  /\ start' = [start EXCEPT ![r] = now]
  /\ timer' = [timer EXCEPT ![r] = now + Timeout]
  /\ UNCHANGED <<resp, backends, busy, now, regs, held>>

\* The await is over, one way or another, and infer returns a response.
Respond(r, code) ==
  /\ coro' = [coro EXCEPT ![r] = "none"]
  /\ timer' = [timer EXCEPT ![r] = None]
  /\ resp' = [resp EXCEPT ![r] = [code |-> code, at |-> now]]
  /\ UNCHANGED <<served, start, backends, now, regs, held>>

\* mock answers; a remote backend does, or raises, when it pleases.
Answer(r) ==
  /\ busy = None
  /\ coro[r] = "suspended"
  /\ \/ served[r] \in {"mock", "remote"} /\ Respond(r, "ok")
     \/ served[r] = "remote" /\ Respond(r, "BACKEND_ERROR")
  /\ UNCHANGED busy

\* LlamaCppBackend.generate and embed: the model call takes the loop ...
CallModel(r) ==
  /\ busy = None
  /\ coro[r] = "suspended" /\ served[r] = "llama"
  /\ coro' = [coro EXCEPT ![r] = "running"]
  /\ busy' = r
  /\ UNCHANGED <<served, start, timer, resp, backends, now, regs, held>>

\* Mutant of ModelReturns: the loop is not released after an exception.
ModelReturnsHeld(r) ==
  /\ busy = r
  /\ \/ Respond(r, "ok") /\ busy' = None
     \/ Respond(r, "BACKEND_ERROR") /\ UNCHANGED busy

\* ... until it returns or raises.  wait_for finds the coroutine finished and
\* takes its result, even when the timer is due by then.
ModelReturns(r) ==
  /\ busy = r
  /\ Respond(r, "ok") \/ Respond(r, "BACKEND_ERROR")
  /\ busy' = None

\* asyncio.TimeoutError: wait_for cancels the backend's coroutine.
TimeOut(r) ==
  /\ busy = None
  /\ coro[r] = "suspended" /\ ~Ready(r)
  /\ timer[r] # None /\ timer[r] <= now
  /\ Respond(r, "TIMEOUT")
  /\ UNCHANGED busy

\* Time passes: while a model call holds the loop, or when the loop is idle.
Tick ==
  /\ now < MaxNow
  /\ \/ busy # None
     \/ \A r \in Requests : ~Ready(r) /\ (timer[r] # None => now < timer[r])
  /\ now' = now + 1
  /\ held' = IF busy = None THEN held
             ELSE held \cup {r \in Requests : Pending(r) /\ now >= start[r] + Timeout}
  /\ UNCHANGED <<backends, calls, busy, regs>>

Next ==
  \/ \E n \in Names, kind \in Kinds : Register(n, kind)
  \/ \E r \in Requests :
       Infer(r) \/ Answer(r) \/ CallModel(r) \/ ModelReturns(r) \/ TimeOut(r)
  \/ Tick

Spec == Init /\ [][Next]_vars

(***************************************************************************)
(* Fairness: time passes, the loop runs what it can run, and a model call  *)
(* ends.  A remote backend need not answer.                                *)
(***************************************************************************)
LoopStep(r) ==
  TimeOut(r) \/ CallModel(r) \/ ModelReturns(r) \/ (served[r] = "mock" /\ Answer(r))

FairSpec == Spec /\ WF_vars(Tick) /\ \A r \in Requests : WF_vars(LoopStep(r))

-----------------------------------------------------------------------------
\* Type invariant; the loop is held by exactly the call that is running.
TypeOK ==
  /\ backends \in [Names -> Kinds \cup {None}]
  /\ backends["mock"] # None
  /\ coro \in [Requests -> {"none", "suspended", "running"}]
  /\ served \in [Requests -> Kinds \cup {None}]
  /\ start \in [Requests -> Nat]
  /\ timer \in [Requests -> Nat \cup {None}]
  /\ resp \in [Requests -> [code : Codes, at : Nat] \cup {None}]
  /\ busy \in Requests \cup {None}
  /\ \A r \in Requests : coro[r] = "running" <=> busy = r
  /\ now \in 0 .. MaxNow
  /\ regs \in 0 .. MaxRegs
  /\ held \subseteq Requests

(***************************************************************************)
(* "accepted=False on any exception or timeout", as far as it goes: a      *)
(* response later than the timeout is given only to a request whose        *)
(* deadline passed while a model call, its own or another one's, held the  *)
(* loop.  Without LlamaCppBackend no response is late.                     *)
(***************************************************************************)
LateOnlyWhenHeld ==
  \A r \in Requests :
    resp[r] # None /\ resp[r].at > start[r] + Timeout => r \in held

(***************************************************************************)
(* The router never leaves a caller waiting: every infer() returns, also   *)
(* when the backend never answers or raises.                               *)
(***************************************************************************)
EveryRequestAnswered ==
  \A r \in Requests : Pending(r) ~> resp[r] # None
=============================================================================
