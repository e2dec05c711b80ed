------------------------- MODULE TelemetryCollector -------------------------
(***************************************************************************)
(* gaia_server/observability/telemetry.py: the collector, the threads that *)
(* start() creates and the bounded history they share.                     *)
(*                                                                         *)
(* All threads test the same flag, and a thread that sleeps does not see   *)
(* what happens to it.  A snapshot is taken outside the lock and recorded  *)
(* under it.  time.time() is a counter: snapshots taken one after the      *)
(* other have different, growing timestamps.                               *)
(***************************************************************************)
EXTENDS Naturals, Sequences

CONSTANTS
  Threads,   \* the threads that calls of start() create
  Cap,       \* length of the history: 1000 in the code
  MaxSnaps   \* bound: snapshots taken

ASSUME TelemetryAssumption == Cap \in Nat \ {0} /\ MaxSnaps \in Nat

VARIABLES
  running,     \* _running
  loop,        \* loop[t]: where thread t is in _collect_loop
  snap,        \* snap[t]: timestamp of the snapshot t has taken
  hist,        \* _history, as timestamps
  taken,       \* the clock: snapshots taken so far
  recorded,    \* history: every snapshot ever recorded, in that order
  overlapped,  \* history: start() was called while a thread was alive
  late         \* history: what t recorded since the flag was cleared

telemetryVars == <<running, loop, snap, hist, taken, recorded, overlapped, late>>

TelemetryInit ==
  /\ running = FALSE
  /\ loop = [t \in Threads |-> "unborn"]
  /\ snap = [t \in Threads |-> 0]
  /\ hist = <<>>
  /\ taken = 0
  /\ recorded = <<>>
  /\ overlapped = FALSE
  /\ late = [t \in Threads |-> 0]

Alive(t) == loop[t] \notin {"unborn", "ended"}

\* start: a new thread; nobody asks what became of an earlier one.
StartCollector(t) ==
  /\ loop[t] = "unborn"
  /\ running' = TRUE
  /\ loop' = [loop EXCEPT ![t] = "test"]
  /\ overlapped' = (overlapped \/ \E u \in Threads : Alive(u))
  /\ late' = [u \in Threads |-> 0]
  /\ UNCHANGED <<snap, hist, taken, recorded>>

\* stop: clears the flag and waits for nobody.
StopCollector ==
  /\ running' = FALSE
  /\ UNCHANGED <<loop, snap, hist, taken, recorded, overlapped, late>>

\* while self._running
TestFlag(t) ==
  /\ loop[t] = "test"
  /\ loop' = [loop EXCEPT ![t] = IF running THEN "collect" ELSE "ended"]
  /\ UNCHANGED <<running, snap, hist, taken, recorded, overlapped, late>>

\* Mutant of Collect: after an exception the last snapshot is recorded again.
CollectStale(t) ==
  /\ loop[t] = "collect"
  /\ \/ taken < MaxSnaps /\ taken' = taken + 1 /\ snap' = [snap EXCEPT ![t] = taken + 1]
     \/ UNCHANGED <<taken, snap>>
  /\ loop' = [loop EXCEPT ![t] = "record"]
  /\ UNCHANGED <<running, hist, recorded, overlapped, late>>

\* _collect returns a snapshot, or raises and the interval passes without one.
Collect(t) ==
  /\ loop[t] = "collect"
  /\ \/ /\ taken < MaxSnaps
        /\ taken' = taken + 1
        /\ snap' = [snap EXCEPT ![t] = taken + 1]
        /\ loop' = [loop EXCEPT ![t] = "record"]
     \/ /\ loop' = [loop EXCEPT ![t] = "sleep"]
        /\ UNCHANGED <<taken, snap>>
  /\ UNCHANGED <<running, hist, recorded, overlapped, late>>

\* The last n elements of s, or all of them: s[-n:] for n > 0.
LastOf(s, n) == IF Len(s) > n THEN SubSeq(s, Len(s) - n + 1, Len(s)) ELSE s

\* Mutant of RecordSnapshot: the history is trimmed at its other end.
RecordSnapshotTrimLast(t) ==
  /\ loop[t] = "record"
  /\ hist' = LET h == Append(hist, snap[t]) IN IF Len(h) > Cap THEN SubSeq(h, 1, Cap) ELSE h
  /\ recorded' = Append(recorded, snap[t])
  /\ late' = [late EXCEPT ![t] = IF running THEN @ ELSE @ + 1]
  /\ loop' = [loop EXCEPT ![t] = "sleep"]
  /\ UNCHANGED <<running, snap, taken, overlapped>>

\* Append and trim, under the lock; the log line that follows changes nothing.
RecordSnapshot(t) ==
  /\ loop[t] = "record"
  /\ hist' = LastOf(Append(hist, snap[t]), Cap)
  /\ recorded' = Append(recorded, snap[t])
  /\ late' = [late EXCEPT ![t] = IF running THEN @ ELSE @ + 1]
  /\ loop' = [loop EXCEPT ![t] = "sleep"]
  /\ UNCHANGED <<running, snap, taken, overlapped>>

\* Mutant of Wake: the flag is tested only when the thread begins.
WakeUnchecked(t) ==
  /\ loop[t] = "sleep"
  /\ loop' = [loop EXCEPT ![t] = "collect"]
  /\ UNCHANGED <<running, snap, hist, taken, recorded, overlapped, late>>

\* The interval is over.
Wake(t) ==
  /\ loop[t] = "sleep"
  /\ loop' = [loop EXCEPT ![t] = "test"]
  /\ UNCHANGED <<running, snap, hist, taken, recorded, overlapped, late>>

CollectorStep(t) == TestFlag(t) \/ Collect(t) \/ RecordSnapshot(t) \/ Wake(t)

TelemetryNext ==
  \/ StopCollector
  \/ \E t \in Threads : StartCollector(t) \/ CollectorStep(t)

TelemetrySpec == TelemetryInit /\ [][TelemetryNext]_telemetryVars

-----------------------------------------------------------------------------
TelemetryTypes ==
  /\ running \in BOOLEAN /\ overlapped \in BOOLEAN
  /\ loop \in [Threads -> {"unborn", "test", "collect", "record", "sleep", "ended"}]
  /\ snap \in [Threads -> Nat] /\ late \in [Threads -> Nat]
  /\ hist \in Seq(Nat) /\ recorded \in Seq(Nat) /\ taken \in Nat

(***************************************************************************)
(* latest() and history() look at a window that slides over everything the *)
(* collectors recorded: whichever threads append and trim, no snapshot in  *)
(* it is missing, and it never grows past its bound.                       *)
(***************************************************************************)
HistoryWindow == hist = LastOf(recorded, Cap)

(***************************************************************************)
(* The history is in the order in which the snapshots were taken, so that  *)
(* latest() is the newest, as long as start() was never called while an    *)
(* earlier thread was alive -- also after failed collections.  With a      *)
(* stop() and a start() within one interval it need not be.                *)
(***************************************************************************)
OrderedUnlessOverlap ==
  ~overlapped => \A i, j \in 1 .. Len(recorded) : i < j => recorded[i] < recorded[j]

(***************************************************************************)
(* stop() returns at once, but until the next start() a thread adds at     *)
(* most the one snapshot it was taking.                                    *)
(***************************************************************************)
LateAtMostOne == \A t \in Threads : late[t] <= 1

(***************************************************************************)
(* After the last stop() all threads end, also the ones that an overlap    *)
(* left behind and that nothing refers to any more.                        *)
(***************************************************************************)
QuietAfterStop ==
  <>[]~running => <>[](\A t \in Threads : ~Alive(t))
=============================================================================
