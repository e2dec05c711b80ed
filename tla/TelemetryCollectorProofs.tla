---------------------- MODULE TelemetryCollectorProofs ----------------------
(***************************************************************************)
(* Proofs about TelemetryCollector, for any number of threads and any      *)
(* length of the history.                                                  *)
(*                                                                         *)
(* HistoryWindow is inductive by a fact about slices: appending to the     *)
(* last n and trimming again gives the last n of the whole.  The order of  *)
(* the history needs more: as long as no start() fell on a living thread   *)
(* there is at most one (Alone), and what it holds is newer than what is   *)
(* recorded (Fresh), since nothing is ahead of the clock (Stamped).        *)
(***************************************************************************)
EXTENDS TelemetryCollector, SequenceTheorems, TLAPS

Alone == ~overlapped => \A t, u \in Threads : Alive(t) /\ Alive(u) => t = u

Stamped == \A i \in 1 .. Len(recorded) : recorded[i] <= taken

StampsHeld == \A t \in Threads : snap[t] <= taken

Fresh ==
  ~overlapped => \A t \in Threads : loop[t] = "record" =>
    \A i \in 1 .. Len(recorded) : recorded[i] < snap[t]

\* While the flag is set nothing counts as late; afterwards a thread that has
\* recorded one late snapshot sleeps, or tests the flag, or has ended.
LateDone ==
  \A t \in Threads :
    /\ running = TRUE => late[t] = 0
    /\ late[t] # 0 => late[t] = 1 /\ loop[t] \in {"sleep", "test", "ended"}

TelemetryInv ==
  /\ TelemetryTypes /\ HistoryWindow /\ LateDone
  /\ Alone /\ Stamped /\ StampsHeld /\ Fresh /\ OrderedUnlessOverlap

-----------------------------------------------------------------------------
\* A slice of a sequence of numbers is one, of the length of the slice.
LEMMA LastOfSeq ==
  ASSUME NEW s \in Seq(Nat), NEW n \in Nat \ {0}
  PROVE  /\ LastOf(s, n) \in Seq(Nat)
         /\ Len(s) > n => /\ Len(LastOf(s, n)) = n
                          /\ \A i \in 1 .. n : LastOf(s, n)[i] = s[Len(s) - n + i]
<1>1. CASE Len(s) > n
  <2>1. LastOf(s, n) = SubSeq(s, Len(s) - n + 1, Len(s))
    BY <1>1 DEF LastOf
  <2>2. Len(s) \in Nat /\ Len(s) - n + 1 \in 1 .. Len(s) + 1 /\ Len(s) \in Len(s) - n .. Len(s)
    BY <1>1
  <2> QED
    BY <1>1, <2>1, <2>2, SubSeqProperties
<1>2. CASE ~(Len(s) > n)
  BY <1>2 DEF LastOf
<1> QED
  BY <1>1, <1>2

\* The same for a sequence that is longer than the slice.
LEMMA LastOfLonger ==
  ASSUME NEW s \in Seq(Nat), NEW n \in Nat \ {0}, Len(s) > n
  PROVE  /\ LastOf(s, n) \in Seq(Nat) /\ Len(LastOf(s, n)) = n
         /\ \A i \in 1 .. n : LastOf(s, n)[i] = s[Len(s) - n + i]
BY LastOfSeq

\* Appending to the last n and trimming again gives the last n of the whole.
LEMMA WindowSlides ==
  ASSUME NEW s \in Seq(Nat), NEW x \in Nat, NEW n \in Nat \ {0}
  PROVE  LastOf(Append(LastOf(s, n), x), n) = LastOf(Append(s, x), n)
<1> DEFINE w == LastOf(s, n)
           a == LastOf(Append(w, x), n)
           b == LastOf(Append(s, x), n)
<1>1. CASE Len(s) > n
  <2>1. w \in Seq(Nat) /\ Len(w) = n /\ \A i \in 1 .. n : w[i] = s[Len(s) - n + i]
    BY <1>1, LastOfSeq
  <2> HIDE DEF w
  <2>2. Append(w, x) \in Seq(Nat) /\ Len(Append(w, x)) = n + 1
    BY <2>1
  <2>3. Append(s, x) \in Seq(Nat) /\ Len(Append(s, x)) = Len(s) + 1
    OBVIOUS
  <2>4. a \in Seq(Nat) /\ Len(a) = n /\ \A i \in 1 .. n : a[i] = Append(w, x)[1 + i]
    <3>0. Len(Append(w, x)) > n
      BY <2>2
    <3>1. /\ a \in Seq(Nat) /\ Len(a) = n
          /\ \A i \in 1 .. n : a[i] = Append(w, x)[Len(Append(w, x)) - n + i]
      BY <2>2, <3>0, LastOfLonger, Zenon
    <3>2. \A i \in 1 .. n : Len(Append(w, x)) - n + i = 1 + i
      BY <2>2
    <3> HIDE DEF a
    <3> QED BY <3>1, <3>2
  <2>5. b \in Seq(Nat) /\ Len(b) = n /\ \A i \in 1 .. n : b[i] = Append(s, x)[Len(s) + 1 - n + i]
    <3>0. Len(Append(s, x)) > n
      BY <1>1, <2>3
    <3>1. /\ b \in Seq(Nat) /\ Len(b) = n
          /\ \A i \in 1 .. n : b[i] = Append(s, x)[Len(Append(s, x)) - n + i]
      BY <2>3, <3>0, LastOfLonger, Zenon
    <3>2. \A i \in 1 .. n : Len(Append(s, x)) - n + i = Len(s) + 1 - n + i
      BY <2>3
    <3> HIDE DEF b
    <3> QED BY <3>1, <3>2
  <2> HIDE DEF a, b
  <2>6. \A i \in 1 .. n : a[i] = b[i]
    <3> TAKE i \in 1 .. n
    <3>1. CASE i = n
      <4>1. Append(w, x)[1 + i] = x
        BY <2>1, <3>1, AppendProperties
      <4>2. Append(s, x)[Len(s) + 1 - n + i] = x
        BY <3>1, AppendProperties
      <4> QED BY <2>4, <2>5, <4>1, <4>2
    <3>2. CASE i < n
      <4>1. Append(w, x)[1 + i] = w[1 + i]
        BY <2>1, <3>2
      <4>2. Append(s, x)[Len(s) + 1 - n + i] = s[Len(s) - n + (1 + i)]
        BY <1>1, <3>2
      <4>3. w[1 + i] = s[Len(s) - n + (1 + i)]
        BY <2>1, <3>2
      <4> QED BY <2>4, <2>5, <4>1, <4>2, <4>3
    <3> QED BY <3>1, <3>2
  <2>7. a = b
    BY <2>4, <2>5, <2>6, SeqEqual
  <2> QED
    BY <2>7 DEF a, b, w
<1>2. CASE ~(Len(s) > n)
  BY <1>2 DEF LastOf
<1> QED
  BY <1>1, <1>2

-----------------------------------------------------------------------------
\* No thread, no history.
LEMMA TelemetryInitial == TelemetryInit => TelemetryInv
<1> SUFFICES ASSUME TelemetryInit PROVE TelemetryInv
  OBVIOUS
<1> USE DEF TelemetryInit
<1>1. TelemetryTypes
  <2>1. hist \in Seq(Nat) /\ recorded \in Seq(Nat)
    BY EmptySeq
  <2>2. /\ loop \in [Threads -> {"unborn", "test", "collect", "record", "sleep", "ended"}]
        /\ snap \in [Threads -> Nat] /\ late \in [Threads -> Nat] /\ taken \in Nat
    OBVIOUS
  <2>3. running \in BOOLEAN /\ overlapped \in BOOLEAN
    OBVIOUS
  <2> QED BY <2>1, <2>2, <2>3 DEF TelemetryTypes
<1>2. HistoryWindow
  BY TelemetryAssumption DEF HistoryWindow, LastOf
<1>3. LateDone
  BY DEF LateDone
<1>4. Alone /\ Fresh
  BY DEF Alone, Alive, Fresh
<1>5. Stamped /\ StampsHeld /\ OrderedUnlessOverlap
  BY DEF Stamped, StampsHeld, OrderedUnlessOverlap
<1> QED
  BY <1>1, <1>2, <1>3, <1>4, <1>5 DEF TelemetryInv

\* A new thread: alone, unless the step records that it is not.
LEMMA StartKeeps ==
  ASSUME TelemetryInv, NEW t \in Threads, StartCollector(t)
  PROVE  TelemetryInv'
<1> USE DEF TelemetryInv, TelemetryTypes, StartCollector
<1>1. TelemetryTypes'
  OBVIOUS
<1>2. HistoryWindow' /\ Stamped' /\ StampsHeld'
  BY DEF HistoryWindow, Stamped, StampsHeld
<1>3. LateDone'
  BY DEF LateDone
<1>4. Alone'
  BY DEF Alone, Alive
<1>5. Fresh' /\ OrderedUnlessOverlap'
  BY DEF Fresh, OrderedUnlessOverlap
<1> QED
  BY <1>1, <1>2, <1>3, <1>4, <1>5

\* stop() changes the flag only.
LEMMA StopKeeps ==
  ASSUME TelemetryInv, StopCollector
  PROVE  TelemetryInv'
<1> USE DEF TelemetryInv, TelemetryTypes, StopCollector
<1>1. TelemetryTypes' /\ HistoryWindow' /\ Stamped' /\ StampsHeld'
  BY DEF HistoryWindow, Stamped, StampsHeld
<1>2. LateDone'
  BY DEF LateDone
<1>3. Alone' /\ Fresh' /\ OrderedUnlessOverlap'
  BY DEF Alone, Alive, Fresh, OrderedUnlessOverlap
<1> QED
  BY <1>1, <1>2, <1>3

\* Testing the flag and waking up move the thread only.
LEMMA MoveKeeps ==
  ASSUME TelemetryInv, NEW t \in Threads, TestFlag(t) \/ Wake(t)
  PROVE  TelemetryInv'
<1> USE DEF TelemetryInv, TelemetryTypes, TestFlag, Wake
<1>1. TelemetryTypes' /\ HistoryWindow' /\ Stamped' /\ StampsHeld'
  BY DEF HistoryWindow, Stamped, StampsHeld
<1>2. LateDone'
  BY DEF LateDone
<1>3. Alone'
  BY DEF Alone, Alive
<1>4. Fresh' /\ OrderedUnlessOverlap'
  BY DEF Fresh, OrderedUnlessOverlap
<1> QED
  BY <1>1, <1>2, <1>3, <1>4

\* A snapshot is newer than everything recorded.
LEMMA CollectKeeps ==
  ASSUME TelemetryInv, NEW t \in Threads, Collect(t)
  PROVE  TelemetryInv'
<1> USE DEF TelemetryInv, TelemetryTypes, Collect
<1>1. TelemetryTypes' /\ HistoryWindow'
  <2>1. taken' \in Nat /\ snap' \in [Threads -> Nat]
    OBVIOUS
  <2> QED BY <2>1 DEF HistoryWindow
<1>2. Stamped' /\ StampsHeld'
  <2>1. taken' >= taken /\ taken' \in Nat /\ recorded' = recorded
    OBVIOUS
  <2>2. Stamped'
    <3> SUFFICES ASSUME NEW i \in 1 .. Len(recorded) PROVE recorded[i] <= taken'
      BY <2>1 DEF Stamped
    <3> QED BY <2>1 DEF Stamped
  <2>3. StampsHeld'
    BY <2>1 DEF StampsHeld
  <2> QED BY <2>2, <2>3
<1>3. LateDone'
  BY DEF LateDone
<1>4. Alone'
  BY DEF Alone, Alive
<1>5. Fresh'
  <2> SUFFICES ASSUME ~overlapped', NEW u \in Threads, loop'[u] = "record",
                      NEW i \in 1 .. Len(recorded')
               PROVE  recorded'[i] < snap'[u]
    BY DEF Fresh
  <2>1. recorded' = recorded /\ recorded[i] \in Nat
    OBVIOUS
  <2>2. CASE u = t
    <3>1. snap'[u] = taken + 1
      BY <2>2
    <3> QED BY <2>1, <3>1 DEF Stamped
  <2>3. CASE u # t
    <3>1. snap'[u] = snap[u] /\ loop[u] = "record" /\ ~overlapped
      BY <2>3
    <3> QED BY <2>1, <3>1 DEF Fresh
  <2> QED BY <2>2, <2>3
<1>6. OrderedUnlessOverlap'
  BY DEF OrderedUnlessOverlap
<1> QED
  BY <1>1, <1>2, <1>3, <1>4, <1>5, <1>6

\* The only living thread records what is newer than the rest; a thread that
\* overlaps may record anything, but the window slides all the same.
LEMMA RecordKeeps ==
  ASSUME TelemetryInv, NEW t \in Threads, RecordSnapshot(t)
  PROVE  TelemetryInv'
<1> USE DEF TelemetryInv, TelemetryTypes, RecordSnapshot
<1>0. /\ recorded' \in Seq(Nat) /\ Len(recorded') = Len(recorded) + 1
      /\ \A i \in 1 .. Len(recorded) : recorded'[i] = recorded[i]
      /\ recorded'[Len(recorded) + 1] = snap[t]
  BY AppendProperties
<1>1. TelemetryTypes'
  <2>1. Append(hist, snap[t]) \in Seq(Nat)
    OBVIOUS
  <2>2. hist' \in Seq(Nat)
    BY <2>1, LastOfSeq, TelemetryAssumption
  <2> QED BY <1>0, <2>2
<1>2. HistoryWindow'
  BY WindowSlides, TelemetryAssumption DEF HistoryWindow
<1>3. Stamped' /\ StampsHeld'
  BY <1>0 DEF Stamped, StampsHeld
<1>4. LateDone'
  BY DEF LateDone
<1>5. Alone'
  BY DEF Alone, Alive
<1>6. Fresh'
  BY DEF Fresh, Alone, Alive
<1>7. OrderedUnlessOverlap'
  <2> SUFFICES ASSUME ~overlapped, NEW i \in 1 .. Len(recorded'), NEW j \in 1 .. Len(recorded'),
                      i < j
               PROVE  recorded'[i] < recorded'[j]
    BY DEF OrderedUnlessOverlap
  <2>1. CASE j = Len(recorded) + 1
    BY <1>0, <2>1 DEF Fresh
  <2>2. CASE j \in 1 .. Len(recorded)
    BY <1>0, <2>2 DEF OrderedUnlessOverlap
  <2>3. j = Len(recorded) + 1 \/ j \in 1 .. Len(recorded)
    <3>1. Len(recorded) \in Nat /\ Len(recorded') = Len(recorded) + 1
      BY <1>0, LenProperties
    <3> HIDE DEF TelemetryInv, TelemetryTypes, RecordSnapshot
    <3> QED BY <3>1
  <2> QED BY <2>1, <2>2, <2>3
<1> QED
  BY <1>1, <1>2, <1>3, <1>4, <1>5, <1>6, <1>7

\* The invariant holds throughout.
LEMMA TelemetryInvariant == TelemetrySpec => []TelemetryInv
<1>1. TelemetryInv /\ [TelemetryNext]_telemetryVars => TelemetryInv'
  <2> SUFFICES ASSUME TelemetryInv, [TelemetryNext]_telemetryVars PROVE TelemetryInv'
    OBVIOUS
  <2>1. CASE UNCHANGED telemetryVars
    BY <2>1 DEF telemetryVars, TelemetryInv, TelemetryTypes, HistoryWindow, LateDone, Alone,
                Alive, Stamped, StampsHeld, Fresh, OrderedUnlessOverlap
  <2>2. ASSUME NEW t \in Threads, StartCollector(t) \/ CollectorStep(t)
        PROVE  TelemetryInv'
    BY <2>2, StartKeeps, MoveKeeps, CollectKeeps, RecordKeeps DEF CollectorStep
  <2> QED
    BY <2>1, <2>2, StopKeeps DEF TelemetryNext
<1> QED
  BY <1>1, TelemetryInitial, PTL DEF TelemetrySpec

-----------------------------------------------------------------------------
(***************************************************************************)
(* Type correctness of the collector threads and the history.              *)
(***************************************************************************)
THEOREM TelemetryTyped == TelemetrySpec => []TelemetryTypes
BY TelemetryInvariant, PTL DEF TelemetryInv

(***************************************************************************)
(* The history is the end of what was recorded, whichever threads append   *)
(* and trim, and so never longer than its bound.                           *)
(***************************************************************************)
THEOREM WindowOfAll == TelemetrySpec => []HistoryWindow
BY TelemetryInvariant, PTL DEF TelemetryInv

(***************************************************************************)
(* Without an overlap of threads the history is in the order in which the  *)
(* snapshots were taken.                                                   *)
(***************************************************************************)
THEOREM InOrderWithoutOverlap == TelemetrySpec => []OrderedUnlessOverlap
BY TelemetryInvariant, PTL DEF TelemetryInv

(***************************************************************************)
(* After stop() a thread records at most the snapshot it was taking.       *)
(***************************************************************************)
THEOREM AtMostOneLate == TelemetrySpec => []LateAtMostOne
<1>1. TelemetryInv => LateAtMostOne
  <2> SUFFICES ASSUME TelemetryInv, NEW t \in Threads PROVE late[t] <= 1
    BY DEF LateAtMostOne
  <2>1. late[t] = 0 \/ late[t] = 1
    BY DEF TelemetryInv, LateDone
  <2> QED BY <2>1
<1> QED
  BY <1>1, TelemetryInvariant, PTL

\* What latest() returns: the last element of the history.
Latest == hist[Len(hist)]

(***************************************************************************)
(* latest() returns the newest of all snapshots ever recorded, trimmed     *)
(* away or not, as long as start() was never called while a thread was     *)
(* alive; and it has one to return as soon as one was recorded.            *)
(***************************************************************************)
THEOREM LatestIsNewest ==
  TelemetrySpec => [](~overlapped /\ recorded # <<>> =>
    /\ hist # <<>>
    /\ \A i \in 1 .. Len(recorded) : recorded[i] <= Latest)
<1>1. TelemetryInv => (~overlapped /\ recorded # <<>> =>
        hist # <<>> /\ \A i \in 1 .. Len(recorded) : recorded[i] <= Latest)
  <2> SUFFICES ASSUME TelemetryInv, ~overlapped, recorded # <<>>
               PROVE  hist # <<>> /\ \A i \in 1 .. Len(recorded) : recorded[i] <= Latest
    OBVIOUS
  <2> DEFINE n == Len(recorded)
  <2>1. recorded \in Seq(Nat) /\ hist = LastOf(recorded, Cap) /\ Cap \in Nat \ {0}
    BY TelemetryAssumption DEF TelemetryInv, TelemetryTypes, HistoryWindow
  <2>2. n \in Nat \ {0} /\ \A i \in 1 .. n : recorded[i] \in Nat
    BY <2>1
  <2>3. Len(hist) > 0 /\ Latest = recorded[n]
    <3>1. CASE n > Cap
      <4>1. Len(hist) = Cap /\ \A i \in 1 .. Cap : hist[i] = recorded[n - Cap + i]
        BY <2>1, <3>1, LastOfSeq
      <4>2. Cap \in 1 .. Cap /\ n - Cap + Cap = n
        BY <2>1, <2>2
      <4> QED
        BY <2>1, <4>1, <4>2 DEF Latest
    <3>2. CASE ~(n > Cap)
      BY <2>1, <2>2, <3>2 DEF LastOf, Latest
    <3> QED
      BY <3>1, <3>2
  <2>4. \A i \in 1 .. n : recorded[i] <= recorded[n]
    <3> SUFFICES ASSUME NEW i \in 1 .. n PROVE recorded[i] <= recorded[n]
      OBVIOUS
    <3>1. CASE i = n
      BY <2>2, <3>1
    <3>2. CASE i < n
      <4>1. n \in 1 .. n /\ recorded[i] < recorded[n]
        BY <2>2, <3>2 DEF TelemetryInv, OrderedUnlessOverlap
      <4> QED
        BY <2>2, <4>1
    <3> QED
      BY <2>2, <3>1, <3>2
  <2>5. hist # <<>>
    BY <2>3
  <2> QED
    BY <2>3, <2>4, <2>5
<1> QED
  BY <1>1, TelemetryInvariant, PTL
=============================================================================
