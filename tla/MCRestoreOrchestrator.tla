------------------------ MODULE MCRestoreOrchestrator ------------------------
(***************************************************************************)
(* Instances of RestoreOrchestrator for TLC: one node, one manifest key    *)
(* and one checkpoint that everybody works on, so that every race there is *)
(* is a race for them.                                                     *)
(***************************************************************************)
EXTENDS RestoreOrchestrator, TLC

CONSTANTS t1, t2, n, r, tok, c, good, other

Base ==
  [node |-> n, path |-> "CROSS_HOST", want |-> "trusted", sig |-> "match", ref |-> r,
   token |-> tok, policy |-> FALSE, ckpt |-> c, hash |-> good, cursor |-> 0]

\* A complete cross-host manifest; a local one that skips every optional check;
\* a CRIU one without policy; one changed after hashing; a quarantined host; one
\* with a malformed cursor.
Races ==
  {Base,
   [Base EXCEPT !.path = SoftRestart, !.ref = None, !.token = None,
                !.hash = None, !.cursor = None],
   [Base EXCEPT !.path = CriuMigration, !.hash = None],
   [Base EXCEPT !.sig = "mismatch"],
   [Base EXCEPT !.path = Quarantined, !.hash = None, !.cursor = None],
   [Base EXCEPT !.hash = None, !.cursor = Garbled]}

\* The first task may call restore() again after a failure.
Retry == t1 :> 2 @@ t2 :> 1

Once == t1 :> 1

OnlyBase == {Base}
=============================================================================
