----------------------------- MODULE MCTfState -----------------------------
(* One project, so one state file and one lock file; two requests at once; *)
(* a body of two chunks and one of one.                                    *)
EXTENDS TfState, TLC

CONSTANTS p, b1, b2, h1, h2

MCProject == {p}
MCHandler == {h1, h2}

MCBody == {b1, b2}
MCLockInfo == {b2}
MCSize == b1 :> 2 @@ b2 :> 1
MCInode == 1..7
MCPlace == StateFile(p) :> 1 @@ LockFile(p) :> 2

(* For liveness: one body of one chunk.                                    *)
MCOneBody == {b1}
MCOneSize == b1 :> 1

HandlerSymmetry == Permutations(MCHandler)
=============================================================================
