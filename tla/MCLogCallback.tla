---------------------------- MODULE MCLogCallback ----------------------------
(***************************************************************************)
(* Small instances of LogCallback for TLC.                                 *)
(***************************************************************************)
EXTENDS LogCallback, TLC

CONSTANTS t1, t2, c1, c2

TwoThreads   == {t1, t2}
TwoCallbacks == {c1, c2}

ThreadAndCallbackSymmetry == Permutations(TwoThreads) \cup Permutations(TwoCallbacks)
=============================================================================
