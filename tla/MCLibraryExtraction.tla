------------------------- MODULE MCLibraryExtraction -------------------------
(***************************************************************************)
(* Small instances of LibraryExtraction for TLC.                           *)
(***************************************************************************)
EXTENDS LibraryExtraction, TLC

CONSTANTS p1, p2, p3, v1, v2

ThreeProcesses == {p1, p2, p3}
TwoVersions    == {v1, v2}

OldAndTwoNew == (p1 :> v1) @@ (p2 :> v2) @@ (p3 :> v2)

NewSymmetry == Permutations({p2, p3})
=============================================================================
