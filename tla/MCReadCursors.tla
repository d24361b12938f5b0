--------------------------- MODULE MCReadCursors ----------------------------
(***************************************************************************)
(* Small instances of ReadCursors for TLC.                                 *)
(***************************************************************************)
EXTENDS ReadCursors, TLC

MemberSymmetry    == Permutations(Member)
GoroutineSymmetry == Permutations(Goroutine)
Symmetry == MemberSymmetry \cup GoroutineSymmetry
=============================================================================
