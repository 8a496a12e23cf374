--------------------------- MODULE MCFencedArchive ---------------------------
(***************************************************************************)
(* Two commits, two operators and the seeder.                              *)
(***************************************************************************)
EXTENDS FencedArchive, TLC

CONSTANTS c1, c2, p1, p2

MCSymmetry == Permutations({c1, c2}) \cup Permutations({p1, p2})

=============================================================================
