---------------------------- MODULE MCOneOperator ----------------------------
(***************************************************************************)
(* Two commits, one operator and the seeder, with fairness.                *)
(***************************************************************************)
EXTENDS FencedArchive

CONSTANTS c1, c2, p1

=============================================================================
