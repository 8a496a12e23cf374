---------------------------- MODULE MCLifecycle ----------------------------
(* Two processes, two commits of two files, and inodes enough for them. *)
EXTENDS Lifecycle

CONSTANTS p, q, a, b, f, g

DirsDef == 1 .. 5
ProcsDef == {p, q}
CommitsDef == {a, b}
FilesDef == {f, g}
=============================================================================
