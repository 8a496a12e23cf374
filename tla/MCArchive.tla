----------------------------- MODULE MCArchive -----------------------------
(***************************************************************************)
(* Two commits: from the first to the second one path changes, one goes    *)
(* and one comes.                                                          *)
(***************************************************************************)
EXTENDS Archive, TLC

CONSTANTS c1, c2, kept, gone, new, v1, v2

MCSnapshot ==
    c1 :> (kept :> v1 @@ gone :> v1 @@ new :> Absent) @@
    c2 :> (kept :> v2 @@ gone :> Absent @@ new :> v1)

=============================================================================
