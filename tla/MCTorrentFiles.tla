--------------------------- MODULE MCTorrentFiles ---------------------------
(***************************************************************************)
(* A file of three pieces, whose tree needs two kinds of padding, one that *)
(* is shorter than a piece and one that is empty; and a torrent of a       *)
(* single file, which is not padded.                                       *)
(***************************************************************************)
EXTENDS TorrentFiles

CONSTANTS a, b, c

FilesDef == {a, b, c}
SizeDef == [f \in FilesDef |-> CASE f = a -> 9 [] f = b -> 3 [] f = c -> 0]
ReleasesDef == {<<b, c, a>>, <<a>>}

=============================================================================
