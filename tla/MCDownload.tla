----------------------------- MODULE MCDownload -----------------------------
(* Two files and two commits. *)
EXTENDS Download

CONSTANTS f, g, a, b, v1, v2, w, e

\* Under b, f is longer than under a, and g is empty.
SnapshotDef ==
    [c \in {a, b} |-> [p \in {f, g} |->
        IF c = a THEN (IF p = f THEN v1 ELSE w)
                 ELSE (IF p = f THEN v2 ELSE e)]]

SizeDef ==
    [v \in {v1, v2, w, e} |-> IF v = v2 THEN 2 ELSE IF v = e THEN 0 ELSE 1]

StagedDef == [p \in {f, g} |-> IF p = f THEN <<Corrupt>> ELSE <<>>]
=============================================================================
