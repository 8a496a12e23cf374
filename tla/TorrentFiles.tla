---------------------------- MODULE TorrentFiles ----------------------------
(***************************************************************************)
(* The payload of a torrent, on the publisher's disk or on a receiver's:   *)
(* hash coverage, the metainfo made from it, and the import of a payload   *)
(* that an external client or the join session has fetched.                *)
(*                                                                         *)
(* One command works on the payload at a time, and dies between any two of *)
(* its steps.  Whoever else writes to the payload, the client, the user,   *)
(* a repair, does so between any two steps as well.  A write changes the   *)
(* modification time.                                                      *)
(***************************************************************************)
EXTENDS TorrentHashes, SequencesExt, FiniteSetsExt

CONSTANTS
    Releases,   \* payloads: sequences of files in the order of the descriptor
    SizeOf,     \* length of each file
    Chunks,     \* bound: most bytes that a read returns
    MaxWrites   \* bound: writes to the payload, other than by the import

ASSUME FilesAssumption ==
    /\ \A r \in Releases : r \in Seq(HashedFiles) /\ r # <<>>
    /\ SizeOf \in [HashedFiles -> Nat]
    /\ Chunks \subseteq Nat \ {0} /\ MaxWrites \in Nat

VARIABLES
    release,   \* the payload of the torrent
    received,  \* whether it comes by torrent or was mirrored
    place,     \* "staged" or "canonical": where the payload root is
    disk,      \* [body, mtime] of each file
    others,    \* files in the root that are neither payload nor metadata
    meta,      \* files under .model-mirror
    rows,      \* rows of the coverage file, of some of the files
    metainfo,  \* what torrent create has made of the coverage
    job,       \* the command at work
    writes,    \* counts the writes
    torn       \* files written to while a command was reading them

files == <<release, received, place, disk, others, meta, rows, metainfo, writes, torn>>
vars == <<files, job, hashVars>>

Payload == ToSet(release)
Multifile == Len(release) > 1

Idle == [cmd |-> "none", step |-> "none", file |-> None, todo |-> {}, tainted |-> FALSE]

\* What can be in the place of f; of the lengths that are not that of f, one each.
Bodies(f) == IF SizeOf[f] = 0 THEN {"right", "long", "absent"}
             ELSE {"right", "wrong", "short", "long", "absent"}

Init ==
    /\ HashInit
    /\ release \in Releases /\ received \in BOOLEAN
    /\ place = IF received THEN "staged" ELSE "canonical"
    /\ \E body \in [Payload -> {"right", "wrong", "absent"}] :
          /\ \A f \in Payload : body[f] \in Bodies(f)
          /\ disk = [f \in Payload |-> [body |-> body[f], mtime |-> 0]]
    /\ others \in IF received THEN SUBSET {"pad", "stranger"} ELSE {{}}
    /\ meta = IF received THEN {} ELSE {"plan", "manifest", "state"}
    /\ rows = <<>>
    /\ metainfo = None
    /\ job = Idle
    /\ writes = 0 /\ torn = {}

-----------------------------------------------------------------------------
(* Everyone else.                                                          *)

\* Whether what a command has read of f may not be what it takes the time of.
Reading(f) ==
    \/ job.file = f /\ job.step # "stream"
    \/ job.cmd = "join" /\ job.step \in {"validate", "plan", "cover"}

Put(f, body) ==
    /\ writes < MaxWrites
    /\ writes' = writes + 1
    /\ disk' = [disk EXCEPT ![f] = [body |-> body, mtime |-> @.mtime + 1]]

Write(f) ==
    /\ \E body \in Bodies(f) : (body = "absent" => job.file # f) /\ Put(f, body)
    /\ torn' = IF Reading(f) THEN torn \cup {f} ELSE torn
    /\ UNCHANGED <<release, received, place, others, meta, rows, metainfo, job, hashVars>>

-----------------------------------------------------------------------------
(* Coverage.                                                               *)

LengthOf(f) ==
    CASE disk[f].body = "absent" -> 0
      [] disk[f].body = "short" -> SizeOf[f] \div 2
      [] disk[f].body = "long" -> SizeOf[f] + 1
      [] OTHER -> SizeOf[f]

Present(f) == disk[f].body # "absent" /\ LengthOf(f) = SizeOf[f]

\* coverage_row_is_current; the hashes in a row never change.
Current(f) == f \in DOMAIN rows /\ Present(f) /\ rows[f].mtime = disk[f].mtime

Missing == {f \in Payload : ~Current(f)}

Begin(cmd, step, todo) ==
    /\ job.cmd = "none"
    /\ job' = [cmd |-> cmd, step |-> step, file |-> None, todo |-> todo, tainted |-> FALSE]
    /\ UNCHANGED <<files, hashVars>>

\* The upgrade command, and the upgrade within torrent create.
\* The clean state and current manifest that torrent create wants first are not
\* kept here and not asked for.
Upgrade(cmd) ==
    /\ place = "canonical" /\ "plan" \in meta
    /\ Begin(cmd, "hash", Missing)

\* An exception ends the command and leaves what it has written.
Raise == job' = [Idle EXCEPT !.step = "failed"] /\ Discard

End == job' = Idle /\ Discard

Crash == job.cmd # "none" /\ End /\ UNCHANGED files

\* The next file of the list that was made at the start.
Open(i) ==
    /\ job.step = "hash" /\ job.file = None
    /\ release[i] \in job.todo /\ \A j \in 1..(i - 1) : release[j] \notin job.todo
    /\ IF disk[release[i]].body = "absent" THEN Raise /\ UNCHANGED torn
       ELSE /\ job' = [job EXCEPT !.file = release[i], !.tainted = FALSE]
            /\ Accumulate(release[i], SizeOf[release[i]], Multifile)
            /\ torn' = torn \ {release[i]}
    /\ UNCHANGED <<release, received, place, disk, others, meta, rows, metainfo, writes>>

\* file_hashes reads on to the end of the file.
Read ==
    /\ job.file # None /\ job.step \in {"hash", "reread"}
    /\ pos < LengthOf(job.file)
    /\ \E n \in Chunks : Update(Least(n, LengthOf(job.file) - pos))
    /\ job' = [job EXCEPT !.tainted = @ \/ disk[job.file].body = "wrong"]
    /\ UNCHANGED files

Work == job.file # None /\ (FillPiece \/ FillBlock) /\ UNCHANGED <<files, job>>

AtEnd == job.file # None /\ stage = "feeding" /\ pos >= LengthOf(job.file)

\* A download has found a file of the right size with other contents.
Unwanted == job.cmd = "fetch" /\ (job.tainted \/ pos # SizeOf[job.file])

EndOfFile ==
    /\ \/ AtEnd /\ job.step = "hash" /\ ~Unwanted
       \/ AtEnd /\ job.step = "reread"
       \/ job.step = "placed" /\ Present(job.file)
    /\ Finalize
    /\ UNCHANGED <<files, job>>

\* The hasher was given more bytes, or less, than it was made for.
Misfit ==
    /\ job.file # None /\ stage = "raised"
    /\ Raise
    /\ UNCHANGED files

RowOf(f) == [mtime |-> disk[f].mtime, v1 |-> v1pieces, v2 |-> v2pieces, root |-> root]

\* Mutant: what was hashed is not compared with what the commit says.
Refuse_by_size == ~Present(job.file)

\* What record finds when it looks at the file again, and at the hashes of the commit.
Refuse == ~Present(job.file) \/ job.tainted

\* record: the file is looked at again, after it was read.
Record ==
    /\ job.file # None /\ stage = "done"
    /\ IF Refuse
       THEN Raise /\ UNCHANGED <<rows, meta>>
       ELSE /\ rows' = [f \in DOMAIN rows \cup {job.file} |->
                           IF f = job.file THEN RowOf(f) ELSE rows[f]]
            /\ meta' = meta \cup {"coverage"}
            /\ job' = IF job.cmd = "fetch" THEN Idle
                      ELSE [job EXCEPT !.file = None, !.todo = @ \ {job.file}]
            /\ Discard
    /\ UNCHANGED <<release, received, place, disk, others, metainfo, writes, torn>>

\* A download hashes what it finds if that has the right size, and fetches the file
\* otherwise.  A file of no bytes is never fetched.
Fetch(f) ==
    /\ place = "canonical"
    /\ job.cmd = "none"
    /\ Present(f) \/ SizeOf[f] > 0
    /\ job' = [cmd |-> "fetch", step |-> IF Present(f) THEN "hash" ELSE "stream",
               file |-> f, todo |-> {}, tainted |-> FALSE]
    /\ Accumulate(f, SizeOf[f], Multifile)
    /\ disk' = IF Present(f) THEN disk ELSE [disk EXCEPT ![f].body = "absent"]
    /\ UNCHANGED <<release, received, place, others, meta, rows, metainfo, writes, torn>>

Unlink ==
    /\ AtEnd /\ job.step = "hash" /\ Unwanted /\ rest1 = <<>> /\ rest2 = <<>>
    /\ job' = [job EXCEPT !.step = "stream", !.tainted = FALSE]
    /\ Accumulate(job.file, SizeOf[job.file], Multifile)
    /\ disk' = [disk EXCEPT ![job.file].body = "absent"]
    /\ UNCHANGED <<release, received, place, others, meta, rows, metainfo, writes, torn>>

\* It feeds the hasher what it writes to NAME.incomplete.
Receive ==
    /\ job.step = "stream"
    /\ pos < SizeOf[job.file]
    /\ \E n \in Chunks : Update(Least(n, SizeOf[job.file] - pos))
    /\ \E wrong \in BOOLEAN : job' = [job EXCEPT !.tainted = @ \/ wrong]
    /\ UNCHANGED files

\* The bytes were wrong, or an attempt begins from the start.
Again ==
    /\ job.step = "stream" /\ stage = "feeding" /\ pos > 0
    /\ Reset
    /\ job' = [job EXCEPT !.tainted = FALSE]
    /\ UNCHANGED files

Place ==
    /\ job.step = "stream" /\ pos = SizeOf[job.file] /\ rest1 = <<>> /\ rest2 = <<>>
    /\ ~job.tainted
    /\ Put(job.file, "right")
    /\ job' = [job EXCEPT !.step = "placed"]
    /\ torn' = torn \ {job.file}
    /\ UNCHANGED <<release, received, place, others, meta, rows, metainfo, hashVars>>

\* The file has another length than was hashed: it is read again.
Reread ==
    /\ job.step = "placed" /\ stage = "feeding" /\ ~Present(job.file)
    /\ job' = [job EXCEPT !.step = "reread"]
    /\ Reset
    /\ UNCHANGED files

-----------------------------------------------------------------------------
(* Metainfo.                                                               *)

\* The padding file after f.
PadAfter(r, f) ==
    IF Len(r) > 1 /\ SizeOf[f] % PieceLength # 0
    THEN PieceLength - (SizeOf[f] % PieceLength) ELSE 0

\* hybrid_v1_files: each file and its padding, as the bytes of the v1 torrent.
Layout(r) == [i \in DOMAIN r |-> Stretch(r[i], 0, SizeOf[r[i]]) \o Zeros(PadAfter(r, r[i]))]

LargeOf(r) == {f \in ToSet(r) : SizeOf[f] > PieceLength}
Large == LargeOf(release)

\* Mutant: a file of one piece gets a layer too.
Assembled_layered ==
    [pieces |-> FlattenSeq([i \in DOMAIN release |-> rows[release[i]].v1]),
     roots |-> [f \in Payload |-> rows[f].root],
     layers |-> [f \in Payload |-> rows[f].v2]]

\* create_hybrid_metainfo_from_coverage
Assembled ==
    [pieces |-> FlattenSeq([i \in DOMAIN release |-> rows[release[i]].v1]),
     roots |-> [f \in Payload |-> rows[f].root],
     layers |-> [f \in Large |-> rows[f].v2]]

\* The metainfo of the same payload as other software makes it: the payload in one
\* stream, cut into pieces.
References ==
    [r \in Releases |->
        LET stream == FlattenSeq(Layout(r))
        IN  [pieces |-> [i \in 1..PieceCount(Len(stream)) |->
                            SubSeq(stream, (i - 1) * PieceLength + 1,
                                           Least(i * PieceLength, Len(stream)))],
             roots |-> [f \in ToSet(r) |-> RootOf(f, SizeOf[f])],
             layers |-> [f \in LargeOf(r) |-> V2Of(f, SizeOf[f])]]]

Reference == References[release]

\* validate_coverage_for_descriptor
Usable == \A f \in Payload : Current(f)

Create ==
    /\ job.cmd = "create" /\ job.step = "hash" /\ job.file = None /\ job.todo = {}
    /\ IF Usable THEN End ELSE Raise
    /\ metainfo' = IF Usable THEN Assembled ELSE metainfo
    /\ UNCHANGED <<release, received, place, disk, others, meta, rows, writes, torn>>

Upgraded ==
    /\ job.cmd = "upgrade" /\ job.file = None /\ job.todo = {}
    /\ End
    /\ UNCHANGED files

-----------------------------------------------------------------------------
(* Import and join.                                                        *)

\* torrent import reads every file, join relies on its session.
Import(cmd) ==
    /\ place = "staged"
    /\ cmd = "join" => \A f \in Payload : disk[f].body = "right"
    /\ Begin(cmd, "validate", Payload)

Step(from, to) == job.step = from /\ job' = [job EXCEPT !.step = to] /\ UNCHANGED hashVars

\* validate_staged_payload; the padding files go first.
Valid == "stranger" \notin others /\ meta = {} /\ \A f \in Payload : Present(f)

Validate ==
    /\ job.step = "validate"
    /\ others' = others \ {"pad"}
    /\ IF Valid THEN Step("validate", "plan") ELSE Raise
    /\ UNCHANGED <<release, received, place, disk, meta, rows, metainfo, writes, torn>>

Leave(from, name, to) ==
    /\ Step(from, to)
    /\ meta' = meta \cup {name}
    /\ UNCHANGED <<release, received, place, disk, others, rows, metainfo, writes, torn>>

Plan == Leave("plan", "plan", IF job.cmd = "join" THEN "cover" ELSE "hash")

\* Pieces of the first i files.
Cursor[i \in 0..Len(release)] ==
    IF i = 0 THEN 0 ELSE Cursor[i - 1] + PieceCount(SizeOf[release[i]])

\* coverage_from_metainfo: the hashes of the i-th file are cut out of those of all.
RowFromMetainfo(i) ==
    LET f == release[i]
        count == PieceCount(SizeOf[f])
    IN  [mtime |-> disk[f].mtime,
         v1 |-> SubSeq(Reference.pieces, Cursor[i - 1] + 1, Cursor[i]),
         v2 |-> IF count = 0 THEN <<>>
                ELSE IF f \in Large THEN Reference.layers[f] ELSE <<Reference.roots[f]>>,
         root |-> Reference.roots[f]]

Cover ==
    /\ IF \E f \in Payload : disk[f].body = "absent"
       THEN job.step = "cover" /\ Raise /\ UNCHANGED <<rows, meta>>
       ELSE /\ Step("cover", "manifest")
            /\ rows' = [f \in Payload |->
                           RowFromMetainfo(CHOOSE i \in DOMAIN release : release[i] = f)]
            /\ meta' = meta \cup {"coverage"}
    /\ UNCHANGED <<release, received, place, disk, others, metainfo, writes, torn>>

\* Mutant: the payload is moved before its coverage is there.
Hashed_any == job.step = "hash" /\ job.file = None

Hashed == job.step = "hash" /\ job.file = None /\ job.todo = {}

HashesDone ==
    /\ job.cmd = "import" /\ Hashed
    /\ Step("hash", "manifest")
    /\ UNCHANGED files

\* write_descriptor_manifest takes the time of every file.
Manifest ==
    IF \E f \in Payload : disk[f].body = "absent"
    THEN job.step = "manifest" /\ Raise /\ UNCHANGED files
    ELSE Leave("manifest", "manifest", "rename")

\* The staging directory and the target may be on different filesystems.
Rename ==
    /\ job.step = "rename"
    /\ \/ Raise /\ UNCHANGED place
       \/ Step("rename", "state") /\ place' = "canonical"
    /\ UNCHANGED <<release, received, disk, others, meta, rows, metainfo, writes, torn>>

Register ==
    \/ Leave("state", "state", "report")
    \/ Leave("report", "import", "record")
    \/ Leave("record", "record", "fence")

Fence ==
    /\ job.step = "fence"
    /\ End
    /\ meta' = meta \cup {"fence"}
    /\ UNCHANGED <<release, received, place, disk, others, rows, metainfo, writes, torn>>

-----------------------------------------------------------------------------

Coverage ==
    \/ \E cmd \in {"upgrade", "create"} : Upgrade(cmd)
    \/ \E f \in Payload : Fetch(f)
    \/ \E i \in DOMAIN release : Open(i)
    \/ Read \/ Work \/ EndOfFile \/ Misfit \/ Record
    \/ Unlink \/ Receive \/ Again \/ Place \/ Reread
    \/ Create \/ Upgraded

Importing ==
    \/ \E cmd \in {"import", "join"} : Import(cmd)
    \/ Validate \/ Plan \/ Cover \/ HashesDone \/ Manifest \/ Rename \/ Register \/ Fence

Next == Coverage \/ Importing \/ Crash \/ \E f \in Payload : Write(f)

Spec == Init /\ [][Next]_vars

-----------------------------------------------------------------------------
(* Properties.                                                             *)

\* The hashes that each file should have.
RightV1 == [f \in HashedFiles |-> [pad \in BOOLEAN |-> V1Of(f, SizeOf[f], pad)]]
RightV2 == [f \in HashedFiles |-> V2Of(f, SizeOf[f])]
RightRoot == [f \in HashedFiles |-> RootOf(f, SizeOf[f])]

\* A row of coverage that passes for current stands for the file as the commit has
\* it, with the hashes of that file: whether it was hashed from disk, while it came
\* in, or taken over from the torrent, and whatever was written to the file since.
\* Only a write while the file is read can make it lie, for the time is taken after
\* the bytes (TorrentCoverageRecorder.record, coverage_from_metainfo).
CoverageHonest ==
    \A f \in Payload :
        Current(f) =>
            /\ disk[f].body = "right" \/ f \in torn
            /\ rows[f].v1 = RightV1[f][Multifile]
            /\ rows[f].v2 = RightV2[f]
            /\ rows[f].root = RightRoot[f]

\* The torrent that is put together from coverage is the one that any software
\* makes of the payload as one stream (create_hybrid_metainfo_from_coverage).
MetainfoRight == metainfo # None => metainfo = Reference

\* An import moves nothing to the canonical path before its plan, its manifest and a
\* row for every file are in it, wherever it is killed (finalize_payload).
ArrivesWhole ==
    received /\ place = "canonical" =>
        /\ {"plan", "manifest", "coverage"} \subseteq meta
        /\ Payload \subseteq DOMAIN rows

\* What REQ-21 says of resuming: a payload that is all there and right, with nothing
\* else in it but what the client pads, is not turned away (finalize_payload).
RightPayloadImports ==
    [][job.step = "validate" /\ job'.step = "failed"
           => "stranger" \in others \/ \E f \in Payload : disk[f].body # "right"]_vars

=============================================================================
