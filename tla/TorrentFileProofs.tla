--------------------------- MODULE TorrentFileProofs ---------------------------
(***************************************************************************)
(* Proofs about the payload of a torrent, for any files, any chunks and    *)
(* any number of writes to them: that imports arrive whole, that rows of   *)
(* coverage are honest, and that the metainfo assembled from them is the   *)
(* one that hashing the payload as a single stream gives.                  *)
(***************************************************************************)
EXTENDS TorrentFiles, TorrentHashProofs

Steps == {"none", "failed", "hash", "reread", "stream", "placed", "validate", "plan",
          "cover", "manifest", "rename", "state", "report", "record", "fence"}

Jobs ==
    [cmd : {"none", "upgrade", "create", "fetch", "import", "join"},
     step : Steps,
     file : HashedFiles \cup {None},
     todo : SUBSET HashedFiles,
     tainted : BOOLEAN]

\* Only a download streams, and it has a file.
Streaming ==
    job.step \in {"stream", "placed", "reread"} => job.cmd = "fetch" /\ job.file \in HashedFiles

FileTypes == release \in Releases /\ job \in Jobs /\ Streaming

LEMMA PayloadType ==
    ASSUME FileTypes
    PROVE  /\ Payload \subseteq HashedFiles /\ Payload # {}
           /\ \A i \in DOMAIN release : release[i] \in HashedFiles
  <1>1. release \in Seq(HashedFiles) /\ release # <<>>
    BY FilesAssumption DEF FileTypes
  <1>2. \A i \in DOMAIN release : release[i] \in HashedFiles
    BY <1>1, LenProperties, ElementOfSeq
  <1>3. DOMAIN release # {}
    <2>1. Len(release) \in Nat /\ Len(release) # 0 /\ DOMAIN release = 1..Len(release)
      BY <1>1, LenProperties, EmptySeq
    <2>2. 1 \in DOMAIN release  BY <2>1
    <2>3. QED  BY <2>2
  <1>4. QED  BY <1>2, <1>3 DEF Payload, ToSet

LEMMA LengthType ==
    ASSUME NEW f \in HashedFiles
    PROVE  LengthOf(f) \in Nat /\ SizeOf[f] \in Nat
  <1>1. SizeOf[f] \in Nat  BY FilesAssumption
  <1>2. SizeOf[f] \div 2 \in Nat  BY <1>1
  <1>3. QED  BY <1>1, <1>2 DEF LengthOf

LEMMA IdleType == Idle \in Jobs /\ [Idle EXCEPT !.step = "failed"] \in Jobs
  <1> DEFINE nothing == {}
  <1>1. nothing \in SUBSET HashedFiles  OBVIOUS
  <1> HIDE DEF nothing
  <1>2. [cmd |-> "none", step |-> "none", file |-> None, todo |-> nothing, tainted |-> FALSE]
          \in Jobs
    BY <1>1 DEF Jobs, Steps
  <1>3. Idle \in Jobs  BY <1>2 DEF Idle, nothing
  <1>4. QED  BY <1>3 DEF Jobs, Steps

LEMMA RaiseType == Raise => job' \in Jobs
  BY IdleType DEF Raise

LEMMA StepType ==
    ASSUME job \in Jobs, NEW from, NEW to \in Steps, Step(from, to)
    PROVE  job' \in Jobs
  BY DEF Step, Jobs

-----------------------------------------------------------------------------
(* Types.                                                                  *)

LEMMA CoverageTypes ==
    ASSUME FileTypes, Coverage
    PROVE  job' \in Jobs
  <1>1. job \in Jobs /\ Payload \subseteq HashedFiles
        /\ \A i \in DOMAIN release : release[i] \in HashedFiles
    BY PayloadType DEF FileTypes
  <1>2. ASSUME NEW cmd \in {"upgrade", "create"}, Upgrade(cmd)  PROVE job' \in Jobs
    <2>1. Missing \in SUBSET HashedFiles  BY <1>1 DEF Missing
    <2>2. QED  BY <1>2, <2>1 DEF Upgrade, Begin, Jobs, Steps
  <1>3. ASSUME NEW f \in Payload, Fetch(f)  PROVE job' \in Jobs
    <2>1. f \in HashedFiles  BY <1>1
    <2>2. PICK step \in {"hash", "stream"} :
             job' = [cmd |-> "fetch", step |-> step, file |-> f, todo |-> {}, tainted |-> FALSE]
      BY <1>3 DEF Fetch
    <2>3. QED  BY <2>1, <2>2 DEF Jobs, Steps
  <1>4. ASSUME NEW i \in DOMAIN release, Open(i)  PROVE job' \in Jobs
    <2>1. release[i] \in HashedFiles  BY <1>1
    <2>2. CASE Raise  BY <2>2, RaiseType
    <2>3. CASE job' = [job EXCEPT !.file = release[i], !.tainted = FALSE]
      BY <1>1, <2>1, <2>3 DEF Jobs
    <2>4. QED  BY <1>4, <2>2, <2>3 DEF Open
  <1>5. CASE Read
    BY <1>1, <1>5 DEF Read, Jobs
  <1>6. CASE Work
    BY <1>1, <1>6 DEF Work
  <1>7. CASE EndOfFile
    BY <1>1, <1>7 DEF EndOfFile
  <1>8. CASE Misfit
    BY <1>8, RaiseType DEF Misfit
  <1>9. CASE Record
    <2>1. CASE Raise  BY <2>1, RaiseType
    <2>2. CASE job' = Idle  BY <2>2, IdleType
    <2>3. CASE job' = [job EXCEPT !.file = None, !.todo = @ \ {job.file}]
      BY <1>1, <2>3 DEF Jobs
    <2>4. QED  BY <1>9, <2>1, <2>2, <2>3 DEF Record
  <1>10. CASE Unlink
    BY <1>1, <1>10 DEF Unlink, Jobs, Steps
  <1>11. CASE Receive
    BY <1>1, <1>11 DEF Receive, Jobs
  <1>12. CASE Again
    BY <1>1, <1>12 DEF Again, Jobs
  <1>13. CASE Place
    BY <1>1, <1>13 DEF Place, Jobs, Steps
  <1>14. CASE Reread
    BY <1>1, <1>14 DEF Reread, Jobs, Steps
  <1>15. CASE Create
    BY <1>15, RaiseType, IdleType DEF Create, End
  <1>16. CASE Upgraded
    BY <1>16, IdleType DEF Upgraded, End
  <1>17. QED
    BY <1>2, <1>3, <1>4, <1>5, <1>6, <1>7, <1>8, <1>9, <1>10, <1>11, <1>12, <1>13, <1>14,
       <1>15, <1>16
    DEF Coverage

LEMMA ImportingTypes ==
    ASSUME FileTypes, Importing
    PROVE  job' \in Jobs
  <1>1. job \in Jobs /\ Payload \subseteq HashedFiles
    BY PayloadType DEF FileTypes
  <1>2. ASSUME NEW cmd \in {"import", "join"}, Import(cmd)  PROVE job' \in Jobs
    BY <1>1, <1>2 DEF Import, Begin, Jobs, Steps
  <1>3. ASSUME NEW from, NEW to \in Steps, Step(from, to)  PROVE job' \in Jobs
    BY <1>1, <1>3, StepType
  <1>4. CASE Validate
    BY <1>3, <1>4, RaiseType DEF Validate, Steps
  <1>5. CASE Plan
    <2>1. PICK to \in Steps : Step("plan", to)  BY <1>5 DEF Plan, Leave, Steps
    <2>2. QED  BY <1>3, <2>1
  <1>6. CASE Cover
    BY <1>3, <1>6, RaiseType DEF Cover, Steps
  <1>7. CASE HashesDone
    BY <1>3, <1>7 DEF HashesDone, Steps
  <1>8. CASE Manifest
    BY <1>3, <1>8, RaiseType DEF Manifest, Leave, Steps
  <1>9. CASE Rename
    BY <1>3, <1>9, RaiseType DEF Rename, Steps
  <1>10. CASE Register
    BY <1>3, <1>10 DEF Register, Leave, Steps
  <1>11. CASE Fence
    BY <1>11, IdleType DEF Fence, End
  <1>12. QED
    BY <1>2, <1>4, <1>5, <1>6, <1>7, <1>8, <1>9, <1>10, <1>11 DEF Importing

LEMMA ReleaseStays == Next => release' = release
  <1>1. Coverage => release' = release
    BY DEF Coverage, Upgrade, Begin, files, Fetch, Open, Read, Work, EndOfFile, Misfit, Record,
           Unlink, Receive, Again, Place, Reread, Create, Upgraded
  <1>2. Importing => release' = release
    BY DEF Importing, Import, Begin, files, Validate, Plan, Leave, Cover, HashesDone, Manifest,
           Rename, Register, Fence
  <1>3. QED  BY <1>1, <1>2 DEF Next, Crash, Write, files

LEMMA RaiseStreams == Raise => Streaming'
  BY DEF Raise, Idle, Streaming

LEMMA IdleStreams == job' = Idle => Streaming'
  BY DEF Idle, Streaming

LEMMA CoverageStreams ==
    ASSUME FileTypes, Coverage
    PROVE  Streaming'
  <1>1. job \in Jobs /\ Streaming /\ Payload \subseteq HashedFiles
    BY PayloadType DEF FileTypes
  <1>2. ASSUME NEW cmd, Upgrade(cmd)  PROVE Streaming'
    BY <1>2 DEF Upgrade, Begin, Streaming
  <1>3. ASSUME NEW f \in Payload, Fetch(f)  PROVE Streaming'
    BY <1>1, <1>3 DEF Fetch, Streaming
  <1>4. ASSUME NEW i \in DOMAIN release, Open(i)  PROVE Streaming'
    <2>1. CASE Raise  BY <2>1, RaiseStreams
    <2>2. CASE job' = [job EXCEPT !.file = release[i], !.tainted = FALSE]
      <3>1. job.step = "hash"  BY <1>4 DEF Open
      <3>2. job'.step = "hash"  BY <1>1, <2>2, <3>1 DEF Jobs
      <3>3. QED  BY <3>2 DEF Streaming
    <2>3. QED  BY <1>4, <2>1, <2>2 DEF Open
  <1>5. ASSUME job'.step = job.step, job'.cmd = job.cmd, job'.file = job.file
        PROVE  Streaming'
    BY <1>1, <1>5 DEF Streaming
  <1>6. CASE Read
    BY <1>1, <1>5, <1>6 DEF Read, Jobs
  <1>7. CASE Work \/ EndOfFile
    BY <1>5, <1>7 DEF Work, EndOfFile
  <1>8. CASE Misfit
    BY <1>8, RaiseStreams DEF Misfit
  <1>9. CASE Record
    <2>1. CASE Raise  BY <2>1, RaiseStreams
    <2>2. CASE job' = Idle  BY <2>2, IdleStreams
    <2>3. CASE job.cmd # "fetch" /\ job' = [job EXCEPT !.file = None, !.todo = @ \ {job.file}]
      <3>1. job'.step = job.step  BY <1>1, <2>3 DEF Jobs
      <3>2. QED  BY <1>1, <2>3, <3>1 DEF Streaming
    <2>4. QED  BY <1>9, <2>1, <2>2, <2>3 DEF Record
  <1>10. CASE Unlink
    <2>1. job.cmd = "fetch" /\ job.file \in HashedFiles
      BY <1>1, <1>10 DEF Unlink, Unwanted, AtEnd, Jobs
    <2>2. job'.cmd = job.cmd /\ job'.file = job.file
      BY <1>1, <1>10 DEF Unlink, Jobs
    <2>3. QED  BY <2>1, <2>2 DEF Streaming
  <1>11. CASE Receive
    BY <1>1, <1>5, <1>11 DEF Receive, Jobs
  <1>12. CASE Again
    BY <1>1, <1>5, <1>12 DEF Again, Jobs
  <1>13. CASE Place
    BY <1>1, <1>13 DEF Place, Jobs, Streaming
  <1>14. CASE Reread
    BY <1>1, <1>14 DEF Reread, Jobs, Streaming
  <1>15. CASE Create \/ Upgraded
    BY <1>15, RaiseStreams, IdleStreams DEF Create, Upgraded, End
  <1>16. QED
    BY <1>2, <1>3, <1>4, <1>6, <1>7, <1>8, <1>9, <1>10, <1>11, <1>12, <1>13, <1>14, <1>15
    DEF Coverage

LEMMA StepStreams ==
    ASSUME job \in Jobs, NEW from, NEW to, Step(from, to), to \notin {"stream", "placed", "reread"}
    PROVE  Streaming'
  BY DEF Step, Jobs, Streaming

LEMMA ImportingStreams ==
    ASSUME FileTypes, Importing
    PROVE  Streaming'
  <1>1. job \in Jobs  BY DEF FileTypes
  <1>2. ASSUME NEW cmd, Import(cmd)  PROVE Streaming'
    BY <1>2 DEF Import, Begin, Streaming
  <1>3. CASE Validate
    BY <1>1, <1>3, RaiseStreams, StepStreams DEF Validate
  <1>4. CASE Plan
    <2>1. PICK to \in {"cover", "hash"} : Step("plan", to)  BY <1>4 DEF Plan, Leave
    <2>2. QED  BY <1>1, <2>1, StepStreams
  <1>5. CASE Cover
    BY <1>1, <1>5, RaiseStreams, StepStreams DEF Cover
  <1>6. CASE HashesDone
    BY <1>1, <1>6, StepStreams DEF HashesDone
  <1>7. CASE Manifest
    BY <1>1, <1>7, RaiseStreams, StepStreams DEF Manifest, Leave
  <1>8. CASE Rename
    BY <1>1, <1>8, RaiseStreams, StepStreams DEF Rename
  <1>9. CASE Register
    BY <1>1, <1>9, StepStreams DEF Register, Leave
  <1>10. CASE Fence
    BY <1>10, IdleStreams DEF Fence, End
  <1>11. QED
    BY <1>2, <1>3, <1>4, <1>5, <1>6, <1>7, <1>8, <1>9, <1>10 DEF Importing

LEMMA TypesKept == FileTypes /\ [Next]_vars => FileTypes'
  <1> SUFFICES ASSUME FileTypes, [Next]_vars  PROVE FileTypes'
    OBVIOUS
  <1>1. release' = release
    BY ReleaseStays DEF vars, files
  <1>2. job' \in Jobs
    <2>1. CASE Coverage  BY <2>1, CoverageTypes
    <2>2. CASE Importing  BY <2>2, ImportingTypes
    <2>3. CASE Crash  BY <2>3, IdleType DEF Crash, End
    <2>4. ASSUME NEW f \in Payload, Write(f)  PROVE job' \in Jobs
      BY <2>4 DEF Write, FileTypes
    <2>5. CASE UNCHANGED vars  BY <2>5 DEF vars, FileTypes
    <2>6. QED  BY <2>1, <2>2, <2>3, <2>4, <2>5 DEF Next
  <1>3. Streaming'
    <2>1. CASE Coverage  BY <2>1, CoverageStreams
    <2>2. CASE Importing  BY <2>2, ImportingStreams
    <2>3. CASE Crash  BY <2>3, IdleStreams DEF Crash, End
    <2>4. ASSUME NEW f \in Payload, Write(f)  PROVE Streaming'
      BY <2>4 DEF Write, FileTypes, Streaming
    <2>5. CASE UNCHANGED vars  BY <2>5 DEF vars, FileTypes, Streaming
    <2>6. QED  BY <2>1, <2>2, <2>3, <2>4, <2>5 DEF Next
  <1>4. QED  BY <1>1, <1>2, <1>3 DEF FileTypes

LEMMA TypesAtFirst == Init => FileTypes
  BY IdleType DEF Init, FileTypes, Streaming, Idle

-----------------------------------------------------------------------------
(* Every step is a step of the hasher, or leaves it alone.                 *)

LEMMA FeedIsUpdate ==
    ASSUME NEW n \in Chunks, NEW left \in Nat \ {0}
    PROVE  Least(n, left) \in Nat \ {0}
  BY FilesAssumption DEF Least

LEMMA CoverageHashes ==
    ASSUME FileTypes, HashTypes, Coverage
    PROVE  [HashNext]_hashVars
  <1>1. job \in Jobs /\ Payload \subseteq HashedFiles
        /\ \A i \in DOMAIN release : release[i] \in HashedFiles
    BY PayloadType DEF FileTypes
  <1>2. pos \in Nat  BY DEF HashTypes
  <1>3. job.file # None => job.file \in HashedFiles  BY <1>1 DEF Jobs
  <1>4. Multifile \in BOOLEAN  BY DEF Multifile
  <1>5. ASSUME NEW f \in HashedFiles, Accumulate(f, SizeOf[f], Multifile)  PROVE HashNext
    BY <1>4, <1>5, LengthType DEF HashNext
  <1>6. Raise => HashNext  BY DEF Raise, HashNext
  <1>7. End => HashNext  BY DEF End, HashNext
  <1>8. ASSUME NEW n \in Nat \ {0}, Update(n)  PROVE HashNext
    BY <1>8 DEF HashNext, HashStep
  <1>9. Reset => HashNext  BY DEF HashNext, HashStep
  <1>10. ASSUME NEW cmd \in {"upgrade", "create"}, Upgrade(cmd)  PROVE UNCHANGED hashVars
    BY <1>10 DEF Upgrade, Begin
  <1>11. ASSUME NEW f \in Payload, Fetch(f)  PROVE HashNext
    BY <1>1, <1>5, <1>11 DEF Fetch
  <1>12. ASSUME NEW i \in DOMAIN release, Open(i)  PROVE HashNext
    BY <1>1, <1>5, <1>6, <1>12 DEF Open
  <1>13. CASE Read
    <2>1. /\ job.file \in HashedFiles /\ pos < LengthOf(job.file)
      BY <1>3, <1>13 DEF Read
    <2>2. PICK n \in Chunks : Update(Least(n, LengthOf(job.file) - pos))
      BY <1>13 DEF Read
    <2>3. LengthOf(job.file) - pos \in Nat \ {0}  BY <1>2, <2>1, LengthType
    <2>4. Least(n, LengthOf(job.file) - pos) \in Nat \ {0}  BY <2>3, FeedIsUpdate
    <2>5. QED  BY <1>8, <2>2, <2>4
  <1>14. CASE Work
    BY <1>14 DEF Work, HashNext, HashStep
  <1>15. CASE EndOfFile
    BY <1>15 DEF EndOfFile, HashNext, HashStep
  <1>16. CASE Misfit
    BY <1>6, <1>16 DEF Misfit
  <1>17. CASE Record
    BY <1>6, <1>17 DEF Record, HashNext
  <1>18. CASE Unlink
    BY <1>3, <1>5, <1>18 DEF Unlink, AtEnd
  <1>19. CASE Receive
    <2>1. pos < SizeOf[job.file] /\ job.step = "stream"  BY <1>19 DEF Receive
    <2>2. PICK n \in Chunks : Update(Least(n, SizeOf[job.file] - pos))
      BY <1>19 DEF Receive
    <2>3. job.file \in HashedFiles  BY <2>1 DEF FileTypes, Streaming
    <2>4. SizeOf[job.file] - pos \in Nat \ {0}  BY <1>2, <2>1, <2>3, LengthType
    <2>5. Least(n, SizeOf[job.file] - pos) \in Nat \ {0}  BY <2>4, FeedIsUpdate
    <2>6. QED  BY <1>8, <2>2, <2>5
  <1>20. CASE Again
    BY <1>9, <1>20 DEF Again
  <1>21. CASE Place
    BY <1>21 DEF Place
  <1>22. CASE Reread
    BY <1>9, <1>22 DEF Reread
  <1>23. CASE Create
    BY <1>6, <1>7, <1>23 DEF Create
  <1>24. CASE Upgraded
    BY <1>7, <1>24 DEF Upgraded
  <1>25. QED
    BY <1>10, <1>11, <1>12, <1>13, <1>14, <1>15, <1>16, <1>17, <1>18, <1>19, <1>20, <1>21,
       <1>22, <1>23, <1>24
    DEF Coverage

LEMMA ImportingHashes ==
    ASSUME Importing
    PROVE  [HashNext]_hashVars
  <1>1. Raise => HashNext  BY DEF Raise, HashNext
  <1>2. End => HashNext  BY DEF End, HashNext
  <1>3. \A from, to : Step(from, to) => UNCHANGED hashVars  BY DEF Step
  <1>4. QED
    BY <1>1, <1>2, <1>3
    DEF Importing, Import, Begin, Validate, Plan, Leave, Cover, HashesDone, Manifest, Rename,
        Register, Fence

LEMMA StepHashes == FileTypes /\ HashTypes /\ [Next]_vars => [HashNext]_hashVars
  <1> SUFFICES ASSUME FileTypes, HashTypes, [Next]_vars  PROVE [HashNext]_hashVars
    OBVIOUS
  <1>1. CASE Coverage  BY <1>1, CoverageHashes
  <1>2. CASE Importing  BY <1>2, ImportingHashes
  <1>3. CASE Crash  BY <1>3 DEF Crash, End, HashNext
  <1>4. ASSUME NEW f \in Payload, Write(f)  PROVE UNCHANGED hashVars
    BY <1>4 DEF Write
  <1>5. CASE UNCHANGED vars  BY <1>5 DEF vars
  <1>6. QED  BY <1>1, <1>2, <1>3, <1>4, <1>5 DEF Next

LEMMA HashingInv == Spec => [](FileTypes /\ HInv)
  <1>1. Init => FileTypes /\ HInv
    BY TypesAtFirst, HashInitInv DEF Init
  <1>2. FileTypes /\ HInv /\ [Next]_vars => (FileTypes /\ HInv)'
    BY TypesKept, StepHashes, HashNextKeeps DEF HInv
  <1>3. QED  BY <1>1, <1>2, PTL DEF Spec

\* The commands use the hasher as it is made to be used: each of their steps is one of
\* its own, or leaves it alone (file_hashes, stream_file_to_path_once, HashingWriter).
THEOREM CommandsUseTheHasher == Spec => HashSpec
  <1>1. Init => HashInit  BY DEF Init
  <1>2. FileTypes /\ HInv /\ [Next]_vars => [HashNext]_hashVars
    BY StepHashes DEF HInv
  <1>3. QED  BY <1>1, <1>2, HashingInv, PTL DEF Spec, HashSpec

\* Whatever command hashes a file, reads or receives it in chunks of any length, and
\* begins again, the v1 hashes are those of the pieces of the file.
THEOREM PayloadPiecesAreRight == Spec => []PiecesRight
  BY CommandsUseTheHasher, StreamedPiecesAreRight, PTL

\* And the v2 hashes are the layer and the root of the tree over the file.
THEOREM PayloadRootsAreRight == Spec => []RootsRight
  BY CommandsUseTheHasher, StreamedRootsAreRight, PTL

-----------------------------------------------------------------------------
(* What an import has left behind.                                         *)

\* What is under the staged root before the rename, by the step of the import.
Prepared ==
    /\ job.step \in {"cover", "manifest", "rename"} => "plan" \in meta
    /\ job.step = "hash" /\ job.cmd = "import" => "plan" \in meta
    /\ job.cmd = "import" => Payload \subseteq DOMAIN rows \cup job.todo
    /\ job.step \in {"manifest", "rename"} => Payload \subseteq DOMAIN rows
    /\ job.step = "rename" => "manifest" \in meta
    /\ DOMAIN rows # {} => "coverage" \in meta

ImportInv == FileTypes /\ Prepared /\ ArrivesWhole

\* Nothing is taken back.
Grows ==
    /\ meta \subseteq meta' /\ DOMAIN rows \subseteq DOMAIN rows'
    /\ UNCHANGED <<release, received>>
    /\ DOMAIN rows' # {} => "coverage" \in meta'

LEMMA PreparedAtFirst == Init => Prepared /\ ArrivesWhole
  <1>1. Init => job = Idle /\ DOMAIN rows = {} /\ (received => place = "staged")
    BY DEF Init
  <1>2. QED  BY <1>1 DEF Prepared, ArrivesWhole, Idle

\* A command that has ended, or has failed, needs nothing.
LEMMA EndedPrepared ==
    ASSUME ImportInv, Grows, place' = place, job' = Idle \/ Raise
    PROVE  Prepared' /\ ArrivesWhole'
  <1>1. job'.cmd = "none" /\ job'.step \in {"none", "failed"}
    BY DEF Raise, Idle
  <1>2. Prepared'  BY <1>1 DEF Grows, Prepared
  <1>3. ArrivesWhole'
    BY DEF ImportInv, Grows, ArrivesWhole, Payload
  <1>4. QED  BY <1>2, <1>3

\* A step that stays where it is in the command, or leads to nothing that is needed.
LEMMA KeptPrepared ==
    ASSUME ImportInv, Grows, place' = place, job'.cmd = job.cmd,
           job'.step \in {job.step, "stream", "placed", "reread"},
           job.cmd = "import" => Payload \subseteq DOMAIN rows' \cup job'.todo
    PROVE  Prepared' /\ ArrivesWhole'
  <1>1. Payload' = Payload  BY DEF Grows, Payload
  <1>2. Prepared'
    BY <1>1 DEF ImportInv, Prepared, Grows
  <1>3. ArrivesWhole'
    BY <1>1 DEF ImportInv, Grows, ArrivesWhole
  <1>4. QED  BY <1>2, <1>3

LEMMA StillGrows ==
    ASSUME ImportInv, UNCHANGED <<release, received, rows>>, meta \subseteq meta'
    PROVE  Grows
  BY DEF ImportInv, Prepared, Grows

\* A command that is no import begins.
LEMMA BegunPrepared ==
    ASSUME ImportInv, Grows, place' = place, job'.cmd # "import",
           job'.step \in {"hash", "stream"}
    PROVE  Prepared' /\ ArrivesWhole'
  <1>1. Payload' = Payload  BY DEF Grows, Payload
  <1>2. Prepared'  BY DEF Prepared, Grows
  <1>3. ArrivesWhole'  BY <1>1 DEF ImportInv, Grows, ArrivesWhole
  <1>4. QED  BY <1>2, <1>3

LEMMA CoverageArrives ==
    ASSUME ImportInv, Coverage
    PROVE  Prepared' /\ ArrivesWhole'
  <1> DEFINE Goal == Prepared' /\ ArrivesWhole'
  <1>1. job \in Jobs /\ (job.cmd = "import" => Payload \subseteq DOMAIN rows \cup job.todo)
    BY DEF ImportInv, FileTypes, Prepared
  <1>2. UNCHANGED <<release, received, rows, meta>> => Grows
    BY StillGrows
  <1> SUFFICES Goal  OBVIOUS
  <1> HIDE DEF Goal
  <1>3. ASSUME UNCHANGED <<release, received, rows, meta, place>>,
               job'.cmd = job.cmd, job'.todo = job.todo,
               job'.step \in {job.step, "stream", "placed", "reread"}
        PROVE  Goal
    BY <1>1, <1>2, <1>3, KeptPrepared DEF Goal
  <1>4. ASSUME UNCHANGED <<release, received, rows, meta, place>>, job' = Idle \/ Raise
        PROVE  Goal
    BY <1>2, <1>4, EndedPrepared DEF Goal
  <1>5. ASSUME NEW cmd \in {"upgrade", "create"}, Upgrade(cmd)  PROVE Goal
    <2>1. job'.cmd # "import" /\ job'.step = "hash"
          /\ UNCHANGED <<release, received, rows, meta, place>>
      BY <1>5 DEF Upgrade, Begin, files
    <2>2. QED  BY <1>2, <2>1, BegunPrepared DEF Goal
  <1>6. ASSUME NEW f \in Payload, Fetch(f)  PROVE Goal
    <2>1. job'.cmd # "import" /\ job'.step \in {"hash", "stream"}
          /\ UNCHANGED <<release, received, rows, meta>> /\ place' = place
      BY <1>6 DEF Fetch
    <2>2. QED  BY <1>2, <2>1, BegunPrepared DEF Goal
  <1>7. ASSUME NEW i \in DOMAIN release, Open(i)  PROVE Goal
    <2>1. UNCHANGED <<release, received, rows, meta, place>>  BY <1>7 DEF Open
    <2>2. CASE Raise  BY <1>4, <2>1, <2>2
    <2>3. CASE job' = [job EXCEPT !.file = release[i], !.tainted = FALSE]
      <3>1. job'.cmd = job.cmd /\ job'.todo = job.todo /\ job'.step = job.step
        BY <1>1, <2>3 DEF Jobs
      <3>2. QED  BY <1>3, <2>1, <3>1
    <2>4. QED  BY <1>7, <2>2, <2>3 DEF Open
  <1>8. CASE Read \/ Receive \/ Again
    <2>1. UNCHANGED <<release, received, rows, meta, place>>
      BY <1>8 DEF Read, Receive, Again, files
    <2>2. job'.cmd = job.cmd /\ job'.todo = job.todo /\ job'.step = job.step
      BY <1>1, <1>8 DEF Read, Receive, Again, Jobs
    <2>3. QED  BY <1>3, <2>1, <2>2
  <1>9. CASE Work \/ EndOfFile
    <2>1. UNCHANGED <<release, received, rows, meta, place, job>>
      BY <1>9 DEF Work, EndOfFile, files
    <2>2. QED  BY <1>3, <2>1
  <1>10. CASE Misfit
    BY <1>4, <1>10 DEF Misfit, files
  <1>11. CASE Record
    <2>1. UNCHANGED <<release, received, place>>  BY <1>11 DEF Record
    <2>2. CASE Raise /\ UNCHANGED <<rows, meta>>  BY <1>4, <2>1, <2>2
    <2>3. CASE /\ DOMAIN rows' = DOMAIN rows \cup {job.file}
               /\ meta' = meta \cup {"coverage"}
               /\ job' = IF job.cmd = "fetch" THEN Idle
                         ELSE [job EXCEPT !.file = None, !.todo = @ \ {job.file}]
      <3>1. Grows  BY <2>1, <2>3 DEF Grows
      <3>2. CASE job.cmd = "fetch"
        BY <2>1, <2>3, <3>1, <3>2, EndedPrepared DEF Goal
      <3>3. CASE job.cmd # "fetch"
        <4>1. job'.cmd = job.cmd /\ job'.step = job.step /\ job'.todo = job.todo \ {job.file}
          BY <1>1, <2>3, <3>3 DEF Jobs
        <4>2. job.cmd = "import" => Payload \subseteq DOMAIN rows' \cup job'.todo
          BY <1>1, <2>3, <4>1
        <4>3. QED  BY <2>1, <3>1, <4>1, <4>2, KeptPrepared DEF Goal
      <3>4. QED  BY <3>2, <3>3
    <2>4. QED
      BY <1>11, <2>2, <2>3 DEF Record
  <1>12. CASE Unlink \/ Place \/ Reread
    <2>1. UNCHANGED <<release, received, rows, meta, place>>
      BY <1>12 DEF Unlink, Place, Reread, files
    <2>2. job'.cmd = job.cmd /\ job'.todo = job.todo
          /\ job'.step \in {"stream", "placed", "reread"}
      BY <1>1, <1>12 DEF Unlink, Place, Reread, Jobs
    <2>3. QED  BY <1>3, <2>1, <2>2
  <1>13. CASE Create \/ Upgraded
    <2>1. UNCHANGED <<release, received, rows, meta, place>> /\ (job' = Idle \/ Raise)
      BY <1>13 DEF Create, Upgraded, End, files
    <2>2. QED  BY <1>4, <2>1
  <1>14. QED
    BY <1>5, <1>6, <1>7, <1>8, <1>9, <1>10, <1>11, <1>12, <1>13 DEF Coverage

LEMMA ImportingArrives ==
    ASSUME ImportInv, Importing
    PROVE  Prepared' /\ ArrivesWhole'
  <1> DEFINE Goal == Prepared' /\ ArrivesWhole'
  <1>1. job \in Jobs /\ Prepared /\ ArrivesWhole /\ Payload # {}
    BY PayloadType DEF ImportInv, FileTypes
  <1>2. UNCHANGED <<release, received, rows>> /\ meta \subseteq meta' => Grows
    BY StillGrows
  <1> SUFFICES Goal  OBVIOUS
  <1> HIDE DEF Goal
  <1>3. ASSUME Grows, place' = place, Raise \/ job' = Idle  PROVE Goal
    BY <1>3, EndedPrepared DEF Goal
  <1>4. ASSUME NEW from, NEW to, Step(from, to)
        PROVE  job'.cmd = job.cmd /\ job'.todo = job.todo /\ job.step = from /\ job'.step = to
    BY <1>1, <1>4 DEF Step, Jobs
  <1>5. ASSUME Grows  PROVE Payload' = Payload
    BY <1>5 DEF Grows, Payload
  <1>6. ASSUME NEW cmd \in {"import", "join"}, Import(cmd)  PROVE Goal
    <2>1. job' = [cmd |-> cmd, step |-> "validate", file |-> None, todo |-> Payload,
                  tainted |-> FALSE]
          /\ UNCHANGED <<release, received, rows, meta, place>>
      BY <1>6 DEF Import, Begin, files
    <2>2. Grows /\ Payload' = Payload  BY <1>2, <1>5, <2>1
    <2>3. job'.step = "validate" /\ job'.todo = Payload  BY <2>1
    <2>4. Prepared'  BY <2>2, <2>3 DEF Prepared, Grows
    <2>5. ArrivesWhole'  BY <1>1, <2>1, <2>2 DEF ArrivesWhole
    <2>6. QED  BY <2>4, <2>5 DEF Goal
  <1>7. CASE Validate
    <2>1. Grows /\ place' = place  BY <1>2, <1>7 DEF Validate
    <2>2. CASE Raise  BY <1>3, <2>1, <2>2
    <2>3. CASE Step("validate", "plan")
      <3>1. job'.cmd = job.cmd /\ job'.todo = job.todo /\ job'.step = "plan"  BY <1>4, <2>3
      <3>2. Payload' = Payload  BY <1>5, <2>1
      <3>3. Prepared'  BY <1>1, <2>1, <3>1, <3>2 DEF Prepared, Grows
      <3>4. ArrivesWhole'  BY <1>1, <2>1, <3>2 DEF ArrivesWhole, Grows
      <3>5. QED  BY <3>3, <3>4 DEF Goal
    <2>4. QED  BY <1>7, <2>2, <2>3 DEF Validate
  <1>8. CASE Plan
    <2>1. /\ UNCHANGED <<release, received, rows, place>> /\ meta' = meta \cup {"plan"}
          /\ Step("plan", IF job.cmd = "join" THEN "cover" ELSE "hash")
      BY <1>8 DEF Plan, Leave
    <2>2. Grows /\ Payload' = Payload  BY <1>2, <1>5, <2>1
    <2>3. job'.cmd = job.cmd /\ job'.todo = job.todo /\ job'.step \in {"cover", "hash"}
      BY <1>4, <2>1
    <2>4. Prepared'  BY <1>1, <2>1, <2>2, <2>3 DEF Prepared, Grows
    <2>5. ArrivesWhole'  BY <1>1, <2>1, <2>2 DEF ArrivesWhole, Grows
    <2>6. QED  BY <2>4, <2>5 DEF Goal
  <1>9. CASE Cover
    <2>1. UNCHANGED <<release, received, place>>  BY <1>9 DEF Cover
    <2>2. CASE Raise /\ UNCHANGED <<rows, meta>>
      BY <1>2, <1>3, <2>1, <2>2
    <2>3. CASE /\ Step("cover", "manifest")
               /\ DOMAIN rows' = Payload /\ meta' = meta \cup {"coverage"}
      <3>1. job'.cmd = job.cmd /\ job'.step = "manifest" /\ job.step = "cover"  BY <1>4, <2>3
      <3>2. Payload' = Payload  BY <2>1 DEF Payload
      <3>3. Prepared'  BY <1>1, <2>3, <3>1, <3>2 DEF Prepared
      <3>4. ArrivesWhole'  BY <1>1, <2>1, <2>3, <3>2 DEF ArrivesWhole
      <3>5. QED  BY <3>3, <3>4 DEF Goal
    <2>4. QED  BY <1>9, <2>2, <2>3 DEF Cover
  <1>10. CASE HashesDone
    <2>1. /\ UNCHANGED <<release, received, rows, meta, place>> /\ Step("hash", "manifest")
          /\ job.cmd = "import" /\ job.todo = {} /\ job.step = "hash"
      BY <1>10 DEF HashesDone, Hashed, files
    <2>2. Grows /\ Payload' = Payload  BY <1>2, <1>5, <2>1
    <2>3. job'.cmd = job.cmd /\ job'.todo = job.todo /\ job'.step = "manifest"
      BY <1>4, <2>1
    <2>4. Payload \subseteq DOMAIN rows  BY <1>1, <2>1 DEF Prepared
    <2>5. Prepared'  BY <1>1, <2>1, <2>2, <2>3, <2>4 DEF Prepared, Grows
    <2>6. ArrivesWhole'  BY <1>1, <2>1, <2>2 DEF ArrivesWhole
    <2>7. QED  BY <2>5, <2>6 DEF Goal
  <1>11. CASE Manifest
    <2>1. CASE Raise /\ UNCHANGED files
      BY <1>2, <1>3, <2>1 DEF files
    <2>2. CASE Leave("manifest", "manifest", "rename")
      <3>1. /\ UNCHANGED <<release, received, rows, place>> /\ meta' = meta \cup {"manifest"}
            /\ Step("manifest", "rename")
        BY <2>2 DEF Leave
      <3>2. Grows /\ Payload' = Payload  BY <1>2, <1>5, <3>1
      <3>3. job'.cmd = job.cmd /\ job'.todo = job.todo /\ job'.step = "rename"
            /\ job.step = "manifest"
        BY <1>4, <3>1
      <3>4. Prepared'  BY <1>1, <3>1, <3>2, <3>3 DEF Prepared, Grows
      <3>5. ArrivesWhole'  BY <1>1, <3>1, <3>2 DEF ArrivesWhole, Grows
      <3>6. QED  BY <3>4, <3>5 DEF Goal
    <2>3. QED  BY <1>11, <2>1, <2>2 DEF Manifest
  <1>12. CASE Rename
    <2>1. UNCHANGED <<release, received, rows, meta>>  BY <1>12 DEF Rename
    <2>2. Grows /\ Payload' = Payload  BY <1>2, <1>5, <2>1
    <2>3. CASE Raise /\ UNCHANGED place  BY <1>3, <2>2, <2>3
    <2>4. CASE Step("rename", "state") /\ place' = "canonical"
      <3>1. job'.cmd = job.cmd /\ job'.todo = job.todo /\ job'.step = "state"
            /\ job.step = "rename"
        BY <1>4, <2>4
      <3>2. /\ {"plan", "manifest", "coverage"} \subseteq meta
            /\ Payload \subseteq DOMAIN rows
        BY <1>1, <3>1 DEF Prepared
      <3>3. Prepared'  BY <1>1, <2>1, <2>2, <3>1 DEF Prepared, Grows
      <3>4. ArrivesWhole'  BY <2>1, <2>2, <3>2 DEF ArrivesWhole
      <3>5. QED  BY <3>3, <3>4 DEF Goal
    <2>5. QED  BY <1>12, <2>3, <2>4 DEF Rename
  <1>13. CASE Register
    <2>1. /\ UNCHANGED <<release, received, rows, place>> /\ meta \subseteq meta'
          /\ \E from, to \in {"state", "report", "record", "fence"} : Step(from, to)
      BY <1>13 DEF Register, Leave
    <2>2. Grows /\ Payload' = Payload  BY <1>2, <1>5, <2>1
    <2>3. job'.cmd = job.cmd /\ job'.todo = job.todo
          /\ job'.step \in {"state", "report", "record", "fence"}
      BY <1>4, <2>1
    <2>4. Prepared'  BY <1>1, <2>2, <2>3 DEF Prepared, Grows
    <2>5. ArrivesWhole'  BY <1>1, <2>1, <2>2 DEF ArrivesWhole, Grows
    <2>6. QED  BY <2>4, <2>5 DEF Goal
  <1>14. CASE Fence
    BY <1>2, <1>3, <1>14 DEF Fence, End
  <1>15. QED
    BY <1>6, <1>7, <1>8, <1>9, <1>10, <1>11, <1>12, <1>13, <1>14 DEF Importing

LEMMA ImportingInv == Spec => []ImportInv
  <1>1. Init => ImportInv
    BY TypesAtFirst, PreparedAtFirst DEF ImportInv
  <1>2. ImportInv /\ [Next]_vars => ImportInv'
    <2> SUFFICES ASSUME ImportInv, [Next]_vars  PROVE ImportInv'
      OBVIOUS
    <2>1. FileTypes'  BY TypesKept DEF ImportInv
    <2>2. Prepared' /\ ArrivesWhole'
      <3>1. CASE Coverage  BY <3>1, CoverageArrives
      <3>2. CASE Importing  BY <3>2, ImportingArrives
      <3>3. CASE Crash
        <4>1. UNCHANGED <<release, received, rows, meta, place>> /\ job' = Idle
          BY <3>3 DEF Crash, End, files
        <4>2. Grows  BY <4>1, StillGrows
        <4>3. QED  BY <4>1, <4>2, EndedPrepared
      <3>4. ASSUME NEW f \in Payload, Write(f)  PROVE Prepared' /\ ArrivesWhole'
        BY <3>4 DEF Write, ImportInv, Prepared, ArrivesWhole, Payload
      <3>5. CASE UNCHANGED vars
        BY <3>5 DEF vars, files, ImportInv, Prepared, ArrivesWhole, Payload
      <3>6. QED  BY <3>1, <3>2, <3>3, <3>4, <3>5 DEF Next
    <2>3. QED  BY <2>1, <2>2 DEF ImportInv
  <1>3. QED  BY <1>1, <1>2, PTL DEF Spec

\* An import or a join that is killed at any step, beside any writes of the client, and
\* with any downloads and upgrades later, has moved nothing to the canonical path before
\* its plan, its manifest and the coverage of every file were in it (finalize_payload).
THEOREM ImportsArriveWhole == Spec => []ArrivesWhole
  <1>1. ImportInv => ArrivesWhole  BY DEF ImportInv
  <1>2. QED  BY <1>1, ImportingInv, PTL

-----------------------------------------------------------------------------
(* What the coverage of a payload stands for.                              *)

DiskTypes ==
    /\ disk \in [Payload -> [body : {"right", "wrong", "short", "long", "absent"}, mtime : Nat]]
    /\ \A f \in Payload : disk[f].body \in Bodies(f)
    /\ DOMAIN rows \subseteq Payload
    /\ \A f \in DOMAIN rows : rows[f].mtime \in Nat /\ rows[f].mtime <= disk[f].mtime

JobTypes == job.todo \subseteq Payload /\ job.file \in Payload \cup {None}

\* What a row that is current stands for.
Vouched(f) == disk[f].body = "right" \/ f \in torn
Vouching == \A f \in Payload : Current(f) => Vouched(f)

\* What is still to be hashed has no current row.
Listed ==
    /\ job.step = "plan" => DOMAIN rows = {}
    /\ job.step = "hash" => \A f \in job.todo : ~Current(f)

\* What has been read of the file at work, or received for it.
Watched ==
    /\ job.file # None /\ job.step = "hash" /\ pos > 0 /\ disk[job.file].body = "wrong"
           => job.tainted \/ job.file \in torn
    /\ job.step \in {"placed", "reread"} => Vouched(job.file)
    /\ job.cmd = "join" /\ job.step \in {"validate", "plan", "cover"}
           => \A f \in Payload : Vouched(f)
    /\ job.step = "cover" => job.cmd = "join"

\* The hasher is made for the file at work, and is done at its end.
Fitted ==
    /\ job.file # None =>
          /\ hashed = [file |-> job.file, size |-> SizeOf[job.file], pad |-> Multifile]
          /\ job.step \in {"hash", "stream", "placed", "reread"}
          /\ job.step = "stream" => stage # "done"
    /\ stage = "done" => pos = hashed.size

CoverageInv == DiskTypes /\ JobTypes /\ Vouching /\ Listed /\ Watched /\ Fitted

\* What the invariant takes from those before it.
Known == FileTypes /\ HashTypes /\ Prepared

Unmoved == UNCHANGED <<release, disk, rows, torn>>

LEMMA UnmovedKeeps ==
    ASSUME DiskTypes, Vouching, Unmoved
    PROVE  /\ DiskTypes' /\ Vouching' /\ Payload' = Payload /\ Multifile' = Multifile
           /\ \A f : (Current(f)' <=> Current(f)) /\ (Vouched(f)' <=> Vouched(f))
  <1>1. UNCHANGED <<release, disk, rows, torn>>  BY DEF Unmoved
  <1>2. Payload' = Payload /\ Multifile' = Multifile  BY <1>1 DEF Payload, Multifile
  <1>3. \A f : Current(f)' <=> Current(f)  BY <1>1 DEF Current, Present, LengthOf
  <1>4. \A f : Vouched(f)' <=> Vouched(f)  BY <1>1 DEF Vouched
  <1>5. DiskTypes'  BY <1>1, <1>2 DEF DiskTypes
  <1>6. Vouching'  BY <1>2, <1>3, <1>4 DEF Vouching
  <1>7. QED  BY <1>2, <1>3, <1>4, <1>5, <1>6

LEMMA NoneIsNoFile == FileTypes => None \notin Payload /\ Payload \subseteq HashedFiles
  BY PayloadType, HashesAssumption

\* The command has ended.
LEMMA EndedCovers ==
    ASSUME CoverageInv, Unmoved, stage' = "idle",
           job' = Idle \/ job' = [Idle EXCEPT !.step = "failed"]
    PROVE  CoverageInv'
  <1>1. DiskTypes' /\ Vouching'  BY UnmovedKeeps DEF CoverageInv
  <1>2. job'.file = None /\ job'.todo = {} /\ job'.step \in {"none", "failed"}
    BY DEF Idle
  <1>3. JobTypes' /\ Listed' /\ Watched' /\ Fitted'
    BY <1>2 DEF JobTypes, Listed, Watched, Fitted
  <1>4. QED  BY <1>1, <1>3 DEF CoverageInv

LEMMA RaiseCovers == CoverageInv /\ Unmoved /\ Raise => CoverageInv'
  BY EndedCovers DEF Raise, Discard

LEMMA EndCovers == CoverageInv /\ Unmoved /\ End => CoverageInv'
  BY EndedCovers DEF End, Discard

\* A file is replaced, and no row of it is current.
Replaced(g, body, time) ==
    /\ g \in Payload /\ body \in Bodies(g) /\ time \in Nat /\ disk[g].mtime <= time
    /\ body = "absent" \/ disk[g].mtime < time
    /\ disk' = [disk EXCEPT ![g] = [body |-> body, mtime |-> time]]
    /\ UNCHANGED <<release, rows>>
    /\ torn \ {g} \subseteq torn'

LEMMA ReplacedKeeps ==
    ASSUME DiskTypes, Vouching, NEW g, NEW body, NEW time, Replaced(g, body, time)
    PROVE  /\ DiskTypes' /\ Vouching' /\ Payload' = Payload /\ Multifile' = Multifile
           /\ ~Current(g)' /\ disk'[g].body = body
           /\ \A f \in Payload \ {g} : /\ disk'[f] = disk[f]
                                       /\ Current(f)' <=> Current(f)
                                       /\ Vouched(f) => Vouched(f)'
  <1>1. /\ g \in Payload /\ body \in Bodies(g) /\ time \in Nat /\ disk[g].mtime <= time
        /\ body = "absent" \/ disk[g].mtime < time
        /\ disk' = [disk EXCEPT ![g] = [body |-> body, mtime |-> time]]
        /\ UNCHANGED <<release, rows>>
        /\ torn \ {g} \subseteq torn'
    BY DEF Replaced
  <1>2. Payload' = Payload /\ Multifile' = Multifile  BY <1>1 DEF Payload, Multifile
  <1>3. /\ disk \in [Payload -> [body : {"right", "wrong", "short", "long", "absent"}, mtime : Nat]]
        /\ \A f \in Payload : disk[f].body \in Bodies(f)
        /\ DOMAIN rows \subseteq Payload
        /\ \A f \in DOMAIN rows : rows[f].mtime \in Nat /\ rows[f].mtime <= disk[f].mtime
    BY DEF DiskTypes
  <1>4. body \in {"right", "wrong", "short", "long", "absent"}
    BY <1>1 DEF Bodies
  <1>5. disk'[g] = [body |-> body, mtime |-> time] /\ \A f \in Payload \ {g} : disk'[f] = disk[f]
    BY <1>1, <1>3
  <1>6. disk'[g].body = body /\ disk'[g].mtime = time  BY <1>5
  <1>7. DiskTypes'
    <2>1. disk' \in [Payload -> [body : {"right", "wrong", "short", "long", "absent"}, mtime : Nat]]
      BY <1>1, <1>3, <1>4
    <2>2. \A f \in Payload : disk'[f].body \in Bodies(f)
      BY <1>1, <1>3, <1>5, <1>6
    <2>3. \A f \in DOMAIN rows : rows[f].mtime \in Nat /\ rows[f].mtime <= disk'[f].mtime
      <3> SUFFICES ASSUME NEW f \in DOMAIN rows
                   PROVE  rows[f].mtime \in Nat /\ rows[f].mtime <= disk'[f].mtime
        OBVIOUS
      <3>1. CASE f # g  BY <1>3, <1>5, <3>1
      <3>2. CASE f = g
        <4>1. disk[g].mtime \in Nat  BY <1>1, <1>3
        <4>2. QED  BY <1>1, <1>3, <1>6, <3>2, <4>1
      <3>3. QED  BY <3>1, <3>2
    <2>4. rows' = rows  BY <1>1
    <2>5. QED  BY <1>2, <1>3, <2>1, <2>2, <2>3, <2>4 DEF DiskTypes
  <1>8. ~Current(g)'
    <2>1. CASE body = "absent"  BY <1>6, <2>1 DEF Current, Present
    <2>2. CASE disk[g].mtime < time
      <3>1. g \in DOMAIN rows => rows[g].mtime # time
        <4>1. disk[g].mtime \in Nat  BY <1>1, <1>3
        <4>2. QED  BY <1>1, <1>3, <2>2, <4>1
      <3>2. rows' = rows  BY <1>1
      <3>3. QED  BY <1>6, <3>1, <3>2 DEF Current
    <2>3. QED  BY <1>1, <2>1, <2>2
  <1>9. \A f \in Payload \ {g} : /\ Current(f)' <=> Current(f)
                                 /\ Vouched(f) => Vouched(f)'
    <2> SUFFICES ASSUME NEW f \in Payload \ {g}
                 PROVE  (Current(f)' <=> Current(f)) /\ (Vouched(f) => Vouched(f)')
      OBVIOUS
    <2>1. disk'[f] = disk[f] /\ rows' = rows  BY <1>1, <1>5
    <2>2. Current(f)' <=> Current(f)  BY <2>1 DEF Current, Present, LengthOf
    <2>3. Vouched(f) => Vouched(f)'  BY <1>1, <2>1 DEF Vouched
    <2>4. QED  BY <2>2, <2>3
  <1>10. Vouching'
    <2> SUFFICES ASSUME NEW f \in Payload, Current(f)'  PROVE Vouched(f)'
      BY <1>2 DEF Vouching
    <2>1. f # g  BY <1>8
    <2>2. Current(f) /\ (Vouched(f) => Vouched(f)')  BY <1>9, <2>1
    <2>3. QED  BY <2>2 DEF Vouching
  <1>11. QED  BY <1>2, <1>5, <1>6, <1>7, <1>8, <1>9, <1>10

\* The file is taken away, and its time stays.
LEMMA GoneIsReplaced ==
    ASSUME DiskTypes, NEW g \in Payload, disk' = [disk EXCEPT ![g].body = "absent"],
           UNCHANGED <<release, rows, torn>>
    PROVE  Replaced(g, "absent", disk[g].mtime)
  <1>1. disk \in [Payload -> [body : {"right", "wrong", "short", "long", "absent"}, mtime : Nat]]
    BY DEF DiskTypes
  <1>2. disk[g] \in [body : {"right", "wrong", "short", "long", "absent"}, mtime : Nat]
    BY <1>1
  <1>3. [disk[g] EXCEPT !.body = "absent"] = [body |-> "absent", mtime |-> disk[g].mtime]
    BY <1>2
  <1>4. disk' = [disk EXCEPT ![g] = [disk[g] EXCEPT !.body = "absent"]]  OBVIOUS
  <1>5. disk' = [disk EXCEPT ![g] = [body |-> "absent", mtime |-> disk[g].mtime]]
    BY <1>3, <1>4
  <1>6. disk[g].mtime \in Nat /\ disk[g].mtime <= disk[g].mtime  BY <1>2
  <1>7. "absent" \in Bodies(g)  BY DEF Bodies
  <1>8. QED  BY <1>5, <1>6, <1>7 DEF Replaced

LEMMA PutIsReplaced ==
    ASSUME DiskTypes, NEW g \in Payload, NEW body \in Bodies(g), Put(g, body),
           UNCHANGED <<release, rows>>, torn \ {g} \subseteq torn'
    PROVE  Replaced(g, body, disk[g].mtime + 1)
  <1>1. disk \in [Payload -> [body : {"right", "wrong", "short", "long", "absent"}, mtime : Nat]]
    BY DEF DiskTypes
  <1>2. disk[g].mtime \in Nat  BY <1>1
  <1>3. disk' = [disk EXCEPT ![g] = [body |-> body, mtime |-> disk[g].mtime + 1]]
    BY DEF Put
  <1>4. QED  BY <1>2, <1>3 DEF Replaced

-----------------------------------------------------------------------------
(* The steps of the commands that hash.                                    *)

LEMMA UpgradeCovers ==
    ASSUME Known, CoverageInv, NEW cmd \in {"upgrade", "create"}, Upgrade(cmd)
    PROVE  CoverageInv'
  <1>1. /\ job' = [cmd |-> cmd, step |-> "hash", file |-> None, todo |-> Missing, tainted |-> FALSE]
        /\ Unmoved /\ UNCHANGED <<stage, pos, hashed>>
    BY DEF Upgrade, Begin, files, hashVars, Unmoved
  <1>2. /\ DiskTypes' /\ Vouching' /\ Payload' = Payload
        /\ \A f : Current(f)' <=> Current(f)
    BY <1>1, UnmovedKeeps DEF CoverageInv
  <1>3. job'.cmd = cmd /\ job'.step = "hash" /\ job'.file = None /\ job'.todo = Missing
    BY <1>1
  <1>4. JobTypes'  BY <1>2, <1>3 DEF JobTypes, Missing
  <1>5. Listed'  BY <1>2, <1>3 DEF Listed, Missing
  <1>6. Watched' /\ Fitted'  BY <1>1, <1>3 DEF Watched, Fitted, CoverageInv
  <1>7. QED  BY <1>2, <1>4, <1>5, <1>6 DEF CoverageInv

LEMMA AccumulateFits ==
    ASSUME NEW f, Accumulate(f, SizeOf[f], Multifile), job'.file = f, Multifile' = Multifile,
           job'.step \in {"hash", "stream", "placed", "reread"}
    PROVE  Fitted' /\ pos' = 0
  <1>1. /\ hashed' = [file |-> f, size |-> SizeOf[f], pad |-> Multifile]
        /\ stage' = "feeding" /\ pos' = 0
    BY DEF Accumulate, Restart
  <1>2. QED  BY <1>1 DEF Fitted

LEMMA FetchCovers ==
    ASSUME Known, CoverageInv, NEW f \in Payload, Fetch(f)
    PROVE  CoverageInv'
  <1>1. /\ job' = [cmd |-> "fetch", step |-> IF Present(f) THEN "hash" ELSE "stream",
                   file |-> f, todo |-> {}, tainted |-> FALSE]
        /\ Accumulate(f, SizeOf[f], Multifile)
        /\ disk' = IF Present(f) THEN disk ELSE [disk EXCEPT ![f].body = "absent"]
        /\ UNCHANGED <<release, rows, torn>>
    BY DEF Fetch
  <1>2. DiskTypes' /\ Vouching' /\ Payload' = Payload /\ Multifile' = Multifile
    <2>1. CASE Present(f)
      <3>1. Unmoved  BY <1>1, <2>1 DEF Unmoved
      <3>2. QED  BY <3>1, UnmovedKeeps DEF CoverageInv
    <2>2. CASE ~Present(f)
      <3>1. Replaced(f, "absent", disk[f].mtime)
        BY <1>1, <2>2, GoneIsReplaced DEF CoverageInv
      <3>2. QED  BY <3>1, ReplacedKeeps DEF CoverageInv
    <2>3. QED  BY <2>1, <2>2
  <1>3. job'.file = f /\ job'.cmd = "fetch" /\ job'.step \in {"hash", "stream"} /\ job'.todo = {}
    BY <1>1
  <1>4. Fitted' /\ pos' = 0  BY <1>1, <1>2, <1>3, AccumulateFits
  <1>5. JobTypes' /\ Listed' /\ Watched'
    BY <1>2, <1>3, <1>4 DEF JobTypes, Listed, Watched
  <1>6. QED  BY <1>2, <1>4, <1>5 DEF CoverageInv

LEMMA OpenCovers ==
    ASSUME Known, CoverageInv, NEW i \in DOMAIN release, Open(i)
    PROVE  CoverageInv'
  <1> DEFINE g == release[i]
  <1>1. job.step = "hash" /\ g \in job.todo /\ UNCHANGED <<release, disk, rows>>
    BY DEF Open
  <1>2. CASE Raise /\ UNCHANGED torn
    BY <1>1, <1>2, RaiseCovers DEF Unmoved
  <1>3. CASE /\ job' = [job EXCEPT !.file = g, !.tainted = FALSE]
             /\ Accumulate(g, SizeOf[g], Multifile)
             /\ torn' = torn \ {g}
    <2>1. job \in Jobs  BY DEF Known, FileTypes
    <2>2. job'.file = g /\ job'.step = "hash" /\ job'.todo = job.todo
      BY <1>1, <1>3, <2>1 DEF Jobs
    <2>3. Payload' = Payload /\ Multifile' = Multifile /\ \A f : Current(f)' <=> Current(f)
      BY <1>1 DEF Payload, Multifile, Current, Present, LengthOf
    <2>4. DiskTypes'  BY <1>1, <2>3 DEF CoverageInv, DiskTypes
    <2>5. Listed' /\ ~Current(g)
      BY <1>1, <2>2, <2>3 DEF CoverageInv, Listed
    <2>6. Vouching'
      <3> SUFFICES ASSUME NEW f \in Payload, Current(f)'  PROVE Vouched(f)'
        BY <2>3 DEF Vouching
      <3>1. Current(f) /\ f # g  BY <2>3, <2>5
      <3>2. Vouched(f)  BY <3>1 DEF CoverageInv, Vouching
      <3>3. QED  BY <1>1, <1>3, <3>1, <3>2 DEF Vouched
    <2>7. Fitted' /\ pos' = 0  BY <1>3, <2>2, <2>3, AccumulateFits
    <2>8. JobTypes'  BY <1>1, <2>2, <2>3 DEF CoverageInv, JobTypes
    <2>9. Watched'  BY <2>2, <2>7 DEF Watched
    <2>10. QED  BY <2>4, <2>5, <2>6, <2>7, <2>8, <2>9 DEF CoverageInv
  <1>4. QED  BY <1>2, <1>3 DEF Open

LEMMA UpdateFits ==
    ASSUME Fitted, NEW n, Update(n), job'.file = job.file, job'.step = job.step,
           Multifile' = Multifile
    PROVE  Fitted'
  <1>1. hashed' = hashed /\ stage' \in {"feeding", "raised"}  BY DEF Update
  <1>2. QED  BY <1>1 DEF Fitted

LEMMA ReadCovers ==
    ASSUME Known, CoverageInv, Read
    PROVE  CoverageInv'
  <1>1. /\ job' = [job EXCEPT !.tainted = @ \/ disk[job.file].body = "wrong"]
        /\ Unmoved
        /\ \E n : Update(n)
    BY DEF Read, files, Unmoved
  <1>2. job \in Jobs  BY DEF Known, FileTypes
  <1>3. /\ job'.cmd = job.cmd /\ job'.step = job.step /\ job'.file = job.file
        /\ job'.todo = job.todo
        /\ job'.tainted = (job.tainted \/ disk[job.file].body = "wrong")
    BY <1>1, <1>2 DEF Jobs
  <1>4. /\ DiskTypes' /\ Vouching' /\ Payload' = Payload /\ Multifile' = Multifile
        /\ \A f : (Current(f)' <=> Current(f)) /\ (Vouched(f)' <=> Vouched(f))
    BY <1>1, UnmovedKeeps DEF CoverageInv
  <1>5. Fitted'  BY <1>1, <1>3, <1>4, UpdateFits DEF CoverageInv
  <1>6. JobTypes' /\ Listed'
    BY <1>1, <1>3, <1>4 DEF CoverageInv, JobTypes, Listed, Unmoved
  <1>7. Watched'
    <2>1. disk' = disk /\ torn' = torn  BY <1>1 DEF Unmoved
    <2>2. disk'[job'.file].body = "wrong" => job'.tainted  BY <1>3, <2>1
    <2>3. \A f : Vouched(f)' <=> Vouched(f)  BY <2>1 DEF Vouched
    <2>4. Vouched(job.file)' <=> Vouched(job.file)  BY <1>3, <2>1 DEF Vouched
    <2>5. Watched  BY DEF CoverageInv
    <2>6. job'.step \in {"placed", "reread"} => Vouched(job.file)'
      BY <1>3, <2>4, <2>5 DEF Watched
    <2>7. job'.cmd = "join" /\ job'.step \in {"validate", "plan", "cover"}
             => \A f \in Payload' : Vouched(f)'
      BY <1>3, <1>4, <2>3, <2>5 DEF Watched
    <2>8. job'.step = "cover" => job'.cmd = "join"
      BY <1>3, <2>5 DEF Watched
    <2>9. QED  BY <2>2, <2>6, <2>7, <2>8 DEF Watched
  <1>8. QED  BY <1>4, <1>5, <1>6, <1>7 DEF CoverageInv

\* The hasher works on.
LEMMA WorkCovers ==
    ASSUME CoverageInv, Unmoved, job' = job, UNCHANGED <<hashed, pos>>,
           stage' = stage \/ job.step # "stream",
           stage' = "done" => pos = hashed.size
    PROVE  CoverageInv'
  <1>1. /\ DiskTypes' /\ Vouching' /\ Payload' = Payload /\ Multifile' = Multifile
        /\ \A f : (Current(f)' <=> Current(f)) /\ (Vouched(f)' <=> Vouched(f))
    BY UnmovedKeeps DEF CoverageInv
  <1>2. JobTypes' /\ Listed'
    BY <1>1 DEF CoverageInv, JobTypes, Listed, Unmoved
  <1>3. Watched'
    BY <1>1 DEF CoverageInv, Watched, Unmoved
  <1>4. Fitted'
    BY <1>1 DEF CoverageInv, Fitted
  <1>5. QED  BY <1>1, <1>2, <1>3, <1>4 DEF CoverageInv

LEMMA EndOfFileCovers ==
    ASSUME CoverageInv, EndOfFile
    PROVE  CoverageInv'
  <1>1. Unmoved /\ job' = job /\ UNCHANGED <<hashed, pos>>
    BY DEF EndOfFile, Finalize, files, Unmoved
  <1>2. job.step # "stream"  BY DEF EndOfFile
  <1>3. stage' = "done" => pos = hashed.size
    BY DEF EndOfFile, Finalize
  <1>4. QED  BY <1>1, <1>2, <1>3, WorkCovers

\* What record finds in the file at work is right, or was written while it was read.
LEMMA RecordedIsVouched ==
    ASSUME Known, CoverageInv, job.file # None, stage = "done", ~Refuse
    PROVE  Vouched(job.file) /\ job.file \in Payload
  <1> DEFINE g == job.file
  <1>1. g \in Payload  BY DEF CoverageInv, JobTypes
  <1>2. Present(g) /\ ~job.tainted  BY DEF Refuse
  <1>3. /\ hashed = [file |-> g, size |-> SizeOf[g], pad |-> Multifile]
        /\ job.step \in {"hash", "placed", "reread"}
        /\ pos = hashed.size
    BY DEF CoverageInv, Fitted
  <1>4. CASE job.step \in {"placed", "reread"}
    BY <1>1, <1>4 DEF CoverageInv, Watched
  <1>5. CASE job.step = "hash"
    <2>1. g \in HashedFiles /\ SizeOf[g] \in Nat
      BY <1>1, NoneIsNoFile, LengthType DEF Known
    <2>2. disk[g].body \in Bodies(g)  BY <1>1 DEF CoverageInv, DiskTypes
    <2>3. disk[g].body \in {"right", "wrong"}
      <3>1. disk[g].body # "absent"  BY <1>2 DEF Present
      <3>2. disk[g].body # "long"
        <4> SUFFICES ASSUME disk[g].body = "long"  PROVE FALSE
          OBVIOUS
        <4>1. LengthOf(g) = SizeOf[g] + 1  BY DEF LengthOf
        <4>2. LengthOf(g) = SizeOf[g]  BY <1>2 DEF Present
        <4>3. QED  BY <2>1, <4>1, <4>2
      <3>3. disk[g].body # "short"
        <4> SUFFICES ASSUME disk[g].body = "short"  PROVE FALSE
          OBVIOUS
        <4>1. LengthOf(g) = SizeOf[g] \div 2  BY DEF LengthOf
        <4>2. LengthOf(g) = SizeOf[g]  BY <1>2 DEF Present
        <4>3. SizeOf[g] # 0  BY <2>2 DEF Bodies
        <4>4. PICK n \in Nat \ {0} : n = SizeOf[g]  BY <2>1, <4>3
        <4>5. n \div 2 # n  BY <4>4
        <4>6. QED  BY <4>1, <4>2, <4>4, <4>5
      <3>4. QED  BY <2>2, <3>1, <3>2, <3>3 DEF Bodies
    <2>4. CASE disk[g].body = "right"  BY <1>1, <2>4 DEF Vouched
    <2>5. CASE disk[g].body = "wrong"
      <3>1. SizeOf[g] # 0  BY <2>2, <2>5 DEF Bodies
      <3>2. pos > 0  BY <1>3, <2>1, <3>1
      <3>3. g \in torn  BY <1>2, <1>5, <2>5, <3>2 DEF CoverageInv, Watched
      <3>4. QED  BY <1>1, <3>3 DEF Vouched
    <2>6. QED  BY <2>3, <2>4, <2>5
  <1>6. QED  BY <1>3, <1>4, <1>5

LEMMA RecordCovers ==
    ASSUME Known, CoverageInv, Record
    PROVE  CoverageInv'
  <1> DEFINE g == job.file
  <1>1. g # None /\ stage = "done" /\ UNCHANGED <<release, disk, torn>>
    BY DEF Record
  <1>2. CASE Raise /\ UNCHANGED rows
    BY <1>1, <1>2, RaiseCovers DEF Unmoved
  <1>3. CASE /\ ~Refuse
             /\ rows' = [f \in DOMAIN rows \cup {g} |-> IF f = g THEN RowOf(f) ELSE rows[f]]
             /\ job' = IF job.cmd = "fetch" THEN Idle
                       ELSE [job EXCEPT !.file = None, !.todo = @ \ {g}]
             /\ Discard
    <2>1. Vouched(g) /\ g \in Payload  BY <1>1, <1>3, RecordedIsVouched
    <2>2. job \in Jobs  BY DEF Known, FileTypes
    <2>3. /\ job'.file = None /\ job'.todo \subseteq job.todo \ {g}
          /\ job'.step = "none" \/ (job'.step = job.step /\ job.cmd # "fetch")
      BY <1>3, <2>2 DEF Jobs, Idle
    <2>4. Payload' = Payload  BY <1>1 DEF Payload
    <2>5. \A f \in Payload \ {g} : Current(f)' <=> Current(f)
      <3> SUFFICES ASSUME NEW f \in Payload \ {g}  PROVE Current(f)' <=> Current(f)
        OBVIOUS
      <3>1. (f \in DOMAIN rows' <=> f \in DOMAIN rows) /\ (f \in DOMAIN rows => rows'[f] = rows[f])
        BY <1>3
      <3>2. disk' = disk  BY <1>1
      <3>3. QED  BY <3>1, <3>2 DEF Current, Present, LengthOf
    <2>6. DiskTypes'
      <3>1. /\ disk \in [Payload -> [body : {"right", "wrong", "short", "long", "absent"},
                                     mtime : Nat]]
            /\ DOMAIN rows \subseteq Payload
            /\ \A f \in DOMAIN rows : rows[f].mtime \in Nat /\ rows[f].mtime <= disk[f].mtime
        BY DEF CoverageInv, DiskTypes
      <3>2. DOMAIN rows' \subseteq Payload  BY <1>3, <2>1, <3>1
      <3>3. ASSUME NEW f \in DOMAIN rows'
            PROVE  rows'[f].mtime \in Nat /\ rows'[f].mtime <= disk[f].mtime
        <4>1. CASE f = g
          <5>1. rows'[f].mtime = disk[f].mtime  BY <1>3, <4>1 DEF RowOf
          <5>2. disk[f].mtime \in Nat  BY <2>1, <3>1, <4>1
          <5>3. QED  BY <5>1, <5>2
        <4>2. CASE f # g
          <5>1. f \in DOMAIN rows /\ rows'[f] = rows[f]  BY <1>3, <3>3, <4>2
          <5>2. QED  BY <3>1, <5>1
        <4>3. QED  BY <4>1, <4>2
      <3>4. disk' = disk  BY <1>1
      <3>5. \A f \in Payload' : disk'[f].body \in Bodies(f)
        BY <2>4, <3>4 DEF CoverageInv, DiskTypes
      <3>6. QED  BY <2>4, <3>1, <3>2, <3>3, <3>4, <3>5 DEF DiskTypes
    <2>7. Vouching'
      <3> SUFFICES ASSUME NEW f \in Payload, Current(f)'  PROVE Vouched(f)'
        BY <2>4 DEF Vouching
      <3>1. Vouched(f)
        <4>1. CASE f = g  BY <2>1, <4>1
        <4>2. CASE f # g  BY <2>5, <4>2 DEF CoverageInv, Vouching
        <4>3. QED  BY <4>1, <4>2
      <3>2. QED  BY <1>1, <3>1 DEF Vouched
    <2>8. JobTypes'  BY <2>3, <2>4 DEF CoverageInv, JobTypes
    <2>9. job.step \in {"hash", "stream", "placed", "reread"}
      BY <1>1 DEF CoverageInv, Fitted
    <2>10. Listed'
      <3>1. job'.step # "plan"  BY <2>3, <2>9
      <3>2. ASSUME job'.step = "hash", NEW f \in job'.todo  PROVE ~Current(f)'
        <4>1. f \in job.todo /\ f # g /\ job.step = "hash" /\ f \in Payload
          BY <2>3, <3>2 DEF CoverageInv, JobTypes
        <4>2. ~Current(f)  BY <4>1 DEF CoverageInv, Listed
        <4>3. QED  BY <2>5, <4>1, <4>2
      <3>3. QED  BY <3>1, <3>2 DEF Listed
    <2>11. job'.step \notin {"placed", "reread", "validate", "plan", "cover"}
      BY <2>3, <2>9 DEF Known, FileTypes, Streaming
    <2>12. Watched'  BY <2>3, <2>11 DEF Watched
    <2>13. Fitted'  BY <1>3, <2>3 DEF Fitted, Discard
    <2>14. QED  BY <2>6, <2>7, <2>8, <2>10, <2>12, <2>13 DEF CoverageInv
  <1>4. QED  BY <1>2, <1>3 DEF Record

LEMMA UnlinkCovers ==
    ASSUME Known, CoverageInv, Unlink
    PROVE  CoverageInv'
  <1> DEFINE g == job.file
  <1>1. /\ g # None
        /\ job' = [job EXCEPT !.step = "stream", !.tainted = FALSE]
        /\ Accumulate(g, SizeOf[g], Multifile)
        /\ disk' = [disk EXCEPT ![g].body = "absent"]
        /\ UNCHANGED <<release, rows, torn>>
    BY DEF Unlink, AtEnd
  <1>2. g \in Payload /\ job \in Jobs
    BY <1>1 DEF CoverageInv, JobTypes, Known, FileTypes
  <1>3. Replaced(g, "absent", disk[g].mtime)
    BY <1>1, <1>2, GoneIsReplaced DEF CoverageInv
  <1>4. DiskTypes' /\ Vouching' /\ Payload' = Payload /\ Multifile' = Multifile
    BY <1>3, ReplacedKeeps DEF CoverageInv
  <1>5. job'.file = g /\ job'.step = "stream" /\ job'.todo = job.todo
    BY <1>1, <1>2 DEF Jobs
  <1>6. Fitted'  BY <1>1, <1>4, <1>5, AccumulateFits
  <1>7. JobTypes' /\ Listed' /\ Watched'
    BY <1>2, <1>4, <1>5 DEF CoverageInv, JobTypes, Listed, Watched
  <1>8. QED  BY <1>4, <1>6, <1>7 DEF CoverageInv

\* A download goes on, from where it is or from the start.
LEMMA StreamCovers ==
    ASSUME CoverageInv, Unmoved, job'.step = "stream", job'.file = job.file,
           job'.todo = job.todo, Fitted'
    PROVE  CoverageInv'
  <1>1. DiskTypes' /\ Vouching' /\ Payload' = Payload
    BY UnmovedKeeps DEF CoverageInv
  <1>2. JobTypes' /\ Listed' /\ Watched'
    BY <1>1 DEF CoverageInv, JobTypes, Listed, Watched
  <1>3. QED  BY <1>1, <1>2 DEF CoverageInv

LEMMA ReceiveCovers ==
    ASSUME Known, CoverageInv, Receive
    PROVE  CoverageInv'
  <1>1. job.step = "stream" /\ Unmoved /\ \E n : Update(n)
    BY DEF Receive, files, Unmoved
  <1>2. job \in Jobs  BY DEF Known, FileTypes
  <1>3. job'.step = job.step /\ job'.file = job.file /\ job'.todo = job.todo
    BY <1>2 DEF Receive, Jobs
  <1>4. Multifile' = Multifile  BY <1>1 DEF Unmoved, Multifile
  <1>5. Fitted'  BY <1>1, <1>3, <1>4, UpdateFits DEF CoverageInv
  <1>6. QED  BY <1>1, <1>3, <1>5, StreamCovers

\* The hasher is reset, for the file that it was made for.
LEMMA ResetFits ==
    ASSUME Fitted, Reset, job.file # None, job'.file = job.file,
           job'.step \in {"stream", "reread"}, Multifile' = Multifile
    PROVE  Fitted'
  <1>1. hashed' = hashed /\ stage' = "feeding"  BY DEF Reset
  <1>2. QED  BY <1>1 DEF Fitted

LEMMA AgainCovers ==
    ASSUME Known, CoverageInv, Again
    PROVE  CoverageInv'
  <1>1. job.step = "stream" /\ Unmoved /\ Reset
    BY DEF Again, files, Unmoved
  <1>2. job \in Jobs /\ job.file \in HashedFiles
    BY <1>1 DEF Known, FileTypes, Streaming
  <1>3. job'.step = "stream" /\ job'.file = job.file /\ job'.todo = job.todo
    BY <1>1, <1>2 DEF Again, Jobs
  <1>4. Multifile' = Multifile  BY <1>1 DEF Unmoved, Multifile
  <1>5. job.file # None  BY <1>2, HashesAssumption
  <1>6. Fitted'  BY <1>1, <1>3, <1>4, <1>5, ResetFits DEF CoverageInv
  <1>7. QED  BY <1>1, <1>3, <1>6, StreamCovers

LEMMA PlaceCovers ==
    ASSUME Known, CoverageInv, Place
    PROVE  CoverageInv'
  <1> DEFINE g == job.file
  <1>1. /\ job.step = "stream" /\ Put(g, "right")
        /\ job' = [job EXCEPT !.step = "placed"]
        /\ torn' = torn \ {g}
        /\ UNCHANGED <<release, rows, hashed, stage, pos>>
    BY DEF Place, hashVars
  <1>2. job \in Jobs /\ g \in HashedFiles
    BY <1>1 DEF Known, FileTypes, Streaming
  <1>3. g \in Payload /\ g # None
    BY <1>2, HashesAssumption DEF CoverageInv, JobTypes
  <1>4. Replaced(g, "right", disk[g].mtime + 1)
    <2>1. "right" \in Bodies(g)  BY DEF Bodies
    <2>2. QED  BY <1>1, <1>3, <2>1, PutIsReplaced DEF CoverageInv
  <1>5. /\ DiskTypes' /\ Vouching' /\ Payload' = Payload /\ Multifile' = Multifile
        /\ disk'[g].body = "right"
    BY <1>4, ReplacedKeeps DEF CoverageInv
  <1>6. job'.file = g /\ job'.step = "placed" /\ job'.todo = job.todo
    BY <1>1, <1>2 DEF Jobs
  <1>7. JobTypes' /\ Listed'
    BY <1>3, <1>5, <1>6 DEF CoverageInv, JobTypes, Listed
  <1>8. Vouched(job.file)'  BY <1>5, <1>6 DEF Vouched
  <1>9. Watched'  BY <1>6, <1>8 DEF Watched
  <1>10. Fitted'
    BY <1>1, <1>3, <1>5, <1>6 DEF CoverageInv, Fitted
  <1>11. QED  BY <1>5, <1>7, <1>9, <1>10 DEF CoverageInv

LEMMA RereadCovers ==
    ASSUME Known, CoverageInv, Reread
    PROVE  CoverageInv'
  <1>1. /\ job.step = "placed" /\ job' = [job EXCEPT !.step = "reread"]
        /\ Reset /\ Unmoved
    BY DEF Reread, files, Unmoved
  <1>2. job \in Jobs /\ job.file \in HashedFiles
    BY <1>1 DEF Known, FileTypes, Streaming
  <1>3. job.file # None  BY <1>2, HashesAssumption
  <1>4. job'.step = "reread" /\ job'.file = job.file /\ job'.todo = job.todo
    BY <1>1, <1>2 DEF Jobs
  <1>5. DiskTypes' /\ Vouching' /\ Payload' = Payload /\ Multifile' = Multifile
    BY <1>1, UnmovedKeeps DEF CoverageInv
  <1>6. Fitted'  BY <1>1, <1>3, <1>4, <1>5, ResetFits DEF CoverageInv
  <1>7. JobTypes' /\ Listed'
    BY <1>4, <1>5 DEF CoverageInv, JobTypes, Listed
  <1>8. Vouched(job.file)
    BY <1>1 DEF CoverageInv, Watched
  <1>9. Vouched(job.file)'
    BY <1>1, <1>4, <1>8 DEF Vouched, Unmoved
  <1>10. Watched'  BY <1>4, <1>9 DEF Watched
  <1>11. QED  BY <1>5, <1>6, <1>7, <1>10 DEF CoverageInv

LEMMA CoverageCovers ==
    ASSUME Known, CoverageInv, Coverage
    PROVE  CoverageInv'
  <1>1. CASE \E cmd \in {"upgrade", "create"} : Upgrade(cmd)  BY <1>1, UpgradeCovers
  <1>2. CASE \E f \in Payload : Fetch(f)  BY <1>2, FetchCovers
  <1>3. CASE \E i \in DOMAIN release : Open(i)  BY <1>3, OpenCovers
  <1>4. CASE Read  BY <1>4, ReadCovers
  <1>5. CASE Work
    <2>1. job.file # None /\ (FillPiece \/ FillBlock) /\ Unmoved /\ job' = job
      BY <1>5 DEF Work, files, Unmoved
    <2>2. UNCHANGED <<hashed, pos, stage>>  BY <2>1 DEF FillPiece, FillBlock
    <2>3. stage' = "done" => pos = hashed.size
      BY <2>2 DEF CoverageInv, Fitted
    <2>4. QED  BY <2>1, <2>2, <2>3, WorkCovers
  <1>6. CASE EndOfFile  BY <1>6, EndOfFileCovers
  <1>7. CASE Misfit  BY <1>7, RaiseCovers DEF Misfit, files, Unmoved
  <1>8. CASE Record  BY <1>8, RecordCovers
  <1>9. CASE Unlink  BY <1>9, UnlinkCovers
  <1>10. CASE Receive  BY <1>10, ReceiveCovers
  <1>11. CASE Again  BY <1>11, AgainCovers
  <1>12. CASE Place  BY <1>12, PlaceCovers
  <1>13. CASE Reread  BY <1>13, RereadCovers
  <1>14. CASE Create \/ Upgraded
    BY <1>14, RaiseCovers, EndCovers DEF Create, Upgraded, files, Unmoved
  <1>15. QED
    BY <1>1, <1>2, <1>3, <1>4, <1>5, <1>6, <1>7, <1>8, <1>9, <1>10, <1>11, <1>12, <1>13, <1>14
    DEF Coverage

-----------------------------------------------------------------------------
(* The steps of an import, and of everyone else.                           *)

LEMMA ImportCovers ==
    ASSUME Known, CoverageInv, NEW cmd \in {"import", "join"}, Import(cmd)
    PROVE  CoverageInv'
  <1>1. /\ job' = [cmd |-> cmd, step |-> "validate", file |-> None, todo |-> Payload,
                   tainted |-> FALSE]
        /\ cmd = "join" => \A f \in Payload : disk[f].body = "right"
        /\ Unmoved /\ UNCHANGED <<hashed, stage, pos>>
    BY DEF Import, Begin, files, hashVars, Unmoved
  <1>2. job'.cmd = cmd /\ job'.step = "validate" /\ job'.file = None /\ job'.todo = Payload
    BY <1>1
  <1>3. /\ DiskTypes' /\ Vouching' /\ Payload' = Payload
        /\ \A f : Vouched(f)' <=> Vouched(f)
    BY <1>1, UnmovedKeeps DEF CoverageInv
  <1>4. JobTypes' /\ Listed'  BY <1>2, <1>3 DEF JobTypes, Listed
  <1>5. cmd = "join" => \A f \in Payload : Vouched(f)  BY <1>1 DEF Vouched
  <1>6. Watched'  BY <1>2, <1>3, <1>5 DEF Watched
  <1>7. Fitted'  BY <1>1, <1>2 DEF CoverageInv, Fitted
  <1>8. QED  BY <1>3, <1>4, <1>6, <1>7 DEF CoverageInv

\* An import goes on to a later step.
LEMMA StepCovers ==
    ASSUME Known, CoverageInv, Unmoved, NEW from, NEW to, Step(from, to),
           job.file = None,
           to \notin {"stream", "placed", "reread"},
           to = "plan" => DOMAIN rows = {},
           to = "hash" => \A f \in Payload : ~Current(f),
           to \in {"validate", "plan", "cover"} => from \in {"validate", "plan", "cover"},
           to = "cover" => job.cmd = "join"
    PROVE  CoverageInv'
  <1>1. job \in Jobs  BY DEF Known, FileTypes
  <1>2. /\ job.step = from /\ job'.step = to /\ job'.cmd = job.cmd /\ job'.file = None
        /\ job'.todo = job.todo
        /\ UNCHANGED <<hashed, stage, pos>>
    BY <1>1 DEF Step, Jobs, hashVars
  <1>3. /\ DiskTypes' /\ Vouching' /\ Payload' = Payload
        /\ \A f : (Current(f)' <=> Current(f)) /\ (Vouched(f)' <=> Vouched(f))
    BY UnmovedKeeps DEF CoverageInv
  <1>4. JobTypes'  BY <1>2, <1>3 DEF CoverageInv, JobTypes
  <1>5. Listed'  BY <1>2, <1>3 DEF CoverageInv, JobTypes, Listed, Unmoved
  <1>6. Watched'  BY <1>2, <1>3 DEF CoverageInv, Watched
  <1>7. Fitted'  BY <1>2 DEF CoverageInv, Fitted
  <1>8. QED  BY <1>3, <1>4, <1>5, <1>6, <1>7 DEF CoverageInv

\* Only the steps that hash have a file.
LEMMA NoFile ==
    ASSUME CoverageInv, job.step \notin {"hash", "stream", "placed", "reread"}
    PROVE  job.file = None
  BY DEF CoverageInv, Fitted

LEMMA CoverCovers ==
    ASSUME Known, CoverageInv, Cover
    PROVE  CoverageInv'
  <1>1. UNCHANGED <<release, disk, torn>> /\ job.step = "cover"
    BY DEF Cover, Step
  <1>2. CASE Raise /\ UNCHANGED rows
    BY <1>1, <1>2, RaiseCovers DEF Unmoved
  <1>3. CASE /\ Step("cover", "manifest")
             /\ rows' = [f \in Payload |->
                            RowFromMetainfo(CHOOSE i \in DOMAIN release : release[i] = f)]
    <2>1. DOMAIN rows' = Payload /\ Payload' = Payload
      BY <1>1, <1>3 DEF Payload
    <2>2. \A f \in Payload : rows'[f].mtime = disk[f].mtime
      <3> SUFFICES ASSUME NEW f \in Payload  PROVE rows'[f].mtime = disk[f].mtime
        OBVIOUS
      <3> DEFINE i == CHOOSE j \in DOMAIN release : release[j] = f
      <3>1. rows'[f].mtime = disk[release[i]].mtime
        BY <1>3 DEF RowFromMetainfo
      <3>2. release[i] = f  BY DEF Payload, ToSet
      <3>3. QED  BY <3>1, <3>2
    <2>3. /\ disk \in [Payload -> [body : {"right", "wrong", "short", "long", "absent"},
                                   mtime : Nat]]
          /\ \A f \in Payload : disk[f].body \in Bodies(f)
      BY DEF CoverageInv, DiskTypes
    <2>4. \A f \in Payload : disk[f].mtime \in Nat /\ disk[f].mtime <= disk[f].mtime
      <3> SUFFICES ASSUME NEW f \in Payload
                   PROVE  disk[f].mtime \in Nat /\ disk[f].mtime <= disk[f].mtime
        OBVIOUS
      <3>1. disk[f].mtime \in Nat  BY <2>3
      <3>2. QED  BY <3>1
    <2>5. DiskTypes'
      BY <1>1, <2>1, <2>2, <2>3, <2>4 DEF DiskTypes
    <2>6. \A f \in Payload : Vouched(f)
      BY <1>1 DEF CoverageInv, Watched
    <2>7. Vouching'
      BY <1>1, <2>1, <2>6 DEF Vouching, Vouched
    <2>8. job \in Jobs /\ job.file = None
      BY <1>1, NoFile DEF Known, FileTypes
    <2>9. /\ job'.step = "manifest" /\ job'.file = None /\ job'.todo = job.todo
          /\ UNCHANGED <<hashed, stage, pos>>
      BY <1>3, <2>8 DEF Step, Jobs, hashVars
    <2>10. JobTypes' /\ Listed' /\ Watched' /\ Fitted'
      BY <2>1, <2>9 DEF CoverageInv, JobTypes, Listed, Watched, Fitted
    <2>11. QED  BY <2>5, <2>7, <2>10 DEF CoverageInv
  <1>4. QED  BY <1>2, <1>3 DEF Cover

LEMMA ImportingCovers ==
    ASSUME Known, CoverageInv, Importing
    PROVE  CoverageInv'
  <1>1. CASE \E cmd \in {"import", "join"} : Import(cmd)  BY <1>1, ImportCovers
  <1>2. CASE Validate
    <2>1. Unmoved /\ job.step = "validate"  BY <1>2 DEF Validate, Unmoved
    <2>2. CASE Raise  BY <2>1, <2>2, RaiseCovers
    <2>3. CASE Valid /\ Step("validate", "plan")
      <3>1. DOMAIN rows = {}  BY <2>3 DEF Valid, Known, Prepared
      <3>2. job.file = None  BY <2>1, NoFile
      <3>3. QED  BY <2>1, <2>3, <3>1, <3>2, StepCovers
    <2>4. QED  BY <1>2, <2>2, <2>3 DEF Validate
  <1>3. CASE Plan
    <2>1. Unmoved /\ job.step = "plan"
          /\ Step("plan", IF job.cmd = "join" THEN "cover" ELSE "hash")
      BY <1>3 DEF Plan, Leave, Step, Unmoved
    <2>2. DOMAIN rows = {}  BY <2>1 DEF CoverageInv, Listed
    <2>3. \A f \in Payload : ~Current(f)  BY <2>2 DEF Current
    <2>4. job.file = None  BY <2>1, NoFile
    <2>5. CASE job.cmd = "join"
      <3>1. Step("plan", "cover")  BY <2>1, <2>5
      <3>2. QED  BY <2>1, <2>4, <2>5, <3>1, StepCovers
    <2>6. CASE job.cmd # "join"
      <3>1. Step("plan", "hash")  BY <2>1, <2>6
      <3>2. QED  BY <2>1, <2>3, <2>4, <3>1, StepCovers
    <2>7. QED  BY <2>5, <2>6
  <1>4. CASE Cover  BY <1>4, CoverCovers
  <1>5. CASE HashesDone
    <2>1. Unmoved /\ job.file = None /\ Step("hash", "manifest")
      BY <1>5 DEF HashesDone, Hashed, files, Unmoved
    <2>2. QED  BY <2>1, StepCovers
  <1>6. CASE Manifest
    <2>1. CASE Raise /\ UNCHANGED files  BY <2>1, RaiseCovers DEF files, Unmoved
    <2>2. CASE Leave("manifest", "manifest", "rename")
      <3>1. Unmoved /\ Step("manifest", "rename") /\ job.step = "manifest"
        BY <2>2 DEF Leave, Step, Unmoved
      <3>2. job.file = None  BY <3>1, NoFile
      <3>3. QED  BY <3>1, <3>2, StepCovers
    <2>3. QED  BY <1>6, <2>1, <2>2 DEF Manifest
  <1>7. CASE Rename
    <2>1. Unmoved /\ job.step = "rename" /\ (Raise \/ Step("rename", "state"))
      BY <1>7 DEF Rename, Unmoved
    <2>2. job.file = None  BY <2>1, NoFile
    <2>3. CASE Raise  BY <2>1, <2>3, RaiseCovers
    <2>4. CASE Step("rename", "state")  BY <2>1, <2>2, <2>4, StepCovers
    <2>5. QED  BY <2>1, <2>3, <2>4
  <1>8. CASE Register
    <2>1. PICK from \in {"state", "report", "record"}, to \in {"report", "record", "fence"} :
             Unmoved /\ job.step = from /\ Step(from, to)
      BY <1>8 DEF Register, Leave, Step, Unmoved
    <2>2. job.file = None  BY <2>1, NoFile
    <2>3. QED  BY <2>1, <2>2, StepCovers
  <1>9. CASE Fence
    BY <1>9, EndCovers DEF Fence, Unmoved
  <1>10. QED
    BY <1>1, <1>2, <1>3, <1>4, <1>5, <1>6, <1>7, <1>8, <1>9 DEF Importing

LEMMA WriteCovers ==
    ASSUME Known, CoverageInv, NEW g \in Payload, Write(g)
    PROVE  CoverageInv'
  <1>1. PICK body \in Bodies(g) : Put(g, body)  BY DEF Write
  <1>2. /\ torn' = IF Reading(g) THEN torn \cup {g} ELSE torn
        /\ UNCHANGED <<release, rows, job, hashed, stage, pos>>
    BY DEF Write, hashVars
  <1>3. Replaced(g, body, disk[g].mtime + 1)
    BY <1>1, <1>2, PutIsReplaced DEF CoverageInv
  <1>4. /\ DiskTypes' /\ Vouching' /\ Payload' = Payload /\ Multifile' = Multifile
        /\ ~Current(g)'
        /\ \A f \in Payload \ {g} : /\ disk'[f] = disk[f]
                                    /\ Current(f)' <=> Current(f)
                                    /\ Vouched(f) => Vouched(f)'
    BY <1>3, ReplacedKeeps DEF CoverageInv
  <1>5. Reading(g) => Vouched(g)'  BY <1>2 DEF Vouched
  <1>6. JobTypes' /\ job.todo \subseteq Payload /\ job.file \in Payload \cup {None}
    BY <1>2, <1>4 DEF CoverageInv, JobTypes
  <1>7. Listed'  BY <1>2, <1>4, <1>6 DEF CoverageInv, Listed
  <1>8. Fitted'  BY <1>2, <1>4 DEF CoverageInv, Fitted
  <1>9. Watched'
    <2>1. ASSUME job.file # None, job.step = "hash", pos > 0, disk'[job.file].body = "wrong"
          PROVE  job.tainted \/ job.file \in torn'
      <3>1. CASE job.file = g  BY <1>2, <2>1, <3>1 DEF Reading
      <3>2. CASE job.file # g
        <4>1. disk'[job.file] = disk[job.file]  BY <1>4, <1>6, <2>1, <3>2
        <4>2. job.tainted \/ job.file \in torn
          BY <2>1, <4>1 DEF CoverageInv, Watched
        <4>3. QED  BY <1>2, <4>2
      <3>3. QED  BY <3>1, <3>2
    <2>2. ASSUME job.step \in {"placed", "reread"}  PROVE Vouched(job.file)'
      <3>1. job.file \in Payload /\ Vouched(job.file)
        BY <1>6, <2>2, HashesAssumption DEF Known, FileTypes, Streaming, CoverageInv, Watched
      <3>2. CASE job.file = g
        <4>1. Vouched(g)'  BY <1>5, <2>2, <3>2 DEF Reading
        <4>2. QED  BY <1>2, <3>2, <4>1 DEF Vouched
      <3>3. CASE job.file # g
        <4>1. Vouched(job.file) /\ disk'[job.file] = disk[job.file]
          BY <1>4, <3>1, <3>3
        <4>2. QED  BY <1>2, <4>1 DEF Vouched
      <3>4. QED  BY <3>2, <3>3
    <2>3. ASSUME job.cmd = "join", job.step \in {"validate", "plan", "cover"}
          PROVE  \A f \in Payload : Vouched(f)'
      <3>1. Vouched(g)'  BY <1>5, <2>3 DEF Reading
      <3>2. \A f \in Payload : Vouched(f)  BY <2>3 DEF CoverageInv, Watched
      <3>3. QED  BY <1>4, <3>1, <3>2
    <2>4. job.step = "cover" => job.cmd = "join"  BY DEF CoverageInv, Watched
    <2>5. QED  BY <1>2, <1>4, <2>1, <2>2, <2>3, <2>4 DEF Watched
  <1>10. QED  BY <1>4, <1>6, <1>7, <1>8, <1>9 DEF CoverageInv

LEMMA CoversAtFirst == Init => CoverageInv
  <1> SUFFICES ASSUME Init  PROVE CoverageInv
    OBVIOUS
  <1>1. job = Idle /\ rows = <<>> /\ stage = "idle" /\ DOMAIN rows = {}
    BY DEF Init, HashInit
  <1>2. PICK body \in [Payload -> {"right", "wrong", "absent"}] :
           /\ \A f \in Payload : body[f] \in Bodies(f)
           /\ disk = [f \in Payload |-> [body |-> body[f], mtime |-> 0]]
    BY DEF Init
  <1>3. DiskTypes  BY <1>1, <1>2 DEF DiskTypes
  <1>4. Vouching  BY <1>1 DEF Vouching, Current
  <1>5. JobTypes /\ Listed /\ Watched /\ Fitted
    BY <1>1 DEF Idle, JobTypes, Listed, Watched, Fitted
  <1>6. QED  BY <1>3, <1>4, <1>5 DEF CoverageInv

LEMMA CoveragePreserved == Known /\ CoverageInv /\ [Next]_vars => CoverageInv'
  <1> SUFFICES ASSUME Known, CoverageInv, [Next]_vars  PROVE CoverageInv'
    OBVIOUS
  <1>1. CASE Coverage  BY <1>1, CoverageCovers
  <1>2. CASE Importing  BY <1>2, ImportingCovers
  <1>3. CASE Crash  BY <1>3, EndCovers DEF Crash, files, Unmoved
  <1>4. ASSUME NEW f \in Payload, Write(f)  PROVE CoverageInv'  BY <1>4, WriteCovers
  <1>5. CASE UNCHANGED vars
    <2>1. Unmoved /\ job' = job /\ UNCHANGED <<hashed, pos, stage>>
      BY <1>5 DEF vars, files, hashVars, Unmoved
    <2>2. QED  BY <2>1, WorkCovers DEF CoverageInv, Fitted
  <1>6. QED  BY <1>1, <1>2, <1>3, <1>4, <1>5 DEF Next

-----------------------------------------------------------------------------
(* The payload as one stream of bytes, and its pieces.                     *)

\* g[i] is the first i of these sequences in one.
Joins(g, seqs) == g[0] = <<>> /\ \A i \in 1..Len(seqs) : g[i] = g[i - 1] \o seqs[i]

\* FlattenSeq is what its definition says.
LEMMA FlattenIs ==
    ASSUME NEW S, NEW seqs \in Seq(Seq(S))
    PROVE  \E g \in [Nat -> Seq(S)] : Joins(g, seqs) /\ FlattenSeq(seqs) = g[Len(seqs)]
  <1> DEFINE D == Seq(S)
             n == Len(seqs)
             step == [k \in Nat |-> [s \in D |-> IF k + 1 \in 1..n THEN s \o seqs[k + 1] ELSE s]]
  <1>1. n \in Nat /\ \A i \in 1..n : seqs[i] \in Seq(S)
    BY LenProperties, ElementOfSeq
  <1>2. <<>> \in D /\ step \in [Nat -> [D -> D]]
    <2>1. \A k \in Nat, s \in D : k + 1 \in 1..n => s \o seqs[k + 1] \in D
      BY <1>1, ConcatProperties
    <2> HIDE DEF n
    <2>2. step \in [Nat -> [D -> D]]  BY <2>1
    <2>3. QED  BY <2>2
  <1>3. \A k \in Nat, s \in D : k + 1 \in 1..n => step[k][s] = s \o seqs[k + 1]
    OBVIOUS
  <1> HIDE DEF D, step, n
  <1>4. PICK g \in [Nat -> D] : GoesOn(g, <<>>, step)
    BY <1>2, Recursion
  <1>5. g[0] = <<>> /\ \A i \in 1..n : g[i] = g[i - 1] \o seqs[i]
    <2>1. g[0] = <<>> /\ \A k \in Nat : g[k + 1] = step[k][g[k]]  BY <1>4 DEF GoesOn
    <2>2. ASSUME NEW i \in 1..n  PROVE g[i] = g[i - 1] \o seqs[i]
      <3>1. PICK k \in Nat : i = k + 1
        <4>1. i - 1 \in Nat /\ i = (i - 1) + 1  BY <1>1
        <4>2. QED  BY <4>1
      <3>2. g[k + 1] = g[k] \o seqs[k + 1]  BY <1>3, <1>4, <2>1, <3>1
      <3>3. i - 1 = k  BY <3>1
      <3>4. QED  BY <3>1, <3>2, <3>3
    <2>3. QED  BY <2>1, <2>2
  <1>6. Joins(g, seqs)  BY <1>5 DEF Joins, n
  <1>7. FlattenSeq(seqs) = g[n]
    <2>1. CASE n = 0
      <3>1. FlattenSeq(seqs) = seqs  BY <2>1 DEF FlattenSeq, n
      <3>2. seqs = <<>>  BY <2>1, EmptySeq DEF n
      <3>3. QED  BY <1>5, <2>1, <3>1, <3>2
    <2>2. CASE n # 0
      <3> DEFINE Is(l) == l = [i \in 1..n |-> IF i = 1 THEN seqs[i] ELSE l[i - 1] \o seqs[i]]
                 h == [i \in 1..n |-> g[i]]
                 l == CHOOSE f : Is(f)
      <3>1. Is(h)
        <4>1. ASSUME NEW i \in 1..n
              PROVE  h[i] = IF i = 1 THEN seqs[i] ELSE h[i - 1] \o seqs[i]
          <5>1. h[i] = g[i - 1] \o seqs[i]  BY <1>5
          <5>2. CASE i = 1
            <6>1. i - 1 = 0  BY <5>2
            <6>2. g[i - 1] = <<>>  BY <1>5, <6>1
            <6>3. <<>> \o seqs[i] = seqs[i]  BY <1>1, ConcatEmptySeq
            <6>4. QED  BY <5>1, <5>2, <6>2, <6>3
          <5>3. CASE i # 1
            <6>1. i - 1 \in 1..n  BY <1>1, <5>3
            <6>2. h[i - 1] = g[i - 1]  BY <6>1
            <6>3. QED  BY <5>1, <5>3, <6>2
          <5>4. QED  BY <5>2, <5>3
        <4>2. QED  BY <4>1
      <3>2. Is(l)  BY <3>1
      <3>3. FlattenSeq(seqs) = l[n]  BY <2>2 DEF FlattenSeq, n
      <3> HIDE DEF l
      <3> DEFINE T == {k \in Nat : k + 1 <= n => l[k + 1] = g[k + 1]}
      <3>4. 0 \in T
        <4>1. ASSUME 1 <= n  PROVE l[1] = g[1]
          <5>1. 1 \in 1..n  BY <1>1, <4>1
          <5>2. l[1] = seqs[1]  BY <3>2, <5>1
          <5>3. g[1] = g[1 - 1] \o seqs[1]  BY <1>5, <5>1
          <5>4. g[1 - 1] = <<>>
            <6>1. 1 - 1 = 0  OBVIOUS
            <6>2. QED  BY <1>5, <6>1
          <5>5. <<>> \o seqs[1] = seqs[1]  BY <1>1, <5>1, ConcatEmptySeq
          <5>6. QED  BY <5>2, <5>3, <5>4, <5>5
        <4>2. QED  BY <4>1
      <3>5. ASSUME NEW k \in Nat, k \in T  PROVE k + 1 \in T
        <4>1. ASSUME (k + 1) + 1 <= n  PROVE l[(k + 1) + 1] = g[(k + 1) + 1]
          <5>1. PICK i \in Nat : i = (k + 1) + 1  OBVIOUS
          <5>2. i \in 1..n /\ i # 1 /\ i - 1 = k + 1 /\ k + 1 <= n  BY <1>1, <4>1, <5>1
          <5>3. l[i] = l[i - 1] \o seqs[i]  BY <3>2, <5>2
          <5>4. g[i] = g[i - 1] \o seqs[i]  BY <1>5, <5>2
          <5>5. l[k + 1] = g[k + 1]  BY <3>5, <5>2
          <5>6. QED  BY <5>1, <5>2, <5>3, <5>4, <5>5
        <4>2. QED  BY <4>1
      <3> HIDE DEF T
      <3>6. Nat \subseteq T  BY <3>4, <3>5, SetInduction
      <3>7. PICK k \in Nat : n = k + 1
        <4>1. n - 1 \in Nat /\ n = (n - 1) + 1  BY <1>1, <2>2
        <4>2. QED  BY <4>1
      <3>8. l[n] = g[n]
        <4>1. k \in T  BY <3>6, <3>7
        <4>2. QED  BY <3>7, <4>1 DEF T
      <3>9. QED  BY <3>3, <3>8
    <2>3. QED  BY <2>1, <2>2
  <1>8. QED  BY <1>4, <1>6, <1>7 DEF D, n

\* What is behind the first of two sequences is the second.
LEMMA SecondPart ==
    ASSUME NEW S, NEW s \in Seq(S), NEW t \in Seq(S)
    PROVE  SubSeq(s \o t, Len(s) + 1, Len(s) + Len(t)) = t
  <1>1. Len(s) \in Nat /\ Len(t) \in Nat  BY LenProperties
  <1>2. CASE t = <<>>
    <2>1. Len(t) = 0  BY <1>2, EmptySeq
    <2>2. Len(s) + 1 \in Int /\ Len(s) + Len(t) \in Int /\ Len(s) + Len(t) < Len(s) + 1
      BY <1>1, <2>1
    <2>3. QED  BY <1>2, <2>2, SubSeqEmpty
  <1>3. CASE t # <<>>
    <2>1. Len(t) # 0  BY <1>3, EmptySeq
    <2>2. PICK m \in Nat, n \in Nat : m = Len(s) + 1 /\ n = Len(s) + Len(t)  BY <1>1
    <2>3. m \in Len(s) + 1 .. Len(s) + Len(t) /\ n \in Len(s) + 1 .. Len(s) + Len(t)
          /\ m - Len(s) = 1 /\ n - Len(s) = Len(t)
      BY <1>1, <2>1, <2>2
    <2>4. SubSeq(s \o t, m, n) = SubSeq(t, m - Len(s), n - Len(s))
      BY <2>3, SubSeqOfConcat2
    <2>5. SubSeq(t, 1, Len(t)) = t  BY SubSeqFull
    <2>6. QED  BY <2>2, <2>3, <2>4, <2>5
  <1>4. QED  BY <1>2, <1>3

\* The first k pieces of a stream.
Cuts(s, k) == [j \in 1..k |-> SubSeq(s, (j - 1) * PieceLength + 1, j * PieceLength)]

LEMMA CutsType ==
    ASSUME NEW S, NEW s \in Seq(S), NEW k \in Nat, k * PieceLength <= Len(s)
    PROVE  Cuts(s, k) \in Seq(Seq(S)) /\ Len(Cuts(s, k)) = k
  <1>1. ASSUME NEW j \in 1..k
        PROVE  SubSeq(s, (j - 1) * PieceLength + 1, j * PieceLength) \in Seq(S)
    <2>1. PICK a \in Nat, b \in Nat : a = (j - 1) * PieceLength /\ b = j * PieceLength
      BY PieceLengthPositive
    <2>2. b <= k * PieceLength
      BY <2>1, PieceLengthPositive, Monotonic
    <2>3. b <= Len(s) /\ Len(s) \in Nat
      <3>1. PICK e \in Nat : e = k * PieceLength  BY PieceLengthPositive
      <3>2. QED  BY <2>2, <3>1, LenProperties
    <2>4. \A i \in a + 1 .. b : s[i] \in S
      <3>1. \A i \in a + 1 .. b : i \in 1..Len(s)  BY <2>3
      <3>2. QED  BY <3>1, ElementOfSeq
    <2>5. SubSeq(s, a + 1, b) \in Seq(S)  BY <2>4, SubSeqProperties
    <2>6. QED  BY <2>1, <2>5
  <1>2. Cuts(s, k) \in [1..k -> Seq(S)]  BY <1>1 DEF Cuts
  <1>3. Cuts(s, k) \in Seq(Seq(S))  BY <1>2, SeqDef
  <1>4. DOMAIN Cuts(s, k) = 1..k  BY DEF Cuts
  <1>5. QED  BY <1>3, <1>4, LenProperties

\* Streams of whole pieces are cut one after the other.
Cuttable(S, s, t, k, c) ==
    /\ s \in Seq(S) /\ t \in Seq(S) /\ k \in Nat /\ c \in Nat
    /\ Len(s) = k * PieceLength /\ Len(t) = c * PieceLength

CutsJoin(s, t, k, c) == Cuts(s \o t, k + c) = Cuts(s, k) \o Cuts(t, c)

LEMMA CutsConcat ==
    ASSUME NEW S, NEW s, NEW t, NEW k, NEW c, Cuttable(S, s, t, k, c)
    PROVE  CutsJoin(s, t, k, c)
  <1> DEFINE PL == PieceLength
             u == Cuts(s, k)
             v == Cuts(t, c)
             w == Cuts(s \o t, k + c)
  <1>1. /\ s \in Seq(S) /\ t \in Seq(S) /\ k \in Nat /\ c \in Nat /\ k + c \in Nat
        /\ Len(s) = k * PL /\ Len(t) = c * PL /\ PL \in Nat \ {0}
    BY PieceLengthPositive DEF Cuttable
  <1>2. PICK a \in Nat, b \in Nat : a = k * PL /\ b = c * PL /\ (k + c) * PL = a + b
    BY <1>1
  <1>3. /\ s \o t \in Seq(S) /\ Len(s \o t) = a + b
    BY <1>1, <1>2, ConcatProperties
  <1>4. u \in Seq(Seq(S)) /\ Len(u) = k  BY <1>1, <1>2, CutsType
  <1>5. v \in Seq(Seq(S)) /\ Len(v) = c  BY <1>1, <1>2, CutsType
  <1>6. w \in Seq(Seq(S)) /\ Len(w) = k + c
    <2>1. PICK n \in Nat : n = k + c  BY <1>1
    <2>2. n * PL <= Len(s \o t)  BY <1>2, <1>3, <2>1
    <2>3. Cuts(s \o t, n) \in Seq(Seq(S)) /\ Len(Cuts(s \o t, n)) = n
      BY <1>3, <2>2, CutsType
    <2>4. QED  BY <2>1, <2>3
  <1>7. /\ u \o v \in Seq(Seq(S)) /\ Len(u \o v) = k + c
        /\ \A j \in 1..(k + c) : (u \o v)[j] = IF j <= k THEN u[j] ELSE v[j - k]
    <2> HIDE DEF u, v
    <2>1. QED  BY <1>4, <1>5, ConcatProperties
  <1>8. ASSUME NEW j \in 1..(k + c)  PROVE w[j] = (u \o v)[j]
    <2>1. PICK m \in Nat, n \in Nat : m = (j - 1) * PL /\ n = j * PL /\ n = m + PL
      <3>1. PICK i \in Nat : j = i + 1
        <4>1. j - 1 \in Nat /\ j = (j - 1) + 1  BY <1>1
        <4>2. QED  BY <4>1
      <3>2. j - 1 = i /\ (i + 1) * PL = i * PL + PL /\ i * PL \in Nat
        BY <1>1, <3>1, NextMultiple
      <3>3. QED  BY <1>1, <3>1, <3>2
    <2>2. w[j] = SubSeq(s \o t, m + 1, n)  BY <2>1 DEF Cuts
    <2>3. CASE j <= k
      <3>1. n <= a  BY <1>1, <1>2, <2>1, <2>3, Monotonic
      <3>2. m + 1 \in 1..Len(s) /\ n \in 1..Len(s)  BY <1>1, <1>2, <2>1, <3>1
      <3>3. PICK x \in 1..Len(s) : x = m + 1  BY <3>2
      <3>4. SubSeq(s \o t, x, n) = SubSeq(s, x, n)
        BY <1>1, <3>2, SubSeqOfConcat1
      <3>5. u[j] = SubSeq(s, m + 1, n)
        <4>1. j \in 1..k  BY <1>1, <2>3
        <4>2. QED  BY <2>1, <4>1 DEF Cuts
      <3>6. (u \o v)[j] = u[j]  BY <1>7, <2>3
      <3>7. QED  BY <2>2, <3>3, <3>4, <3>5, <3>6
    <2>4. CASE ~(j <= k)
      <3>1. PICK i \in Nat : j = k + i /\ i \in 1..c
        <4>1. j - k \in Nat /\ j = k + (j - k) /\ j - k \in 1..c  BY <1>1, <2>4
        <4>2. QED  BY <4>1
      <3>2. PICK y \in Nat, z \in Nat : y = (i - 1) * PL /\ z = i * PL /\ z <= b /\ z = y + PL
        <4>1. PICK h \in Nat : i = h + 1
          <5>1. i - 1 \in Nat /\ i = (i - 1) + 1  BY <3>1
          <5>2. QED  BY <5>1
        <4>2. i - 1 = h /\ (h + 1) * PL = h * PL + PL /\ h * PL \in Nat
          BY <1>1, <4>1, NextMultiple
        <4>3. i * PL <= c * PL /\ i * PL \in Nat  BY <1>1, <3>1, Monotonic
        <4>4. QED  BY <1>1, <1>2, <4>1, <4>2, <4>3
      <3>3. n = a + z /\ m = a + y
        <4>1. (k + i) * PL = k * PL + i * PL  BY <1>1, <3>1
        <4>2. n = a + z  BY <1>2, <2>1, <3>1, <3>2, <4>1
        <4>3. QED  BY <1>1, <1>2, <2>1, <3>2, <4>2
      <3>4. PICK x \in Nat : x = m + 1  BY <2>1
      <3>5. /\ x \in Len(s) + 1 .. Len(s) + Len(t) /\ n \in Len(s) + 1 .. Len(s) + Len(t)
            /\ x - Len(s) = y + 1 /\ n - Len(s) = z
        BY <1>1, <1>2, <3>2, <3>3, <3>4
      <3>6. SubSeq(s \o t, x, n) = SubSeq(t, x - Len(s), n - Len(s))
        BY <1>1, <3>5, SubSeqOfConcat2
      <3>7. v[i] = SubSeq(t, y + 1, z)  BY <3>1, <3>2 DEF Cuts
      <3>8. (u \o v)[j] = v[i]
        <4>1. j - k = i  BY <1>1, <3>1
        <4>2. (u \o v)[j] = v[j - k]  BY <1>7, <2>4
        <4>3. QED  BY <4>1, <4>2
      <3>9. QED  BY <2>2, <3>4, <3>5, <3>6, <3>7, <3>8
    <2>5. QED  BY <2>3, <2>4
  <1> HIDE DEF u, v, w
  <1>9. w = u \o v
    BY <1>6, <1>7, <1>8, SeqEqual
  <1>10. QED  BY <1>9 DEF CutsJoin, u, v, w

LEMMA ZerosAre ==
    ASSUME NEW f, NEW n \in Nat
    PROVE  Zeros(n) \in Seq(Bytes(f)) /\ Len(Zeros(n)) = n /\ (n = 0 => Zeros(n) = <<>>)
  <1>1. Zeros(n) \in Seq(Bytes(f))  BY ZerosIsSeq
  <1>2. DOMAIN Zeros(n) = 1..n  BY DEF Zeros
  <1>3. Len(Zeros(n)) = n  BY <1>1, <1>2, LenProperties
  <1>4. QED  BY <1>1, <1>3, EmptySeq

\* A file with the padding after it.
Padding(size) == IF size % PieceLength # 0 THEN PieceLength - (size % PieceLength) ELSE 0

PaddedFile(f, size) == Stretch(f, 0, size) \o Zeros(Padding(size))

\* It is cut into pieces as its v1 hashes say.
CutRight(f, size, c) ==
    /\ c \in Nat /\ PieceCount(size) = c
    /\ PaddedFile(f, size) \in Seq(Bytes(f)) /\ Len(PaddedFile(f, size)) = c * PieceLength
    /\ Cuts(PaddedFile(f, size), c) = V1Of(f, size, TRUE)

\* The j-th piece of the whole pieces of a file.
WholePiece(f, e, size, j) ==
    /\ SubSeq(Stretch(f, 0, e), (j - 1) * PieceLength + 1, j * PieceLength)
          = Stretch(f, (j - 1) * PieceLength, j * PieceLength)
    /\ V1Of(f, size, TRUE)[j] = Stretch(f, (j - 1) * PieceLength, j * PieceLength)

LEMMA WholePieces ==
    ASSUME NEW f, NEW q \in Nat, NEW e \in Nat, e = q * PieceLength, NEW size \in Nat, e <= size,
           NEW j \in 1..q, j \in 1..PieceCount(size)
    PROVE  WholePiece(f, e, size, j)
  <1> DEFINE PL == PieceLength
  <1>1. PL \in Nat \ {0}  BY PieceLengthPositive
  <1>2. PICK i \in Nat : j = i + 1 /\ j - 1 = i
    <2>1. j - 1 \in Nat /\ j = (j - 1) + 1  OBVIOUS
    <2>2. QED  BY <2>1
  <1>3. PICK m \in Nat, n \in Nat : m = (j - 1) * PL /\ n = j * PL /\ m <= n /\ n <= e
    <2>1. (i + 1) * PL = i * PL + PL /\ i * PL \in Nat  BY <1>1, NextMultiple
    <2>2. j * PL <= q * PL  BY <1>1, Monotonic
    <2>3. QED  BY <1>1, <1>2, <2>1, <2>2
  <1>4. SubSeq(Stretch(f, 0, e), m + 1, n) = Stretch(f, m, n)
    <2>1. PICK x \in Nat : x = m + 1  OBVIOUS
    <2>2. Part(0, e, m, n, x, n)  BY <1>3, <2>1 DEF Part
    <2>3. PartIs(f, 0, e, m, n, x, n)  BY <2>2, StretchPart
    <2>4. QED  BY <2>1, <2>3 DEF PartIs
  <1>5. V1Of(f, size, TRUE)[j] = Stretch(f, m, n)
    <2>1. PieceEnd(j, size) = n  BY <1>3 DEF PieceEnd, Least
    <2>2. V1Of(f, size, TRUE)[j] = Stretch(f, m, n) \o Zeros(n - n)
      BY <1>3, <2>1 DEF V1Of
    <2>3. n - n = 0  OBVIOUS
    <2>4. Zeros(n - n) = <<>>  BY <2>3, ZerosAre
    <2>5. Stretch(f, m, n) \in Seq(Bytes(f))  BY <1>3, StretchIsSeq
    <2>6. Stretch(f, m, n) \o <<>> = Stretch(f, m, n)  BY <2>5, ConcatEmptySeq
    <2>7. QED  BY <2>2, <2>4, <2>6
  <1>6. QED  BY <1>3, <1>4, <1>5 DEF WholePiece

Meeting(f, a, b, c) == Stretch(f, a, b) \o Stretch(f, b, c) = Stretch(f, a, c)

LEMMA StretchesMeet ==
    ASSUME NEW f, NEW a \in Nat, NEW b \in Nat, NEW c \in Nat, a <= b, b <= c
    PROVE  Meeting(f, a, b, c)
  BY StretchConcat DEF Meeting

LEMMA PaddedFileIs ==
    ASSUME NEW f, NEW size \in Nat
    PROVE  \E c \in Nat : CutRight(f, size, c)
  <1> DEFINE PL == PieceLength
  <1>1. PL \in Nat \ {0}  BY PieceLengthPositive
  <1>2. PICK q \in Nat, m \in 0..(PL - 1) : size = q * PL + m /\ size % PL = m
    <2>1. /\ size \div PL \in Nat /\ size % PL \in 0..(PL - 1)
          /\ size = (size \div PL) * PL + (size % PL)
      BY <1>1
    <2>2. QED  BY <2>1
  <1>3. PICK e \in Nat : e = q * PL /\ e <= size /\ size = e + m
    <2>1. q * PL \in Nat  BY <1>1
    <2>2. QED  BY <1>2, <2>1
  <1>4. Stretch(f, 0, size) \in Seq(Bytes(f)) /\ Len(Stretch(f, 0, size)) = size
    BY StretchIsSeq
  <1>5. CASE m = 0
    <2>1. PieceCount(size) = q
      <3>1. /\ q * PieceLength <= size /\ size < q * PieceLength + PieceLength
            /\ size = q * PieceLength
        BY <1>1, <1>3, <1>5
      <3>2. QED  BY <3>1, CountIs
    <2>2. PaddedFile(f, size) = Stretch(f, 0, e)
      <3>1. Padding(size) = 0 /\ size = e  BY <1>2, <1>3, <1>5 DEF Padding
      <3>2. Zeros(Padding(size)) = <<>>  BY <3>1, ZerosAre
      <3>3. Stretch(f, 0, size) \o <<>> = Stretch(f, 0, size)  BY <1>4, ConcatEmptySeq
      <3>4. QED  BY <3>1, <3>2, <3>3 DEF PaddedFile
    <2>3. PaddedFile(f, size) \in Seq(Bytes(f)) /\ Len(PaddedFile(f, size)) = q * PieceLength
      BY <1>3, <1>4, <1>5, <2>2
    <2>4. \A j \in 1..q : WholePiece(f, e, size, j)
      BY <1>3, <2>1, WholePieces
    <2>5. Cuts(PaddedFile(f, size), q) = V1Of(f, size, TRUE)
      <3>1. \A j \in 1..q : SubSeq(PaddedFile(f, size), (j - 1) * PieceLength + 1, j * PieceLength)
                              = V1Of(f, size, TRUE)[j]
        BY <2>2, <2>4 DEF WholePiece
      <3>2. V1Of(f, size, TRUE) = [j \in 1..q |-> V1Of(f, size, TRUE)[j]]
        BY <2>1 DEF V1Of
      <3>3. QED  BY <3>1, <3>2 DEF Cuts
    <2>6. QED  BY <2>1, <2>3, <2>5 DEF CutRight
  <1>6. CASE m # 0
    <2> DEFINE front == Stretch(f, 0, e)
               back == Stretch(f, e, size)
               zeros == Zeros(PL - m)
               tail == back \o zeros
    <2>1. PICK c \in Nat : c = q + 1 /\ c * PL = e + PL
      <3>1. (q + 1) * PL = q * PL + PL  BY <1>1, NextMultiple
      <3>2. QED  BY <1>3, <3>1
    <2>2. PieceCount(size) = c
      <3>1. /\ q * PieceLength <= size /\ size < q * PieceLength + PieceLength
            /\ size # q * PieceLength
        BY <1>1, <1>2, <1>3, <1>6
      <3>2. QED  BY <2>1, <3>1, CountIs
    <2>3. front \in Seq(Bytes(f)) /\ Len(front) = e
      <3>1. 0 \in Nat /\ 0 <= e /\ e - 0 = e  OBVIOUS
      <3>2. Stretch(f, 0, e) \in Seq(Bytes(f)) /\ Len(Stretch(f, 0, e)) = e - 0
        BY <3>1, StretchIsSeq
      <3>3. QED  BY <3>1, <3>2
    <2>4. back \in Seq(Bytes(f)) /\ Len(back) = m
      <3>1. size - e = m  BY <1>1, <1>2, <1>3
      <3>2. Stretch(f, e, size) \in Seq(Bytes(f)) /\ Len(Stretch(f, e, size)) = size - e
        BY <1>3, StretchIsSeq
      <3>3. QED  BY <3>1, <3>2
    <2>5. zeros \in Seq(Bytes(f)) /\ Len(zeros) = PL - m
      <3>1. PL - m \in Nat  BY <1>1, <1>2
      <3>2. QED  BY <3>1, ZerosAre
    <2>6. front \o back = Stretch(f, 0, size)
      <3>1. PICK o \in Nat : o = 0 /\ o <= e  OBVIOUS
      <3>2. Meeting(f, o, e, size)  BY <1>3, <3>1, StretchesMeet
      <3>3. QED  BY <3>1, <3>2 DEF Meeting
    <2> HIDE DEF front, back, zeros
    <2>7. tail \in Seq(Bytes(f)) /\ Len(tail) = PL
      <3>1. tail \in Seq(Bytes(f)) /\ Len(tail) = Len(back) + Len(zeros)
        BY <2>4, <2>5, ConcatProperties
      <3>2. QED  BY <1>1, <1>2, <2>4, <2>5, <3>1
    <2>8. PaddedFile(f, size) = front \o tail
      <3>1. Padding(size) = PL - m  BY <1>2, <1>6 DEF Padding
      <3>2. PaddedFile(f, size) = (front \o back) \o zeros
        BY <2>6, <3>1 DEF PaddedFile, zeros
      <3>3. \A s, t, u \in Seq(Bytes(f)) : (s \o t) \o u = s \o (t \o u)
        BY ONLY ConcatAssociative
      <3>4. QED  BY <2>3, <2>4, <2>5, <3>2, <3>3
    <2>9. back = Stretch(f, e, size) /\ zeros = Zeros(PL - m) /\ front = Stretch(f, 0, e)
      BY DEF back, zeros, front
    <2>10. tail = Stretch(f, e, size) \o Zeros(PL - m)  BY <2>9
    <2> HIDE DEF tail
    <2>11. PaddedFile(f, size) \in Seq(Bytes(f)) /\ Len(PaddedFile(f, size)) = c * PieceLength
      BY <1>1, <2>1, <2>3, <2>7, <2>8, ConcatProperties
    <2>12. ASSUME NEW j \in 1..c
           PROVE  SubSeq(PaddedFile(f, size), (j - 1) * PieceLength + 1, j * PieceLength)
                    = V1Of(f, size, TRUE)[j]
      <3>1. CASE j = c
        <4>1. (j - 1) * PieceLength = e /\ j * PieceLength = e + PL
          <5>1. c - 1 = q  BY <2>1
          <5>2. QED  BY <1>3, <2>1, <3>1, <5>1
        <4>2. SubSeq(front \o tail, Len(front) + 1, Len(front) + Len(tail)) = tail
          BY <2>3, <2>7, SecondPart
        <4>3. PieceEnd(j, size) = size
          BY <1>1, <1>2, <1>3, <4>1 DEF PieceEnd, Least
        <4>4. j \in 1..PieceCount(size)  BY <2>2
        <4>5. V1Of(f, size, TRUE)[j] = Stretch(f, e, size) \o Zeros((e + PL) - size)
          BY <4>1, <4>3, <4>4 DEF V1Of
        <4>6. (e + PL) - size = PL - m  BY <1>1, <1>2, <1>3
        <4>7. QED  BY <2>3, <2>7, <2>8, <2>10, <4>1, <4>2, <4>5, <4>6
      <3>2. CASE j # c
        <4>1. j \in 1..q /\ j \in 1..PieceCount(size)  BY <2>1, <2>2, <3>2
        <4>2. WholePiece(f, e, size, j)  BY <1>3, <4>1, WholePieces
        <4>3. PICK i \in Nat : j = i + 1 /\ j - 1 = i
          <5>1. j - 1 \in Nat /\ j = (j - 1) + 1  BY <4>1
          <5>2. QED  BY <5>1
        <4>4. PICK a \in Nat, b \in Nat : a = (j - 1) * PL /\ b = j * PL /\ b = a + PL /\ b <= e
          <5>1. (i + 1) * PL = i * PL + PL /\ i * PL \in Nat  BY <1>1, NextMultiple
          <5>2. j * PL <= q * PL  BY <1>1, <4>1, Monotonic
          <5>3. QED  BY <1>1, <1>3, <4>3, <5>1, <5>2
        <4>5. PICK x \in Nat : x = a + 1  OBVIOUS
        <4>6. x \in 1..Len(front) /\ b \in 1..Len(front)  BY <1>1, <2>3, <4>4, <4>5
        <4>7. SubSeq(front \o tail, x, b) = SubSeq(front, x, b)
          BY <2>3, <2>7, <4>6, SubSeqOfConcat1
        <4>8. QED  BY <2>8, <2>9, <4>2, <4>4, <4>5, <4>7 DEF WholePiece
      <3>3. QED  BY <3>1, <3>2
    <2>13. V1Of(f, size, TRUE) = [j \in 1..c |-> V1Of(f, size, TRUE)[j]]
      BY <2>2 DEF V1Of
    <2>14. Cuts(PaddedFile(f, size), c) = V1Of(f, size, TRUE)
      BY <2>12, <2>13 DEF Cuts
    <2>15. QED  BY <2>2, <2>11, <2>14 DEF CutRight
  <1>7. QED  BY <1>5, <1>6

\* A file alone is not padded.
CutAlone(f, size, c) ==
    /\ c \in Nat /\ PieceCount(size) = c
    /\ V1Of(f, size, FALSE) \in Seq(Seq(Bytes(f)))
    /\ \A j \in 1..c : SubSeq(Stretch(f, 0, size), (j - 1) * PieceLength + 1,
                              Least(j * PieceLength, size)) = V1Of(f, size, FALSE)[j]

LEMMA AloneIs ==
    ASSUME NEW f, NEW size \in Nat
    PROVE  \E c \in Nat : CutAlone(f, size, c)
  <1> DEFINE PL == PieceLength
  <1>1. PL \in Nat \ {0}  BY PieceLengthPositive
  <1>2. PICK q \in Nat, m \in 0..(PL - 1) : size = q * PL + m
    <2>1. /\ size \div PL \in Nat /\ size % PL \in 0..(PL - 1)
          /\ size = (size \div PL) * PL + (size % PL)
      BY <1>1
    <2>2. QED  BY <2>1
  <1>3. PICK c \in Nat : PieceCount(size) = c /\ \A i \in Nat : i + 1 <= c => i * PL <= size
    <2>1. PICK e \in Nat : e = q * PL  BY <1>1
    <2>2. PieceCount(size) = IF size = q * PieceLength THEN q ELSE q + 1
      <3>1. q * PieceLength <= size /\ size < q * PieceLength + PieceLength
        BY <1>1, <1>2, <2>1
      <3>2. QED  BY <3>1, CountIs
    <2>3. PieceCount(size) \in Nat /\ PieceCount(size) <= q + 1
      <3>1. PieceCount(size) = q \/ PieceCount(size) = q + 1  BY <2>2
      <3>2. QED  BY <3>1
    <2>4. ASSUME NEW i \in Nat, i + 1 <= PieceCount(size)  PROVE i * PL <= size
      <3>1. i <= q  BY <2>3, <2>4
      <3>2. i * PL <= q * PL /\ i * PL \in Nat  BY <1>1, <3>1, Monotonic
      <3>3. QED  BY <1>2, <2>1, <3>2
    <2>5. QED  BY <2>3, <2>4
  <1>4. ASSUME NEW j \in 1..c
        PROVE  /\ SubSeq(Stretch(f, 0, size), (j - 1) * PieceLength + 1,
                         Least(j * PieceLength, size)) = V1Of(f, size, FALSE)[j]
               /\ V1Of(f, size, FALSE)[j] \in Seq(Bytes(f))
    <2>1. PICK i \in Nat : j = i + 1 /\ j - 1 = i
      <3>1. j - 1 \in Nat /\ j = (j - 1) + 1  OBVIOUS
      <3>2. QED  BY <3>1
    <2>2. PICK a \in Nat, b \in Nat : a = (j - 1) * PL /\ b = j * PL /\ a <= b /\ a <= size
      <3>1. (i + 1) * PL = i * PL + PL /\ i * PL \in Nat  BY <1>1, NextMultiple
      <3>2. i * PL <= size  BY <1>3, <2>1
      <3>3. QED  BY <1>1, <2>1, <3>1, <3>2
    <2>3. PICK d \in Nat : d = Least(b, size) /\ a <= d /\ d <= size  BY <2>2 DEF Least
    <2>4. PICK x \in Nat : x = a + 1  OBVIOUS
    <2>5. Part(0, size, a, d, x, d)  BY <2>3, <2>4 DEF Part
    <2>6. PartIs(f, 0, size, a, d, x, d)  BY <2>5, StretchPart
    <2>7. SubSeq(Stretch(f, 0, size), a + 1, d) = Stretch(f, a, d)
      BY <2>4, <2>6 DEF PartIs
    <2>8. V1Of(f, size, FALSE)[j] = Stretch(f, a, d) \o <<>>
      BY <1>3, <2>2, <2>3 DEF V1Of, PieceEnd
    <2>9. Stretch(f, a, d) \in Seq(Bytes(f))  BY <2>3, StretchIsSeq
    <2>10. Stretch(f, a, d) \o <<>> = Stretch(f, a, d)  BY <2>9, ConcatEmptySeq
    <2>11. QED  BY <2>2, <2>3, <2>7, <2>8, <2>9, <2>10
  <1>5. V1Of(f, size, FALSE) \in Seq(Seq(Bytes(f)))
    <2>1. PICK v : v = V1Of(f, size, FALSE)  OBVIOUS
    <2>2. v = [j \in 1..c |-> v[j]]  BY <1>3, <2>1 DEF V1Of
    <2>3. \A j \in 1..c : v[j] \in Seq(Bytes(f))  BY <1>4, <2>1
    <2>4. v \in [1..c -> Seq(Bytes(f))]  BY <2>2, <2>3
    <2>5. v \in Seq(Seq(Bytes(f)))  BY <2>4, SeqDef
    <2>6. QED  BY <2>1, <2>5
  <1>6. QED  BY <1>3, <1>4, <1>5 DEF CutAlone

-----------------------------------------------------------------------------
(* The pieces of a payload.                                                *)

AllBytes == {Byte(f, p) : f \in HashedFiles, p \in Nat} \cup {ZeroByte}

LEMMA BytesAreBytes ==
    ASSUME NEW f \in HashedFiles
    PROVE  Seq(Bytes(f)) \subseteq Seq(AllBytes) /\ Seq(Seq(Bytes(f))) \subseteq Seq(Seq(AllBytes))
  <1>1. Bytes(f) \subseteq AllBytes  BY DEF Bytes, AllBytes
  <1>2. Seq(Bytes(f)) \subseteq Seq(AllBytes)  BY <1>1, SeqMonotonic
  <1>3. Seq(Seq(Bytes(f))) \subseteq Seq(Seq(AllBytes))  BY <1>2, SeqMonotonic
  <1>4. QED  BY <1>2, <1>3

LEMMA FileInPieces ==
    ASSUME NEW f \in HashedFiles
    PROVE  /\ PieceCount(SizeOf[f]) \in Nat
           /\ PaddedFile(f, SizeOf[f]) \in Seq(AllBytes)
           /\ Len(PaddedFile(f, SizeOf[f])) = PieceCount(SizeOf[f]) * PieceLength
           /\ Cuts(PaddedFile(f, SizeOf[f]), PieceCount(SizeOf[f])) = V1Of(f, SizeOf[f], TRUE)
  <1>1. PICK size \in Nat : size = SizeOf[f]  BY FilesAssumption
  <1>2. PICK c \in Nat : CutRight(f, size, c)  BY PaddedFileIs
  <1>3. QED  BY <1>1, <1>2, BytesAreBytes DEF CutRight

LEMMA HashesOfFile ==
    ASSUME NEW f \in HashedFiles, NEW pad \in BOOLEAN
    PROVE  /\ V1Of(f, SizeOf[f], pad) \in Seq(Seq(AllBytes))
           /\ Len(V1Of(f, SizeOf[f], pad)) = PieceCount(SizeOf[f])
  <1>1. PICK c \in Nat : c = PieceCount(SizeOf[f])  BY FileInPieces
  <1>2. V1Of(f, SizeOf[f], pad) \in Seq(Seq(AllBytes))
    <2>1. CASE pad = TRUE
      <3>1. Cuts(PaddedFile(f, SizeOf[f]), c) \in Seq(Seq(AllBytes))
        <4>1. /\ PaddedFile(f, SizeOf[f]) \in Seq(AllBytes)
              /\ c * PieceLength <= Len(PaddedFile(f, SizeOf[f]))
          <5>1. PICK e \in Nat : e = c * PieceLength  BY PieceLengthPositive
          <5>2. Len(PaddedFile(f, SizeOf[f])) = e  BY <1>1, <5>1, FileInPieces
          <5>3. c * PieceLength <= Len(PaddedFile(f, SizeOf[f]))  BY <5>1, <5>2
          <5>4. QED  BY <5>3, FileInPieces
        <4>2. QED  BY <4>1, CutsType
      <3>2. QED  BY <1>1, <2>1, <3>1, FileInPieces
    <2>2. CASE pad = FALSE
      <3>1. PICK size \in Nat : size = SizeOf[f]  BY FilesAssumption
      <3>2. PICK k \in Nat : CutAlone(f, size, k)  BY AloneIs
      <3>3. QED  BY <2>2, <3>1, <3>2, BytesAreBytes DEF CutAlone
    <2>3. QED  BY <2>1, <2>2
  <1>3. DOMAIN V1Of(f, SizeOf[f], pad) = 1..c  BY <1>1 DEF V1Of
  <1>4. QED  BY <1>1, <1>2, <1>3, LenProperties

\* The hashes of the files of a payload, one after the other.
HashesOf(r) == [i \in DOMAIN r |-> V1Of(r[i], SizeOf[r[i]], Len(r) > 1)]

LEMMA ReleaseIs ==
    ASSUME NEW r \in Releases
    PROVE  /\ Len(r) \in Nat \ {0} /\ DOMAIN r = 1..Len(r)
           /\ \A i \in 1..Len(r) : r[i] \in HashedFiles
           /\ HashesOf(r) \in Seq(Seq(Seq(AllBytes))) /\ Len(HashesOf(r)) = Len(r)
  <1>1. r \in Seq(HashedFiles) /\ r # <<>>  BY FilesAssumption
  <1>2. Len(r) \in Nat \ {0} /\ DOMAIN r = 1..Len(r)  BY <1>1, LenProperties, EmptySeq
  <1>3. \A i \in 1..Len(r) : r[i] \in HashedFiles  BY <1>1, ElementOfSeq
  <1>4. PICK n \in Nat : n = Len(r)  BY <1>2
  <1>5. PICK pad \in BOOLEAN : pad = (Len(r) > 1)
    <2>1. (Len(r) > 1) \in BOOLEAN  OBVIOUS
    <2>2. QED  BY <2>1, Zenon
  <1>6. HashesOf(r) = [i \in 1..n |-> V1Of(r[i], SizeOf[r[i]], pad)]
    BY <1>2, <1>4, <1>5 DEF HashesOf
  <1>7. \A i \in 1..n : V1Of(r[i], SizeOf[r[i]], pad) \in Seq(Seq(AllBytes))
    BY <1>3, <1>4, HashesOfFile
  <1>8. HashesOf(r) \in [1..n -> Seq(Seq(AllBytes))]  BY <1>6, <1>7
  <1>9. HashesOf(r) \in Seq(Seq(Seq(AllBytes)))  BY <1>8, SeqDef
  <1>10. DOMAIN HashesOf(r) = 1..n  BY <1>6
  <1>11. QED  BY <1>2, <1>3, <1>4, <1>9, <1>10, LenProperties

LEMMA LayoutIs ==
    ASSUME NEW r \in Releases, Len(r) > 1
    PROVE  /\ Layout(r) \in Seq(Seq(AllBytes)) /\ Len(Layout(r)) = Len(r)
           /\ \A i \in 1..Len(r) : Layout(r)[i] = PaddedFile(r[i], SizeOf[r[i]])
  <1>1. PICK n \in Nat : n = Len(r) /\ DOMAIN r = 1..n /\ \A i \in 1..n : r[i] \in HashedFiles
    BY ReleaseIs
  <1>2. \A i \in 1..n : PadAfter(r, r[i]) = Padding(SizeOf[r[i]])
    BY DEF PadAfter, Padding
  <1>3. Layout(r) = [i \in 1..n |-> PaddedFile(r[i], SizeOf[r[i]])]
    BY <1>1, <1>2 DEF Layout, PaddedFile
  <1>4. \A i \in 1..n : PaddedFile(r[i], SizeOf[r[i]]) \in Seq(AllBytes)
    BY <1>1, FileInPieces
  <1>5. Layout(r) \in [1..n -> Seq(AllBytes)]  BY <1>3, <1>4
  <1>6. Layout(r) \in Seq(Seq(AllBytes))  BY <1>5, SeqDef
  <1>7. DOMAIN Layout(r) = 1..n  BY <1>3
  <1>8. QED  BY <1>1, <1>3, <1>6, <1>7, LenProperties

\* cur[i] counts the pieces of the first i files.
Sums(cur, r) ==
    /\ cur[0] = 0
    /\ \A i \in 1..Len(r) : cur[i] = cur[i - 1] + PieceCount(SizeOf[r[i]])
    /\ \A i \in 0..Len(r) : cur[i] \in Nat

\* The first i files with their padding, and their hashes.
Joined(r, cur, fl, fv) ==
    /\ r \in Releases /\ Len(r) > 1 /\ Sums(cur, r)
    /\ fl \in [Nat -> Seq(AllBytes)] /\ Joins(fl, Layout(r))
    /\ fv \in [Nat -> Seq(Seq(AllBytes))] /\ Joins(fv, HashesOf(r))

JoinedCut(cur, fl, fv, i) ==
    Len(fl[i]) = cur[i] * PieceLength /\ fv[i] = Cuts(fl[i], cur[i])

LEMMA JoinedCuts ==
    ASSUME NEW r, NEW cur, NEW fl, NEW fv, Joined(r, cur, fl, fv)
    PROVE  \A i \in 0..Len(r) : JoinedCut(cur, fl, fv, i)
  <1>1. /\ r \in Releases /\ Len(r) > 1 /\ Sums(cur, r)
        /\ fl \in [Nat -> Seq(AllBytes)] /\ Joins(fl, Layout(r))
        /\ fv \in [Nat -> Seq(Seq(AllBytes))] /\ Joins(fv, HashesOf(r))
    BY DEF Joined
  <1>2. PICK n \in Nat : n = Len(r) /\ DOMAIN r = 1..n /\ \A i \in 1..n : r[i] \in HashedFiles
    BY <1>1, ReleaseIs
  <1>3. PICK L : L = Layout(r)  OBVIOUS
  <1>4. Len(L) = n /\ \A i \in 1..n : L[i] = PaddedFile(r[i], SizeOf[r[i]])
    BY <1>1, <1>2, <1>3, LayoutIs
  <1>5. fl[0] = <<>> /\ \A i \in 1..n : fl[i] = fl[i - 1] \o L[i]
    BY <1>1, <1>3, <1>4 DEF Joins
  <1>6. PICK V : V = HashesOf(r)  OBVIOUS
  <1>7. Len(V) = n /\ \A i \in 1..n : V[i] = V1Of(r[i], SizeOf[r[i]], TRUE)
    <2>1. Len(V) = n  BY <1>1, <1>2, <1>6, ReleaseIs
    <2>2. (Len(r) > 1) = TRUE  BY <1>1
    <2>3. \A i \in 1..n : V[i] = V1Of(r[i], SizeOf[r[i]], Len(r) > 1)
      BY <1>2, <1>6 DEF HashesOf
    <2>4. QED  BY <2>1, <2>2, <2>3
  <1>8. fv[0] = <<>> /\ \A i \in 1..n : fv[i] = fv[i - 1] \o V[i]
    BY <1>1, <1>6, <1>7 DEF Joins
  <1>9. /\ cur[0] = 0 /\ \A i \in 0..n : cur[i] \in Nat
        /\ \A i \in 1..n : cur[i] = cur[i - 1] + PieceCount(SizeOf[r[i]])
    BY <1>1, <1>2 DEF Sums
  <1> DEFINE T == {i \in Nat : i <= n => JoinedCut(cur, fl, fv, i)}
  <1>10. 0 \in T
    <2>1. Len(fl[0]) = 0  BY <1>5, EmptySeq
    <2>2. 0 * PieceLength = 0  BY PieceLengthPositive
    <2>3. \A s : Cuts(s, 0) = <<>>  BY DEF Cuts
    <2>4. JoinedCut(cur, fl, fv, 0)
      BY <1>8, <1>9, <2>1, <2>2, <2>3 DEF JoinedCut
    <2>5. QED  BY <2>4
  <1>11. ASSUME NEW i \in Nat, i \in T  PROVE i + 1 \in T
    <2>1. ASSUME i + 1 <= n  PROVE JoinedCut(cur, fl, fv, i + 1)
      <3>1. PICK j \in Nat : j = i + 1  OBVIOUS
      <3>2. j \in 1..n /\ j - 1 = i /\ i \in 0..n /\ i <= n  BY <1>2, <2>1, <3>1
      <3>3. PICK f \in HashedFiles : f = r[j]  BY <1>2, <3>2
      <3>4. PICK s \in Seq(AllBytes) : s = fl[i]  BY <1>1
      <3>5. PICK t \in Seq(AllBytes) : t = PaddedFile(f, SizeOf[f])  BY FileInPieces
      <3>6. PICK k \in Nat, c \in Nat : k = cur[i] /\ c = PieceCount(SizeOf[f])
        BY <1>9, <3>2, FileInPieces
      <3>7. cur[j] = k + c  BY <1>9, <3>2, <3>3, <3>6
      <3>8. Len(s) = k * PieceLength /\ fv[i] = Cuts(s, k)
        BY <1>11, <3>2, <3>4, <3>6 DEF JoinedCut
      <3>9. Len(t) = c * PieceLength /\ Cuts(t, c) = V1Of(f, SizeOf[f], TRUE)
        BY <3>5, <3>6, FileInPieces
      <3>10. fl[j] = s \o t
        BY <1>4, <1>5, <3>2, <3>3, <3>4, <3>5
      <3>11. fv[j] = Cuts(s, k) \o Cuts(t, c)
        BY <1>7, <1>8, <3>2, <3>3, <3>8, <3>9
      <3>12. Cuttable(AllBytes, s, t, k, c)  BY <3>8, <3>9 DEF Cuttable
      <3>13. CutsJoin(s, t, k, c)  BY <3>12, CutsConcat
      <3>14. fv[j] = Cuts(fl[j], cur[j])
        BY <3>7, <3>10, <3>11, <3>13 DEF CutsJoin
      <3>15. Len(fl[j]) = cur[j] * PieceLength
        <4>1. Len(s \o t) = Len(s) + Len(t)  BY ConcatProperties
        <4>2. (k + c) * PieceLength = k * PieceLength + c * PieceLength
          BY PieceLengthPositive
        <4>3. QED  BY <3>7, <3>8, <3>9, <3>10, <4>1, <4>2
      <3>16. JoinedCut(cur, fl, fv, j)  BY <3>14, <3>15 DEF JoinedCut
      <3>17. QED  BY <3>1, <3>16
    <2>2. QED  BY <2>1
  <1> HIDE DEF T
  <1>12. Nat \subseteq T  BY <1>10, <1>11, SetInduction
  <1>13. QED  BY <1>2, <1>12 DEF T

LEMMA FlattenOne ==
    ASSUME NEW S, NEW seqs \in Seq(Seq(S)), Len(seqs) = 1
    PROVE  FlattenSeq(seqs) = seqs[1]
  <1>1. PICK g \in [Nat -> Seq(S)] : Joins(g, seqs) /\ FlattenSeq(seqs) = g[Len(seqs)]
    BY FlattenIs
  <1>2. 1 \in 1..Len(seqs) /\ 1 - 1 = 0  OBVIOUS
  <1>3. g[1] = g[1 - 1] \o seqs[1] /\ g[0] = <<>>  BY <1>1, <1>2 DEF Joins
  <1>4. g[1 - 1] = <<>>  BY <1>2, <1>3
  <1>5. seqs[1] \in Seq(S)  BY <1>2, ElementOfSeq
  <1>6. <<>> \o seqs[1] = seqs[1]  BY <1>5, ConcatEmptySeq
  <1>7. QED  BY <1>1, <1>3, <1>4, <1>6

\* The pieces of a stream, the last of which may be shorter.
PiecesOf(stream) ==
    [i \in 1..PieceCount(Len(stream)) |->
        SubSeq(stream, (i - 1) * PieceLength + 1, Least(i * PieceLength, Len(stream)))]

LEMMA ReferenceIs ==
    ASSUME NEW r \in Releases
    PROVE  References[r] =
             [pieces |-> PiecesOf(FlattenSeq(Layout(r))),
              roots |-> [f \in ToSet(r) |-> RootOf(f, SizeOf[f])],
              layers |-> [f \in LargeOf(r) |-> V2Of(f, SizeOf[f])]]
  BY DEF References, PiecesOf

LEMMA WholePiecesOf ==
    ASSUME NEW s, NEW k \in Nat, Len(s) = k * PieceLength
    PROVE  PiecesOf(s) = Cuts(s, k)
  <1>1. PICK e \in Nat : e = k * PieceLength /\ Len(s) = e  BY PieceLengthPositive
  <1>2. PieceCount(e) = k
    <2>1. k * PieceLength <= e /\ e < k * PieceLength + PieceLength /\ e = k * PieceLength
      BY <1>1, PieceLengthPositive
    <2>2. QED  BY <2>1, CountIs
  <1>3. ASSUME NEW i \in 1..k  PROVE Least(i * PieceLength, e) = i * PieceLength
    <2>1. i * PieceLength <= k * PieceLength  BY PieceLengthPositive, Monotonic
    <2>2. QED  BY <1>1, <2>1 DEF Least
  <1>4. QED  BY <1>1, <1>2, <1>3 DEF PiecesOf, Cuts

\* The pieces of the payload as one stream are those of its files.
LEMMA StreamPieces ==
    ASSUME NEW r \in Releases, NEW cur, Sums(cur, r)
    PROVE  PiecesOf(FlattenSeq(Layout(r))) = FlattenSeq(HashesOf(r))
  <1>1. PICK n \in Nat \ {0} : n = Len(r) /\ DOMAIN r = 1..n /\ \A i \in 1..n : r[i] \in HashedFiles
    BY ReleaseIs
  <1>2. HashesOf(r) \in Seq(Seq(Seq(AllBytes))) /\ Len(HashesOf(r)) = n
    BY <1>1, ReleaseIs
  <1>3. CASE n > 1
    <2>1. Layout(r) \in Seq(Seq(AllBytes)) /\ Len(Layout(r)) = n
      BY <1>1, <1>3, LayoutIs
    <2>2. PICK fl \in [Nat -> Seq(AllBytes)] : Joins(fl, Layout(r)) /\ FlattenSeq(Layout(r)) = fl[n]
      BY <2>1, FlattenIs
    <2>3. PICK fv \in [Nat -> Seq(Seq(AllBytes))] :
             Joins(fv, HashesOf(r)) /\ FlattenSeq(HashesOf(r)) = fv[n]
      BY <1>2, FlattenIs
    <2>4. Joined(r, cur, fl, fv)  BY <1>1, <1>3, <2>2, <2>3 DEF Joined
    <2>5. n \in 0..Len(r)  BY <1>1
    <2>6. JoinedCut(cur, fl, fv, n)  BY <2>4, <2>5, JoinedCuts
    <2>7. PICK k \in Nat : k = cur[n]  BY <2>5 DEF Sums
    <2>8. Len(fl[n]) = k * PieceLength /\ fv[n] = Cuts(fl[n], k)
      BY <2>6, <2>7 DEF JoinedCut
    <2>9. PiecesOf(fl[n]) = Cuts(fl[n], k)  BY <2>8, WholePiecesOf
    <2>10. QED  BY <2>2, <2>3, <2>8, <2>9
  <1>4. CASE n = 1
    <2>1. PICK f \in HashedFiles : f = r[1]  BY <1>1, <1>4
    <2>2. PICK size \in Nat : size = SizeOf[f]  BY FilesAssumption
    <2>3. PICK c \in Nat : CutAlone(f, size, c)  BY AloneIs
    <2>4. PICK s : s = Stretch(f, 0, size)  OBVIOUS
    <2>5. s \in Seq(Bytes(f)) /\ Len(s) = size
      <3>1. PICK o \in Nat : o = 0 /\ o <= size /\ size - o = size  OBVIOUS
      <3>2. Stretch(f, o, size) \in Seq(Bytes(f)) /\ Len(Stretch(f, o, size)) = size - o
        BY <3>1, StretchIsSeq
      <3>3. QED  BY <2>4, <3>1, <3>2
    <2>6. s \in Seq(AllBytes)  BY <2>5, BytesAreBytes
    <2>7. FlattenSeq(HashesOf(r)) = V1Of(f, size, FALSE)
      <3>1. HashesOf(r)[1] = V1Of(r[1], SizeOf[r[1]], Len(r) > 1)
        BY <1>1, <1>4 DEF HashesOf
      <3>2. (Len(r) > 1) = FALSE  BY <1>1, <1>4
      <3>3. HashesOf(r)[1] = V1Of(f, size, FALSE)  BY <2>1, <2>2, <3>1, <3>2
      <3>4. FlattenSeq(HashesOf(r)) = HashesOf(r)[1]  BY <1>2, <1>4, FlattenOne
      <3>5. QED  BY <3>3, <3>4
    <2>8. FlattenSeq(Layout(r)) = s
      <3>1. PadAfter(r, f) = 0  BY <1>1, <1>4 DEF PadAfter
      <3>2. Zeros(PadAfter(r, f)) = <<>>  BY <3>1, ZerosAre
      <3>3. s \o <<>> = s  BY <2>5, ConcatEmptySeq
      <3>4. Layout(r) = [i \in 1..n |-> Stretch(r[i], 0, SizeOf[r[i]]) \o Zeros(PadAfter(r, r[i]))]
        BY <1>1 DEF Layout
      <3>5. Layout(r)[1] = s
        <4>1. 1 \in 1..n  BY <1>4
        <4>2. Layout(r)[1] = Stretch(r[1], 0, SizeOf[r[1]]) \o Zeros(PadAfter(r, r[1]))
          BY <3>4, <4>1
        <4>3. Layout(r)[1] = s \o <<>>  BY <2>1, <2>2, <2>4, <3>2, <4>2
        <4>4. QED  BY <3>3, <4>3
      <3>6. PICK L : L = Layout(r)  OBVIOUS
      <3>7. L = [i \in 1..n |-> L[i]]  BY <3>4, <3>6
      <3>8. \A i \in 1..n : i = 1  BY <1>4
      <3>9. L \in [1..n -> Seq(AllBytes)]  BY <2>6, <3>5, <3>6, <3>7, <3>8
      <3>10. L \in Seq(Seq(AllBytes))  BY <3>9, SeqDef
      <3>11. DOMAIN L = 1..n  BY <3>7
      <3>12. Len(L) = 1  BY <1>4, <3>10, <3>11, LenProperties
      <3>13. FlattenSeq(L) = L[1]  BY <3>10, <3>12, FlattenOne
      <3>14. QED  BY <3>5, <3>6, <3>13
    <2>9. PiecesOf(s) = V1Of(f, size, FALSE)
      <3>1. /\ PieceCount(size) = c
            /\ \A j \in 1..c : SubSeq(Stretch(f, 0, size), (j - 1) * PieceLength + 1,
                                      Least(j * PieceLength, size)) = V1Of(f, size, FALSE)[j]
        BY <2>3 DEF CutAlone
      <3>2. PICK v : v = V1Of(f, size, FALSE)  OBVIOUS
      <3>3. v = [j \in 1..c |-> v[j]]  BY <3>1, <3>2 DEF V1Of
      <3>4. PiecesOf(s) = [j \in 1..c |-> SubSeq(s, (j - 1) * PieceLength + 1,
                                                 Least(j * PieceLength, size))]
        BY <2>5, <3>1 DEF PiecesOf
      <3>5. \A j \in 1..c :
              SubSeq(s, (j - 1) * PieceLength + 1, Least(j * PieceLength, size)) = v[j]
        BY <2>4, <3>1, <3>2
      <3>6. PiecesOf(s) = [j \in 1..c |-> v[j]]  BY <3>4, <3>5
      <3>7. QED  BY <3>2, <3>3, <3>6
    <2>10. QED  BY <2>7, <2>8, <2>9
  <1>5. n > 1 \/ n = 1  OBVIOUS
  <1>6. QED  BY <1>3, <1>4, <1>5

\* Cutting a sequence of sequences at the sums of their lengths gives them back.
Sliced(r, cur, fv) ==
    /\ r \in Releases /\ Sums(cur, r)
    /\ fv \in [Nat -> Seq(Seq(AllBytes))] /\ Joins(fv, HashesOf(r))

SliceIs(r, cur, fv, i, m) ==
    /\ SubSeq(fv[m], cur[i - 1] + 1, cur[i]) = HashesOf(r)[i]
    /\ cur[i] <= Len(fv[m])

LEMMA LengthsAreSums ==
    ASSUME NEW r, NEW cur, NEW fv, Sliced(r, cur, fv)
    PROVE  \A i \in 0..Len(r) : Len(fv[i]) = cur[i]
  <1>1. /\ r \in Releases /\ Sums(cur, r)
        /\ fv \in [Nat -> Seq(Seq(AllBytes))] /\ Joins(fv, HashesOf(r))
    BY DEF Sliced
  <1>2. PICK n \in Nat : n = Len(r) /\ DOMAIN r = 1..n /\ \A i \in 1..n : r[i] \in HashedFiles
    BY <1>1, ReleaseIs
  <1>3. PICK V : V = HashesOf(r)  OBVIOUS
  <1>4. V \in Seq(Seq(Seq(AllBytes))) /\ Len(V) = n  BY <1>1, <1>2, <1>3, ReleaseIs
  <1>5. fv[0] = <<>> /\ \A i \in 1..n : fv[i] = fv[i - 1] \o V[i]
    BY <1>1, <1>3, <1>4 DEF Joins
  <1>6. ASSUME NEW i \in 1..n
        PROVE  V[i] \in Seq(Seq(AllBytes)) /\ Len(V[i]) = PieceCount(SizeOf[r[i]])
    <2>1. V[i] \in Seq(Seq(AllBytes))  BY <1>4, ElementOfSeq
    <2>2. V[i] = V1Of(r[i], SizeOf[r[i]], Len(r) > 1)  BY <1>2, <1>3 DEF HashesOf
    <2>3. PICK pad \in BOOLEAN : pad = (Len(r) > 1)
      <3>1. (Len(r) > 1) \in BOOLEAN  OBVIOUS
      <3>2. QED  BY <3>1, Zenon
    <2>4. V[i] = V1Of(r[i], SizeOf[r[i]], pad)  BY <2>2, <2>3
    <2>5. QED  BY <1>2, <2>1, <2>4, HashesOfFile
  <1> DEFINE T == {i \in Nat : i <= n => Len(fv[i]) = cur[i]}
  <1>7. 0 \in T
    <2>1. Len(fv[0]) = 0 /\ cur[0] = 0  BY <1>1, <1>5, EmptySeq DEF Sums
    <2>2. QED  BY <2>1
  <1>8. ASSUME NEW i \in Nat, i \in T  PROVE i + 1 \in T
    <2>1. ASSUME i + 1 <= n  PROVE Len(fv[i + 1]) = cur[i + 1]
      <3>1. PICK j \in Nat : j = i + 1  OBVIOUS
      <3>2. j \in 1..n /\ j - 1 = i /\ i <= n  BY <1>2, <2>1, <3>1
      <3>3. PICK s \in Seq(Seq(AllBytes)), t \in Seq(Seq(AllBytes)) : s = fv[i] /\ t = V[j]
        BY <1>1, <1>6, <3>2
      <3>4. fv[j] = s \o t  BY <1>5, <3>2, <3>3
      <3>5. Len(s \o t) = Len(s) + Len(t)  BY ConcatProperties
      <3>6. Len(s) = cur[i] /\ Len(t) = PieceCount(SizeOf[r[j]])
        BY <1>6, <1>8, <3>2, <3>3
      <3>7. cur[j] = cur[i] + PieceCount(SizeOf[r[j]])
        BY <1>1, <1>2, <3>2 DEF Sums
      <3>8. QED  BY <3>1, <3>4, <3>5, <3>6, <3>7
    <2>2. QED  BY <2>1
  <1> HIDE DEF T
  <1>9. Nat \subseteq T  BY <1>7, <1>8, SetInduction
  <1>10. QED  BY <1>2, <1>9 DEF T

LEMMA SlicesAre ==
    ASSUME NEW r, NEW cur, NEW fv, Sliced(r, cur, fv), NEW i \in 1..Len(r)
    PROVE  SliceIs(r, cur, fv, i, Len(r))
  <1>1. /\ r \in Releases /\ Sums(cur, r)
        /\ fv \in [Nat -> Seq(Seq(AllBytes))] /\ Joins(fv, HashesOf(r))
    BY DEF Sliced
  <1>2. PICK n \in Nat : n = Len(r)  BY <1>1, ReleaseIs
  <1>3. PICK V : V = HashesOf(r)  OBVIOUS
  <1>4. V \in Seq(Seq(Seq(AllBytes))) /\ Len(V) = n  BY <1>1, <1>2, <1>3, ReleaseIs
  <1>5. \A j \in 1..n : fv[j] = fv[j - 1] \o V[j] /\ V[j] \in Seq(Seq(AllBytes))
    BY <1>1, <1>3, <1>4, ElementOfSeq DEF Joins
  <1>6. \A j \in 0..n : Len(fv[j]) = cur[j] /\ cur[j] \in Nat
    <2>1. \A j \in 0..Len(r) : Len(fv[j]) = cur[j]  BY LengthsAreSums
    <2>2. \A j \in 0..Len(r) : cur[j] \in Nat  BY <1>1 DEF Sums
    <2>3. QED  BY <1>2, <2>1, <2>2
  <1>7. PICK x \in Nat, y \in Nat, t \in Seq(Seq(AllBytes)) :
           x = cur[i - 1] /\ y = cur[i] /\ t = V[i]
    <2>1. i - 1 \in 0..n /\ i \in 0..n /\ i \in 1..n  BY <1>2
    <2>2. QED  BY <1>5, <1>6, <2>1
  <1>8. y = x + Len(t)
    <2>1. i \in 1..n /\ i \in 0..n /\ i - 1 \in 0..n /\ i - 1 \in Nat  BY <1>2
    <2>2. PICK s \in Seq(Seq(AllBytes)) : s = fv[i - 1]  BY <1>1, <2>1
    <2>3. fv[i] = s \o t  BY <1>5, <1>7, <2>1, <2>2
    <2>4. Len(s \o t) = Len(s) + Len(t)  BY ConcatProperties
    <2>5. QED  BY <1>6, <1>7, <2>1, <2>2, <2>3, <2>4
  <1>9. Len(t) \in Nat  BY LenProperties
  <1> DEFINE T == {m \in Nat : i <= m /\ m <= n => SliceIs(r, cur, fv, i, m)}
  <1>10. 0 \in T  OBVIOUS
  <1>11. ASSUME NEW m \in Nat, m \in T  PROVE m + 1 \in T
    <2>1. ASSUME i <= m + 1, m + 1 <= n  PROVE SliceIs(r, cur, fv, i, m + 1)
      <3>1. PICK j \in Nat : j = m + 1  OBVIOUS
      <3>2. j \in 1..n /\ j - 1 = m /\ m <= n /\ m \in 0..n /\ j \in 0..n  BY <1>2, <2>1, <3>1
      <3>3. PICK s \in Seq(Seq(AllBytes)), u \in Seq(Seq(AllBytes)) : s = fv[m] /\ u = V[j]
        BY <1>1, <1>5, <3>2
      <3>4. fv[j] = s \o u  BY <1>5, <3>2, <3>3
      <3>5. Len(s \o u) = Len(s) + Len(u) /\ Len(s) \in Nat /\ Len(u) \in Nat
        BY ConcatProperties, LenProperties
      <3>6. Len(s) = cur[m]  BY <1>6, <3>2, <3>3
      <3>7. SubSeq(s \o u, x + 1, y) = t /\ y <= Len(s \o u)
        <4>1. CASE i = j
          <5>1. u = t /\ x = Len(s)
            BY <1>7, <3>2, <3>3, <3>6, <4>1
          <5>2. y = Len(s) + Len(u)  BY <1>8, <5>1
          <5>3. SubSeq(s \o u, Len(s) + 1, Len(s) + Len(u)) = u  BY SecondPart
          <5>4. y <= Len(s \o u)  BY <3>5, <5>2
          <5>5. QED  BY <5>1, <5>2, <5>3, <5>4
        <4>2. CASE i # j
          <5>1. i <= m  BY <2>1, <3>1, <4>2
          <5>2. SliceIs(r, cur, fv, i, m)  BY <1>11, <3>2, <5>1
          <5>3. SubSeq(s, x + 1, y) = t /\ y <= Len(s)
            BY <1>3, <1>7, <3>3, <5>2 DEF SliceIs
          <5>4. CASE Len(t) = 0
            <6>1. t = <<>>  BY <5>4, EmptySeq
            <6>2. PICK a \in Int : a = x + 1 /\ y < a  BY <1>8, <5>4
            <6>3. SubSeq(s \o u, a, y) = <<>>  BY <6>2, SubSeqEmpty
            <6>4. QED  BY <3>5, <5>3, <6>1, <6>2, <6>3
          <5>5. CASE Len(t) # 0
            <6>1. PICK a \in 1..Len(s) : a = x + 1  BY <1>8, <1>9, <3>5, <5>3, <5>5
            <6>2. y \in 1..Len(s)  BY <1>8, <1>9, <3>5, <5>3, <5>5
            <6>3. SubSeq(s \o u, a, y) = SubSeq(s, a, y)  BY <6>2, SubSeqOfConcat1
            <6>4. QED  BY <3>5, <5>3, <6>1, <6>3
          <5>6. QED  BY <5>4, <5>5
        <4>3. QED  BY <4>1, <4>2
      <3>8. SliceIs(r, cur, fv, i, j)
        BY <1>3, <1>7, <3>4, <3>7 DEF SliceIs
      <3>9. QED  BY <3>1, <3>8
    <2>2. QED  BY <2>1
  <1> HIDE DEF T
  <1>12. Nat \subseteq T  BY <1>10, <1>11, SetInduction
  <1>13. i <= n /\ n <= n  BY <1>2
  <1>14. QED  BY <1>2, <1>12, <1>13 DEF T

\* Cursor is what its definition says.
LEMMA CursorIs ==
    ASSUME FileTypes
    PROVE  Sums(Cursor, release)
  <1>1. PICK r \in Releases : r = release  BY DEF FileTypes
  <1>2. PICK n \in Nat : n = Len(r) /\ \A i \in 1..n : r[i] \in HashedFiles  BY ReleaseIs
  <1>3. \A i \in 1..n : PieceCount(SizeOf[r[i]]) \in Nat  BY <1>2, FileInPieces
  <1> DEFINE step == [k \in Nat |-> [x \in Nat |->
                         IF k + 1 \in 1..n THEN x + PieceCount(SizeOf[r[k + 1]]) ELSE x]]
             Is(g) == g = [i \in 0..n |->
                              IF i = 0 THEN 0 ELSE g[i - 1] + PieceCount(SizeOf[r[i]])]
  <1>4. 0 \in Nat /\ step \in [Nat -> [Nat -> Nat]]  BY <1>3
  <1>5. \A k, x \in Nat : k + 1 \in 1..n => step[k][x] = x + PieceCount(SizeOf[r[k + 1]])
    OBVIOUS
  <1> HIDE DEF step
  <1>6. PICK f \in [Nat -> Nat] : GoesOn(f, 0, step)  BY <1>4, Recursion
  <1>7. f[0] = 0 /\ \A k \in Nat : f[k + 1] = step[k][f[k]]  BY <1>6 DEF GoesOn
  <1>8. ASSUME NEW i \in 1..n  PROVE f[i] = f[i - 1] + PieceCount(SizeOf[r[i]])
    <2>1. PICK k \in Nat : i = k + 1 /\ i - 1 = k
      <3>1. i - 1 \in Nat /\ i = (i - 1) + 1  OBVIOUS
      <3>2. QED  BY <3>1
    <2>2. f[k + 1] = f[k] + PieceCount(SizeOf[r[k + 1]])  BY <1>5, <1>7, <2>1
    <2>3. QED  BY <2>1, <2>2
  <1> DEFINE h == [i \in 0..n |-> f[i]]
  <1>9. Is(h)
    <2>1. ASSUME NEW i \in 0..n
          PROVE  h[i] = IF i = 0 THEN 0 ELSE h[i - 1] + PieceCount(SizeOf[r[i]])
      <3>1. CASE i = 0  BY <1>7, <3>1
      <3>2. CASE i # 0
        <4>1. i \in 1..n /\ i - 1 \in 0..n  BY <3>2
        <4>2. f[i] = f[i - 1] + PieceCount(SizeOf[r[i]])  BY <1>8, <4>1
        <4>3. QED  BY <3>2, <4>1, <4>2
      <3>3. QED  BY <3>1, <3>2
    <2>2. QED  BY <2>1
  <1> HIDE DEF h
  <1> DEFINE IsCursor(g) ==
               g = [i \in 0..Len(release) |->
                       IF i = 0 THEN 0 ELSE g[i - 1] + PieceCount(SizeOf[release[i]])]
  <1>10. Is(Cursor)
    <2>1. \A g : IsCursor(g) <=> Is(g)  BY <1>1, <1>2
    <2>2. Cursor = CHOOSE g : IsCursor(g)  BY Zenon DEF Cursor
    <2>3. IsCursor(h)  BY <1>9, <2>1
    <2> HIDE DEF IsCursor
    <2>4. IsCursor(CHOOSE g : IsCursor(g))  BY ONLY <2>3, Zenon
    <2>5. IsCursor(Cursor)  BY ONLY <2>2, <2>4, Zenon
    <2>6. QED  BY ONLY <2>1, <2>5, Zenon
  <1>11. PICK cur : cur = Cursor  OBVIOUS
  <1>12. cur[0] = 0 /\ \A i \in 1..n : cur[i] = cur[i - 1] + PieceCount(SizeOf[r[i]])
    <2>1. cur = [i \in 0..n |-> IF i = 0 THEN 0 ELSE cur[i - 1] + PieceCount(SizeOf[r[i]])]
      BY <1>10, <1>11
    <2>2. \A i \in 0..n : cur[i] = IF i = 0 THEN 0 ELSE cur[i - 1] + PieceCount(SizeOf[r[i]])
      BY <2>1
    <2>3. 0 \in 0..n /\ \A i \in 1..n : i \in 0..n /\ i # 0  OBVIOUS
    <2>4. QED  BY <2>2, <2>3
  <1> DEFINE T == {i \in Nat : i <= n => cur[i] \in Nat}
  <1>13. 0 \in T  BY <1>12
  <1>14. ASSUME NEW i \in Nat, i \in T  PROVE i + 1 \in T
    <2>1. ASSUME i + 1 <= n  PROVE cur[i + 1] \in Nat
      <3>1. PICK j \in Nat : j = i + 1 /\ j \in 1..n /\ j - 1 = i /\ i <= n  BY <2>1
      <3>2. cur[i] \in Nat /\ PieceCount(SizeOf[r[j]]) \in Nat  BY <1>3, <1>14, <3>1
      <3>3. cur[j] = cur[i] + PieceCount(SizeOf[r[j]])  BY <1>12, <3>1
      <3>4. QED  BY <3>1, <3>2, <3>3
    <2>2. QED  BY <2>1
  <1> HIDE DEF T
  <1>15. Nat \subseteq T  BY <1>13, <1>14, SetInduction
  <1>16. \A i \in 0..n : cur[i] \in Nat  BY <1>15 DEF T
  <1>17. Sums(cur, r)  BY <1>2, <1>12, <1>16 DEF Sums
  <1>18. QED  BY <1>1, <1>11, <1>17

LEMMA CountZero ==
    ASSUME NEW size \in Nat
    PROVE  PieceCount(size) = 0 <=> size = 0
  <1> DEFINE PL == PieceLength
  <1>1. PL \in Nat \ {0}  BY PieceLengthPositive
  <1>2. PICK q \in Nat, m \in 0..(PL - 1) : size = q * PL + m
    <2>1. /\ size \div PL \in Nat /\ size % PL \in 0..(PL - 1)
          /\ size = (size \div PL) * PL + (size % PL)
      BY <1>1
    <2>2. QED  BY <2>1
  <1>3. PICK e \in Nat : e = q * PL  BY <1>1
  <1>4. PieceCount(size) = IF size = q * PieceLength THEN q ELSE q + 1
    <2>1. q * PieceLength <= size /\ size < q * PieceLength + PieceLength
      BY <1>1, <1>2, <1>3
    <2>2. QED  BY <2>1, CountIs
  <1>5. CASE q = 0
    <2>1. e = 0  BY <1>1, <1>3, <1>5
    <2>2. PieceCount(size) = IF size = e THEN q ELSE q + 1  BY <1>3, <1>4
    <2>3. QED  BY <1>5, <2>1, <2>2
  <1>6. CASE q # 0
    <2>1. PieceCount(size) # 0
      <3>1. PieceCount(size) = q \/ PieceCount(size) = q + 1  BY <1>4
      <3>2. QED  BY <1>6, <3>1
    <2>2. size # 0
      <3>1. 1 * PL <= q * PL  BY <1>1, <1>6, Monotonic
      <3>2. QED  BY <1>1, <1>2, <1>3, <3>1
    <2>3. QED  BY <2>1, <2>2
  <1>7. QED  BY <1>5, <1>6

-----------------------------------------------------------------------------
(* The hashes in the rows.                                                 *)

RowRight(row, f) ==
    /\ row.v1 = V1Of(f, SizeOf[f], Multifile)
    /\ row.v2 = V2Of(f, SizeOf[f])
    /\ row.root = RootOf(f, SizeOf[f])

RowsRight == \A f \in DOMAIN rows : RowRight(rows[f], f)

\* What join takes out of the metainfo are the hashes of the files.
LEMMA RowFromMetainfoRight ==
    ASSUME FileTypes, NEW i \in DOMAIN release
    PROVE  RowRight(RowFromMetainfo(i), release[i])
  <1>1. PICK r \in Releases : r = release  BY DEF FileTypes
  <1>2. PICK n \in Nat : n = Len(r) /\ DOMAIN r = 1..n /\ \A j \in 1..n : r[j] \in HashedFiles
    BY ReleaseIs
  <1>3. PICK cur : cur = Cursor  OBVIOUS
  <1>4. Sums(cur, r)  BY <1>1, <1>3, CursorIs
  <1>5. HashesOf(r) \in Seq(Seq(Seq(AllBytes))) /\ Len(HashesOf(r)) = n
    BY <1>2, ReleaseIs
  <1>6. PICK fv \in [Nat -> Seq(Seq(AllBytes))] :
           Joins(fv, HashesOf(r)) /\ FlattenSeq(HashesOf(r)) = fv[n]
    BY <1>5, FlattenIs
  <1>7. Sliced(r, cur, fv)  BY <1>4, <1>6 DEF Sliced
  <1>8. i \in 1..Len(r)  BY <1>1, <1>2
  <1>9. SubSeq(fv[n], cur[i - 1] + 1, cur[i]) = HashesOf(r)[i]
    <2>1. SliceIs(r, cur, fv, i, Len(r))  BY <1>7, <1>8, SlicesAre
    <2>2. QED  BY <1>2, <2>1 DEF SliceIs
  <1>10. Reference = [pieces |-> PiecesOf(FlattenSeq(Layout(r))),
                      roots |-> [f \in ToSet(r) |-> RootOf(f, SizeOf[f])],
                      layers |-> [f \in LargeOf(r) |-> V2Of(f, SizeOf[f])]]
    BY <1>1, ReferenceIs DEF Reference
  <1>11. Reference.pieces = fv[n]
    BY <1>4, <1>6, <1>10, StreamPieces
  <1>12. PICK f \in HashedFiles : f = release[i] /\ f \in ToSet(r)
    BY <1>1, <1>2 DEF ToSet
  <1>13. PICK size \in Nat : size = SizeOf[f]  BY FilesAssumption
  <1> DEFINE row == RowFromMetainfo(i)
             count == PieceCount(SizeOf[f])
  <1>14. row = [mtime |-> disk[f].mtime,
                v1 |-> SubSeq(Reference.pieces, cur[i - 1] + 1, cur[i]),
                v2 |-> IF count = 0 THEN <<>>
                       ELSE IF f \in Large THEN Reference.layers[f] ELSE <<Reference.roots[f]>>,
                root |-> Reference.roots[f]]
    BY <1>3, <1>12 DEF RowFromMetainfo
  <1> HIDE DEF row
  <1>15. row.v1 = V1Of(f, SizeOf[f], Multifile)
    <2>1. HashesOf(r)[i] = V1Of(r[i], SizeOf[r[i]], Len(r) > 1)
      BY <1>2, <1>8 DEF HashesOf
    <2>2. QED  BY <1>1, <1>9, <1>11, <1>12, <1>14, <2>1 DEF Multifile
  <1>16. row.root = RootOf(f, SizeOf[f])
    BY <1>10, <1>12, <1>14
  <1>17. row.v2 = V2Of(f, SizeOf[f])
    <2>1. CASE size = 0
      <3>1. count = 0  BY <1>13, <2>1, CountZero
      <3>2. row.v2 = <<>>  BY <1>14, <3>1
      <3>3. QED  BY <1>13, <2>1, <3>2 DEF V2Of
    <2>2. CASE size # 0
      <3>1. count # 0  BY <1>13, <2>2, CountZero
      <3>2. CASE f \in Large
        <4>1. f \in LargeOf(r)  BY <1>1, <3>2 DEF Large
        <4>2. QED  BY <1>10, <1>14, <3>1, <3>2, <4>1
      <3>3. CASE f \notin Large
        <4>1. ~(size > PieceLength)
          BY <1>1, <1>12, <1>13, <3>3 DEF Large, LargeOf
        <4>2. size <= PieceLength
          <5>1. PieceLength \in Nat  BY PieceLengthPositive
          <5>2. QED  BY <4>1, <5>1
        <4>3. row.v2 = <<RootOf(f, SizeOf[f])>>
          BY <1>10, <1>12, <1>14, <3>1, <3>3
        <4>4. QED  BY <1>13, <2>2, <4>2, <4>3 DEF V2Of
      <3>4. QED  BY <3>2, <3>3
    <2>3. QED  BY <2>1, <2>2
  <1>18. QED  BY <1>12, <1>15, <1>16, <1>17 DEF RowRight, row

LEMMA RowsStay ==
    ASSUME RowsRight, UNCHANGED <<release, rows>>
    PROVE  RowsRight'
  BY DEF RowsRight, RowRight, Multifile

LEMMA RecordedRight ==
    ASSUME CoverageInv, PiecesRight, RootsRight, RowsRight, Record
    PROVE  RowsRight'
  <1> DEFINE g == job.file
  <1>1. UNCHANGED release /\ g # None /\ stage = "done"  BY DEF Record
  <1>2. CASE UNCHANGED rows  BY <1>1, <1>2, RowsStay
  <1>3. CASE rows' = [f \in DOMAIN rows \cup {g} |-> IF f = g THEN RowOf(f) ELSE rows[f]]
    <2>1. hashed = [file |-> g, size |-> SizeOf[g], pad |-> Multifile]
      BY <1>1 DEF CoverageInv, Fitted
    <2>2. hashed.file = g /\ hashed.size = SizeOf[g] /\ hashed.pad = Multifile
      BY <2>1
    <2>3. v1pieces = V1Of(g, SizeOf[g], Multifile)
      BY <1>1, <2>2 DEF PiecesRight
    <2>4. v2pieces = V2Of(g, SizeOf[g]) /\ root = RootOf(g, SizeOf[g])
      BY <1>1, <2>2 DEF RootsRight
    <2>5. RowRight(RowOf(g), g)  BY <2>3, <2>4 DEF RowRight, RowOf
    <2>6. \A f \in DOMAIN rows' : RowRight(rows'[f], f)
      BY <1>3, <2>5 DEF RowsRight
    <2>7. Multifile' = Multifile  BY <1>1 DEF Multifile
    <2>8. QED  BY <2>6, <2>7 DEF RowsRight, RowRight
  <1>4. QED  BY <1>2, <1>3 DEF Record

LEMMA CoveredRight ==
    ASSUME FileTypes, RowsRight, Cover
    PROVE  RowsRight'
  <1>1. UNCHANGED release  BY DEF Cover
  <1>2. CASE UNCHANGED rows  BY <1>1, <1>2, RowsStay
  <1>3. CASE rows' = [f \in Payload |->
                         RowFromMetainfo(CHOOSE i \in DOMAIN release : release[i] = f)]
    <2>1. ASSUME NEW f \in Payload  PROVE RowRight(rows'[f], f)
      <3> DEFINE i == CHOOSE j \in DOMAIN release : release[j] = f
      <3>1. i \in DOMAIN release /\ release[i] = f  BY DEF Payload, ToSet
      <3>2. rows'[f] = RowFromMetainfo(i)  BY <1>3
      <3> HIDE DEF i
      <3>3. RowRight(RowFromMetainfo(i), release[i])  BY <3>1, RowFromMetainfoRight
      <3>4. QED  BY <3>1, <3>2, <3>3
    <2>2. DOMAIN rows' = Payload  BY <1>3
    <2>3. Multifile' = Multifile  BY <1>1 DEF Multifile
    <2>4. QED  BY <2>1, <2>2, <2>3 DEF RowsRight, RowRight
  <1>4. QED  BY <1>2, <1>3 DEF Cover

LEMMA RowsPreserved ==
    FileTypes /\ CoverageInv /\ PiecesRight /\ RootsRight /\ RowsRight /\ [Next]_vars => RowsRight'
  <1> SUFFICES ASSUME FileTypes, CoverageInv, PiecesRight, RootsRight, RowsRight, [Next]_vars
               PROVE  RowsRight'
    OBVIOUS
  <1>1. release' = release  BY ReleaseStays DEF vars, files
  <1>2. CASE Record  BY <1>2, RecordedRight
  <1>3. CASE Cover  BY <1>3, CoveredRight
  <1>4. CASE rows' = rows  BY <1>1, <1>4, RowsStay
  <1>5. Coverage => Record \/ rows' = rows
    BY DEF Coverage, Upgrade, Begin, files, Fetch, Open, Read, Work, EndOfFile, Misfit,
           Unlink, Receive, Again, Place, Reread, Create, Upgraded
  <1>6. Importing => Cover \/ rows' = rows
    BY DEF Importing, Import, Begin, files, Validate, Plan, Leave, HashesDone, Manifest,
           Rename, Register, Fence
  <1>7. Crash \/ (\E f \in Payload : Write(f)) \/ UNCHANGED vars => rows' = rows
    BY DEF Crash, Write, vars, files
  <1>8. QED  BY <1>2, <1>3, <1>4, <1>5, <1>6, <1>7 DEF Next

LEMMA HonestRows ==
    ASSUME FileTypes, CoverageInv, RowsRight
    PROVE  CoverageHonest
  <1> SUFFICES ASSUME NEW f \in Payload, Current(f)
               PROVE  /\ disk[f].body = "right" \/ f \in torn
                      /\ rows[f].v1 = RightV1[f][Multifile]
                      /\ rows[f].v2 = RightV2[f]
                      /\ rows[f].root = RightRoot[f]
    BY DEF CoverageHonest
  <1>1. f \in HashedFiles  BY PayloadType
  <1>2. Vouched(f)  BY DEF CoverageInv, Vouching
  <1>3. RowRight(rows[f], f)  BY DEF RowsRight, Current
  <1>4. Multifile \in BOOLEAN
    <2>1. (Len(release) > 1) \in BOOLEAN  OBVIOUS
    <2>2. QED  BY <2>1, Zenon DEF Multifile
  <1>5. RightV1[f][Multifile] = V1Of(f, SizeOf[f], Multifile)
    <2>1. PICK pad \in BOOLEAN : pad = Multifile  BY <1>4, Zenon
    <2>2. RightV1[f][pad] = V1Of(f, SizeOf[f], pad)  BY <1>1 DEF RightV1
    <2>3. QED  BY <2>1, <2>2
  <1>6. RightV2[f] = V2Of(f, SizeOf[f]) /\ RightRoot[f] = RootOf(f, SizeOf[f])
    BY <1>1 DEF RightV2, RightRoot
  <1>7. QED  BY <1>2, <1>3, <1>5, <1>6 DEF Vouched, RowRight

\* What is assembled of rows that are right is what other software makes.
LEMMA AssembledRight ==
    ASSUME FileTypes, RowsRight, Usable
    PROVE  Assembled = Reference
  <1>1. PICK r \in Releases : r = release  BY DEF FileTypes
  <1>2. PICK n \in Nat : n = Len(r) /\ DOMAIN r = 1..n /\ \A i \in 1..n : r[i] \in HashedFiles
    BY ReleaseIs
  <1>3. Payload = ToSet(r) /\ Large = LargeOf(r)  BY <1>1 DEF Payload, Large
  <1>4. \A f \in ToSet(r) : RowRight(rows[f], f)
    BY <1>3 DEF Usable, Current, RowsRight
  <1>5. \A i \in 1..n : r[i] \in ToSet(r)  BY <1>2 DEF ToSet
  <1>6. [i \in DOMAIN release |-> rows[release[i]].v1] = HashesOf(r)
    <2>1. \A i \in 1..n : rows[r[i]].v1 = V1Of(r[i], SizeOf[r[i]], Len(r) > 1)
      BY <1>1, <1>4, <1>5 DEF RowRight, Multifile
    <2>2. QED  BY <1>1, <1>2, <2>1 DEF HashesOf
  <1>7. PICK cur : Sums(cur, r)
    <2>1. Sums(Cursor, r)  BY <1>1, CursorIs
    <2>2. QED  BY <2>1
  <1>8. FlattenSeq(HashesOf(r)) = PiecesOf(FlattenSeq(Layout(r)))
    BY <1>7, StreamPieces
  <1>9. LargeOf(r) \subseteq ToSet(r)  BY DEF LargeOf
  <1>10. [f \in Payload |-> rows[f].root] = [f \in ToSet(r) |-> RootOf(f, SizeOf[f])]
    BY <1>3, <1>4 DEF RowRight
  <1>11. [f \in Large |-> rows[f].v2] = [f \in LargeOf(r) |-> V2Of(f, SizeOf[f])]
    BY <1>3, <1>4, <1>9 DEF RowRight
  <1>12. Reference = [pieces |-> PiecesOf(FlattenSeq(Layout(r))),
                      roots |-> [f \in ToSet(r) |-> RootOf(f, SizeOf[f])],
                      layers |-> [f \in LargeOf(r) |-> V2Of(f, SizeOf[f])]]
    BY <1>1, ReferenceIs DEF Reference
  <1>13. QED  BY <1>6, <1>8, <1>10, <1>11, <1>12 DEF Assembled

LEMMA MetainfoPreserved ==
    FileTypes /\ RowsRight /\ MetainfoRight /\ [Next]_vars => MetainfoRight'
  <1> SUFFICES ASSUME FileTypes, RowsRight, MetainfoRight, [Next]_vars  PROVE MetainfoRight'
    OBVIOUS
  <1>1. release' = release  BY ReleaseStays DEF vars, files
  <1>2. Reference' = Reference  BY <1>1 DEF Reference
  <1>3. CASE metainfo' = metainfo  BY <1>2, <1>3 DEF MetainfoRight
  <1>4. CASE Create
    <2>1. CASE Usable
      <3>1. metainfo' = Assembled  BY <1>4, <2>1 DEF Create
      <3>2. QED  BY <1>2, <2>1, <3>1, AssembledRight DEF MetainfoRight
    <2>2. CASE ~Usable
      <3>1. metainfo' = metainfo  BY <1>4, <2>2 DEF Create
      <3>2. QED  BY <1>3, <3>1
    <2>3. QED  BY <2>1, <2>2
  <1>5. Coverage => Create \/ metainfo' = metainfo
    BY DEF Coverage, Upgrade, Begin, files, Fetch, Open, Read, Work, EndOfFile, Misfit, Record,
           Unlink, Receive, Again, Place, Reread, Upgraded
  <1>6. Importing => metainfo' = metainfo
    BY DEF Importing, Import, Begin, files, Validate, Plan, Leave, Cover, HashesDone, Manifest,
           Rename, Register, Fence
  <1>7. Crash \/ (\E f \in Payload : Write(f)) \/ UNCHANGED vars => metainfo' = metainfo
    BY DEF Crash, Write, vars, files
  <1>8. QED  BY <1>3, <1>4, <1>5, <1>6, <1>7 DEF Next

CoveredInv == CoverageInv /\ RowsRight /\ MetainfoRight

\* The rows and the metainfo hold through every step.
LEMMA CoveringInv == Spec => [](FileTypes /\ CoveredInv)
  <1> DEFINE Before == FileTypes /\ HashTypes /\ Prepared /\ PiecesRight /\ RootsRight
  <1>1. Spec => []Before
    <2>1. Spec => []HashTypes
      <3>1. FileTypes /\ HInv => HashTypes  BY DEF HInv
      <3>2. QED  BY <3>1, HashingInv, PTL
    <2>2. Spec => [](FileTypes /\ Prepared)
      <3>1. ImportInv => FileTypes /\ Prepared  BY DEF ImportInv
      <3>2. QED  BY <3>1, ImportingInv, PTL
    <2>3. QED  BY <2>1, <2>2, PayloadPiecesAreRight, PayloadRootsAreRight, PTL
  <1>2. Init => CoveredInv
    <2>1. Init => RowsRight  BY DEF Init, RowsRight
    <2>2. Init => MetainfoRight  BY DEF Init, MetainfoRight
    <2>3. QED  BY <2>1, <2>2, CoversAtFirst DEF CoveredInv
  <1>3. Before /\ CoveredInv /\ [Next]_vars => CoveredInv'
    <2>1. Before /\ CoveredInv /\ [Next]_vars => CoverageInv'
      BY CoveragePreserved DEF CoveredInv, Known
    <2>2. Before /\ CoveredInv /\ [Next]_vars => RowsRight'
      BY RowsPreserved DEF CoveredInv
    <2>3. Before /\ CoveredInv /\ [Next]_vars => MetainfoRight'
      BY MetainfoPreserved DEF CoveredInv
    <2>4. QED  BY <2>1, <2>2, <2>3 DEF CoveredInv
  <1>4. Before => FileTypes  OBVIOUS
  <1> HIDE DEF Before
  <1>5. QED  BY <1>1, <1>2, <1>3, <1>4, PTL DEF Spec

\* A row that passes for current has the hashes of the file, and the file has the bytes
\* of the commit, unless it was written while it was read: whatever commands were begun,
\* killed and begun again, and whoever wrote to the payload between their steps
\* (TorrentCoverageRecorder.record, coverage_from_metainfo).
THEOREM CoverageIsHonest == Spec => []CoverageHonest
  <1>1. FileTypes /\ CoveredInv => CoverageHonest
    BY HonestRows DEF CoveredInv
  <1>2. QED  BY <1>1, CoveringInv, PTL

\* The pieces, roots and layers that are put together from the rows of the files are
\* those of the payload as one stream, for any payload of any files of any lengths
\* (create_hybrid_metainfo_from_coverage).
THEOREM MetainfoIsRight == Spec => []MetainfoRight
  <1>1. FileTypes /\ CoveredInv => MetainfoRight  BY DEF CoveredInv
  <1>2. QED  BY <1>1, CoveringInv, PTL

==============================================================================
