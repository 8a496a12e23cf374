---------------------------- MODULE RemovalProofs ----------------------------
(***************************************************************************)
(* What a removal and a clean-cache may delete, and what is left alone:    *)
(* theorems about Lifecycle, on top of the invariant of LifecycleProofs.   *)
(***************************************************************************)
EXTENDS LifecycleProofs

\* A directory that no path leads to has no payload.
Leftovers ==
    \A d \in Dirs : d \notin {path.root, path.staged, path.incoming} => NoPayload(d)

\* What a removal is about to move or to delete has been confirmed, and moving it
\* overwrites nothing.
ConfirmedFacts(p) ==
    /\ proc[p].pc \in {"stage", "rename"} => path.root \in confirmed
    /\ proc[p].pc = "rename" => path.staged = NoDir
    /\ proc[p].pc = "purge" => path.staged \in confirmed

\* What is moved away keeps its record as long as it has payload or metadata.
RecordKept ==
    path.staged # NoDir /\ Leftover(path.staged) => dir[path.staged].marker

\* The strengthening of IInv.
RInv ==
    /\ IInv
    /\ Leftovers
    /\ RecordKept
    /\ \A p \in Procs : ConfirmedFacts(p)

\* The action of OnlyConfirmedRemoved.
OnlyConfirmed ==
    /\ \A d \in Dirs :
         (\E f \in Files : dir[d].payload[f] # NoCommit /\ dir'[d].payload[f] = NoCommit)
            => d = path.staged /\ d \in confirmed
    /\ path'.root # path.root /\ Root # EmptyDir
         => path'.staged = path.root /\ path.root \in confirmed

\* What most steps do to the payload: none disappears, and nothing below the
\* removal path is touched.
Spares ==
    /\ path'.staged = path.staged
    /\ path'.incoming = path.incoming
    /\ path'.root = path.root \/ Makes
    /\ \A d \in Dirs : d # path'.root => dir'[d] = dir[d]
    /\ \A f \in Files : path'.root \in Dirs /\ dir[path'.root].payload[f] # NoCommit
                            => dir'[path'.root].payload[f] # NoCommit

\* The steps that are not part of a confirmed removal.
Ordinary(p) ==
    /\ Spares
    /\ confirmed' = confirmed
    /\ \A q \in Procs \ {p} : proc'[q] = proc[q]
    /\ proc'[p].pc \notin {"stage", "rename", "purge"}

\* A write below the canonical path that overwrites no file with nothing.
Writes ==
    \E content :
        /\ \A f \in Files : Root.payload[f] # NoCommit => content.payload[f] # NoCommit
        /\ WriteRoot(content)

-----------------------------------------------------------------------------
(* Steps that spare the payload. *)

\* While another process is at one of these control points, p removes nothing.
LEMMA OneRemoval ==
    ASSUME IInv, NEW p \in Procs, NEW q \in Procs, q # p,
           proc[q].pc \in {"stage", "rename", "purge"}
    PROVE  proc[p].job # "remove" /\ proc[p].pc \notin Removing
<1>1. JobFacts(p) /\ JobFacts(q)
    BY DEF IInv, ProcFacts
<1>2. QED
    BY <1>1 DEF JobFacts, Removing

\* A step that spares the payload deletes nothing, and the removed mirror keeps
\* its record.
LEMMA Sparing ==
    ASSUME RInv, Spares
    PROVE  Leftovers' /\ RecordKept' /\ OnlyConfirmed
<1>1. /\ PathType /\ PathsApart /\ Leftovers /\ RecordKept
    BY Types DEF RInv, IInv
<1>2. NoDir \notin Dirs
    BY LifecycleAssumption
<1>3. /\ path'.staged = path.staged /\ path'.incoming = path.incoming
      /\ path'.root = path.root \/ Makes
      /\ \A d \in Dirs : d # path'.root => dir'[d] = dir[d]
      /\ \A f \in Files : path'.root \in Dirs /\ dir[path'.root].payload[f] # NoCommit
                              => dir'[path'.root].payload[f] # NoCommit
    BY DEF Spares
<1>4. Leftovers'
  <2> SUFFICES ASSUME NEW d \in Dirs, d \notin {path'.root, path'.staged, path'.incoming}
               PROVE  NoPayload(d)'
    BY DEF Leftovers
  <2>1. d # path.root
    BY <1>2, <1>3 DEF Makes
  <2>2. NoPayload(d) /\ dir'[d] = dir[d]
    BY <1>1, <1>3, <2>1 DEF Leftovers
  <2>3. QED
    BY <2>2 DEF NoPayload
<1>5. path.staged # NoDir => path.staged \in Dirs /\ dir'[path.staged] = dir[path.staged]
  <2> SUFFICES ASSUME path.staged # NoDir
               PROVE  path.staged \in Dirs /\ dir'[path.staged] = dir[path.staged]
    OBVIOUS
  <2>1. path.staged \in Dirs
    BY <1>1 DEF PathType
  <2>2. path.staged # path'.root
    BY <1>1, <1>3, <2>1 DEF PathsApart, Makes, InUse
  <2>3. QED
    BY <1>3, <2>1, <2>2
<1>6. RecordKept'
    BY <1>1, <1>3, <1>5 DEF RecordKept, Leftover, NoPayload, NoMetadata
<1>7. OnlyConfirmed
    BY <1>2, <1>3 DEF OnlyConfirmed, Makes, Root
<1>8. QED
    BY <1>4, <1>6, <1>7

\* Ordinary steps keep the strengthening and delete nothing.
LEMMA OrdinaryStep ==
    ASSUME RInv, NEW p \in Procs, Ordinary(p)
    PROVE  /\ Leftovers' /\ RecordKept' /\ OnlyConfirmed
           /\ \A q \in Procs : ConfirmedFacts(q)'
<1>1. Leftovers' /\ RecordKept' /\ OnlyConfirmed
    BY Sparing DEF Ordinary
<1>2. ConfirmedFacts(p)'
    BY DEF Ordinary, ConfirmedFacts
<1>3. ASSUME NEW q \in Procs, q # p PROVE ConfirmedFacts(q)'
  <2>1. ConfirmedFacts(q) /\ PlaceFacts(q) /\ NoDir \notin Dirs
    BY LifecycleAssumption DEF RInv, IInv, ProcFacts
  <2>2. /\ proc'[q] = proc[q] /\ confirmed' = confirmed /\ path'.staged = path.staged
        /\ path'.root = path.root \/ Makes
    BY <1>3 DEF Ordinary, Spares
  <2>3. proc[q].pc \in {"stage", "rename"} => path'.root = path.root
    BY <2>1, <2>2 DEF PlaceFacts, Makes
  <2>4. QED
    BY <2>1, <2>2, <2>3 DEF ConfirmedFacts
<1>4. QED
    BY <1>1, <1>2, <1>3

\* What leaves the directories alone spares the payload.
LEMMA UntouchedSpares == ASSUME RInv, UNCHANGED <<path, dir>> PROVE Spares
BY DEF Spares

\* What writes below the canonical path spares it too: if that makes a directory,
\* it takes an inode that has no payload.
LEMMA WritesSpare == ASSUME RInv, Writes PROVE Spares
<1>1. PathType /\ DirType /\ ProcType /\ PathsApart /\ Leftovers
    BY Types DEF RInv, IInv
<1>2. PICK content :
        /\ \A f \in Files : Root.payload[f] # NoCommit => content.payload[f] # NoCommit
        /\ WriteRoot(content)
    BY DEF Writes
<1>3. CASE path.root = NoDir
  <2>1. Fresh \in Dirs /\ Fresh \notin InUse
    BY <1>1, <1>3, FreshDir
  <2>2. path' = [path EXCEPT !.root = Fresh] /\ dir' = [dir EXCEPT ![Fresh] = content]
    BY <1>2, <1>3 DEF WriteRoot
  <2>3. /\ path'.root = Fresh /\ path'.staged = path.staged
        /\ path'.incoming = path.incoming
    BY <1>1, <2>2 DEF PathType
  <2>4. \A f \in Files : dir[Fresh].payload[f] = NoCommit
    BY <1>1, <2>1 DEF Leftovers, NoPayload, InUse
  <2>5. \A d \in Dirs : d # Fresh => dir'[d] = dir[d]
    BY <1>1, <2>2 DEF DirType
  <2>6. Makes
    BY <1>3, <2>1, <2>3 DEF Makes
  <2>7. QED
    BY <2>3, <2>4, <2>5, <2>6 DEF Spares
<1>4. CASE path.root # NoDir
  <2>1. path.root \in Dirs /\ Root = dir[path.root]
    BY <1>1, <1>4, RootType DEF PathType
  <2>2. path' = [path EXCEPT !.root = path.root] /\ dir' = [dir EXCEPT ![path.root] = content]
    BY <1>2, <1>4 DEF WriteRoot
  <2>3. path' = path
    BY <1>1, <2>2 DEF PathType
  <2>4. dir'[path.root] = content /\ \A d \in Dirs : d # path.root => dir'[d] = dir[d]
    BY <1>1, <2>1, <2>2 DEF DirType
  <2>5. QED
    BY <1>2, <2>1, <2>3, <2>4 DEF Spares
<1>5. QED
    BY <1>3, <1>4

\* A process that quits is at none of the control points of a removal.
LEMMA QuitOrdinary ==
    ASSUME RInv, NEW p \in Procs, Quit(p), confirmed' = confirmed, Spares
    PROVE  Ordinary(p)
<1>1. ProcType
    BY Types DEF RInv, IInv
<1>2. proc'[p] = Idle /\ \A q \in Procs \ {p} : proc'[q] = proc[q]
    BY <1>1 DEF Quit, ProcType
<1>3. QED
    BY <1>2 DEF Ordinary, Idle

\* Neither is one that goes on elsewhere.
LEMMA GotoOrdinary ==
    ASSUME RInv, NEW p \in Procs, NEW label, Goto(p, label),
           label \notin {"stage", "rename", "purge"}, confirmed' = confirmed, Spares
    PROVE  Ordinary(p)
<1>1. ProcType
    BY Types DEF RInv, IInv
<1>2. /\ proc'[p].pc = label
      /\ \A q \in Procs \ {p} : proc'[q] = proc[q]
    BY <1>1 DEF Goto, ProcType, ProcState
<1>3. QED
    BY <1>2 DEF Ordinary

-----------------------------------------------------------------------------
(* The commands other than remove. *)

\* Starting a command is an ordinary step.
LEMMA StartOrdinary == ASSUME RInv, NEW p \in Procs, Start(p) PROVE Ordinary(p)
<1>0. ProcType
    BY Types DEF RInv, IInv
<1>1. UNCHANGED <<path, dir>> /\ confirmed' = confirmed
    BY DEF Start, StartMirror, StartTorrent, StartRemove, StartImport, StartClean,
           StartStatus, ghosts
<1>2. \E job, label, target :
        /\ Begin(p, job, label, target)
        /\ label \in {"mkdir", "resume", "replace", "probe"}
    BY DEF Start, StartMirror, StartTorrent, StartRemove, StartImport, StartClean, StartStatus
<1>3. PICK job, label, target :
        /\ Begin(p, job, label, target)
        /\ label \in {"mkdir", "resume", "replace", "probe"}
    BY <1>2
<1> DEFINE new == [Idle EXCEPT !.pc = label, !.job = job, !.target = target]
<1>4. proc' = [proc EXCEPT ![p] = new]
    BY <1>3 DEF Begin
<1>5. new.pc = label
    BY DEF Idle
<1> HIDE DEF new
<1>6. proc'[p] = new /\ \A q \in Procs \ {p} : proc'[q] = proc[q]
    BY <1>0, <1>4 DEF ProcType
<1>7. Spares
    BY <1>1, UntouchedSpares
<1>8. QED
    BY <1>1, <1>3, <1>5, <1>6, <1>7 DEF Ordinary

\* Taking the lock is an ordinary step.
LEMMA LockOrdinary == ASSUME RInv, NEW p \in Procs, Lock(p) PROVE Ordinary(p)
<1>0. PathType /\ DirType /\ ProcType /\ JobFacts(p)
    BY Known DEF RInv
<1>q. ASSUME Quit(p), UNCHANGED <<path, dir, confirmed>> PROVE Ordinary(p)
    BY <1>q, UntouchedSpares, QuitOrdinary
<1>1. CASE Mkdir(p)
  <2>1. Writes
    BY <1>1 DEF Mkdir, Writes
  <2>2. Goto(p, "open") /\ confirmed' = confirmed
    BY <1>1 DEF Mkdir, ghosts
  <2>3. QED
    BY <2>1, <2>2, WritesSpare, GotoOrdinary
<1>2. CASE Open(p)
  <2>1. /\ path.root \in Dirs /\ path' = path /\ confirmed' = confirmed
        /\ dir' = [dir EXCEPT ![path.root].lockfile = TRUE]
        /\ proc' = [proc EXCEPT ![p].pc = "flock", ![p].handle = path.root]
    BY <1>0, <1>2 DEF Open, PathType, ghosts
  <2>2. dir[path.root] \in Contents
    BY <1>0, <2>1 DEF DirType
  <2>3. /\ dir'[path.root] = [dir[path.root] EXCEPT !.lockfile = TRUE]
        /\ \A d \in Dirs : d # path.root => dir'[d] = dir[d]
    BY <1>0, <2>1 DEF DirType
  <2>4. dir'[path.root].payload = dir[path.root].payload
    BY <2>2, <2>3 DEF Contents
  <2>5. Spares
    BY <2>1, <2>3, <2>4 DEF Spares
  <2>6. /\ proc'[p].pc = "flock"
        /\ \A q \in Procs \ {p} : proc'[q] = proc[q]
    BY <1>0, <2>1 DEF ProcType, ProcState
  <2>7. QED
    BY <2>1, <2>5, <2>6 DEF Ordinary
<1>3. CASE OpenFails(p)
    BY <1>3, <1>q DEF OpenFails
<1>4. CASE Flock(p)
    BY <1>4, UntouchedSpares, GotoOrdinary DEF Flock, ghosts
<1>5. CASE Busy(p)
    BY <1>5, <1>q DEF Busy
<1>6. CASE Enter(p)
  <2>1. PICK label : label = Body(proc[p].job)
    OBVIOUS
  <2>2. label \notin {"stage", "rename", "purge"}
    BY <1>0, <1>6, <2>1 DEF Enter, JobFacts, Locking, Body
  <2>3. Goto(p, label) /\ UNCHANGED <<path, dir, confirmed>>
    BY <1>6, <2>1 DEF Enter
  <2>4. QED
    BY <2>2, <2>3, UntouchedSpares, GotoOrdinary
<1>7. CASE RemovePending(p)
    BY <1>7, <1>q DEF RemovePending
<1>8. QED
    BY <1>1, <1>2, <1>3, <1>4, <1>5, <1>6, <1>7 DEF Lock

\* So are the steps of a mirror: a file is replaced by one of the commit.
LEMMA MirrorOrdinary == ASSUME RInv, NEW p \in Procs, Mirror(p) PROVE Ordinary(p)
<1>0. ProcType /\ JobFacts(p) /\ Root \in Contents
    BY Known DEF RInv
<1>q. ASSUME Quit(p), UNCHANGED <<path, dir, confirmed>> PROVE Ordinary(p)
    BY <1>q, UntouchedSpares, QuitOrdinary
<1>w. \A t : [Root EXCEPT !.state = t].payload = Root.payload
    BY <1>0 DEF Contents
<1>1. CASE SelectSnapshot(p)
  <2>1. confirmed' = confirmed
    BY <1>1 DEF SelectSnapshot
  <2>2. \/ Quit(p) /\ UNCHANGED <<path, dir>>
        \/ WriteRoot([Root EXCEPT !.state = "clean"]) /\ Quit(p)
        \/ /\ \E c : proc' = [proc EXCEPT ![p].pc = "begin", ![p].target = c]
           /\ UNCHANGED <<path, dir>>
    BY <1>1 DEF SelectSnapshot
  <2>3. CASE Quit(p) /\ UNCHANGED <<path, dir>>
    BY <1>q, <2>1, <2>3
  <2>4. CASE WriteRoot([Root EXCEPT !.state = "clean"]) /\ Quit(p)
    <3>1. Writes
        BY <1>w, <2>4 DEF Writes
    <3>2. QED
        BY <2>1, <2>4, <3>1, WritesSpare, QuitOrdinary
  <2>5. CASE /\ \E c : proc' = [proc EXCEPT ![p].pc = "begin", ![p].target = c]
             /\ UNCHANGED <<path, dir>>
    <3>1. PICK c : proc' = [proc EXCEPT ![p].pc = "begin", ![p].target = c]
        BY <2>5
    <3>2. /\ proc'[p].pc = "begin"
          /\ \A q \in Procs \ {p} : proc'[q] = proc[q]
        BY <1>0, <3>1 DEF ProcType, ProcState
    <3>3. QED
        BY <2>1, <2>5, <3>2, UntouchedSpares DEF Ordinary
  <2>6. QED
    BY <2>2, <2>3, <2>4, <2>5
<1>2. CASE BeginMirror(p)
  <2>1. Writes
    BY <1>w, <1>2 DEF BeginMirror, Writes
  <2>2. QED
    BY <1>2, <2>1, WritesSpare, GotoOrdinary DEF BeginMirror, ghosts
<1>3. CASE BeginDownload(p)
  <2> DEFINE todo == {f \in Files : Root.payload[f] # proc[p].target}
  <2>1. /\ proc' = [proc EXCEPT ![p].pc = "place", ![p].todo = todo]
        /\ UNCHANGED <<path, dir, confirmed>>
    BY <1>3 DEF BeginDownload, ghosts
  <2> HIDE DEF todo
  <2>2. /\ proc'[p].pc = "place"
        /\ \A q \in Procs \ {p} : proc'[q] = proc[q]
    BY <1>0, <2>1 DEF ProcType, ProcState
  <2>3. QED
    BY <2>1, <2>2, UntouchedSpares DEF Ordinary
<1>4. CASE PlaceFile(p)
  <2>1. PICK f \in proc[p].todo :
          /\ WriteRoot([Root EXCEPT !.payload[f] = proc[p].target])
          /\ proc' = [proc EXCEPT ![p].todo = @ \ {f}]
    BY <1>4 DEF PlaceFile
  <2>2. proc[p].pc = "place" /\ confirmed' = confirmed
    BY <1>4 DEF PlaceFile, ghosts
  <2>3. proc[p].target # NoCommit
    BY <1>0, <2>2, LifecycleAssumption DEF JobFacts
  <2>4. \A g \in Files : Root.payload[g] # NoCommit =>
          [Root EXCEPT !.payload[f] = proc[p].target].payload[g] # NoCommit
    BY <1>0, <2>3 DEF Contents
  <2>5. Writes
    BY <2>1, <2>4 DEF Writes
  <2>6. /\ proc'[p].pc = "place"
        /\ \A q \in Procs \ {p} : proc'[q] = proc[q]
    BY <1>0, <2>1, <2>2 DEF ProcType, ProcState
  <2>7. QED
    BY <2>2, <2>5, <2>6, WritesSpare DEF Ordinary
<1>5. CASE EndDownload(p)
    BY <1>5, UntouchedSpares, GotoOrdinary DEF EndDownload, ghosts
<1>6. CASE DownloadFails(p)
    BY <1>6, <1>q DEF DownloadFails
<1>7. CASE FinishMirror(p)
  <2>1. Writes
    BY <1>w, <1>7 DEF FinishMirror, Writes
  <2>2. QED
    BY <1>7, <2>1, WritesSpare, QuitOrdinary DEF FinishMirror
<1>8. QED
    BY <1>1, <1>2, <1>3, <1>4, <1>5, <1>6, <1>7 DEF Mirror

\* And those of torrent publish and retire, the end of an import, clean-cache,
\* status, and dying.
LEMMA OtherOrdinary ==
    ASSUME RInv, NEW p \in Procs,
           \/ Publish(p) \/ Retire(p) \/ TorrentRefused(p)
           \/ ReplaceFails(p) \/ WriteImportedState(p) \/ RegisterImported(p)
           \/ Probe(p) \/ Quiet(p) \/ Active(p) \/ Sweep(p)
           \/ Crash(p)
    PROVE  Ordinary(p)
<1>0. ProcType /\ Root \in Contents
    BY Known DEF RInv
<1>w. \A t : /\ [Root EXCEPT !.state = t].payload = Root.payload
             /\ [Root EXCEPT !.fence = t].payload = Root.payload
    BY <1>0 DEF Contents
<1>1. CASE Publish(p) \/ Retire(p) \/ RegisterImported(p)
  <2>1. Writes
    BY <1>w, <1>1 DEF Publish, Retire, RegisterImported, Writes
  <2>2. Quit(p) /\ confirmed' = confirmed
    BY <1>1 DEF Publish, Retire, RegisterImported
  <2>3. QED
    BY <2>1, <2>2, WritesSpare, QuitOrdinary
<1>2. CASE TorrentRefused(p) \/ ReplaceFails(p) \/ Active(p) \/ Sweep(p) \/ Crash(p)
  <2>1. Quit(p) /\ UNCHANGED <<path, dir, confirmed>>
    BY <1>2 DEF TorrentRefused, ReplaceFails, Active, Sweep, Crash
  <2>2. QED
    BY <2>1, UntouchedSpares, QuitOrdinary
<1>3. CASE WriteImportedState(p)
  <2>1. Writes
    BY <1>w, <1>3 DEF WriteImportedState, Writes
  <2>2. QED
    BY <1>3, <2>1, WritesSpare, GotoOrdinary DEF WriteImportedState, ghosts
<1>4. CASE Probe(p)
  <2>1. /\ proc' = [proc EXCEPT ![p].pc = "probed", ![p].handle = path.root]
        /\ UNCHANGED <<path, dir, confirmed>>
    BY <1>4 DEF Probe, ghosts
  <2>2. /\ proc'[p].pc = "probed"
        /\ \A q \in Procs \ {p} : proc'[q] = proc[q]
    BY <1>0, <2>1 DEF ProcType, ProcState
  <2>3. QED
    BY <2>1, <2>2, UntouchedSpares DEF Ordinary
<1>5. CASE Quiet(p)
  <2>1. UNCHANGED <<path, dir, confirmed>>
    BY <1>5 DEF Quiet
  <2>2. CASE Quit(p)
    BY <2>1, <2>2, UntouchedSpares, QuitOrdinary
  <2>3. CASE proc' = [proc EXCEPT ![p].pc = "sweep", ![p].handle = NoDir]
    <3>1. /\ proc'[p].pc = "sweep"
          /\ \A q \in Procs \ {p} : proc'[q] = proc[q]
        BY <1>0, <2>3 DEF ProcType, ProcState
    <3>2. QED
        BY <2>1, <3>1, UntouchedSpares DEF Ordinary
  <2>4. QED
    BY <1>5, <2>2, <2>3 DEF Quiet
<1>6. QED
    BY <1>1, <1>2, <1>3, <1>4, <1>5

\* Moving an imported directory into place replaces no payload and no removal
\* that has been confirmed.
LEMMA ReplaceSafe ==
    ASSUME RInv, NEW p \in Procs, Replace(p)
    PROVE  /\ Leftovers' /\ RecordKept' /\ OnlyConfirmed
           /\ \A q \in Procs : ConfirmedFacts(q)'
<1>0. /\ PathType /\ ProcType /\ Leftovers /\ RecordKept
      /\ path.root \in Dirs => Root = dir[path.root]
    BY Known DEF RInv
<1>1. /\ Root = EmptyDir /\ path.incoming # NoDir
      /\ path' = [path EXCEPT !.root = path.incoming, !.incoming = NoDir]
      /\ Goto(p, "state")
      /\ UNCHANGED <<dir, confirmed>>
    BY DEF Replace, MayReplace, ghosts
<1>2. /\ path'.root = path.incoming /\ path'.staged = path.staged
      /\ path'.incoming = NoDir
    BY <1>0, <1>1 DEF PathType
<1>3. path.root \in Dirs => NoPayload(path.root) /\ ~dir[path.root].marker
    BY <1>0, <1>1 DEF NoPayload, EmptyDir
<1>4. Leftovers'
    BY <1>0, <1>1, <1>2, <1>3 DEF Leftovers, NoPayload
<1>5. RecordKept'
    BY <1>0, <1>1, <1>2 DEF RecordKept, Leftover, NoPayload, NoMetadata
<1>6. OnlyConfirmed
    BY <1>1 DEF OnlyConfirmed
<1>7. /\ proc'[p].pc = "state"
      /\ \A q \in Procs \ {p} : proc'[q] = proc[q]
    BY <1>0, <1>1 DEF Goto, ProcType, ProcState
<1>8. ASSUME NEW q \in Procs PROVE ConfirmedFacts(q)'
  <2>1. CASE q = p
    BY <1>7, <2>1 DEF ConfirmedFacts
  <2>2. CASE q # p
    <3>1. PlaceFacts(q) /\ ConfirmedFacts(q)
        BY DEF RInv, IInv, ProcFacts
    <3>2. proc[q].pc \notin {"stage", "rename"}
        BY <1>3, <3>1 DEF PlaceFacts
    <3>3. QED
        BY <1>1, <1>2, <1>7, <2>2, <3>1, <3>2 DEF ConfirmedFacts
  <2>3. QED
    BY <2>1, <2>2
<1>9. QED
    BY <1>4, <1>5, <1>6, <1>8

-----------------------------------------------------------------------------
(* remove *)

\* The steps of a removal, whose process is the only one to remove.
LEMMA RemoveSafe ==
    ASSUME RInv, NEW p \in Procs, Remove(p)
    PROVE  /\ Leftovers' /\ RecordKept' /\ OnlyConfirmed
           /\ \A q \in Procs : ConfirmedFacts(q)'
<1>0. /\ PathType /\ DirType /\ ProcType /\ PathsApart
      /\ JobFacts(p) /\ HandleFacts(p) /\ PlaceFacts(p)
      /\ Leftovers /\ RecordKept /\ ConfirmedFacts(p)
      /\ path.root \in Dirs => Root = dir[path.root]
    BY Known DEF RInv
<1>a. NoDir \notin Dirs
    BY LifecycleAssumption
<1>o. ASSUME Ordinary(p)
      PROVE  /\ Leftovers' /\ RecordKept' /\ OnlyConfirmed
             /\ \A q \in Procs : ConfirmedFacts(q)'
    BY <1>o, OrdinaryStep
<1>r. proc[p].pc \in Removing
    BY DEF Remove, RemoveBlocked, Prompt, RemoveCancelled, ConfirmRemoval, StageRecord,
           StageRename, ResumeRemoval, ResumeCancelled, UnlinkPayload, UnlinkMetadata,
           UnlinkRecord, UnlinkLockFile, RemoveDirectory, Purging, Removing
<1>j. proc[p].job = "remove"
    BY <1>0, <1>r DEF JobFacts
<1>k. ASSUME \A q \in Procs \ {p} : proc'[q] = proc[q]
      PROVE  \A q \in Procs \ {p} : ConfirmedFacts(q)'
  <2>1. \A q \in Procs \ {p} : proc[q].pc \notin {"stage", "rename", "purge"}
    BY <1>j, OneRemoval DEF RInv
  <2>2. QED
    BY <1>k, <2>1 DEF ConfirmedFacts
<1>m. ASSUME NEW b \in BOOLEAN, path.root \in Dirs,
             dir' = [dir EXCEPT ![path.root].marker = b], path' = path
      PROVE  Spares
  <2>1. dir[path.root] \in Contents
    BY <1>0, <1>m DEF DirType
  <2>2. /\ dir'[path.root] = [dir[path.root] EXCEPT !.marker = b]
        /\ \A d \in Dirs : d # path.root => dir'[d] = dir[d]
    BY <1>0, <1>m DEF DirType
  <2>3. dir'[path.root].payload = dir[path.root].payload
    BY <2>1, <2>2 DEF Contents
  <2>4. QED
    BY <1>m, <2>2, <2>3 DEF Spares
<1>q. ASSUME Quit(p), Spares
      PROVE  /\ Leftovers' /\ RecordKept' /\ OnlyConfirmed
             /\ \A q \in Procs : ConfirmedFacts(q)'
  <2>1. Leftovers' /\ RecordKept' /\ OnlyConfirmed
    BY <1>q, Sparing
  <2>2. proc'[p].pc = "idle" /\ \A q \in Procs \ {p} : proc'[q] = proc[q]
    BY <1>0, <1>q DEF Quit, ProcType, Idle
  <2>3. ConfirmedFacts(p)'
    BY <2>2 DEF ConfirmedFacts
  <2>4. QED
    BY <1>k, <2>1, <2>2, <2>3
<1>1. CASE RemoveBlocked(p) \/ RemoveCancelled(p)
  <2>1. /\ proc[p].pc \in {"decide", "prompt"}
        /\ dir' = [dir EXCEPT ![path.root].marker = FALSE] /\ path' = path
        /\ Quit(p)
    BY <1>1 DEF RemoveBlocked, RemoveCancelled, Withdraw
  <2>2. path.root \in Dirs
    BY <1>0, <1>j, <2>1 DEF HandleFacts, PlaceFacts, InsideLabels
  <2>3. Spares
    BY <1>m, <2>1, <2>2
  <2>4. QED
    BY <1>q, <2>1, <2>3
<1>2. CASE Prompt(p)
  <2>1. Goto(p, "prompt") /\ UNCHANGED <<path, dir, confirmed>>
    BY <1>2 DEF Prompt, ghosts
  <2>2. QED
    BY <1>o, <2>1, UntouchedSpares, GotoOrdinary
<1>3. CASE ResumeCancelled(p)
  <2>1. Quit(p) /\ UNCHANGED <<path, dir>>
    BY <1>3 DEF ResumeCancelled
  <2>2. QED
    BY <1>q, <2>1, UntouchedSpares
<1>4. CASE ConfirmRemoval(p)
  <2>1. /\ proc[p].pc = "prompt" /\ path' = path
        /\ dir' = [dir EXCEPT ![path.root].marker = TRUE]
        /\ confirmed' = confirmed \cup {path.root}
        /\ proc' = [proc EXCEPT ![p].pc = "stage", ![p].handle = NoDir]
    BY <1>4 DEF ConfirmRemoval
  <2>2. path.root \in Dirs
    BY <1>0, <1>j, <2>1 DEF HandleFacts, PlaceFacts, InsideLabels
  <2>3. Leftovers' /\ RecordKept' /\ OnlyConfirmed
    BY <1>m, <2>1, <2>2, Sparing
  <2>4. /\ proc'[p].pc = "stage"
        /\ \A q \in Procs \ {p} : proc'[q] = proc[q]
    BY <1>0, <2>1 DEF ProcType, ProcState
  <2>5. ConfirmedFacts(p)'
    BY <2>1, <2>4 DEF ConfirmedFacts
  <2>6. QED
    BY <1>k, <2>3, <2>4, <2>5
<1>5. CASE StageRecord(p)
  <2>1. /\ proc[p].pc = "stage" /\ path.staged = NoDir /\ path' = path
        /\ dir' = [dir EXCEPT ![path.root].marker = TRUE]
        /\ confirmed' = confirmed /\ Goto(p, "rename")
    BY <1>5 DEF StageRecord, ghosts
  <2>2. path.root \in Dirs
    BY <1>0, <2>1 DEF PlaceFacts
  <2>3. Leftovers' /\ RecordKept' /\ OnlyConfirmed
    BY <1>m, <2>1, <2>2, Sparing
  <2>4. /\ proc'[p].pc = "rename"
        /\ \A q \in Procs \ {p} : proc'[q] = proc[q]
    BY <1>0, <2>1 DEF Goto, ProcType, ProcState
  <2>5. ConfirmedFacts(p)'
    BY <1>0, <2>1, <2>4 DEF ConfirmedFacts
  <2>6. QED
    BY <1>k, <2>3, <2>4, <2>5
<1>6. CASE StageRename(p)
  <2>1. /\ proc[p].pc = "rename"
        /\ path' = [path EXCEPT !.root = NoDir, !.staged = path.root]
        /\ Goto(p, "purge") /\ UNCHANGED <<dir, confirmed>>
    BY <1>6 DEF StageRename, ghosts
  <2>2. /\ path'.root = NoDir /\ path'.staged = path.root
        /\ path'.incoming = path.incoming
    BY <1>0, <2>1 DEF PathType
  <2>3. /\ path.root \in confirmed /\ path.staged = NoDir
        /\ path.root \in Dirs /\ dir[path.root].marker
    BY <1>0, <2>1 DEF ConfirmedFacts, PlaceFacts
  <2>4. Leftovers'
    BY <1>0, <1>a, <2>1, <2>2, <2>3 DEF Leftovers, NoPayload
  <2>5. RecordKept'
    BY <2>1, <2>2, <2>3 DEF RecordKept
  <2>6. OnlyConfirmed
    BY <2>1, <2>2, <2>3 DEF OnlyConfirmed
  <2>7. /\ proc'[p].pc = "purge"
        /\ \A q \in Procs \ {p} : proc'[q] = proc[q]
    BY <1>0, <2>1 DEF Goto, ProcType, ProcState
  <2>8. ConfirmedFacts(p)'
    BY <2>1, <2>2, <2>3, <2>7 DEF ConfirmedFacts
  <2>9. QED
    BY <1>k, <2>4, <2>5, <2>6, <2>7, <2>8
<1>7. CASE ResumeRemoval(p)
  <2>1. /\ confirmed' = confirmed \cup {path.staged}
        /\ Goto(p, "purge") /\ UNCHANGED <<path, dir>>
    BY <1>7 DEF ResumeRemoval
  <2>2. Leftovers' /\ RecordKept' /\ OnlyConfirmed
    BY <2>1, UntouchedSpares, Sparing
  <2>3. /\ proc'[p].pc = "purge"
        /\ \A q \in Procs \ {p} : proc'[q] = proc[q]
    BY <1>0, <2>1 DEF Goto, ProcType, ProcState
  <2>4. ConfirmedFacts(p)'
    BY <2>1, <2>3 DEF ConfirmedFacts
  <2>5. QED
    BY <1>k, <2>2, <2>3, <2>4
<1>8. CASE UnlinkPayload(p) \/ UnlinkMetadata(p) \/ UnlinkRecord(p) \/ UnlinkLockFile(p)
  <2>1. /\ proc[p].pc = "purge" /\ path.staged # NoDir
        /\ UNCHANGED <<path, proc, confirmed>>
    BY <1>8
    DEF UnlinkPayload, UnlinkMetadata, UnlinkRecord, UnlinkLockFile, Unlink, Purging, ghosts
  <2>2. path.staged \in Dirs /\ path.staged \in confirmed
    BY <1>0, <2>1 DEF PathType, ConfirmedFacts
  <2>3. dir[path.staged] \in Contents
    BY <1>0, <2>2 DEF DirType
  <2>4. \E content :
          /\ dir' = [dir EXCEPT ![path.staged] = content]
          /\ \/ content.marker = dir[path.staged].marker /\ ~NoPayload(path.staged)
             \/ content.marker = dir[path.staged].marker /\ ~NoMetadata(path.staged)
             \/ /\ NoPayload(path.staged) /\ NoMetadata(path.staged)
                /\ content.payload = dir[path.staged].payload
                /\ content.state = dir[path.staged].state
                /\ content.fence = dir[path.staged].fence
             \/ content = EmptyDir
    <3>1. CASE UnlinkPayload(p)
      <4>1. PICK f \in Files :
              /\ dir[path.staged].payload[f] # NoCommit
              /\ dir' = [dir EXCEPT ![path.staged] =
                           [dir[path.staged] EXCEPT !.payload[f] = NoCommit]]
        BY <3>1 DEF UnlinkPayload, Unlink
      <4>2. [dir[path.staged] EXCEPT !.payload[f] = NoCommit].marker = dir[path.staged].marker
        BY <2>3 DEF Contents
      <4>3. QED
        BY <4>1, <4>2 DEF NoPayload
    <3>2. CASE UnlinkMetadata(p)
      <4>1. [dir[path.staged] EXCEPT !.state = "none", !.fence = NoCommit].marker
              = dir[path.staged].marker
        BY <2>3 DEF Contents
      <4>2. QED
        BY <3>2, <4>1 DEF UnlinkMetadata, Unlink
    <3>3. CASE UnlinkRecord(p)
      <4>1. LET content == [dir[path.staged] EXCEPT !.marker = FALSE]
            IN  /\ content.payload = dir[path.staged].payload
                /\ content.state = dir[path.staged].state
                /\ content.fence = dir[path.staged].fence
        BY <2>3 DEF Contents
      <4>2. QED
        BY <3>3, <4>1 DEF UnlinkRecord, Unlink
    <3>4. CASE UnlinkLockFile(p)
        BY <3>4 DEF UnlinkLockFile, Unlink
    <3>5. QED
        BY <1>8, <3>1, <3>2, <3>3, <3>4
  <2>5. \A d \in Dirs : d # path.staged => dir'[d] = dir[d]
    BY <1>0, <2>4 DEF DirType
  <2>6. Leftovers'
    BY <1>0, <2>1, <2>5 DEF Leftovers, NoPayload
  <2>7. RecordKept'
    <3>1. PICK content :
            /\ dir'[path.staged] = content
            /\ \/ content.marker = dir[path.staged].marker /\ ~NoPayload(path.staged)
               \/ content.marker = dir[path.staged].marker /\ ~NoMetadata(path.staged)
               \/ /\ NoPayload(path.staged) /\ NoMetadata(path.staged)
                  /\ content.payload = dir[path.staged].payload
                  /\ content.state = dir[path.staged].state
                  /\ content.fence = dir[path.staged].fence
               \/ content = EmptyDir
        BY <1>0, <2>2, <2>4 DEF DirType
    <3>2. CASE content.marker = dir[path.staged].marker
               /\ ~(NoPayload(path.staged) /\ NoMetadata(path.staged))
        BY <1>0, <2>1, <3>1, <3>2 DEF RecordKept, Leftover
    <3>3. CASE /\ NoPayload(path.staged) /\ NoMetadata(path.staged)
               /\ content.payload = dir[path.staged].payload
               /\ content.state = dir[path.staged].state
               /\ content.fence = dir[path.staged].fence
        BY <2>1, <3>1, <3>3 DEF RecordKept, Leftover, NoPayload, NoMetadata
    <3>4. CASE content = EmptyDir
        BY <2>1, <3>1, <3>4 DEF RecordKept, Leftover, NoPayload, NoMetadata, EmptyDir
    <3>5. QED
        BY <3>1, <3>2, <3>3, <3>4
  <2>8. OnlyConfirmed
    BY <2>1, <2>2, <2>5 DEF OnlyConfirmed
  <2>9. ConfirmedFacts(p)'
    BY <1>0, <2>1 DEF ConfirmedFacts
  <2>10. QED
    BY <1>k, <2>1, <2>6, <2>7, <2>8, <2>9
<1>9. CASE RemoveDirectory(p)
  <2>1. /\ path.staged # NoDir /\ dir[path.staged] = EmptyDir
        /\ path' = [path EXCEPT !.staged = NoDir]
        /\ Quit(p) /\ dir' = dir
    BY <1>9 DEF RemoveDirectory, Purging
  <2>2. /\ path'.root = path.root /\ path'.staged = NoDir
        /\ path'.incoming = path.incoming
    BY <1>0, <2>1 DEF PathType
  <2>3. NoPayload(path.staged)
    BY <2>1 DEF NoPayload, EmptyDir
  <2>4. Leftovers'
    BY <1>0, <2>1, <2>2, <2>3 DEF Leftovers, NoPayload
  <2>5. RecordKept' /\ OnlyConfirmed
    BY <2>1, <2>2 DEF RecordKept, OnlyConfirmed
  <2>6. proc'[p].pc = "idle" /\ \A q \in Procs \ {p} : proc'[q] = proc[q]
    BY <1>0, <2>1 DEF Quit, ProcType, Idle
  <2>7. ConfirmedFacts(p)'
    BY <2>6 DEF ConfirmedFacts
  <2>8. QED
    BY <1>k, <2>4, <2>5, <2>6, <2>7
<1>10. QED
    BY <1>1, <1>2, <1>3, <1>4, <1>5, <1>6, <1>7, <1>8, <1>9 DEF Remove

-----------------------------------------------------------------------------
(* The theorems. *)

\* A step of any process keeps the strengthening and removes only what has been
\* confirmed.
LEMMA StepSafe ==
    ASSUME RInv, Next
    PROVE  /\ Leftovers' /\ RecordKept' /\ OnlyConfirmed
           /\ \A q \in Procs : ConfirmedFacts(q)'
<1>1. PICK p \in Procs : Start(p) \/ Step(p) \/ Crash(p)
    BY DEF Next
<1>2. CASE Start(p)
    BY <1>2, StartOrdinary, OrdinaryStep
<1>3. CASE Lock(p)
    BY <1>3, LockOrdinary, OrdinaryStep
<1>4. CASE Mirror(p)
    BY <1>4, MirrorOrdinary, OrdinaryStep
<1>5. CASE Remove(p)
    BY <1>5, RemoveSafe
<1>6. CASE Replace(p)
    BY <1>6, ReplaceSafe
<1>7. CASE \/ Publish(p) \/ Retire(p) \/ TorrentRefused(p)
           \/ ReplaceFails(p) \/ WriteImportedState(p) \/ RegisterImported(p)
           \/ Probe(p) \/ Quiet(p) \/ Active(p) \/ Sweep(p)
           \/ Crash(p)
    BY <1>7, OtherOrdinary, OrdinaryStep
<1>8. QED
    BY <1>1, <1>2, <1>3, <1>4, <1>5, <1>6, <1>7 DEF Step

\* The strengthening holds at all times.
LEMMA RemovalInvariant == Spec => []RInv
<1>1. Init => RInv
  <2> SUFFICES ASSUME Init PROVE RInv
    OBVIOUS
  <2>1. IInv
    BY Initially
  <2>2. path.staged = NoDir
    BY DEF Init
  <2>3. RecordKept
    BY <2>2 DEF RecordKept
  <2>4. \A p \in Procs : ConfirmedFacts(p)
    BY DEF Init, ConfirmedFacts, Idle
  <2>5. Leftovers
    BY DEF Init, Leftovers, NoPayload, EmptyDir
  <2>6. QED
    BY <2>1, <2>3, <2>4, <2>5 DEF RInv
<1>2. RInv /\ [Next]_vars => RInv'
  <2> SUFFICES ASSUME RInv, [Next]_vars PROVE RInv'
    OBVIOUS
  <2>1. IInv'
    BY Inductive DEF RInv
  <2>2. CASE Next
    BY <2>1, <2>2, StepSafe DEF RInv
  <2>3. CASE UNCHANGED vars
    BY <2>1, <2>3
    DEF vars, ghosts, RInv, Leftovers, RecordKept, Leftover, ConfirmedFacts, NoPayload,
        NoMetadata
  <2>4. QED
    BY <2>2, <2>3
<1>3. QED
    BY <1>1, <1>2, PTL DEF Spec

\* Files are deleted, and a directory that is not empty leaves the canonical path,
\* only after an operator has confirmed the removal of that directory, whatever
\* crashes, prompts and other commands come in between.
THEOREM OnlyConfirmedTheorem == Spec => OnlyConfirmedRemoved
<1>1. RInv /\ [Next]_vars => [OnlyConfirmed]_vars
    BY StepSafe
<1>2. Spec => [][OnlyConfirmed]_vars
    BY <1>1, RemovalInvariant, PTL DEF Spec
<1>3. QED
    BY <1>2 DEF OnlyConfirmedRemoved, OnlyConfirmed

-----------------------------------------------------------------------------
(* A removal that is prepared, and the staging area of downloads. *)

\* A marked directory has its lock file: it was locked to be marked, and the
\* record goes before the lock file does.
MarkedLocked == \A d \in Dirs : dir[d].marker => dir[d].lockfile

\* Who has the runtime cache: a clean-cache until it ends, or downloads.
CacheFacts ==
    /\ cleaner # NoProc => downloaders = {}
    /\ \A p \in Procs :
         /\ proc[p].pc = "place" => p \in downloaders
         /\ proc[p].job = "clean" => cleaner = p
         /\ proc[p].pc = "sweep" => proc[p].job = "clean"

\* A write below the canonical path marks nothing that has no lock file.
LEMMA WriteMarked ==
    ASSUME IInv, MarkedLocked, NEW content, WriteRoot(content),
           content.marker => content.lockfile
    PROVE  MarkedLocked'
<1>1. DirType
    BY Types DEF IInv
<1>2. PICK d : dir' = [dir EXCEPT ![d] = content]
    BY DEF WriteRoot
<1>3. QED
    BY <1>1, <1>2 DEF MarkedLocked, DirType

\* No step takes the lock file from a marked directory.
LEMMA MarkedStep ==
    ASSUME IInv, MarkedLocked, NEW p \in Procs, Start(p) \/ Step(p) \/ Crash(p)
    PROVE  MarkedLocked'
<1>0. /\ DirType /\ PathType /\ Root \in Contents /\ HandleFacts(p) /\ PlaceFacts(p)
      /\ path.root \in Dirs => Root = dir[path.root]
      /\ path.root = NoDir => ~Root.marker /\ ~Root.lockfile
    BY Known
<1>1. Root.marker => Root.lockfile
    BY <1>0 DEF MarkedLocked, PathType
<1>2. CASE UNCHANGED dir
    BY <1>2 DEF MarkedLocked
<1>3. CASE \E content : WriteRoot(content) /\ (content.marker => content.lockfile)
    BY <1>3, WriteMarked
<1>4. \A s, c :
        /\ [Root EXCEPT !.state = s].marker = Root.marker
        /\ [Root EXCEPT !.state = s].lockfile = Root.lockfile
        /\ [Root EXCEPT !.fence = c].marker = Root.marker
        /\ [Root EXCEPT !.fence = c].lockfile = Root.lockfile
    BY <1>0 DEF Contents
<1>5. CASE Mkdir(p)
    BY <1>1, <1>3, <1>5 DEF Mkdir
<1>6. CASE Open(p)
    BY <1>0, <1>6 DEF Open, MarkedLocked, DirType, Contents
<1>7. CASE SelectSnapshot(p)
    BY <1>1, <1>2, <1>3, <1>4, <1>7 DEF SelectSnapshot
<1>8. CASE BeginMirror(p) \/ FinishMirror(p) \/ WriteImportedState(p)
    BY <1>1, <1>3, <1>4, <1>8 DEF BeginMirror, FinishMirror, WriteImportedState
<1>9. CASE PlaceFile(p)
  <2>1. PICK f \in Files : WriteRoot([Root EXCEPT !.payload[f] = proc[p].target])
    BY <1>9, Known DEF PlaceFile, ProcState
  <2>2. /\ [Root EXCEPT !.payload[f] = proc[p].target].marker = Root.marker
        /\ [Root EXCEPT !.payload[f] = proc[p].target].lockfile = Root.lockfile
    BY <1>0 DEF Contents
  <2>3. QED
    BY <1>1, <2>1, <2>2, WriteMarked
<1>10. CASE Publish(p) \/ Retire(p) \/ RegisterImported(p)
    BY <1>1, <1>3, <1>4, <1>10 DEF Publish, Retire, RegisterImported
<1>11. CASE RemoveBlocked(p) \/ RemoveCancelled(p)
  <2>1. dir' = [dir EXCEPT ![path.root].marker = FALSE]
    BY <1>11 DEF RemoveBlocked, RemoveCancelled, Withdraw
  <2>2. path.root \in Dirs => dir[path.root] \in Contents
    BY <1>0 DEF DirType
  <2>3. path.root \in Dirs => ~dir'[path.root].marker
    BY <1>0, <2>1, <2>2 DEF DirType, Contents
  <2>4. \A d \in Dirs : d # path.root => dir'[d] = dir[d]
    BY <1>0, <2>1 DEF DirType
  <2>5. QED
    BY <2>3, <2>4 DEF MarkedLocked
<1>12. CASE ConfirmRemoval(p)
  <2>1. proc[p].pc = "prompt" /\ dir' = [dir EXCEPT ![path.root].marker = TRUE]
    BY <1>12 DEF ConfirmRemoval
  <2>2. proc[p].job = "remove"
    BY <2>1, Known DEF JobFacts, Removing
  <2>3. path.root \in Dirs /\ dir[path.root].lockfile
    BY <1>0, <2>1, <2>2 DEF HandleFacts, PlaceFacts, InsideLabels
  <2>4. QED
    BY <1>0, <2>1, <2>3 DEF MarkedLocked, DirType, Contents
<1>13. CASE StageRecord(p)
  <2>1. proc[p].pc = "stage" /\ dir' = [dir EXCEPT ![path.root].marker = TRUE]
    BY <1>13 DEF StageRecord
  <2>2. path.root \in Dirs /\ dir[path.root].lockfile
    BY <1>0, <2>1 DEF PlaceFacts, MarkedLocked
  <2>3. QED
    BY <1>0, <2>1, <2>2 DEF MarkedLocked, DirType, Contents
<1>14. CASE UnlinkPayload(p) \/ UnlinkMetadata(p) \/ UnlinkRecord(p)
  <2>1. path.staged \in Dirs
    BY <1>0, <1>14 DEF PathType, UnlinkPayload, UnlinkMetadata, UnlinkRecord, Purging
  <2> DEFINE old == dir[path.staged]
  <2>2. old \in Contents
    BY <1>0, <2>1 DEF DirType
  <2>3. \A f : /\ [old EXCEPT !.payload[f] = NoCommit].marker = old.marker
               /\ [old EXCEPT !.payload[f] = NoCommit].lockfile = old.lockfile
    BY <2>2 DEF Contents
  <2>4. /\ [old EXCEPT !.state = "none", !.fence = NoCommit].marker = old.marker
        /\ [old EXCEPT !.state = "none", !.fence = NoCommit].lockfile = old.lockfile
        /\ [old EXCEPT !.marker = FALSE].marker = FALSE
        /\ [old EXCEPT !.marker = FALSE].lockfile = old.lockfile
    BY <2>2 DEF Contents
  <2>5. \/ \E f : dir' = [dir EXCEPT ![path.staged] = [old EXCEPT !.payload[f] = NoCommit]]
        \/ dir' = [dir EXCEPT ![path.staged] = [old EXCEPT !.state = "none", !.fence = NoCommit]]
        \/ dir' = [dir EXCEPT ![path.staged] = [old EXCEPT !.marker = FALSE]]
    BY <1>14 DEF UnlinkPayload, UnlinkMetadata, UnlinkRecord, Unlink
  <2>6. ASSUME NEW content, dir' = [dir EXCEPT ![path.staged] = content],
               content.marker => old.marker, content.lockfile = old.lockfile
        PROVE  MarkedLocked'
    BY <1>0, <2>1, <2>6 DEF MarkedLocked, DirType
  <2>7. CASE \E f : dir' = [dir EXCEPT ![path.staged] = [old EXCEPT !.payload[f] = NoCommit]]
    BY <2>3, <2>6, <2>7
  <2>8. CASE dir' = [dir EXCEPT ![path.staged] = [old EXCEPT !.state = "none", !.fence = NoCommit]]
    BY <2>4, <2>6, <2>8
  <2>9. CASE dir' = [dir EXCEPT ![path.staged] = [old EXCEPT !.marker = FALSE]]
    BY <2>4, <2>6, <2>9
  <2>10. QED
    BY <2>5, <2>7, <2>8, <2>9
<1>15. CASE UnlinkLockFile(p)
    BY <1>0, <1>15 DEF UnlinkLockFile, Unlink, EmptyDir, MarkedLocked, DirType
<1>16. CASE \/ Start(p) \/ OpenFails(p) \/ Flock(p) \/ Busy(p) \/ Enter(p) \/ RemovePending(p)
            \/ BeginDownload(p) \/ EndDownload(p) \/ DownloadFails(p) \/ TorrentRefused(p)
    BY <1>2, <1>16
       DEF Start, StartMirror, StartTorrent, StartRemove, StartImport, StartClean, StartStatus,
           OpenFails, Flock, Busy, Enter, RemovePending, BeginDownload, EndDownload,
           DownloadFails, TorrentRefused
<1>17. CASE \/ Prompt(p) \/ StageRename(p) \/ ResumeRemoval(p) \/ ResumeCancelled(p)
            \/ RemoveDirectory(p) \/ Replace(p) \/ ReplaceFails(p)
            \/ Probe(p) \/ Quiet(p) \/ Active(p) \/ Sweep(p) \/ Crash(p)
    BY <1>2, <1>17
       DEF Prompt, StageRename, ResumeRemoval, ResumeCancelled, RemoveDirectory, Replace,
           ReplaceFails, Probe, Quiet, Active, Sweep, Crash
<1>18. QED
    BY <1>5, <1>6, <1>7, <1>8, <1>9, <1>10, <1>11, <1>12, <1>13, <1>14, <1>15, <1>16, <1>17
       DEF Step, Lock, Mirror, Remove

\* What a step may not do to a mirror whose removal is prepared.
Alone ==
    path.root # NoDir /\ path'.root = path.root /\ Root.marker /\ dir'[path.root].marker
        => \/ dir'[path.root] = Root
           \/ strayed # {}
           \/ \E p \in Procs : proc[p].pc \in {"state", "register"}

\* Marking what is marked, and locking what is locked, changes nothing.
LEMMA MarkedAlready ==
    ASSUME NEW r \in Contents
    PROVE  /\ r.marker => [r EXCEPT !.marker = TRUE] = r
           /\ r.lockfile => [r EXCEPT !.lockfile = TRUE] = r
BY DEF Contents

\* Every step leaves a prepared mirror alone.
LEMMA AloneStep ==
    ASSUME IInv, MarkedLocked, NEW p \in Procs, Start(p) \/ Step(p) \/ Crash(p)
    PROVE  Alone
<1> SUFFICES ASSUME path.root # NoDir, path'.root = path.root, Root.marker,
                    dir'[path.root].marker, strayed = {},
                    proc[p].pc \notin {"state", "register"}
             PROVE  dir'[path.root] = Root
    BY DEF Alone
<1>0. /\ DirType /\ PathType /\ PathsApart /\ Root \in Contents
      /\ HandleFacts(p) /\ PlaceFacts(p) /\ JobFacts(p)
      /\ path.root \in Dirs /\ Root = dir[path.root]
    BY Known DEF PathType
<1>1. proc[p].pc \notin InsideLabels \ Removing
    BY <1>0 DEF PlaceFacts
<1>2. CASE UNCHANGED dir
    BY <1>0, <1>2
<1>3. CASE Mkdir(p)
    BY <1>0, <1>3 DEF Mkdir, WriteRoot, DirType
<1>4. CASE Open(p)
  <2>1. Root.lockfile
    BY <1>0 DEF MarkedLocked
  <2>2. dir' = [dir EXCEPT ![path.root].lockfile = TRUE]
    BY <1>4 DEF Open
  <2>3. QED
    BY <1>0, <2>1, <2>2, MarkedAlready DEF DirType
<1>5. CASE \/ SelectSnapshot(p) \/ BeginMirror(p) \/ FinishMirror(p) \/ PlaceFile(p)
           \/ Publish(p) \/ Retire(p)
    BY <1>1, <1>5 DEF SelectSnapshot, BeginMirror, FinishMirror, PlaceFile, Publish, Retire,
                      InsideLabels, Removing
<1>6. CASE WriteImportedState(p) \/ RegisterImported(p)
    BY <1>6 DEF WriteImportedState, RegisterImported
<1>7. CASE RemoveBlocked(p) \/ RemoveCancelled(p)
    BY <1>0, <1>7 DEF RemoveBlocked, RemoveCancelled, Withdraw, DirType, Contents
<1>8. CASE ConfirmRemoval(p) \/ StageRecord(p)
  <2>1. dir' = [dir EXCEPT ![path.root].marker = TRUE]
    BY <1>8 DEF ConfirmRemoval, StageRecord
  <2>2. QED
    BY <1>0, <2>1, MarkedAlready DEF DirType
<1>9. CASE UnlinkPayload(p) \/ UnlinkMetadata(p) \/ UnlinkRecord(p) \/ UnlinkLockFile(p)
  <2>1. \E content : dir' = [dir EXCEPT ![path.staged] = content]
    BY <1>9 DEF UnlinkPayload, UnlinkMetadata, UnlinkRecord, UnlinkLockFile, Unlink
  <2>2. QED
    BY <1>0, <2>1 DEF PathsApart, DirType
<1>10. CASE \/ Start(p) \/ OpenFails(p) \/ Flock(p) \/ Busy(p) \/ Enter(p) \/ RemovePending(p)
            \/ BeginDownload(p) \/ EndDownload(p) \/ DownloadFails(p) \/ TorrentRefused(p)
    BY <1>2, <1>10
       DEF Start, StartMirror, StartTorrent, StartRemove, StartImport, StartClean, StartStatus,
           OpenFails, Flock, Busy, Enter, RemovePending, BeginDownload, EndDownload,
           DownloadFails, TorrentRefused
<1>11. CASE \/ Prompt(p) \/ StageRename(p) \/ ResumeRemoval(p) \/ ResumeCancelled(p)
            \/ RemoveDirectory(p) \/ Replace(p) \/ ReplaceFails(p)
            \/ Probe(p) \/ Quiet(p) \/ Active(p) \/ Sweep(p) \/ Crash(p)
    BY <1>2, <1>11
       DEF Prompt, StageRename, ResumeRemoval, ResumeCancelled, RemoveDirectory, Replace,
           ReplaceFails, Probe, Quiet, Active, Sweep, Crash
<1>12. QED
    BY <1>3, <1>4, <1>5, <1>6, <1>7, <1>8, <1>9, <1>10, <1>11 DEF Step, Lock, Mirror, Remove

\* A mirror whose removal is prepared is left alone, by any number of commands
\* and through any crash, but for imports and for commands that have strayed.
THEOREM PreparedLeftAloneTheorem == Spec => PreparedLeftAlone
<1>1. Init => MarkedLocked
    BY DEF Init, MarkedLocked, Mirrored, Downloaded, EmptyDir
<1>2. IInv /\ MarkedLocked /\ [Next]_vars => MarkedLocked'
    BY MarkedStep DEF Next, MarkedLocked, vars
<1>3. IInv /\ MarkedLocked /\ [Next]_vars => [Alone]_vars
    BY AloneStep DEF Next
<1>4. RInv => IInv
    BY DEF RInv
<1>5. Spec => [][Alone]_vars
    BY <1>1, <1>2, <1>3, <1>4, RemovalInvariant, PTL DEF Spec
<1>6. QED
    BY <1>5 DEF PreparedLeftAlone, Alone

\* The order in which a step may take apart what a removal has moved away.
InOrder ==
    \A d \in Dirs :
       d = path'.staged =>
         /\ Leftover(d)' => dir'[d].marker /\ dir'[d].lockfile
         /\ d = path.staged /\ ~NoPayload(d) =>
              dir'[d].state = dir[d].state /\ dir'[d].fence = dir[d].fence

\* As long as it has payload, no step touches the metadata of what a removal has
\* moved away.
LEMMA MetadataStep ==
    ASSUME RInv, NEW p \in Procs, Start(p) \/ Step(p) \/ Crash(p),
           path'.staged = path.staged, path.staged \in Dirs, ~NoPayload(path.staged)
    PROVE  /\ dir'[path.staged].state = dir[path.staged].state
           /\ dir'[path.staged].fence = dir[path.staged].fence
<1> DEFINE Kept == /\ dir'[path.staged].state = dir[path.staged].state
                   /\ dir'[path.staged].fence = dir[path.staged].fence
<1>0. /\ PathType /\ DirType /\ ProcType /\ PathsApart
      /\ JobFacts(p) /\ HandleFacts(p) /\ PlaceFacts(p)
      /\ dir[path.staged] \in Contents
    BY Known DEF RInv, DirType
<1>a. NoDir \notin Dirs
    BY LifecycleAssumption
<1>1. ASSUME Spares PROVE Kept
  <2>1. path.staged # path'.root
    BY <1>0, <1>1, <1>a DEF Spares, PathsApart, Makes, InUse
  <2>2. QED
    BY <1>1, <2>1 DEF Spares
<1>2. ASSUME UNCHANGED dir PROVE Kept
    BY <1>2
<1>3. ASSUME NEW b \in BOOLEAN, dir' = [dir EXCEPT ![path.root].marker = b] PROVE Kept
  <2>1. path.root \in Dirs => dir[path.root] \in Contents
    BY <1>0 DEF DirType
  <2>2. path.root # path.staged
    BY <1>0, <1>a DEF PathsApart, PathType
  <2>3. QED
    BY <1>0, <1>3, <2>1, <2>2 DEF DirType
<1>4. CASE UnlinkPayload(p)
  <2>1. PICK f \in Files :
          dir' = [dir EXCEPT ![path.staged] = [dir[path.staged] EXCEPT !.payload[f] = NoCommit]]
    BY <1>4 DEF UnlinkPayload, Unlink
  <2>2. dir'[path.staged] = [dir[path.staged] EXCEPT !.payload[f] = NoCommit]
    BY <1>0, <2>1 DEF DirType
  <2>3. QED
    BY <1>0, <2>2 DEF Contents
<1>5. ~UnlinkMetadata(p) /\ ~UnlinkRecord(p) /\ ~UnlinkLockFile(p)
  <2>1. ~UnlinkMetadata(p) /\ ~UnlinkRecord(p)
    BY DEF UnlinkMetadata, UnlinkRecord
  <2>2. dir[path.staged] = [EmptyDir EXCEPT !.lockfile = TRUE] => NoPayload(path.staged)
    BY DEF NoPayload, EmptyDir
  <2>3. QED
    BY <2>1, <2>2 DEF UnlinkLockFile
<1>6. CASE RemoveBlocked(p) \/ RemoveCancelled(p)
    BY <1>3, <1>6 DEF RemoveBlocked, RemoveCancelled, Withdraw
<1>7. CASE ConfirmRemoval(p) \/ StageRecord(p)
    BY <1>3, <1>7 DEF ConfirmRemoval, StageRecord
<1>8. CASE Prompt(p) \/ StageRename(p) \/ ResumeRemoval(p) \/ ResumeCancelled(p)
           \/ RemoveDirectory(p) \/ Replace(p)
    BY <1>2, <1>8 DEF Prompt, StageRename, ResumeRemoval, ResumeCancelled, RemoveDirectory,
                      Replace
<1>9. CASE Start(p) \/ Lock(p) \/ Mirror(p)
    BY <1>1, <1>9, StartOrdinary, LockOrdinary, MirrorOrdinary DEF Ordinary
<1>10. CASE \/ Publish(p) \/ Retire(p) \/ TorrentRefused(p)
            \/ ReplaceFails(p) \/ WriteImportedState(p) \/ RegisterImported(p)
            \/ Probe(p) \/ Quiet(p) \/ Active(p) \/ Sweep(p) \/ Crash(p)
    BY <1>1, <1>10, OtherOrdinary DEF Ordinary
<1>11. QED
    BY <1>4, <1>5, <1>6, <1>7, <1>8, <1>9, <1>10 DEF Step, Remove

\* A step keeps to the order.
LEMMA InOrderStep ==
    ASSUME RInv, RInv', MarkedLocked', Next
    PROVE  InOrder
<1>1. PICK p \in Procs : Start(p) \/ Step(p) \/ Crash(p)
    BY DEF Next
<1> SUFFICES ASSUME NEW d \in Dirs, d = path'.staged
             PROVE  /\ Leftover(d)' => dir'[d].marker /\ dir'[d].lockfile
                    /\ d = path.staged /\ ~NoPayload(d) =>
                         dir'[d].state = dir[d].state /\ dir'[d].fence = dir[d].fence
    BY DEF InOrder
<1>2. Leftover(d)' => dir'[d].marker
  <2>1. RecordKept' /\ d # NoDir
    BY LifecycleAssumption DEF RInv
  <2>2. Leftover(d)' => Leftover(path.staged)'
    BY DEF Leftover, NoPayload, NoMetadata
  <2>3. QED
    BY <2>1, <2>2 DEF RecordKept
<1>3. dir'[d].marker => dir'[d].lockfile
    BY DEF MarkedLocked
<1>4. QED
    BY <1>1, <1>2, <1>3, MetadataStep

\* What a removal has moved away is taken apart in the documented order, by any
\* number of removals that are interrupted and resumed: the payload before the
\* metadata, and record and lock file last.
THEOREM RemovedInOrderTheorem == Spec => RemovedInOrder
<1>1. Init => MarkedLocked
    BY DEF Init, MarkedLocked, Mirrored, Downloaded, EmptyDir
<1>2. IInv /\ MarkedLocked /\ [Next]_vars => MarkedLocked'
    BY MarkedStep DEF Next, MarkedLocked, vars
<1>3. RInv => IInv
    BY DEF RInv
<1>4. RInv /\ RInv' /\ MarkedLocked' /\ [Next]_vars => [InOrder]_vars
    BY InOrderStep
<1>5. Spec => [][InOrder]_vars
    BY <1>1, <1>2, <1>3, <1>4, RemovalInvariant, PTL DEF Spec
<1>6. QED
    BY <1>5 DEF RemovedInOrder, InOrder

\* A step that leaves the runtime cache's lock alone and reaches neither label
\* at which it is used.
Aside(p) ==
    /\ \A q \in Procs \ {p} : proc'[q] = proc[q]
    /\ UNCHANGED <<cleaner, downloaders>>
    /\ proc'[p].job \in {proc[p].job} \cup (AllJobs \ {"clean"})
    /\ proc'[p].pc \in {proc[p].pc} \cup (Labels \ {"place", "sweep"})
    /\ proc'[p].pc = "sweep" => proc'[p].job = proc[p].job

\* Such a step keeps the two apart.
LEMMA CacheAside ==
    ASSUME CacheFacts, NEW p \in Procs, Aside(p)
    PROVE  CacheFacts'
BY DEF CacheFacts, Aside

\* Quitting gives up the runtime cache.
LEMMA CacheQuit ==
    ASSUME IInv, CacheFacts, NEW p \in Procs, Quit(p)
    PROVE  CacheFacts'
<1>1. /\ proc'[p] = Idle
      /\ \A q \in Procs \ {p} : proc'[q] = proc[q]
    BY Known DEF Quit, ProcType
<1>2. Idle.pc = "idle" /\ Idle.job = "none"
    BY DEF Idle
<1>3. QED
    BY <1>1, <1>2 DEF CacheFacts, Quit

\* Who starts a command does not have the runtime cache, but for clean-cache.
LEMMA CacheBegin ==
    ASSUME IInv, CacheFacts, NEW p \in Procs, Start(p)
    PROVE  CacheFacts'
<1>1. ASSUME NEW job \in AllJobs \ {"clean"}, NEW label \in {"mkdir", "resume", "replace", "probe"},
             NEW target \in Commits \cup {NoCommit}, Begin(p, job, label, target),
             UNCHANGED <<cleaner, downloaders>>
      PROVE  CacheFacts'
  <2>1. label \in Labels \ {"place", "sweep"}
    BY DEF Labels
  <2>2. Aside(p)
    BY <1>1, <2>1, Beginning DEF Aside
  <2>3. QED
    BY <2>2, CacheAside
<1>2. CASE StartClean(p)
  <2>1. Begin(p, "clean", "probe", NoCommit) /\ cleaner = NoProc
        /\ downloaders' = {} /\ cleaner' = p
    BY <1>2 DEF StartClean
  <2>2. "clean" \in AllJobs /\ "probe" \in Labels
    BY DEF AllJobs, Labels
  <2>3. /\ proc'[p].pc = "probe" /\ proc'[p].job = "clean"
        /\ \A q \in Procs \ {p} : proc'[q] = proc[q]
    BY <2>1, <2>2, Beginning
  <2>4. \A q \in Procs : proc[q].job # "clean" /\ proc[q].pc # "sweep" /\ proc[q].pc # "place"
    BY <1>2, <2>1, LifecycleAssumption DEF CacheFacts, StartClean
  <2>5. QED
    BY <2>1, <2>3, <2>4 DEF CacheFacts
<1>3. CASE StartMirror(p)
    BY <1>1, <1>3 DEF StartMirror, AllJobs, locks
<1>4. CASE StartTorrent(p)
    BY <1>1, <1>4 DEF StartTorrent, AllJobs, locks
<1>5. CASE StartRemove(p)
    BY <1>1, <1>5 DEF StartRemove, AllJobs
<1>6. CASE StartImport(p)
    BY <1>1, <1>6 DEF StartImport, AllJobs, locks
<1>7. CASE StartStatus(p)
    BY <1>1, <1>7 DEF StartStatus, AllJobs, locks
<1>8. QED
    BY <1>2, <1>3, <1>4, <1>5, <1>6, <1>7 DEF Start

\* A step of a command keeps downloads and clean-cache apart.
LEMMA CacheStepping ==
    ASSUME IInv, CacheFacts, NEW p \in Procs, Step(p)
    PROVE  CacheFacts'
<1>0. ProcType /\ proc[p] \in ProcState
    BY Known
<1>1. CASE Quit(p)
    BY <1>1, CacheQuit
<1>2. ASSUME NEW label \in Labels \ {"place", "sweep"}, Goto(p, label),
             UNCHANGED <<cleaner, downloaders>>
      PROVE  CacheFacts'
    BY <1>0, <1>2, CacheAside DEF Goto, ProcType, ProcState, Aside
<1>3. CASE UNCHANGED <<proc, cleaner, downloaders>>
    BY <1>3 DEF CacheFacts
<1>4. CASE Open(p) \/ Flock(p) \/ Mkdir(p) \/ ConfirmRemoval(p) \/ Probe(p)
  <2>1. /\ UNCHANGED <<cleaner, downloaders>>
        /\ \/ \E label \in {"open", "marker"} : Goto(p, label)
           \/ proc' = [proc EXCEPT ![p].pc = "flock", ![p].handle = path.root]
           \/ proc' = [proc EXCEPT ![p].pc = "stage", ![p].handle = NoDir]
           \/ proc' = [proc EXCEPT ![p].pc = "probed", ![p].handle = path.root]
    BY <1>4 DEF Open, Flock, Mkdir, ConfirmRemoval, Probe, locks
  <2>2. Aside(p)
    BY <1>0, <2>1 DEF Goto, ProcType, ProcState, Aside, Labels
  <2>3. QED
    BY <2>2, CacheAside
<1>5. CASE SelectSnapshot(p)
  <2>1. CASE \E c : proc' = [proc EXCEPT ![p].pc = "begin", ![p].target = c]
                    /\ UNCHANGED <<cleaner, downloaders>>
    <3>1. Aside(p)
      BY <1>0, <2>1 DEF ProcType, ProcState, Aside, Labels
    <3>2. QED
      BY <3>1, CacheAside
  <2>2. QED
    BY <1>1, <1>5, <2>1 DEF SelectSnapshot, locks
<1>6. CASE BeginDownload(p)
  <2>1. cleaner' = NoProc /\ cleaner = NoProc /\ downloaders' = downloaders \cup {p}
        /\ proc[p].pc = "download"
    BY <1>6 DEF BeginDownload
  <2>2. /\ proc'[p].pc = "place" /\ proc'[p].job = proc[p].job
        /\ \A q \in Procs \ {p} : proc'[q] = proc[q]
    BY <1>0, <1>6 DEF BeginDownload, ProcType, ProcState
  <2>3. QED
    BY <2>1, <2>2, LifecycleAssumption DEF CacheFacts
<1>7. CASE PlaceFile(p)
  <2>1. /\ proc'[p].pc = proc[p].pc /\ proc'[p].job = proc[p].job
        /\ \A q \in Procs \ {p} : proc'[q] = proc[q]
    BY <1>0, <1>7 DEF PlaceFile, ProcType, ProcState
  <2>2. UNCHANGED <<cleaner, downloaders>>
    BY <1>7 DEF PlaceFile, locks
  <2>3. Aside(p)
    BY <2>1, <2>2 DEF Aside
  <2>4. QED
    BY <2>3, CacheAside
<1>8. CASE EndDownload(p)
  <2>1. proc[p].pc = "place" /\ downloaders' = downloaders \ {p} /\ cleaner' = cleaner
        /\ Goto(p, "finish")
    BY <1>8 DEF EndDownload
  <2>2. /\ proc'[p].pc = "finish" /\ proc'[p].job = proc[p].job
        /\ \A q \in Procs \ {p} : proc'[q] = proc[q]
    BY <1>0, <2>1 DEF Goto, ProcType, ProcState
  <2>3. QED
    BY <2>1, <2>2 DEF CacheFacts
<1>9. CASE Quiet(p)
  <2>1. CASE /\ proc[p].job = "clean"
             /\ proc' = [proc EXCEPT ![p].pc = "sweep", ![p].handle = NoDir]
             /\ UNCHANGED <<cleaner, downloaders>>
    <3>1. /\ proc'[p].pc = "sweep" /\ proc'[p].job = "clean"
          /\ \A q \in Procs \ {p} : proc'[q] = proc[q]
      BY <1>0, <2>1 DEF ProcType, ProcState
    <3>2. QED
      BY <2>1, <3>1 DEF CacheFacts
  <2>2. QED
    BY <1>1, <1>9, <2>1 DEF Quiet
<1>10. CASE Enter(p)
  <2>1. Goto(p, Body(proc[p].job)) /\ UNCHANGED <<cleaner, downloaders>> /\ proc[p].pc = "marker"
    BY <1>10 DEF Enter, locks
  <2>2. proc[p].job \in {"mirror", "remove", "publish", "retire"}
    BY <2>1, Known DEF JobFacts, Locking, AllJobs, Removing, InsideLabels
  <2>3. Body(proc[p].job) \in Labels \ {"place", "sweep"}
    BY <2>2 DEF Body, Labels
  <2>4. QED
    BY <1>2, <2>1, <2>3
<1>11. CASE \/ BeginMirror(p) \/ Prompt(p) \/ StageRecord(p) \/ StageRename(p)
            \/ ResumeRemoval(p) \/ Replace(p) \/ WriteImportedState(p)
  <2>1. /\ UNCHANGED <<cleaner, downloaders>>
        /\ \E label \in {"download", "prompt", "rename", "purge", "state", "register"} :
             Goto(p, label)
    BY <1>11 DEF BeginMirror, Prompt, StageRecord, StageRename, ResumeRemoval, Replace,
                 WriteImportedState, locks
  <2>2. {"download", "prompt", "rename", "purge", "state", "register"}
          \subseteq Labels \ {"place", "sweep"}
    BY DEF Labels
  <2>3. QED
    BY <1>2, <2>1, <2>2
<1>12. CASE UnlinkPayload(p) \/ UnlinkMetadata(p) \/ UnlinkRecord(p) \/ UnlinkLockFile(p)
    BY <1>3, <1>12 DEF UnlinkPayload, UnlinkMetadata, UnlinkRecord, UnlinkLockFile, Unlink, locks
<1>13. CASE \/ OpenFails(p) \/ Busy(p) \/ RemovePending(p) \/ DownloadFails(p) \/ FinishMirror(p)
            \/ RemoveBlocked(p) \/ RemoveCancelled(p) \/ ResumeCancelled(p) \/ RemoveDirectory(p)
            \/ Publish(p) \/ Retire(p) \/ TorrentRefused(p) \/ ReplaceFails(p)
            \/ RegisterImported(p) \/ Active(p) \/ Sweep(p)
    BY <1>1, <1>13
       DEF OpenFails, Busy, RemovePending, DownloadFails, FinishMirror, RemoveBlocked,
           RemoveCancelled, Withdraw, ResumeCancelled, RemoveDirectory, Publish, Retire,
           TorrentRefused, ReplaceFails, RegisterImported, Active, Sweep
<1>14. QED
    BY <1>4, <1>5, <1>6, <1>7, <1>8, <1>9, <1>10, <1>11, <1>12, <1>13
       DEF Step, Lock, Mirror, Remove

\* What a step may not do to the staging directories of downloads.
Spared == staging \ staging' # {} => downloaders = {} \/ downloaders' # downloaders

\* Only a download that ends and clean-cache delete a staging directory.
LEMMA SparedStep ==
    ASSUME IInv, CacheFacts, NEW p \in Procs, Start(p) \/ Step(p) \/ Crash(p)
    PROVE  Spared
<1>1. CASE staging \subseteq staging'
    BY <1>1 DEF Spared
<1>2. CASE EndDownload(p)
    BY <1>2 DEF Spared, EndDownload, CacheFacts
<1>3. CASE Sweep(p)
  <2>1. cleaner = p /\ p # NoProc
    BY <1>3, LifecycleAssumption DEF Sweep, CacheFacts
  <2>2. QED
    BY <2>1 DEF Spared, CacheFacts
<1>4. CASE BeginDownload(p)
    BY <1>1, <1>4 DEF BeginDownload
<1>5. CASE UNCHANGED staging
    BY <1>1, <1>5
<1>6. CASE Start(p) \/ Crash(p) \/ Lock(p)
    BY <1>5, <1>6
       DEF Start, StartMirror, StartTorrent, StartRemove, StartImport, StartClean, StartStatus,
           Crash, Lock, Mkdir, Open, OpenFails, Flock, Busy, Enter, RemovePending
<1>7. CASE \/ SelectSnapshot(p) \/ BeginMirror(p) \/ PlaceFile(p) \/ DownloadFails(p)
           \/ FinishMirror(p) \/ Remove(p)
    BY <1>5, <1>7
       DEF SelectSnapshot, BeginMirror, PlaceFile, DownloadFails, FinishMirror, Remove,
           RemoveBlocked, Prompt, RemoveCancelled, Withdraw, ConfirmRemoval, StageRecord,
           StageRename, ResumeRemoval, ResumeCancelled, UnlinkPayload, UnlinkMetadata,
           UnlinkRecord, UnlinkLockFile, Unlink, RemoveDirectory
<1>8. CASE \/ Publish(p) \/ Retire(p) \/ TorrentRefused(p) \/ Replace(p) \/ ReplaceFails(p)
           \/ WriteImportedState(p) \/ RegisterImported(p) \/ Probe(p) \/ Quiet(p) \/ Active(p)
    BY <1>5, <1>8
       DEF Publish, Retire, TorrentRefused, Replace, ReplaceFails, WriteImportedState,
           RegisterImported, Probe, Quiet, Active
<1>9. QED
    BY <1>2, <1>3, <1>4, <1>6, <1>7, <1>8 DEF Step, Mirror

\* clean-cache deletes no staging directory while a download is in progress, for
\* any number of commands: the runtime cache's lock keeps the two apart.
THEOREM CleanSparesTheorem == Spec => CleanSparesDownloads
<1>1. Init => CacheFacts
    BY DEF Init, CacheFacts, Idle
<1>2. IInv /\ CacheFacts /\ [Next]_vars => CacheFacts'
  <2>1. ASSUME IInv, CacheFacts, NEW p \in Procs, Crash(p)
        PROVE  CacheFacts'
    BY <2>1, CacheQuit DEF Crash
  <2>2. QED
    BY <2>1, CacheBegin, CacheStepping DEF Next, CacheFacts, vars, locks
<1>3. IInv /\ CacheFacts /\ [Next]_vars => [Spared]_vars
    BY SparedStep DEF Next
<1>4. RInv => IInv
    BY DEF RInv
<1>5. Spec => [][Spared]_vars
    BY <1>1, <1>2, <1>3, <1>4, RemovalInvariant, PTL DEF Spec
<1>6. QED
    BY <1>5 DEF CleanSparesDownloads, Spared

=============================================================================
