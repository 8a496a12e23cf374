----------------------------- MODULE Lifecycle -----------------------------
(***************************************************************************)
(* How a mirror's directory comes and goes: mirror and torrent import      *)
(* create it at its canonical path, remove moves it away and deletes it,   *)
(* and clean-cache deletes the staging area downloads work in.  ModelLock  *)
(* is here the system calls it makes, because the file it locks lives in   *)
(* the directory it protects: the lock belongs to a directory, the         *)
(* commands work on a path, and remove moves the one away from the other.  *)
(*                                                                         *)
(* A directory is its inode; path says which inode a name leads to.  Its   *)
(* payload is the commit each file comes from.  One repository, and its    *)
(* archive's control lock and runtime cache.                               *)
(***************************************************************************)
EXTENDS Naturals, FiniteSets

CONSTANTS
    Dirs,        \* inodes of directories; a freed one may be used again
    NoDir,       \* a path that does not exist
    Procs,       \* command-line processes that may run at the same time
    NoProc,      \* a lock nobody holds
    Commits,     \* commits a mirror or an imported payload may be of
    NoCommit,    \* a file that is missing, a fence that is not set
    Files,       \* payload paths
    Jobs,        \* the commands the operators of this instance issue
    MaxCommands, \* bound: commands issued in one behaviour
    MaxCrashes   \* bound: commands that are killed or fail on an I/O error

AllJobs == {"mirror", "publish", "retire", "remove", "import", "clean", "status"}

ASSUME LifecycleAssumption ==
    /\ IsFiniteSet(Dirs)
    /\ IsFiniteSet(Procs)
    /\ Cardinality(Dirs) >= 3 + Cardinality(Procs)
    /\ NoDir \notin Dirs
    /\ NoProc \notin Procs
    /\ Commits # {}
    /\ NoCommit \notin Commits
    /\ Jobs \subseteq AllJobs
    /\ MaxCommands \in Nat
    /\ MaxCrashes \in Nat

VARIABLES
    path,        \* directory at the canonical, the removal and the import path
    dir,         \* what each directory contains
    holder,      \* holder of the flock on each directory's .verification.lock
    control,     \* holder of the lock on .model-mirror-removals
    cleaner,     \* exclusive holder of runtime-cache.lock
    downloaders, \* shared holders of runtime-cache.lock
    staging,     \* commits with a download staging directory
    proc,        \* control state of each process
    commands,    \* commands issued so far
    crashes,     \* commands cut short so far
    \* Observability variables: nothing in the program reads them.
    confirmed,   \* directories whose removal an operator confirmed
    strayed      \* processes in a lock block whose directory had been moved away

locks == <<holder, control, cleaner, downloaders>>
counters == <<commands, crashes>>
ghosts == <<confirmed, strayed>>
vars == <<path, dir, locks, staging, proc, counters, ghosts>>

-----------------------------------------------------------------------------
(* Directories. *)

EmptyDir ==
    [payload |-> [f \in Files |-> NoCommit], state |-> "none",
     fence |-> NoCommit, marker |-> FALSE, lockfile |-> FALSE]

Whole(d, c) == \A f \in Files : dir[d].payload[f] = c

InUse == {path.root, path.staged, path.incoming} \cup {proc[p].handle : p \in Procs}

\* Where mkdir gets its inode: any that no path leads to and nobody has open.
Fresh == CHOOSE d \in Dirs : d \notin InUse

\* What the canonical path leads to, as code that opens files under it sees it.
Root == IF path.root = NoDir THEN EmptyDir ELSE dir[path.root]

\* Every writer makes the parents of the file it writes.
WriteRoot(content) ==
    LET d == IF path.root = NoDir THEN Fresh ELSE path.root
    IN  /\ path' = [path EXCEPT !.root = d]
        /\ dir' = [dir EXCEPT ![d] = content]

-----------------------------------------------------------------------------
(* Processes. *)

Idle == [pc |-> "idle", job |-> "none", handle |-> NoDir, target |-> NoCommit, todo |-> {}]

Goto(p, label) == proc' = [proc EXCEPT ![p].pc = label]

\* Mutant: leaving clean-cache does not close the runtime cache lock.
Quit_cleaning(p) ==
    /\ proc' = [proc EXCEPT ![p] = Idle]
    /\ holder' = [d \in Dirs |-> IF holder[d] = p THEN NoProc ELSE holder[d]]
    /\ control' = IF control = p THEN NoProc ELSE control
    /\ downloaders' = downloaders \ {p}
    /\ strayed' = strayed \ {p}
    /\ UNCHANGED cleaner

\* Leaving the with blocks by return, exception or death frees what p holds.
Quit(p) ==
    /\ proc' = [proc EXCEPT ![p] = Idle]
    /\ holder' = [d \in Dirs |-> IF holder[d] = p THEN NoProc ELSE holder[d]]
    /\ control' = IF control = p THEN NoProc ELSE control
    /\ cleaner' = IF cleaner = p THEN NoProc ELSE cleaner
    /\ downloaders' = downloaders \ {p}
    /\ strayed' = strayed \ {p}

Begin(p, job, label, target) ==
    /\ proc[p].pc = "idle"
    /\ job \in Jobs
    /\ commands < MaxCommands
    /\ commands' = commands + 1
    /\ proc' = [proc EXCEPT ![p] = [Idle EXCEPT !.pc = label, !.job = job, !.target = target]]

\* The snapshot of a mirror that does not exist is resolved before the lock.
StartMirror(p) ==
    /\ \E c \in IF path.root = NoDir THEN Commits ELSE {NoCommit} :
           Begin(p, "mirror", "mkdir", c)
    /\ UNCHANGED <<path, dir, locks, staging, crashes, ghosts>>

StartTorrent(p) ==
    /\ \E job \in {"publish", "retire"} : Begin(p, job, "mkdir", NoCommit)
    /\ UNCHANGED <<path, dir, locks, staging, crashes, ghosts>>

\* Mutant: removals do not exclude each other.
StartRemove_unlocked(p) ==
    /\ control' = p
    /\ \/ path.staged # NoDir /\ Begin(p, "remove", "resume", NoCommit)
       \/ path.staged = NoDir /\ path.root # NoDir /\ Begin(p, "remove", "mkdir", NoCommit)
    /\ UNCHANGED <<path, dir, holder, cleaner, downloaders, staging, crashes, ghosts>>

\* remove holds the control lock until it is done, the prompt included.
StartRemove(p) ==
    /\ control = NoProc
    /\ control' = p
    /\ \/ path.staged # NoDir /\ Begin(p, "remove", "resume", NoCommit)
       \/ path.staged = NoDir /\ path.root # NoDir /\ Begin(p, "remove", "mkdir", NoCommit)
    /\ UNCHANGED <<path, dir, holder, cleaner, downloaders, staging, crashes, ghosts>>

\* target.exists() is all an import asks about the canonical path; no lock.
StartImport(p) ==
    /\ path.root = NoDir
    /\ path.incoming # NoDir
    /\ \E c \in Commits : Whole(path.incoming, c) /\ Begin(p, "import", "replace", c)
    /\ UNCHANGED <<path, dir, locks, staging, crashes, ghosts>>

StartClean(p) ==
    /\ cleaner = NoProc
    /\ downloaders = {}
    /\ cleaner' = p
    /\ Begin(p, "clean", "probe", NoCommit)
    /\ UNCHANGED <<path, dir, holder, control, downloaders, staging, crashes, ghosts>>

StartStatus(p) ==
    /\ Begin(p, "status", "probe", NoCommit)
    /\ UNCHANGED <<path, dir, locks, staging, crashes, ghosts>>

-----------------------------------------------------------------------------
(* ModelLock.__enter__ *)

Mkdir(p) ==
    /\ proc[p].pc = "mkdir"
    /\ WriteRoot(Root)
    /\ Goto(p, "open")
    /\ UNCHANGED <<locks, staging, counters, ghosts>>

Open(p) ==
    /\ proc[p].pc = "open"
    /\ path.root # NoDir
    /\ dir' = [dir EXCEPT ![path.root].lockfile = TRUE]
    /\ proc' = [proc EXCEPT ![p].pc = "flock", ![p].handle = path.root]
    /\ UNCHANGED <<path, locks, staging, counters, ghosts>>

\* The directory was moved away after mkdir.
OpenFails(p) ==
    /\ proc[p].pc = "open"
    /\ path.root = NoDir
    /\ Quit(p)
    /\ UNCHANGED <<path, dir, staging, counters, confirmed>>

Flock(p) ==
    /\ proc[p].pc = "flock"
    /\ holder[proc[p].handle] = NoProc
    /\ holder' = [holder EXCEPT ![proc[p].handle] = p]
    /\ Goto(p, "marker")
    /\ UNCHANGED <<path, dir, control, cleaner, downloaders, staging, counters, ghosts>>

Busy(p) ==
    /\ proc[p].pc = "flock"
    /\ holder[proc[p].handle] # NoProc
    /\ Quit(p)
    /\ UNCHANGED <<path, dir, staging, counters, confirmed>>

\* Mutant: the lock alone is enough.
MarkerBars_not(p) == FALSE

\* Mutant: only mirror looks for the removal marker.
MarkerBars_mirror(p) == proc[p].job = "mirror" /\ Root.marker

MarkerBars(p) == proc[p].job # "remove" /\ Root.marker

Body(job) ==
    CASE job = "mirror" -> "select"
      [] job = "remove" -> "decide"
      [] OTHER -> job

\* The marker is looked up by path, not in the directory that was locked.
Enter(p) ==
    /\ proc[p].pc = "marker"
    /\ ~MarkerBars(p)
    /\ Goto(p, Body(proc[p].job))
    /\ strayed' = IF proc[p].handle = path.root THEN strayed ELSE strayed \cup {p}
    /\ UNCHANGED <<path, dir, locks, staging, counters, confirmed>>

RemovePending(p) ==
    /\ proc[p].pc = "marker"
    /\ MarkerBars(p)
    /\ Quit(p)
    /\ UNCHANGED <<path, dir, staging, counters, confirmed>>

-----------------------------------------------------------------------------
(* mirror: what happens to the directory; Archive and Download have the rest. *)

MirrorFails(p, c) ==
    Root.fence \notin {NoCommit, c} \/ (Root.fence = c /\ \E f \in Files : Root.payload[f] # c)

\* The snapshot resolved before the lock is used only for a new mirror.
SelectSnapshot(p) ==
    /\ proc[p].pc = "select"
    /\ \E c \in IF proc[p].target # NoCommit /\ Root.state = "none"
                 THEN {proc[p].target} ELSE Commits :
          \/ /\ MirrorFails(p, c)
             /\ Quit(p)
             /\ UNCHANGED <<path, dir>>
          \/ /\ ~MirrorFails(p, c)
             /\ \A f \in Files : Root.payload[f] = c
             /\ WriteRoot([Root EXCEPT !.state = "clean"])
             /\ Quit(p)
          \/ /\ ~MirrorFails(p, c)
             /\ \E f \in Files : Root.payload[f] # c
             /\ proc' = [proc EXCEPT ![p].pc = "begin", ![p].target = c]
             /\ UNCHANGED <<path, dir, locks, strayed>>
    /\ UNCHANGED <<staging, counters, confirmed>>

BeginMirror(p) ==
    /\ proc[p].pc = "begin"
    /\ WriteRoot([Root EXCEPT !.state = "in_progress"])
    /\ Goto(p, "download")
    /\ UNCHANGED <<locks, staging, counters, ghosts>>

\* Mutant: downloads do not take the runtime cache lock.
BeginDownload_unlocked(p) ==
    /\ proc[p].pc = "download"
    /\ downloaders' = downloaders \cup {p}
    /\ staging' = staging \cup {proc[p].target}
    /\ proc' = [proc EXCEPT ![p].pc = "place",
                            ![p].todo = {f \in Files : Root.payload[f] # proc[p].target}]
    /\ UNCHANGED <<path, dir, holder, control, cleaner, counters, ghosts>>

\* The shared lock is waited for.
BeginDownload(p) ==
    /\ proc[p].pc = "download"
    /\ cleaner = NoProc
    /\ downloaders' = downloaders \cup {p}
    /\ staging' = staging \cup {proc[p].target}
    /\ proc' = [proc EXCEPT ![p].pc = "place",
                            ![p].todo = {f \in Files : Root.payload[f] # proc[p].target}]
    /\ UNCHANGED <<path, dir, holder, control, cleaner, counters, ghosts>>

PlaceFile(p) ==
    /\ proc[p].pc = "place"
    /\ proc[p].target \in staging
    /\ \E f \in proc[p].todo :
          /\ WriteRoot([Root EXCEPT !.payload[f] = proc[p].target])
          /\ proc' = [proc EXCEPT ![p].todo = @ \ {f}]
    /\ UNCHANGED <<locks, staging, counters, ghosts>>

EndDownload(p) ==
    /\ proc[p].pc = "place"
    /\ proc[p].target \in staging
    /\ proc[p].todo = {}
    /\ staging' = staging \ {proc[p].target}
    /\ downloaders' = downloaders \ {p}
    /\ Goto(p, "finish")
    /\ UNCHANGED <<path, dir, holder, control, cleaner, counters, ghosts>>

\* Its staging directory is gone, and rmtree at the end of the download fails.
\* No sequence of commands gets here as long as downloads hold the cache lock.
DownloadFails(p) ==
    /\ proc[p].pc = "place"
    /\ proc[p].target \notin staging
    /\ Quit(p)
    /\ UNCHANGED <<path, dir, staging, counters, confirmed>>

FinishMirror(p) ==
    /\ proc[p].pc = "finish"
    /\ WriteRoot([Root EXCEPT !.state =
           IF \A f \in Files : Root.payload[f] = proc[p].target THEN "clean" ELSE "dirty"])
    /\ Quit(p)
    /\ UNCHANGED <<staging, counters, confirmed>>

-----------------------------------------------------------------------------
(* torrent publish and retire, as far as the fence goes. *)

Publishable(c) ==
    /\ Root.state = "clean"
    /\ Root.fence \in {NoCommit, c}
    /\ \A f \in Files : Root.payload[f] = c

Publish(p) ==
    /\ proc[p].pc = "publish"
    /\ \E c \in Commits : Publishable(c) /\ WriteRoot([Root EXCEPT !.fence = c])
    /\ Quit(p)
    /\ UNCHANGED <<staging, counters, confirmed>>

Retire(p) ==
    /\ proc[p].pc = "retire"
    /\ Root.fence # NoCommit
    /\ WriteRoot([Root EXCEPT !.fence = NoCommit])
    /\ Quit(p)
    /\ UNCHANGED <<staging, counters, confirmed>>

TorrentRefused(p) ==
    /\ \/ proc[p].pc = "publish" /\ \A c \in Commits : ~Publishable(c)
       \/ proc[p].pc = "retire" /\ Root.fence = NoCommit
    /\ Quit(p)
    /\ UNCHANGED <<path, dir, staging, counters, confirmed>>

-----------------------------------------------------------------------------
(* remove *)

\* A refusal or a cancelled prompt also takes back a prepared removal.
Withdraw(p) ==
    /\ dir' = [dir EXCEPT ![path.root].marker = FALSE]
    /\ confirmed' = confirmed \ {path.root}
    /\ Quit(p)
    /\ UNCHANGED <<path, staging, counters>>

RemoveBlocked(p) ==
    /\ proc[p].pc = "decide"
    /\ Root.fence # NoCommit
    /\ Withdraw(p)

Prompt(p) ==
    /\ proc[p].pc = "decide"
    /\ Root.fence = NoCommit
    /\ Goto(p, "prompt")
    /\ UNCHANGED <<path, dir, locks, staging, counters, ghosts>>

RemoveCancelled(p) == proc[p].pc = "prompt" /\ Withdraw(p)

\* The record is written, and with that the lock on the directory released.
ConfirmRemoval(p) ==
    /\ proc[p].pc = "prompt"
    /\ dir' = [dir EXCEPT ![path.root].marker = TRUE]
    /\ confirmed' = confirmed \cup {path.root}
    /\ holder' = [holder EXCEPT ![proc[p].handle] = NoProc]
    /\ proc' = [proc EXCEPT ![p].pc = "stage", ![p].handle = NoDir]
    /\ UNCHANGED <<path, control, cleaner, downloaders, staging, counters, strayed>>

StageRecord(p) ==
    /\ proc[p].pc = "stage"
    /\ path.staged = NoDir
    /\ path.root # NoDir
    /\ dir' = [dir EXCEPT ![path.root].marker = TRUE]
    /\ Goto(p, "rename")
    /\ UNCHANGED <<path, locks, staging, counters, ghosts>>

StageRename(p) ==
    /\ proc[p].pc = "rename"
    /\ path.root # NoDir
    /\ path' = [path EXCEPT !.root = NoDir, !.staged = path.root]
    /\ Goto(p, "purge")
    /\ UNCHANGED <<dir, locks, staging, counters, ghosts>>

\* Mutant: the record names the canonical path, and that is what is resumed.
ResumeRemoval_by_record(p) ==
    /\ proc[p].pc = "resume"
    /\ confirmed' = confirmed \cup {path.root}
    /\ Goto(p, "purge")
    /\ UNCHANGED <<path, dir, locks, staging, counters, strayed>>

ResumeRemoval(p) ==
    /\ proc[p].pc = "resume"
    /\ confirmed' = confirmed \cup {path.staged}
    /\ Goto(p, "purge")
    /\ UNCHANGED <<path, dir, locks, staging, counters, strayed>>

ResumeCancelled(p) ==
    /\ proc[p].pc = "resume"
    /\ confirmed' = confirmed \ {path.staged}
    /\ Quit(p)
    /\ UNCHANGED <<path, dir, staging, counters>>

-----------------------------------------------------------------------------
(* complete_removal *)

NoPayload(d) == \A f \in Files : dir[d].payload[f] = NoCommit
NoMetadata(d) == dir[d].state = "none" /\ dir[d].fence = NoCommit

Purging(p) == proc[p].pc = "purge" /\ path.staged # NoDir

Unlink(p, content) ==
    /\ dir' = [dir EXCEPT ![path.staged] = content]
    /\ UNCHANGED <<path, locks, staging, proc, counters, ghosts>>

UnlinkPayload(p) ==
    /\ Purging(p)
    /\ \E f \in Files :
          /\ dir[path.staged].payload[f] # NoCommit
          /\ Unlink(p, [dir[path.staged] EXCEPT !.payload[f] = NoCommit])

\* Mutant: the metadata does not wait for the payload.
UnlinkMetadata_first(p) ==
    /\ Purging(p)
    /\ ~NoMetadata(path.staged)
    /\ Unlink(p, [dir[path.staged] EXCEPT !.state = "none", !.fence = NoCommit])

UnlinkMetadata(p) ==
    /\ Purging(p)
    /\ NoPayload(path.staged)
    /\ ~NoMetadata(path.staged)
    /\ Unlink(p, [dir[path.staged] EXCEPT !.state = "none", !.fence = NoCommit])

UnlinkRecord(p) ==
    /\ Purging(p)
    /\ NoPayload(path.staged)
    /\ NoMetadata(path.staged)
    /\ dir[path.staged].marker
    /\ Unlink(p, [dir[path.staged] EXCEPT !.marker = FALSE])

UnlinkLockFile(p) ==
    /\ Purging(p)
    /\ dir[path.staged] = [EmptyDir EXCEPT !.lockfile = TRUE]
    /\ Unlink(p, EmptyDir)

RemoveDirectory(p) ==
    /\ Purging(p)
    /\ dir[path.staged] = EmptyDir
    /\ path' = [path EXCEPT !.staged = NoDir]
    /\ confirmed' = confirmed \ {path.staged}
    /\ Quit(p)
    /\ UNCHANGED <<dir, staging, counters>>

-----------------------------------------------------------------------------
(* torrent import and join: finalize_payload, which takes no lock. *)

\* rename(2) replaces an empty directory and nothing else.
MayReplace == path.incoming # NoDir /\ Root = EmptyDir

Replace(p) ==
    /\ proc[p].pc = "replace"
    /\ MayReplace
    /\ path' = [path EXCEPT !.root = path.incoming, !.incoming = NoDir]
    /\ Goto(p, "state")
    /\ UNCHANGED <<dir, locks, staging, counters, ghosts>>

ReplaceFails(p) ==
    /\ proc[p].pc = "replace"
    /\ ~MayReplace
    /\ Quit(p)
    /\ UNCHANGED <<path, dir, staging, counters, confirmed>>

WriteImportedState(p) ==
    /\ proc[p].pc = "state"
    /\ WriteRoot([Root EXCEPT !.state = "torrent-verified"])
    /\ Goto(p, "register")
    /\ UNCHANGED <<locks, staging, counters, ghosts>>

RegisterImported(p) ==
    /\ proc[p].pc = "register"
    /\ WriteRoot([Root EXCEPT !.fence = proc[p].target])
    /\ Quit(p)
    /\ UNCHANGED <<staging, counters, confirmed>>

-----------------------------------------------------------------------------
(* clean-cache --force, and the look at the locks it shares with status. *)

\* read_active_lock takes the lock to learn whether somebody has it.
Probe(p) ==
    /\ proc[p].pc = "probe"
    /\ Root.lockfile
    /\ holder[path.root] = NoProc
    /\ holder' = [holder EXCEPT ![path.root] = p]
    /\ proc' = [proc EXCEPT ![p].pc = "probed", ![p].handle = path.root]
    /\ UNCHANGED <<path, dir, control, cleaner, downloaders, staging, counters, ghosts>>

ProbeEnds(p) ==
    \/ /\ proc[p].pc = "probe"
       /\ ~Root.lockfile
    \/ proc[p].pc = "probed"

\* Nothing is active: status is done, clean-cache may go on.
Quiet(p) ==
    /\ ProbeEnds(p)
    /\ \/ /\ proc[p].job = "status"
          /\ Quit(p)
       \/ /\ proc[p].job = "clean"
          /\ holder' = [d \in Dirs |-> IF holder[d] = p THEN NoProc ELSE holder[d]]
          /\ proc' = [proc EXCEPT ![p].pc = "sweep", ![p].handle = NoDir]
          /\ UNCHANGED <<control, cleaner, downloaders, strayed>>
    /\ UNCHANGED <<path, dir, staging, counters, confirmed>>

\* Cleanup is blocked by an active repository; status reports it.
Active(p) ==
    /\ proc[p].pc = "probe"
    /\ Root.lockfile
    /\ holder[path.root] # NoProc
    /\ Quit(p)
    /\ UNCHANGED <<path, dir, staging, counters, confirmed>>

Sweep(p) ==
    /\ proc[p].pc = "sweep"
    /\ staging' = {}
    /\ Quit(p)
    /\ UNCHANGED <<path, dir, counters, confirmed>>

-----------------------------------------------------------------------------
(* The specification. *)

\* The process is killed, or a system call of it fails.
Crash(p) ==
    /\ proc[p].pc # "idle"
    /\ crashes < MaxCrashes
    /\ crashes' = crashes + 1
    /\ Quit(p)
    /\ UNCHANGED <<path, dir, staging, commands, confirmed>>

Start(p) ==
    \/ StartMirror(p) \/ StartTorrent(p) \/ StartRemove(p)
    \/ StartImport(p) \/ StartClean(p) \/ StartStatus(p)

Lock(p) ==
    \/ Mkdir(p) \/ Open(p) \/ OpenFails(p) \/ Flock(p) \/ Busy(p)
    \/ Enter(p) \/ RemovePending(p)

Mirror(p) ==
    \/ SelectSnapshot(p) \/ BeginMirror(p) \/ BeginDownload(p) \/ PlaceFile(p)
    \/ EndDownload(p) \/ DownloadFails(p) \/ FinishMirror(p)

Remove(p) ==
    \/ RemoveBlocked(p) \/ Prompt(p) \/ RemoveCancelled(p) \/ ConfirmRemoval(p)
    \/ StageRecord(p) \/ StageRename(p) \/ ResumeRemoval(p) \/ ResumeCancelled(p)
    \/ UnlinkPayload(p) \/ UnlinkMetadata(p) \/ UnlinkRecord(p)
    \/ UnlinkLockFile(p) \/ RemoveDirectory(p)

Step(p) ==
    \/ Lock(p) \/ Mirror(p) \/ Remove(p)
    \/ Publish(p) \/ Retire(p) \/ TorrentRefused(p)
    \/ Replace(p) \/ ReplaceFails(p) \/ WriteImportedState(p) \/ RegisterImported(p)
    \/ Probe(p) \/ Quiet(p) \/ Active(p) \/ Sweep(p)

Mirrored(c) ==
    [EmptyDir EXCEPT !.payload = [f \in Files |-> c], !.state = "clean", !.lockfile = TRUE]

Downloaded(c) == [EmptyDir EXCEPT !.payload = [f \in Files |-> c]]

\* There may be a mirror, and a payload another client has downloaded.  Which
\* directories and which commit that one has is of no consequence.
Init ==
    /\ LET mirror == CHOOSE d \in Dirs : TRUE
           incoming == CHOOSE d \in Dirs : d # mirror
           commit == CHOOSE c \in Commits : TRUE
       IN  \E root \in {NoDir, mirror}, c \in Commits :
             /\ path = [root |-> root, staged |-> NoDir, incoming |-> incoming]
             /\ dir = [d \in Dirs |-> IF d = root THEN Mirrored(c)
                                      ELSE IF d = incoming THEN Downloaded(commit)
                                      ELSE EmptyDir]
    /\ holder = [d \in Dirs |-> NoProc]
    /\ control = NoProc
    /\ cleaner = NoProc
    /\ downloaders = {}
    /\ staging = {}
    /\ proc = [p \in Procs |-> Idle]
    /\ commands = 0
    /\ crashes = 0
    /\ confirmed = {}
    /\ strayed = {}

Next == \E p \in Procs : Start(p) \/ Step(p) \/ Crash(p)

\* A running command goes on; nothing makes an operator issue one.
Fairness == \A p \in Procs : WF_vars(Step(p))

Spec == Init /\ [][Next]_vars /\ Fairness

-----------------------------------------------------------------------------
(* Properties. *)

Labels ==
    {"idle", "mkdir", "open", "flock", "marker", "select", "begin", "download",
     "place", "finish", "publish", "retire", "decide", "prompt", "stage", "rename",
     "resume", "purge", "replace", "state", "register", "probe", "probed", "sweep"}

Contents ==
    [payload : [Files -> Commits \cup {NoCommit}],
     state : {"none", "in_progress", "dirty", "clean", "torrent-verified"},
     fence : Commits \cup {NoCommit}, marker : BOOLEAN, lockfile : BOOLEAN]

ProcState ==
    [pc : Labels, job : AllJobs \cup {"none"}, handle : Dirs \cup {NoDir},
     target : Commits \cup {NoCommit}, todo : SUBSET Files]

\* Every variable has its type.
TypeOK ==
    /\ path \in [root : Dirs \cup {NoDir}, staged : Dirs \cup {NoDir},
                 incoming : Dirs \cup {NoDir}]
    /\ dir \in [Dirs -> Contents]
    /\ holder \in [Dirs -> Procs \cup {NoProc}]
    /\ control \in Procs \cup {NoProc}
    /\ cleaner \in Procs \cup {NoProc}
    /\ downloaders \subseteq Procs
    /\ staging \subseteq Commits
    /\ proc \in [Procs -> ProcState]
    /\ commands \in 0 .. MaxCommands
    /\ crashes \in 0 .. MaxCrashes
    /\ confirmed \subseteq Dirs
    /\ strayed \subseteq Procs

\* In the lock block of a command on the canonical path.
Inside(p) ==
    proc[p].pc \in {"select", "begin", "download", "place", "finish",
                    "publish", "retire", "decide", "prompt"}

\* A file disappears only from the directory remove has moved away, and a
\* directory with anything in it leaves the canonical path only to be removed;
\* both only after an operator has confirmed the removal of that very directory.
\* A mirror made while an older removal is pending is never deleted by it.
OnlyConfirmedRemoved ==
    [][/\ \A d \in Dirs :
             (\E f \in Files : dir[d].payload[f] # NoCommit /\ dir'[d].payload[f] = NoCommit)
                => d = path.staged /\ d \in confirmed
       /\ path'.root # path.root /\ Root # EmptyDir
             => path'.staged = path.root /\ path.root \in confirmed]_vars

Leftover(d) == ~NoPayload(d) \/ ~NoMetadata(d)

\* What remove has moved away goes in the order of docs/archive-operations.md:295-298,
\* however often it is interrupted and resumed, and whoever works at the canonical
\* path meanwhile.  Record and lock file are there as long as any payload or
\* metadata is, so that whoever resumes is shown what the mirror was when its
\* removal was confirmed; and the metadata stays as it is as long as there is
\* payload (complete_removal).
RemovedInOrder ==
    [][\A d \in Dirs :
          d = path'.staged =>
            /\ Leftover(d)' => dir'[d].marker /\ dir'[d].lockfile
            /\ d = path.staged /\ ~NoPayload(d) =>
                 dir'[d].state = dir[d].state /\ dir'[d].fence = dir[d].fence]_vars

\* A command in its lock block holds the lock file of the directory it works on,
\* unless that directory was moved away while it was entering the block.
LockCoversPath ==
    \A p \in Procs : Inside(p) /\ p \notin strayed =>
        /\ proc[p].handle = path.root
        /\ holder[path.root] = p

\* A mirror whose removal is prepared is left alone until remove withdraws or
\* performs it, except by an import, which takes no lock, and by commands that
\* entered their lock block through a directory that had been moved away.
PreparedLeftAlone ==
    [][path.root # NoDir /\ path'.root = path.root /\ Root.marker /\ dir'[path.root].marker
          => \/ dir'[path.root] = Root
             \/ strayed # {}
             \/ \E p \in Procs : proc[p].pc \in {"state", "register"}]_vars

\* clean-cache deletes no staging directory while a download is in progress: one
\* that shrinks the staging area meanwhile is a download that ends.
CleanSparesDownloads ==
    [][staging \ staging' # {} => downloaders = {} \/ downloaders' # downloaders]_vars

\* Every command ends: none waits for ever for a lock or keeps one.
CommandsEnd == \A p \in Procs : proc[p].pc # "idle" ~> proc[p].pc = "idle"

\* Two commands are never in the lock block of one repository at a time.
MutualExclusion == \A p, q \in Procs : Inside(p) /\ Inside(q) => p = q

=============================================================================
