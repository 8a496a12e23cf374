--------------------------- MODULE LifecycleProofs ---------------------------
(***************************************************************************)
(* Theorems about Lifecycle, for any sets of commits, files and processes  *)
(* and any bounds on commands and crashes.                                 *)
(***************************************************************************)
EXTENDS Lifecycle, FiniteSetTheorems, TLAPS

\* The parts of TypeOK.
PathType ==
    path \in [root : Dirs \cup {NoDir}, staged : Dirs \cup {NoDir},
              incoming : Dirs \cup {NoDir}]

DirType == dir \in [Dirs -> Contents]

LockType ==
    /\ holder \in [Dirs -> Procs \cup {NoProc}]
    /\ control \in Procs \cup {NoProc}
    /\ cleaner \in Procs \cup {NoProc}
    /\ downloaders \subseteq Procs

ProcType == proc \in [Procs -> ProcState]

RestType ==
    /\ staging \subseteq Commits
    /\ commands \in 0 .. MaxCommands
    /\ crashes \in 0 .. MaxCrashes
    /\ confirmed \subseteq Dirs
    /\ strayed \subseteq Procs

\* The three paths lead to different directories.
PathsApart ==
    /\ path.root \in Dirs => path.root # path.staged /\ path.root # path.incoming
    /\ path.staged \in Dirs => path.staged # path.incoming

Locking == {"mkdir", "open", "flock", "marker"}

InsideLabels ==
    {"select", "begin", "download", "place", "finish", "publish", "retire",
     "decide", "prompt"}

Removing == {"decide", "prompt", "stage", "rename", "resume", "purge"}

\* Which command a control point belongs to; removals hold the control lock.
JobFacts(p) ==
    /\ proc[p].job = "remove" => control = p
    /\ proc[p].pc \in Locking => proc[p].job \in {"mirror", "publish", "retire", "remove"}
    /\ proc[p].pc \in Removing => proc[p].job = "remove"
    /\ proc[p].pc \in InsideLabels \ Removing => proc[p].job # "remove"
    /\ proc[p].pc \in {"begin", "download", "place", "finish"} => proc[p].target \in Commits

\* What a process has open: a directory, whose lock it holds from Flock on.  An
\* open directory is not the one to import, and has its lock file as long as the
\* canonical path leads to it.
HandleFacts(p) ==
    /\ proc[p].pc \in {"flock", "marker"} \cup InsideLabels => proc[p].handle \in Dirs
    /\ proc[p].pc \in {"marker"} \cup InsideLabels => holder[proc[p].handle] = p
    /\ proc[p].handle \in Dirs =>
         /\ proc[p].handle # path.incoming
         /\ proc[p].handle = path.root => dir[proc[p].handle].lockfile

\* Where the directory is: at its path, unmarked, for a command that works on it;
\* at its path for a removal, marked once that is confirmed, until it is moved.
PlaceFacts(p) ==
    /\ proc[p].pc \in InsideLabels \ Removing /\ p \notin strayed =>
         proc[p].handle = path.root /\ ~dir[path.root].marker
    /\ proc[p].job = "remove" /\ proc[p].pc \in {"flock", "marker", "decide", "prompt"} =>
         proc[p].handle = path.root
    /\ proc[p].pc \in {"stage", "rename"} => path.root \in Dirs /\ dir[path.root].marker
    /\ proc[p].pc = "resume" => path.staged \in Dirs

ProcFacts(p) == JobFacts(p) /\ HandleFacts(p) /\ PlaceFacts(p)

\* The inductive invariant.
IInv == TypeOK /\ PathsApart /\ \A p \in Procs : ProcFacts(p)

-----------------------------------------------------------------------------
(* Directories. *)

\* TypeOK is its parts.
LEMMA Types == TypeOK <=> PathType /\ DirType /\ LockType /\ ProcType /\ RestType
BY DEF TypeOK, PathType, DirType, LockType, ProcType, RestType

\* While there is no mirror, an inode is left for one: the two other paths and
\* the processes have fewer directories in use than there are.
LEMMA FreshDir ==
    ASSUME PathType, ProcType, path.root = NoDir
    PROVE  Fresh \in Dirs /\ Fresh \notin InUse
<1> DEFINE T == {proc[p].handle : p \in Procs}
           U == {path.staged} \cup {path.incoming}
           h == [p \in Procs |-> proc[p].handle]
<1>1. IsFiniteSet(Dirs) /\ IsFiniteSet(Procs)
      /\ Cardinality(Dirs) >= 3 + Cardinality(Procs) /\ NoDir \notin Dirs
    BY LifecycleAssumption
<1>2. h \in Surjection(Procs, T)
    BY DEF Surjection
<1>3. IsFiniteSet(T) /\ Cardinality(T) <= Cardinality(Procs)
    BY ONLY <1>1, <1>2, FS_Surjection
<1>4. IsFiniteSet(U) /\ Cardinality(U) <= 2
  <2> DEFINE S == {path.staged}
  <2>1. IsFiniteSet(S) /\ Cardinality(S) = 1
    BY FS_Singleton
  <2>2. U = S \cup {path.incoming}
    OBVIOUS
  <2> HIDE DEF S, U
  <2>3. /\ IsFiniteSet(S \cup {path.incoming})
        /\ Cardinality(S \cup {path.incoming}) =
             IF path.incoming \in S THEN Cardinality(S) ELSE Cardinality(S) + 1
    BY ONLY <2>1, FS_AddElement
  <2>4. QED
    BY ONLY <2>1, <2>2, <2>3
<1>5. IsFiniteSet(U \cup T) /\ Cardinality(U \cup T) <= 2 + Cardinality(Procs)
  <2>1. /\ IsFiniteSet(U \cup T)
        /\ Cardinality(U \cup T) = Cardinality(U) + Cardinality(T) - Cardinality(U \cap T)
    BY ONLY <1>3, <1>4, FS_Union
  <2>2. IsFiniteSet(U \cap T)
    BY ONLY <1>3, <1>4, FS_Intersection
  <2>3. /\ Cardinality(U \cap T) \in Nat /\ Cardinality(U) \in Nat
        /\ Cardinality(T) \in Nat /\ Cardinality(Procs) \in Nat
    BY ONLY <1>1, <1>3, <1>4, <2>2, FS_CardinalityType
  <2> HIDE DEF T, U
  <2>4. QED
    BY ONLY <1>3, <1>4, <2>1, <2>3
<1>6. \E d \in Dirs : d \notin U \cup T
  <2>1. SUFFICES ASSUME Dirs \subseteq U \cup T PROVE FALSE
    OBVIOUS
  <2>2. Cardinality(Dirs) <= Cardinality(U \cup T)
    BY ONLY <1>5, <2>1, FS_Subset
  <2>3. /\ Cardinality(Dirs) \in Nat /\ Cardinality(U \cup T) \in Nat
        /\ Cardinality(Procs) \in Nat
    BY ONLY <1>1, <1>5, FS_CardinalityType
  <2> HIDE DEF T, U
  <2>4. QED
    BY ONLY <1>1, <1>5, <2>2, <2>3
<1>7. InUse = {NoDir} \cup U \cup T
    BY DEF InUse
<1>8. \E d \in Dirs : d \notin InUse
    BY <1>1, <1>6, <1>7
<1>9. QED
    BY <1>8 DEF Fresh

\* What the canonical path leads to has the type of a directory's contents.
LEMMA RootType ==
    ASSUME PathType, DirType
    PROVE  /\ EmptyDir \in Contents
           /\ Root \in Contents
           /\ path.root = NoDir => ~Root.marker /\ ~Root.lockfile
           /\ path.root \in Dirs => Root = dir[path.root]
<1>1. EmptyDir \in Contents
    BY DEF EmptyDir, Contents
<1>2. path.root \in Dirs => dir[path.root] \in Contents /\ path.root # NoDir
    BY LifecycleAssumption DEF DirType
<1>3. path.root \in Dirs \cup {NoDir}
    BY DEF PathType
<1>4. Root \in Contents
    BY <1>1, <1>2, <1>3 DEF Root
<1>5. path.root = NoDir => ~Root.marker /\ ~Root.lockfile
    BY DEF Root, EmptyDir
<1>6. QED
    BY <1>1, <1>2, <1>4, <1>5 DEF Root

-----------------------------------------------------------------------------
(* What a step of one process does to the others. *)

\* The canonical path leads where it led, to a directory that is marked for
\* removal or not as it was and that has not lost its lock file.
Keeps ==
    /\ path'.root = path.root
    /\ path.root \in Dirs =>
         /\ dir'[path.root].marker = dir[path.root].marker
         /\ dir[path.root].lockfile => dir'[path.root].lockfile

\* The canonical path leads to a directory that nobody knew.
Makes == path.root = NoDir /\ path'.root \in Dirs /\ path'.root \notin InUse

\* What most steps do to the directories: nothing another process would notice.
Gentle ==
    /\ PathType' /\ DirType' /\ PathsApart'
    /\ path'.staged = path.staged
    /\ path'.incoming = path.incoming
    /\ Keeps \/ Makes

\* A file or more below the canonical path is written.
Rewrites ==
    \E content \in Contents :
        /\ content.marker = Root.marker
        /\ content.lockfile = Root.lockfile
        /\ WriteRoot(content)

\* The step is one of p: it changes no other process, frees no other's lock.
Apart(p) ==
    \A q \in Procs \ {p} :
        /\ proc'[q] = proc[q]
        /\ q \in strayed' <=> q \in strayed
        /\ control = q => control' = q
        /\ \A d \in Dirs : holder[d] = q => holder'[d] = q

\* A step that is apart and gentle breaks no fact about another process.
LEMMA Others ==
    ASSUME IInv, NEW p \in Procs, Apart(p), Gentle
    PROVE  \A q \in Procs \ {p} : ProcFacts(q)'
<1> SUFFICES ASSUME NEW q \in Procs, q # p
             PROVE  ProcFacts(q)'
    OBVIOUS
<1>1. /\ proc'[q] = proc[q]
      /\ q \in strayed' <=> q \in strayed
      /\ control = q => control' = q
      /\ \A d \in Dirs : holder[d] = q => holder'[d] = q
    BY DEF Apart
<1>2. JobFacts(q) /\ HandleFacts(q) /\ PlaceFacts(q)
    BY DEF IInv, ProcFacts
<1>3. JobFacts(q)'
    BY <1>1, <1>2 DEF JobFacts
<1>4. /\ path'.incoming = path.incoming
      /\ path'.staged = path.staged
      /\ proc[q].handle \in InUse
      /\ Keeps \/ Makes
    BY DEF Gentle, InUse
<1>5. HandleFacts(q)'
    BY <1>1, <1>2, <1>4 DEF HandleFacts, Keeps, Makes
<1>6. proc[q].pc \in {"flock", "marker"} \cup InsideLabels => proc[q].handle \in Dirs
    BY <1>2 DEF HandleFacts
<1>7. path.root \in Dirs => path.root # NoDir
    BY LifecycleAssumption
<1>8. PlaceFacts(q)'
  <2>1. CASE Keeps
    <3>1. proc[q].pc \in InsideLabels \ Removing /\ q \notin strayed =>
            proc[q].handle = path.root /\ ~dir'[path.root].marker
        BY <1>2, <1>6, <2>1 DEF PlaceFacts, Keeps
    <3>2. proc[q].pc \in {"stage", "rename"} => path.root \in Dirs /\ dir'[path.root].marker
        BY <1>2, <2>1 DEF PlaceFacts, Keeps
    <3>3. QED
        BY <1>1, <1>2, <1>4, <2>1, <3>1, <3>2 DEF PlaceFacts, Keeps
  <2>2. CASE Makes
    <3>1. path.root = NoDir
        BY <2>2 DEF Makes
    <3>2. proc[q].pc \notin {"stage", "rename"}
        BY <1>2, <1>7, <3>1 DEF PlaceFacts
    <3>3. ~(proc[q].pc \in InsideLabels \ Removing /\ q \notin strayed)
        BY <1>2, <1>6, <1>7, <3>1 DEF PlaceFacts
    <3>4. ~(/\ proc[q].job = "remove"
            /\ proc[q].pc \in {"flock", "marker", "decide", "prompt"})
        BY <1>2, <1>6, <1>7, <3>1 DEF PlaceFacts, InsideLabels
    <3>5. QED
        BY <1>1, <1>2, <1>4, <3>2, <3>3, <3>4 DEF PlaceFacts
  <2>3. QED
    BY <1>4, <2>1, <2>2
<1>9. QED
    BY <1>3, <1>5, <1>8 DEF ProcFacts

\* A write below the canonical path is gentle, whether it makes the path or not.
LEMMA Rewritten ==
    ASSUME IInv, Rewrites
    PROVE  Gentle /\ path'.root \in Dirs
<1>1. PathType /\ DirType /\ ProcType /\ PathsApart
    BY Types DEF IInv
<1>2. PICK content \in Contents :
        /\ content.marker = Root.marker
        /\ content.lockfile = Root.lockfile
        /\ WriteRoot(content)
    BY DEF Rewrites
<1>3. CASE path.root = NoDir
  <2>1. Fresh \in Dirs /\ Fresh \notin InUse
    BY <1>1, <1>3, FreshDir
  <2>2. path' = [path EXCEPT !.root = Fresh] /\ dir' = [dir EXCEPT ![Fresh] = content]
    BY <1>2, <1>3 DEF WriteRoot
  <2>3. /\ PathType' /\ path'.root = Fresh
        /\ path'.staged = path.staged /\ path'.incoming = path.incoming
    BY <1>1, <2>1, <2>2 DEF PathType
  <2>4. DirType'
    BY <1>1, <1>2, <2>1, <2>2 DEF DirType
  <2>5. PathsApart'
    BY <1>1, <2>1, <2>3 DEF PathsApart, InUse
  <2>6. Makes
    BY <1>3, <2>1, <2>3 DEF Makes
  <2>7. QED
    BY <2>1, <2>3, <2>4, <2>5, <2>6 DEF Gentle
<1>4. CASE path.root # NoDir
  <2>1. path.root \in Dirs
    BY <1>1, <1>4 DEF PathType
  <2>2. path' = [path EXCEPT !.root = path.root] /\ dir' = [dir EXCEPT ![path.root] = content]
    BY <1>2, <1>4 DEF WriteRoot
  <2>3. path' = path
    BY <1>1, <2>2 DEF PathType
  <2>4. DirType'
    BY <1>1, <1>2, <2>1, <2>2 DEF DirType
  <2>5. Root = dir[path.root] /\ dir'[path.root] = content
    BY <1>1, <1>4, <2>1, <2>2 DEF Root, DirType
  <2>6. Keeps
    BY <1>2, <2>3, <2>5 DEF Keeps
  <2>7. PathType' /\ PathsApart'
    BY <1>1, <2>3 DEF PathType, PathsApart
  <2>8. QED
    BY <2>1, <2>3, <2>4, <2>6, <2>7 DEF Gentle
<1>5. QED
    BY <1>3, <1>4

\* A step that leaves the directories alone is gentle.
LEMMA Untouched ==
    ASSUME IInv, UNCHANGED <<path, dir>>
    PROVE  Gentle
<1>1. PathType /\ DirType /\ PathsApart
    BY Types DEF IInv
<1>2. PathType' /\ DirType' /\ PathsApart'
    BY <1>1 DEF PathType, DirType, PathsApart
<1>3. QED
    BY <1>2 DEF Gentle, Keeps

\* A process that quits has nothing left, and takes nothing from another.
LEMMA Quitting ==
    ASSUME IInv, NEW p \in Procs, Quit(p)
    PROVE  /\ Apart(p)
           /\ LockType' /\ ProcType' /\ strayed' \subseteq Procs
           /\ ProcFacts(p)'
<1>1. LockType /\ ProcType /\ strayed \subseteq Procs
    BY Types DEF IInv, RestType
<1>2. Idle \in ProcState /\ Idle.pc = "idle" /\ Idle.job = "none" /\ Idle.handle = NoDir
    BY DEF Idle, ProcState, Labels
<1>3. ProcType' /\ proc'[p] = Idle /\ \A q \in Procs \ {p} : proc'[q] = proc[q]
    BY <1>1, <1>2 DEF ProcType, Quit
<1>4. LockType' /\ strayed' \subseteq Procs
    BY <1>1 DEF LockType, Quit
<1>5. Apart(p)
    BY <1>3 DEF Apart, Quit
<1>6. ProcFacts(p)'
    BY <1>2, <1>3, LifecycleAssumption
    DEF ProcFacts, JobFacts, HandleFacts, PlaceFacts, Locking, InsideLabels, Removing
<1>7. QED
    BY <1>3, <1>4, <1>5, <1>6

\* What there is to show of a step of p.
LEMMA Combined ==
    ASSUME IInv, NEW p \in Procs, Apart(p), Gentle,
           LockType', ProcType', RestType', ProcFacts(p)'
    PROVE  IInv'
<1>1. \A q \in Procs \ {p} : ProcFacts(q)'
    BY Others
<1>2. TypeOK' /\ PathsApart'
    BY DEF Gentle, TypeOK, PathType, DirType, LockType, ProcType, RestType
<1>3. QED
    BY <1>1, <1>2 DEF IInv

\* What the invariant says of one process.
LEMMA Known ==
    ASSUME IInv, NEW p \in Procs
    PROVE  /\ PathType /\ DirType /\ LockType /\ ProcType /\ RestType /\ PathsApart
           /\ JobFacts(p) /\ HandleFacts(p) /\ PlaceFacts(p)
           /\ proc[p] \in ProcState
           /\ Root \in Contents
           /\ path.root = NoDir => ~Root.marker /\ ~Root.lockfile
           /\ path.root \in Dirs => Root = dir[path.root]
           /\ path.root \in Dirs \cup {NoDir}
<1>1. PathType /\ DirType /\ LockType /\ ProcType /\ RestType /\ PathsApart
    BY Types DEF IInv
<1>2. JobFacts(p) /\ HandleFacts(p) /\ PlaceFacts(p)
    BY DEF IInv, ProcFacts
<1>3. proc[p] \in ProcState /\ path.root \in Dirs \cup {NoDir}
    BY <1>1 DEF ProcType, PathType
<1>4. QED
    BY <1>1, <1>2, <1>3, RootType

\* A directory that is open stays, across a gentle step, not the one to import,
\* and keeps its lock file.
LEMMA HandleStays ==
    ASSUME IInv, NEW p \in Procs, Gentle, proc'[p].handle = proc[p].handle
    PROVE  proc'[p].handle \in Dirs =>
             /\ proc'[p].handle # path'.incoming
             /\ proc'[p].handle = path'.root => dir'[proc'[p].handle].lockfile
<1>1. HandleFacts(p) /\ proc[p].handle \in InUse
    BY Known DEF InUse
<1>2. QED
    BY <1>1 DEF HandleFacts, Gentle, Keeps, Makes

\* A command that goes on inside its lock block.
LEMMA StaysInside ==
    ASSUME IInv, NEW p \in Procs, Gentle,
           UNCHANGED <<holder, control, strayed>>,
           proc[p].pc \in InsideLabels \ Removing,
           proc'[p].pc \in InsideLabels \ Removing,
           proc'[p].job = proc[p].job,
           proc'[p].handle = proc[p].handle,
           proc'[p].target \in Commits
    PROVE  ProcFacts(p)'
<1>1. JobFacts(p) /\ HandleFacts(p) /\ PlaceFacts(p)
    BY Known
<1>2. proc'[p].pc \notin Locking /\ proc'[p].pc \notin Removing /\ proc[p].job # "remove"
    BY <1>1 DEF JobFacts, Locking, InsideLabels
<1>3. JobFacts(p)'
    BY <1>1, <1>2 DEF JobFacts
<1>4. proc[p].handle \in Dirs /\ holder[proc[p].handle] = p
    BY <1>1 DEF HandleFacts
<1>5. HandleFacts(p)'
    BY <1>4, HandleStays DEF HandleFacts
<1>6. p \notin strayed => path.root \in Dirs /\ Keeps /\ ~dir[path.root].marker
                        /\ proc[p].handle = path.root
    BY <1>1, <1>4, LifecycleAssumption DEF PlaceFacts, Gentle, Makes
<1>7. proc'[p].pc \notin {"stage", "rename", "resume"}
    BY DEF Removing
<1>8. PlaceFacts(p)'
    BY <1>2, <1>6, <1>7 DEF PlaceFacts, Keeps
<1>9. QED
    BY <1>3, <1>5, <1>8 DEF ProcFacts

\* A step by which a process quits and that is gentle otherwise.
LEMMA QuitStep ==
    ASSUME IInv, NEW p \in Procs, Quit(p), Gentle,
           staging' \subseteq Commits, commands' \in 0 .. MaxCommands,
           crashes' \in 0 .. MaxCrashes, confirmed' \subseteq Dirs
    PROVE  IInv'
<1>1. /\ Apart(p)
      /\ LockType' /\ ProcType' /\ strayed' \subseteq Procs
      /\ ProcFacts(p)'
    BY Quitting
<1>2. RestType'
    BY <1>1 DEF RestType
<1>3. QED
    BY <1>1, <1>2, Combined

\* A process that goes on to another control point.
LEMMA Going ==
    ASSUME IInv, NEW p \in Procs, NEW label \in Labels, Goto(p, label)
    PROVE  /\ ProcType'
           /\ proc'[p] = [proc[p] EXCEPT !.pc = label]
           /\ \A q \in Procs \ {p} : proc'[q] = proc[q]
<1>1. ProcType
    BY Known
<1>2. proc[p] \in ProcState
    BY Known
<1>3. [proc[p] EXCEPT !.pc = label] \in ProcState
    BY <1>2 DEF ProcState
<1>4. QED
    BY <1>1, <1>3 DEF Goto, ProcType

-----------------------------------------------------------------------------
(* The start of a command. *)

\* A command that starts has nothing open yet.
LEMMA Beginning ==
    ASSUME IInv, NEW p \in Procs, NEW job \in AllJobs, NEW label \in Labels,
           NEW target \in Commits \cup {NoCommit}, Begin(p, job, label, target)
    PROVE  /\ ProcType' /\ commands' \in 0 .. MaxCommands
           /\ proc'[p].pc = label /\ proc'[p].job = job
           /\ proc'[p].handle = NoDir /\ proc'[p].target = target
           /\ \A q \in Procs \ {p} : proc'[q] = proc[q]
<1>1. ProcType /\ RestType
    BY Known
<1> DEFINE new == [Idle EXCEPT !.pc = label, !.job = job, !.target = target]
<1>2. /\ new \in ProcState
      /\ new.pc = label /\ new.job = job /\ new.handle = NoDir /\ new.target = target
    BY DEF Idle, ProcState
<1>3. proc' = [proc EXCEPT ![p] = new] /\ commands' = commands + 1 /\ commands < MaxCommands
    BY DEF Begin
<1> HIDE DEF new
<1>4. commands' \in 0 .. MaxCommands
    BY <1>1, <1>3, LifecycleAssumption DEF RestType
<1>5. QED
    BY <1>1, <1>2, <1>3, <1>4 DEF ProcType

\* Starting a command keeps the invariant.
LEMMA StartStep == ASSUME IInv, NEW p \in Procs, Start(p) PROVE IInv'
<1>0. LockType /\ RestType /\ PathType
    BY Known
<1>a. NoDir \notin Dirs /\ NoProc \notin Procs
    BY LifecycleAssumption
<1>b. {"mkdir", "replace", "probe", "resume"} \subseteq Labels
      /\ {"mirror", "publish", "retire", "remove", "import", "clean", "status"} \subseteq AllJobs
    BY DEF Labels, AllJobs
<1>1. CASE StartMirror(p)
  <2>1. PICK c \in Commits \cup {NoCommit} : Begin(p, "mirror", "mkdir", c)
    BY <1>1 DEF StartMirror
  <2>2. /\ ProcType' /\ commands' \in 0 .. MaxCommands
        /\ proc'[p].pc = "mkdir" /\ proc'[p].job = "mirror" /\ proc'[p].handle = NoDir
        /\ \A q \in Procs \ {p} : proc'[q] = proc[q]
    BY <2>1, <1>b, Beginning
  <2>3. UNCHANGED <<path, dir, locks, staging, crashes, ghosts>>
    BY <1>1 DEF StartMirror
  <2>4. Gentle /\ Apart(p) /\ LockType' /\ RestType'
    BY <2>2, <2>3, <1>0, Untouched DEF Apart, LockType, RestType, locks, ghosts
  <2>5. ProcFacts(p)'
    BY <2>2, <1>a DEF ProcFacts, JobFacts, HandleFacts, PlaceFacts, Locking, InsideLabels, Removing
  <2>6. QED
    BY <2>2, <2>4, <2>5, Combined
<1>2. CASE StartTorrent(p)
  <2>1. PICK job \in {"publish", "retire"} : Begin(p, job, "mkdir", NoCommit)
    BY <1>2 DEF StartTorrent
  <2>2. /\ ProcType' /\ commands' \in 0 .. MaxCommands
        /\ proc'[p].pc = "mkdir" /\ proc'[p].job \in {"publish", "retire"}
        /\ proc'[p].handle = NoDir
        /\ \A q \in Procs \ {p} : proc'[q] = proc[q]
    BY <2>1, <1>b, Beginning
  <2>3. UNCHANGED <<path, dir, locks, staging, crashes, ghosts>>
    BY <1>2 DEF StartTorrent
  <2>4. Gentle /\ Apart(p) /\ LockType' /\ RestType'
    BY <2>2, <2>3, <1>0, Untouched DEF Apart, LockType, RestType, locks, ghosts
  <2>5. ProcFacts(p)'
    BY <2>2, <1>a DEF ProcFacts, JobFacts, HandleFacts, PlaceFacts, Locking, InsideLabels, Removing
  <2>6. QED
    BY <2>2, <2>4, <2>5, Combined
<1>3. CASE StartRemove(p)
  <2>1. /\ control = NoProc /\ control' = p
        /\ UNCHANGED <<path, dir, holder, cleaner, downloaders, staging, crashes, ghosts>>
    BY <1>3 DEF StartRemove
  <2>2. \/ path.staged # NoDir /\ Begin(p, "remove", "resume", NoCommit)
        \/ Begin(p, "remove", "mkdir", NoCommit)
    BY <1>3 DEF StartRemove
  <2>3. /\ ProcType' /\ commands' \in 0 .. MaxCommands
        /\ proc'[p].pc \in {"mkdir", "resume"} /\ proc'[p].job = "remove"
        /\ proc'[p].pc = "resume" => path.staged # NoDir
        /\ proc'[p].handle = NoDir
        /\ \A q \in Procs \ {p} : proc'[q] = proc[q]
    <3>1. CASE path.staged # NoDir /\ Begin(p, "remove", "resume", NoCommit)
        BY <3>1, <1>b, Beginning
    <3>2. CASE Begin(p, "remove", "mkdir", NoCommit)
        BY <3>2, <1>b, Beginning
    <3>3. QED
        BY <2>2, <3>1, <3>2
  <2>4. Gentle /\ Apart(p) /\ LockType' /\ RestType'
    BY <2>1, <2>3, <1>0, <1>a, Untouched DEF Apart, LockType, RestType, ghosts
  <2>5. path'.staged = path.staged /\ (path.staged # NoDir => path.staged \in Dirs)
    BY <2>1, <1>0 DEF PathType
  <2>6. ProcFacts(p)'
    BY <2>1, <2>3, <2>5, <1>a
    DEF ProcFacts, JobFacts, HandleFacts, PlaceFacts, Locking, InsideLabels, Removing
  <2>7. QED
    BY <2>3, <2>4, <2>6, Combined
<1>4. CASE StartImport(p)
  <2>1. PICK c \in Commits : Begin(p, "import", "replace", c)
    BY <1>4 DEF StartImport
  <2>2. /\ ProcType' /\ commands' \in 0 .. MaxCommands
        /\ proc'[p].pc = "replace" /\ proc'[p].job = "import" /\ proc'[p].handle = NoDir
        /\ \A q \in Procs \ {p} : proc'[q] = proc[q]
    BY <2>1, <1>b, Beginning
  <2>3. UNCHANGED <<path, dir, locks, staging, crashes, ghosts>>
    BY <1>4 DEF StartImport
  <2>4. Gentle /\ Apart(p) /\ LockType' /\ RestType'
    BY <2>2, <2>3, <1>0, Untouched DEF Apart, LockType, RestType, locks, ghosts
  <2>5. ProcFacts(p)'
    BY <2>2, <1>a DEF ProcFacts, JobFacts, HandleFacts, PlaceFacts, Locking, InsideLabels, Removing
  <2>6. QED
    BY <2>2, <2>4, <2>5, Combined
<1>5. CASE StartClean(p)
  <2>1. /\ ProcType' /\ commands' \in 0 .. MaxCommands
        /\ proc'[p].pc = "probe" /\ proc'[p].job = "clean" /\ proc'[p].handle = NoDir
        /\ \A q \in Procs \ {p} : proc'[q] = proc[q]
    BY <1>5, <1>b, Beginning DEF StartClean
  <2>2. /\ cleaner' = p
        /\ UNCHANGED <<path, dir, holder, control, downloaders, staging, crashes, ghosts>>
    BY <1>5 DEF StartClean
  <2>3. Gentle /\ Apart(p) /\ LockType' /\ RestType'
    BY <2>1, <2>2, <1>0, Untouched DEF Apart, LockType, RestType, ghosts
  <2>4. ProcFacts(p)'
    BY <2>1, <1>a DEF ProcFacts, JobFacts, HandleFacts, PlaceFacts, Locking, InsideLabels, Removing
  <2>5. QED
    BY <2>1, <2>3, <2>4, Combined
<1>6. CASE StartStatus(p)
  <2>1. /\ ProcType' /\ commands' \in 0 .. MaxCommands
        /\ proc'[p].pc = "probe" /\ proc'[p].job = "status" /\ proc'[p].handle = NoDir
        /\ \A q \in Procs \ {p} : proc'[q] = proc[q]
    BY <1>6, <1>b, Beginning DEF StartStatus
  <2>2. UNCHANGED <<path, dir, locks, staging, crashes, ghosts>>
    BY <1>6 DEF StartStatus
  <2>3. Gentle /\ Apart(p) /\ LockType' /\ RestType'
    BY <2>1, <2>2, <1>0, Untouched DEF Apart, LockType, RestType, locks, ghosts
  <2>4. ProcFacts(p)'
    BY <2>1, <1>a DEF ProcFacts, JobFacts, HandleFacts, PlaceFacts, Locking, InsideLabels, Removing
  <2>5. QED
    BY <2>1, <2>3, <2>4, Combined
<1>7. QED
    BY <1>1, <1>2, <1>3, <1>4, <1>5, <1>6 DEF Start

-----------------------------------------------------------------------------
(* ModelLock *)

\* Taking the lock keeps the invariant.
LEMMA LockStep == ASSUME IInv, NEW p \in Procs, Lock(p) PROVE IInv'
<1>0. /\ PathType /\ DirType /\ LockType /\ ProcType /\ RestType /\ PathsApart
      /\ JobFacts(p) /\ HandleFacts(p) /\ PlaceFacts(p)
      /\ proc[p] \in ProcState
      /\ Root \in Contents
      /\ path.root = NoDir => ~Root.marker /\ ~Root.lockfile
      /\ path.root \in Dirs => Root = dir[path.root]
      /\ path.root \in Dirs \cup {NoDir}
    BY Known
<1>a. NoDir \notin Dirs /\ NoProc \notin Procs
    BY LifecycleAssumption
<1>q. ASSUME Quit(p), UNCHANGED <<path, dir, staging, counters, confirmed>>
      PROVE  IInv'
    BY <1>0, <1>q, Untouched, QuitStep DEF RestType, counters
<1>1. CASE Mkdir(p)
  <2>1. Gentle
    BY <1>0, <1>1, Rewritten DEF Mkdir, Rewrites
  <2>2. /\ ProcType' /\ proc'[p] = [proc[p] EXCEPT !.pc = "open"]
        /\ \A q \in Procs \ {p} : proc'[q] = proc[q]
    BY <1>1, Going DEF Mkdir, Labels
  <2>3. Apart(p) /\ LockType' /\ RestType'
    BY <1>0, <1>1, <2>2 DEF Mkdir, Apart, LockType, RestType, locks, counters, ghosts
  <2>4. /\ proc'[p].pc = "open" /\ proc'[p].job = proc[p].job
        /\ proc'[p].handle = proc[p].handle
    BY <1>0, <2>2 DEF ProcState
  <2>5. JobFacts(p)'
    BY <1>0, <1>1, <2>4 DEF JobFacts, Mkdir, locks, Locking, InsideLabels, Removing
  <2>6. HandleFacts(p)' /\ PlaceFacts(p)'
    BY <2>1, <2>4, HandleStays DEF HandleFacts, PlaceFacts, InsideLabels
  <2>7. QED
    BY <2>1, <2>2, <2>3, <2>5, <2>6, Combined DEF ProcFacts
<1>2. CASE Open(p)
  <2>1. /\ path.root \in Dirs /\ path' = path
        /\ dir' = [dir EXCEPT ![path.root].lockfile = TRUE]
        /\ proc' = [proc EXCEPT ![p].pc = "flock", ![p].handle = path.root]
        /\ UNCHANGED <<locks, staging, counters, ghosts>>
        /\ proc[p].pc = "open"
    BY <1>0, <1>2 DEF Open
  <2>2. /\ dir'[path.root] = [dir[path.root] EXCEPT !.lockfile = TRUE]
        /\ dir[path.root] \in Contents
        /\ DirType'
    BY <1>0, <2>1 DEF DirType, Contents
  <2>3. dir'[path.root].lockfile /\ dir'[path.root].marker = dir[path.root].marker
    BY <2>2 DEF Contents
  <2>4. Gentle
    BY <1>0, <2>1, <2>2, <2>3 DEF Gentle, Keeps, PathType, PathsApart
  <2>5. /\ proc'[p] = [proc[p] EXCEPT !.pc = "flock", !.handle = path.root]
        /\ \A q \in Procs \ {p} : proc'[q] = proc[q]
    BY <1>0, <2>1 DEF ProcType
  <2>6. /\ proc'[p].pc = "flock" /\ proc'[p].job = proc[p].job
        /\ proc'[p].handle = path.root /\ proc'[p] \in ProcState
    <3>1. "flock" \in Labels
        BY DEF Labels
    <3>2. PICK s \in ProcState : s = proc[p]
        BY <1>0
    <3>3. PICK t : t = proc'[p]
        OBVIOUS
    <3>4. PICK h \in Dirs \cup {NoDir} : h = path.root
        BY <2>1
    <3>5. t = [s EXCEPT !.pc = "flock", !.handle = h]
        BY <2>5, <3>2, <3>3, <3>4
    <3>6. /\ t \in ProcState
          /\ t.pc = "flock" /\ t.job = s.job /\ t.handle = h
        BY ONLY <3>1, <3>5, s \in ProcState, h \in Dirs \cup {NoDir} DEF ProcState
    <3>7. QED
        BY <3>2, <3>3, <3>4, <3>6
  <2>7. ProcType'
    BY <1>0, <2>1, <2>6 DEF ProcType
  <2>8. Apart(p) /\ LockType' /\ RestType'
    BY <1>0, <2>1, <2>5 DEF Apart, LockType, RestType, locks, counters, ghosts
  <2>9. JobFacts(p)'
    BY <1>0, <2>1, <2>6 DEF JobFacts, locks, Locking, InsideLabels, Removing
  <2>10. HandleFacts(p)' /\ PlaceFacts(p)'
    BY <1>0, <2>1, <2>3, <2>6 DEF HandleFacts, PlaceFacts, InsideLabels, PathsApart
  <2>11. QED
    BY <2>4, <2>7, <2>8, <2>9, <2>10, Combined DEF ProcFacts
<1>3. CASE OpenFails(p)
    BY <1>3, <1>q DEF OpenFails
<1>4. CASE Flock(p)
  <2>1. /\ proc[p].pc = "flock" /\ proc[p].handle \in Dirs
        /\ holder[proc[p].handle] = NoProc
        /\ holder' = [holder EXCEPT ![proc[p].handle] = p]
        /\ UNCHANGED <<path, dir, control, cleaner, downloaders, staging, counters, ghosts>>
    BY <1>0, <1>4 DEF Flock, HandleFacts
  <2>2. Gentle
    BY <2>1, Untouched
  <2>3. /\ ProcType' /\ proc'[p] = [proc[p] EXCEPT !.pc = "marker"]
        /\ \A q \in Procs \ {p} : proc'[q] = proc[q]
    BY <1>4, Going DEF Flock, Labels
  <2>4. LockType' /\ RestType' /\ holder'[proc[p].handle] = p
    BY <1>0, <2>1 DEF LockType, RestType, counters, ghosts
  <2>5. Apart(p)
    BY <1>0, <1>a, <2>1, <2>3 DEF Apart, LockType, ghosts
  <2>6. /\ proc'[p].pc = "marker" /\ proc'[p].job = proc[p].job
        /\ proc'[p].handle = proc[p].handle
    BY <1>0, <2>3 DEF ProcState
  <2>7. JobFacts(p)'
    BY <1>0, <2>1, <2>6 DEF JobFacts, Locking, InsideLabels, Removing
  <2>8. HandleFacts(p)'
    BY <2>1, <2>2, <2>4, <2>6, HandleStays DEF HandleFacts
  <2>9. PlaceFacts(p)'
    BY <1>0, <2>1, <2>6 DEF PlaceFacts, InsideLabels
  <2>10. QED
    BY <2>2, <2>3, <2>4, <2>5, <2>7, <2>8, <2>9, Combined DEF ProcFacts
<1>5. CASE Busy(p)
    BY <1>5, <1>q DEF Busy
<1>6. CASE Enter(p)
  <2>1. /\ proc[p].pc = "marker"
        /\ proc[p].job = "remove" \/ ~Root.marker
        /\ Goto(p, Body(proc[p].job))
        /\ strayed' = IF proc[p].handle = path.root THEN strayed ELSE strayed \cup {p}
        /\ UNCHANGED <<path, dir, locks, staging, counters, confirmed>>
    BY <1>6 DEF Enter, MarkerBars
  <2>2. PICK label : label = Body(proc[p].job)
    OBVIOUS
  <2>3. /\ proc[p].job = "remove" => label = "decide"
        /\ proc[p].job # "remove" => label \in {"select", "publish", "retire"}
    BY <1>0, <2>1, <2>2 DEF JobFacts, Locking, Body
  <2>4. label \in Labels
    BY <2>3 DEF Labels
  <2>5. Gentle
    BY <2>1, Untouched
  <2>6. /\ ProcType' /\ proc'[p] = [proc[p] EXCEPT !.pc = label]
        /\ \A q \in Procs \ {p} : proc'[q] = proc[q]
    BY <2>1, <2>2, <2>4, Going
  <2>7. Apart(p) /\ LockType' /\ RestType'
    BY <1>0, <2>1, <2>6 DEF Apart, LockType, RestType, locks, counters
  <2>8. /\ proc'[p].pc = label /\ proc'[p].job = proc[p].job
        /\ proc'[p].handle = proc[p].handle
    BY <1>0, <2>6 DEF ProcState
  <2>9. JobFacts(p)'
    BY <1>0, <2>1, <2>3, <2>8 DEF JobFacts, locks, Locking, InsideLabels, Removing
  <2>10. proc[p].handle \in Dirs /\ holder[proc[p].handle] = p
    BY <1>0, <2>1 DEF HandleFacts
  <2>11. HandleFacts(p)'
    BY <2>1, <2>5, <2>8, <2>10, HandleStays DEF HandleFacts, locks
  <2>12. p \notin strayed' => proc[p].handle = path.root
    BY <2>1
  <2>13. PlaceFacts(p)'
    BY <1>0, <2>1, <2>3, <2>8, <2>10, <2>12 DEF PlaceFacts, InsideLabels, Removing
  <2>14. QED
    BY <2>5, <2>6, <2>7, <2>9, <2>11, <2>13, Combined DEF ProcFacts
<1>7. CASE RemovePending(p)
    BY <1>7, <1>q DEF RemovePending
<1>8. QED
    BY <1>1, <1>2, <1>3, <1>4, <1>5, <1>6, <1>7 DEF Lock

-----------------------------------------------------------------------------
(* The commands that write below the canonical path. *)

\* A mirror keeps the invariant.
LEMMA MirrorStep == ASSUME IInv, NEW p \in Procs, Mirror(p) PROVE IInv'
<1>0. /\ PathType /\ DirType /\ LockType /\ ProcType /\ RestType /\ PathsApart
      /\ JobFacts(p) /\ HandleFacts(p) /\ PlaceFacts(p)
      /\ proc[p] \in ProcState
      /\ Root \in Contents
    BY Known
<1>q. ASSUME Quit(p), UNCHANGED <<path, dir, staging, counters, confirmed>>
      PROVE  IInv'
    BY <1>0, <1>q, Untouched, QuitStep DEF RestType, counters
<1>s. \A label \in {"begin", "download", "place", "finish"} :
        label \in InsideLabels \ Removing /\ label \in Labels
    BY DEF InsideLabels, Removing, Labels
<1>w. \A t \in {"in_progress", "dirty", "clean"} :
        /\ [Root EXCEPT !.state = t] \in Contents
        /\ [Root EXCEPT !.state = t].marker = Root.marker
        /\ [Root EXCEPT !.state = t].lockfile = Root.lockfile
    BY <1>0 DEF Contents
<1>1. CASE SelectSnapshot(p)
  <2>1. PICK c \in Commits :
          \/ Quit(p) /\ UNCHANGED <<path, dir>>
          \/ WriteRoot([Root EXCEPT !.state = "clean"]) /\ Quit(p)
          \/ /\ proc' = [proc EXCEPT ![p].pc = "begin", ![p].target = c]
             /\ UNCHANGED <<path, dir, locks, strayed>>
    <3>1. proc[p].target # NoCommit => proc[p].target \in Commits
        BY <1>0 DEF ProcState
    <3>2. QED
        BY <1>1, <3>1 DEF SelectSnapshot
  <2>2. proc[p].pc = "select" /\ UNCHANGED <<staging, counters, confirmed>>
    BY <1>1 DEF SelectSnapshot
  <2>3. CASE Quit(p) /\ UNCHANGED <<path, dir>>
    BY <1>q, <2>2, <2>3
  <2>4. CASE WriteRoot([Root EXCEPT !.state = "clean"]) /\ Quit(p)
    <3>1. Gentle
        BY <1>w, <2>4, Rewritten DEF Rewrites
    <3>2. QED
        BY <1>0, <2>2, <2>4, <3>1, QuitStep DEF RestType, counters
  <2>5. CASE /\ proc' = [proc EXCEPT ![p].pc = "begin", ![p].target = c]
             /\ UNCHANGED <<path, dir, locks, strayed>>
    <3>1. /\ proc'[p] = [proc[p] EXCEPT !.pc = "begin", !.target = c]
          /\ \A q \in Procs \ {p} : proc'[q] = proc[q]
        BY <1>0, <2>5 DEF ProcType
    <3>2. /\ proc'[p].pc = "begin" /\ proc'[p].target = c
          /\ proc'[p].job = proc[p].job /\ proc'[p].handle = proc[p].handle
          /\ proc'[p] \in ProcState
      <4>1. PICK s \in ProcState : s = proc[p]
        BY <1>0
      <4>2. PICK t : t = proc'[p]
        OBVIOUS
      <4>3. t = [s EXCEPT !.pc = "begin", !.target = c] /\ "begin" \in Labels
        BY <1>s, <3>1, <4>1, <4>2
      <4>4. /\ t \in ProcState
            /\ t.pc = "begin" /\ t.target = c /\ t.job = s.job /\ t.handle = s.handle
        BY ONLY <4>3, s \in ProcState, c \in Commits DEF ProcState
      <4>5. QED
        BY <4>1, <4>2, <4>4
    <3>3. ProcType'
        BY <1>0, <2>5, <3>2 DEF ProcType
    <3>4. Gentle
        BY <2>5, Untouched
    <3>5. Apart(p) /\ LockType' /\ RestType'
        BY <1>0, <2>2, <2>5, <3>1 DEF Apart, LockType, RestType, locks, counters
    <3>6. proc[p].pc \in InsideLabels \ Removing
        BY <2>2 DEF InsideLabels, Removing
    <3>7. ProcFacts(p)'
        BY <1>s, <2>5, <3>2, <3>4, <3>6, StaysInside DEF locks
    <3>8. QED
        BY <3>3, <3>4, <3>5, <3>7, Combined
  <2>6. QED
    BY <2>1, <2>3, <2>4, <2>5
<1>2. CASE BeginMirror(p)
  <2>1. Gentle
    BY <1>w, <1>2, Rewritten DEF BeginMirror, Rewrites
  <2>2. /\ ProcType' /\ proc'[p] = [proc[p] EXCEPT !.pc = "download"]
        /\ \A q \in Procs \ {p} : proc'[q] = proc[q]
    BY <1>2, <1>s, Going DEF BeginMirror
  <2>3. Apart(p) /\ LockType' /\ RestType'
    BY <1>0, <1>2, <2>2 DEF BeginMirror, Apart, LockType, RestType, locks, counters, ghosts
  <2>4. /\ proc'[p].pc = "download" /\ proc'[p].job = proc[p].job
        /\ proc'[p].handle = proc[p].handle /\ proc'[p].target = proc[p].target
    BY <1>0, <2>2 DEF ProcState
  <2>5. proc[p].pc = "begin" /\ proc[p].target \in Commits
    BY <1>0, <1>2 DEF BeginMirror, JobFacts
  <2>6. ProcFacts(p)'
    BY <1>s, <1>2, <2>1, <2>4, <2>5, StaysInside DEF BeginMirror, locks, ghosts
  <2>7. QED
    BY <2>1, <2>2, <2>3, <2>6, Combined
<1>3. CASE BeginDownload(p)
  <2> DEFINE todo == {f \in Files : Root.payload[f] # proc[p].target}
  <2>1. /\ proc[p].pc = "download"
        /\ downloaders' = downloaders \cup {p}
        /\ staging' = staging \cup {proc[p].target}
        /\ proc' = [proc EXCEPT ![p].pc = "place", ![p].todo = todo]
        /\ UNCHANGED <<path, dir, holder, control, cleaner, counters, ghosts>>
        /\ todo \subseteq Files
    BY <1>3 DEF BeginDownload
  <2> HIDE DEF todo
  <2>2. /\ proc'[p] = [proc[p] EXCEPT !.pc = "place", !.todo = todo]
        /\ \A q \in Procs \ {p} : proc'[q] = proc[q]
    BY <1>0, <2>1 DEF ProcType
  <2>3. /\ proc'[p].pc = "place" /\ proc'[p].job = proc[p].job
        /\ proc'[p].handle = proc[p].handle /\ proc'[p].target = proc[p].target
        /\ proc'[p] \in ProcState
    <3>1. PICK s \in ProcState : s = proc[p]
        BY <1>0
    <3>2. PICK t : t = proc'[p]
        OBVIOUS
    <3>3. t = [s EXCEPT !.pc = "place", !.todo = todo] /\ "place" \in Labels
        BY <1>s, <2>2, <3>1, <3>2
    <3>4. /\ t \in ProcState
          /\ t.pc = "place" /\ t.job = s.job /\ t.handle = s.handle /\ t.target = s.target
        BY ONLY <2>1, <3>3, s \in ProcState DEF ProcState
    <3>5. QED
        BY <3>1, <3>2, <3>4
  <2>4. ProcType'
    BY <1>0, <2>1, <2>3 DEF ProcType
  <2>5. proc[p].target \in Commits
    BY <1>0, <2>1 DEF JobFacts
  <2>6. Gentle
    BY <2>1, Untouched
  <2>7. Apart(p) /\ LockType' /\ RestType'
    BY <1>0, <2>1, <2>2, <2>5 DEF Apart, LockType, RestType, counters, ghosts
  <2>8. ProcFacts(p)'
    BY <1>s, <2>1, <2>3, <2>5, <2>6, StaysInside DEF ghosts
  <2>9. QED
    BY <2>4, <2>6, <2>7, <2>8, Combined
<1>4. CASE PlaceFile(p)
  <2>1. PICK f \in proc[p].todo :
          /\ WriteRoot([Root EXCEPT !.payload[f] = proc[p].target])
          /\ proc' = [proc EXCEPT ![p].todo = @ \ {f}]
    BY <1>4 DEF PlaceFile
  <2>2. proc[p].pc = "place" /\ UNCHANGED <<locks, staging, counters, ghosts>>
    BY <1>4 DEF PlaceFile
  <2>3. proc[p].target \in Commits
    BY <1>0, <2>2 DEF JobFacts
  <2>4. LET content == [Root EXCEPT !.payload[f] = proc[p].target]
        IN  /\ content \in Contents
            /\ content.marker = Root.marker /\ content.lockfile = Root.lockfile
    BY <1>0, <2>3 DEF Contents
  <2>5. Gentle
    BY <2>1, <2>4, Rewritten DEF Rewrites
  <2>6. /\ proc'[p] = [proc[p] EXCEPT !.todo = @ \ {f}]
        /\ \A q \in Procs \ {p} : proc'[q] = proc[q]
    BY <1>0, <2>1 DEF ProcType
  <2>7. /\ proc'[p].pc = "place" /\ proc'[p].job = proc[p].job
        /\ proc'[p].handle = proc[p].handle /\ proc'[p].target = proc[p].target
        /\ proc'[p] \in ProcState
    <3>1. PICK s \in ProcState : s = proc[p]
        BY <1>0
    <3>2. PICK t : t = proc'[p]
        OBVIOUS
    <3>3. t = [s EXCEPT !.todo = s.todo \ {f}]
        BY <2>6, <3>1, <3>2
    <3>4. /\ t \in ProcState
          /\ t.pc = s.pc /\ t.job = s.job /\ t.handle = s.handle /\ t.target = s.target
        BY ONLY <3>3, s \in ProcState DEF ProcState
    <3>5. QED
        BY <2>2, <3>1, <3>2, <3>4
  <2>8. ProcType'
    BY <1>0, <2>1, <2>7 DEF ProcType
  <2>9. Apart(p) /\ LockType' /\ RestType'
    BY <1>0, <2>2, <2>6 DEF Apart, LockType, RestType, locks, counters, ghosts
  <2>10. ProcFacts(p)'
    BY <1>s, <2>2, <2>3, <2>5, <2>7, StaysInside DEF locks, ghosts
  <2>11. QED
    BY <2>5, <2>8, <2>9, <2>10, Combined
<1>5. CASE EndDownload(p)
  <2>1. /\ proc[p].pc = "place"
        /\ staging' = staging \ {proc[p].target}
        /\ downloaders' = downloaders \ {p}
        /\ UNCHANGED <<path, dir, holder, control, cleaner, counters, ghosts>>
    BY <1>5 DEF EndDownload
  <2>2. /\ ProcType' /\ proc'[p] = [proc[p] EXCEPT !.pc = "finish"]
        /\ \A q \in Procs \ {p} : proc'[q] = proc[q]
    BY <1>5, <1>s, Going DEF EndDownload
  <2>3. /\ proc'[p].pc = "finish" /\ proc'[p].job = proc[p].job
        /\ proc'[p].handle = proc[p].handle /\ proc'[p].target = proc[p].target
        /\ proc[p].target \in Commits
    BY <1>0, <2>1, <2>2 DEF ProcState, JobFacts
  <2>4. Gentle
    BY <2>1, Untouched
  <2>5. Apart(p) /\ LockType' /\ RestType'
    BY <1>0, <2>1, <2>2 DEF Apart, LockType, RestType, counters, ghosts
  <2>6. ProcFacts(p)'
    BY <1>s, <2>1, <2>3, <2>4, StaysInside DEF ghosts
  <2>7. QED
    BY <2>2, <2>4, <2>5, <2>6, Combined
<1>6. CASE DownloadFails(p)
    BY <1>6, <1>q DEF DownloadFails
<1>7. CASE FinishMirror(p)
  <2>1. Gentle
    BY <1>w, <1>7, Rewritten DEF FinishMirror, Rewrites
  <2>2. QED
    BY <1>0, <1>7, <2>1, QuitStep DEF FinishMirror, RestType, counters
<1>8. QED
    BY <1>1, <1>2, <1>3, <1>4, <1>5, <1>6, <1>7 DEF Mirror

\* torrent publish and retire keep the invariant.
LEMMA TorrentStep ==
    ASSUME IInv, NEW p \in Procs, Publish(p) \/ Retire(p) \/ TorrentRefused(p)
    PROVE  IInv'
<1>0. RestType /\ Root \in Contents
    BY Known
<1>w. \A c \in Commits \cup {NoCommit} :
        /\ [Root EXCEPT !.fence = c] \in Contents
        /\ [Root EXCEPT !.fence = c].marker = Root.marker
        /\ [Root EXCEPT !.fence = c].lockfile = Root.lockfile
    BY <1>0 DEF Contents
<1>1. ASSUME Publish(p) \/ Retire(p) PROVE Rewrites
    BY <1>w, <1>1 DEF Publish, Retire, Rewrites
<1>2. Gentle
    BY <1>1, Rewritten, Untouched DEF TorrentRefused
<1>3. Quit(p) /\ UNCHANGED <<staging, counters, confirmed>>
    BY DEF Publish, Retire, TorrentRefused
<1>4. QED
    BY <1>0, <1>2, <1>3, QuitStep DEF RestType, counters

-----------------------------------------------------------------------------
(* Removal: the steps another process could notice. *)

\* Nobody else removes; so it is enough to look after those inside a lock block.
LEMMA RemovalOthers ==
    ASSUME IInv, NEW p \in Procs, proc[p].job = "remove", Apart(p),
           path'.incoming = path.incoming,
           \A d \in Dirs : d = path'.root =>
               d = path.root /\ dir'[d].lockfile = dir[d].lockfile,
           \A q \in Procs \ {p} :
               proc[q].pc \in InsideLabels \ Removing /\ q \notin strayed =>
                 proc[q].handle = path'.root /\ ~dir'[path'.root].marker
    PROVE  \A q \in Procs \ {p} : ProcFacts(q)'
<1> SUFFICES ASSUME NEW q \in Procs, q # p
             PROVE  ProcFacts(q)'
    OBVIOUS
<1>1. /\ proc'[q] = proc[q]
      /\ q \in strayed' <=> q \in strayed
      /\ control = q => control' = q
      /\ \A d \in Dirs : holder[d] = q => holder'[d] = q
    BY DEF Apart
<1>2. JobFacts(q) /\ HandleFacts(q) /\ PlaceFacts(q) /\ control = p
    BY Known DEF JobFacts
<1>3. proc[q].job # "remove" /\ proc[q].pc \notin Removing
    BY <1>2 DEF JobFacts
<1>4. JobFacts(q)'
    BY <1>1, <1>2 DEF JobFacts
<1>5. HandleFacts(q)'
    BY <1>1, <1>2 DEF HandleFacts
<1>6. PlaceFacts(q)'
    BY <1>1, <1>3 DEF PlaceFacts, Removing
<1>7. QED
    BY <1>4, <1>5, <1>6 DEF ProcFacts

\* A refusal or a cancelled prompt keeps the invariant.
LEMMA WithdrawStep ==
    ASSUME IInv, NEW p \in Procs, proc[p].pc \in {"decide", "prompt"}, Withdraw(p)
    PROVE  IInv'
<1>0. /\ PathType /\ DirType /\ RestType /\ PathsApart
      /\ JobFacts(p) /\ HandleFacts(p) /\ PlaceFacts(p)
    BY Known
<1>1. /\ dir' = [dir EXCEPT ![path.root].marker = FALSE]
      /\ confirmed' = confirmed \ {path.root}
      /\ UNCHANGED <<path, staging, counters>>
      /\ Quit(p)
    BY DEF Withdraw
<1>2. proc[p].job = "remove"
    BY <1>0 DEF JobFacts, Removing
<1>3. path.root \in Dirs
    BY <1>0, <1>2 DEF HandleFacts, PlaceFacts, InsideLabels
<1>4. /\ dir'[path.root] = [dir[path.root] EXCEPT !.marker = FALSE]
      /\ dir[path.root] \in Contents
      /\ DirType'
    BY ZenonT(30), <1>0, <1>1, <1>3 DEF DirType, Contents
<1>5. ~dir'[path.root].marker /\ dir'[path.root].lockfile = dir[path.root].lockfile
    BY <1>4 DEF Contents
<1>6. /\ Apart(p) /\ LockType' /\ ProcType' /\ strayed' \subseteq Procs /\ ProcFacts(p)'
    BY <1>1, Quitting
<1>7. \A q \in Procs \ {p} : ProcFacts(q)'
  <2>1. \A q \in Procs : PlaceFacts(q)
    BY Known
  <2>2. QED
    BY <1>1, <1>2, <1>5, <1>6, <2>1, RemovalOthers DEF PlaceFacts
<1>8. PathType' /\ PathsApart' /\ RestType'
    BY <1>0, <1>1, <1>6 DEF PathType, PathsApart, RestType, counters
<1>9. QED
    BY <1>4, <1>6, <1>7, <1>8, Types DEF IInv, TypeOK, PathType, DirType, LockType, ProcType, RestType

\* Confirming the prompt keeps the invariant: nobody else is inside the lock
\* block of the directory that is marked.
LEMMA ConfirmStep ==
    ASSUME IInv, NEW p \in Procs, ConfirmRemoval(p)
    PROVE  IInv'
<1>0. /\ PathType /\ DirType /\ LockType /\ ProcType /\ RestType /\ PathsApart
      /\ JobFacts(p) /\ HandleFacts(p) /\ PlaceFacts(p)
      /\ proc[p] \in ProcState
    BY Known
<1>1. /\ proc[p].pc = "prompt"
      /\ dir' = [dir EXCEPT ![path.root].marker = TRUE]
      /\ confirmed' = confirmed \cup {path.root}
      /\ holder' = [holder EXCEPT ![proc[p].handle] = NoProc]
      /\ proc' = [proc EXCEPT ![p].pc = "stage", ![p].handle = NoDir]
      /\ UNCHANGED <<path, control, cleaner, downloaders, staging, counters, strayed>>
    BY DEF ConfirmRemoval
<1>2. proc[p].job = "remove" /\ control = p
    BY <1>0, <1>1 DEF JobFacts, Removing
<1>3. path.root \in Dirs /\ proc[p].handle = path.root /\ holder[path.root] = p
    BY <1>0, <1>1, <1>2 DEF HandleFacts, PlaceFacts, InsideLabels
<1>4. /\ dir'[path.root] = [dir[path.root] EXCEPT !.marker = TRUE]
      /\ dir[path.root] \in Contents
      /\ DirType'
    BY ZenonT(30), <1>0, <1>1, <1>3 DEF DirType, Contents
<1>5. dir'[path.root].marker /\ dir'[path.root].lockfile = dir[path.root].lockfile
    BY <1>4 DEF Contents
<1>6. /\ proc'[p] = [proc[p] EXCEPT !.pc = "stage", !.handle = NoDir]
      /\ \A q \in Procs \ {p} : proc'[q] = proc[q]
    BY <1>0, <1>1 DEF ProcType
<1>7. proc'[p] \in ProcState /\ proc'[p].pc = "stage" /\ proc'[p].job = "remove"
      /\ proc'[p].handle = NoDir
  <2>1. PICK s \in ProcState : s = proc[p]
    BY <1>0
  <2>2. PICK t : t = proc'[p]
    OBVIOUS
  <2>3. t = [s EXCEPT !.pc = "stage", !.handle = NoDir] /\ "stage" \in Labels
    BY <1>6, <2>1, <2>2 DEF Labels
  <2>4. t \in ProcState /\ t.pc = "stage" /\ t.job = s.job /\ t.handle = NoDir
    BY ONLY <2>3, s \in ProcState DEF ProcState
  <2>5. QED
    BY <1>2, <2>1, <2>2, <2>4
<1>8. ProcType' /\ LockType' /\ RestType'
    BY <1>0, <1>1, <1>3, <1>7 DEF ProcType, LockType, RestType, counters
<1>9. Apart(p)
    BY <1>0, <1>1, <1>3, <1>6 DEF Apart, LockType
<1>10. \A q \in Procs \ {p} : ~(proc[q].pc \in InsideLabels \ Removing /\ q \notin strayed)
  <2>1. \A q \in Procs : HandleFacts(q) /\ PlaceFacts(q)
    BY Known
  <2>2. QED
    BY <1>3, <2>1 DEF HandleFacts, PlaceFacts
<1>11. \A q \in Procs \ {p} : ProcFacts(q)'
    BY <1>1, <1>2, <1>5, <1>9, <1>10, RemovalOthers
<1>12. ProcFacts(p)'
    BY <1>1, <1>2, <1>3, <1>5, <1>7, LifecycleAssumption
    DEF ProcFacts, JobFacts, HandleFacts, PlaceFacts, Locking, InsideLabels, Removing
<1>13. PathType' /\ PathsApart'
    BY <1>0, <1>1 DEF PathType, PathsApart
<1>14. QED
    BY <1>4, <1>8, <1>11, <1>12, <1>13
    DEF IInv, TypeOK, PathType, DirType, LockType, ProcType, RestType

\* Moving the directory away keeps the invariant: it is marked, so that nobody
\* else is inside its lock block.
LEMMA RenameStep ==
    ASSUME IInv, NEW p \in Procs, StageRename(p)
    PROVE  IInv'
<1>0. /\ PathType /\ DirType /\ LockType /\ ProcType /\ RestType /\ PathsApart
      /\ JobFacts(p) /\ HandleFacts(p) /\ PlaceFacts(p)
      /\ proc[p] \in ProcState
    BY Known
<1>1. /\ proc[p].pc = "rename"
      /\ path' = [path EXCEPT !.root = NoDir, !.staged = path.root]
      /\ UNCHANGED <<dir, locks, staging, counters, ghosts>>
    BY DEF StageRename
<1>2. /\ ProcType' /\ proc'[p] = [proc[p] EXCEPT !.pc = "purge"]
      /\ \A q \in Procs \ {p} : proc'[q] = proc[q]
    BY Going DEF StageRename, Labels
<1>3. /\ proc'[p].pc = "purge" /\ proc'[p].job = "remove" /\ control = p
      /\ proc[p].job = "remove"
      /\ proc'[p].handle = proc[p].handle
    BY <1>0, <1>1, <1>2 DEF ProcState, JobFacts, Removing
<1>4. path.root \in Dirs /\ dir[path.root].marker
    BY <1>0, <1>1 DEF PlaceFacts
<1>5. /\ path'.root = NoDir /\ path'.staged = path.root /\ path'.incoming = path.incoming
      /\ PathType'
    BY <1>0, <1>1, <1>4 DEF PathType
<1>6. NoDir \notin Dirs
    BY LifecycleAssumption
<1>7. PathsApart'
    BY <1>0, <1>4, <1>5, <1>6 DEF PathsApart
<1>8. DirType' /\ LockType' /\ RestType' /\ Apart(p)
    BY <1>0, <1>1, <1>2 DEF DirType, LockType, RestType, Apart, locks, counters, ghosts
<1>9. \A q \in Procs \ {p} : ~(proc[q].pc \in InsideLabels \ Removing /\ q \notin strayed)
  <2>1. \A q \in Procs : PlaceFacts(q)
    BY Known
  <2>2. QED
    BY <1>4, <2>1 DEF PlaceFacts
<1>10. \A q \in Procs \ {p} : ProcFacts(q)'
    BY <1>3, <1>5, <1>6, <1>8, <1>9, RemovalOthers
<1>11. ProcFacts(p)'
    BY <1>0, <1>1, <1>3, <1>5, <1>6
    DEF ProcFacts, JobFacts, HandleFacts, PlaceFacts, Locking, InsideLabels, Removing, locks
<1>12. QED
    BY <1>2, <1>5, <1>7, <1>8, <1>10, <1>11
    DEF IInv, TypeOK, PathType, DirType, LockType, ProcType, RestType

\* The end of the directory keeps the invariant.
LEMMA RemoveDirectoryStep ==
    ASSUME IInv, NEW p \in Procs, RemoveDirectory(p)
    PROVE  IInv'
<1>0. /\ PathType /\ DirType /\ RestType /\ PathsApart /\ JobFacts(p)
    BY Known
<1>1. /\ proc[p].pc = "purge"
      /\ path' = [path EXCEPT !.staged = NoDir]
      /\ confirmed' = confirmed \ {path.staged}
      /\ Quit(p)
      /\ UNCHANGED <<dir, staging, counters>>
    BY DEF RemoveDirectory, Purging
<1>2. proc[p].job = "remove"
    BY <1>0, <1>1 DEF JobFacts, Removing
<1>3. /\ path'.root = path.root /\ path'.staged = NoDir /\ path'.incoming = path.incoming
      /\ PathType'
    BY <1>0, <1>1 DEF PathType
<1>4. PathsApart' /\ DirType'
    BY <1>0, <1>1, <1>3, LifecycleAssumption DEF PathsApart, DirType
<1>5. /\ Apart(p) /\ LockType' /\ ProcType' /\ strayed' \subseteq Procs /\ ProcFacts(p)'
    BY <1>1, Quitting
<1>6. RestType'
    BY <1>0, <1>1, <1>5 DEF RestType, counters
<1>7. \A q \in Procs \ {p} : ProcFacts(q)'
  <2>1. \A q \in Procs : PlaceFacts(q)
    BY Known
  <2>2. QED
    BY <1>1, <1>2, <1>3, <1>5, <2>1, RemovalOthers DEF PlaceFacts
<1>8. QED
    BY <1>3, <1>4, <1>5, <1>6, <1>7
    DEF IInv, TypeOK, PathType, DirType, LockType, ProcType, RestType

\* Deleting below the removal path keeps the invariant.
LEMMA UnlinkStep ==
    ASSUME IInv, NEW p \in Procs,
           UnlinkPayload(p) \/ UnlinkMetadata(p) \/ UnlinkRecord(p) \/ UnlinkLockFile(p)
    PROVE  IInv'
<1>0. /\ PathType /\ DirType /\ LockType /\ ProcType /\ RestType /\ PathsApart
      /\ JobFacts(p) /\ HandleFacts(p)
    BY Known
<1>1. /\ proc[p].pc = "purge" /\ path.staged # NoDir
      /\ UNCHANGED <<path, locks, staging, proc, counters, ghosts>>
    BY DEF UnlinkPayload, UnlinkMetadata, UnlinkRecord, UnlinkLockFile, Unlink, Purging
<1>2. path.staged \in Dirs
    BY <1>0, <1>1 DEF PathType
<1>3. dir[path.staged] \in Contents
    BY <1>0, <1>2 DEF DirType
<1>4. \E content \in Contents : dir' = [dir EXCEPT ![path.staged] = content]
  <2>1. CASE UnlinkPayload(p)
    <3>1. PICK f \in Files :
            dir' = [dir EXCEPT ![path.staged] = [dir[path.staged] EXCEPT !.payload[f] = NoCommit]]
        BY <2>1 DEF UnlinkPayload, Unlink
    <3>2. [dir[path.staged] EXCEPT !.payload[f] = NoCommit] \in Contents
        BY <1>3 DEF Contents
    <3>3. QED
        BY <3>1, <3>2
  <2>2. CASE UnlinkMetadata(p)
    <3>1. [dir[path.staged] EXCEPT !.state = "none", !.fence = NoCommit] \in Contents
        BY <1>3 DEF Contents
    <3>2. QED
        BY <2>2, <3>1 DEF UnlinkMetadata, Unlink
  <2>3. CASE UnlinkRecord(p)
    <3>1. [dir[path.staged] EXCEPT !.marker = FALSE] \in Contents
        BY <1>3 DEF Contents
    <3>2. QED
        BY <2>3, <3>1 DEF UnlinkRecord, Unlink
  <2>4. CASE UnlinkLockFile(p)
    <3>1. EmptyDir \in Contents
        BY <1>0, RootType
    <3>2. QED
        BY <2>4, <3>1 DEF UnlinkLockFile, Unlink
  <2>5. QED
    BY <2>1, <2>2, <2>3, <2>4
<1>5. DirType'
    BY <1>0, <1>4 DEF DirType
<1>6. path.root \in Dirs => dir'[path.root] = dir[path.root]
    BY <1>0, <1>4 DEF DirType, PathsApart
<1>7. Gentle
    BY <1>0, <1>1, <1>5, <1>6 DEF Gentle, Keeps, PathType, PathsApart
<1>8. Apart(p) /\ LockType' /\ ProcType' /\ RestType'
    BY <1>0, <1>1 DEF Apart, LockType, ProcType, RestType, locks, counters, ghosts
<1>9. HandleFacts(p)'
    BY <1>1, <1>7, HandleStays DEF HandleFacts, InsideLabels
<1>10. JobFacts(p)' /\ PlaceFacts(p)'
    BY <1>0, <1>1 DEF JobFacts, PlaceFacts, InsideLabels, locks
<1>11. QED
    BY <1>7, <1>8, <1>9, <1>10, Combined DEF ProcFacts

\* remove keeps the invariant.
LEMMA RemoveStep == ASSUME IInv, NEW p \in Procs, Remove(p) PROVE IInv'
<1>0. /\ PathType /\ DirType /\ LockType /\ ProcType /\ RestType /\ PathsApart
      /\ JobFacts(p) /\ HandleFacts(p) /\ PlaceFacts(p)
      /\ proc[p] \in ProcState
    BY Known
<1>1. CASE RemoveBlocked(p)
    BY <1>1, WithdrawStep DEF RemoveBlocked
<1>2. CASE Prompt(p)
  <2>1. proc[p].pc = "decide" /\ UNCHANGED <<path, dir, locks, staging, counters, ghosts>>
    BY <1>2 DEF Prompt
  <2>2. /\ ProcType' /\ proc'[p] = [proc[p] EXCEPT !.pc = "prompt"]
        /\ \A q \in Procs \ {p} : proc'[q] = proc[q]
    BY <1>2, Going DEF Prompt, Labels
  <2>3. /\ proc'[p].pc = "prompt" /\ proc'[p].job = "remove" /\ proc[p].job = "remove"
        /\ proc'[p].handle = proc[p].handle
    BY <1>0, <2>1, <2>2 DEF ProcState, JobFacts, Removing
  <2>4. Gentle
    BY <2>1, Untouched
  <2>5. Apart(p) /\ LockType' /\ RestType'
    BY <1>0, <2>1, <2>2 DEF Apart, LockType, RestType, locks, counters, ghosts
  <2>6. JobFacts(p)' /\ HandleFacts(p)' /\ PlaceFacts(p)'
    BY <1>0, <2>1, <2>3
    DEF JobFacts, HandleFacts, PlaceFacts, Locking, InsideLabels, Removing, locks
  <2>7. QED
    BY <2>2, <2>4, <2>5, <2>6, Combined DEF ProcFacts
<1>3. CASE RemoveCancelled(p)
    BY <1>3, WithdrawStep DEF RemoveCancelled
<1>4. CASE ConfirmRemoval(p)
    BY <1>4, ConfirmStep
<1>5. CASE StageRecord(p)
  <2>1. /\ proc[p].pc = "stage"
        /\ dir' = [dir EXCEPT ![path.root].marker = TRUE]
        /\ UNCHANGED <<path, locks, staging, counters, ghosts>>
    BY <1>5 DEF StageRecord
  <2>2. path.root \in Dirs /\ dir[path.root].marker
    BY <1>0, <2>1 DEF PlaceFacts
  <2>3. /\ dir'[path.root] = [dir[path.root] EXCEPT !.marker = TRUE]
        /\ dir[path.root] \in Contents
        /\ DirType'
    <3>1. DirType /\ dir[path.root] \in Contents
        BY <1>0, <2>2 DEF DirType
    <3>2. dir'[path.root] = [dir[path.root] EXCEPT !.marker = TRUE]
        BY <2>1, <2>2, <3>1 DEF DirType
    <3>3. [dir[path.root] EXCEPT !.marker = TRUE] \in Contents
        BY <3>1 DEF Contents
    <3>4. QED
        BY <2>1, <2>2, <3>1, <3>2, <3>3 DEF DirType
  <2>4. dir'[path.root].marker /\ dir'[path.root].lockfile = dir[path.root].lockfile
    BY <2>3 DEF Contents
  <2>5. Gentle
    BY <1>0, <2>1, <2>2, <2>3, <2>4 DEF Gentle, Keeps, PathType, PathsApart
  <2>6. /\ ProcType' /\ proc'[p] = [proc[p] EXCEPT !.pc = "rename"]
        /\ \A q \in Procs \ {p} : proc'[q] = proc[q]
    BY <1>5, Going DEF StageRecord, Labels
  <2>7. /\ proc'[p].pc = "rename" /\ proc'[p].job = proc[p].job
        /\ proc[p].job = "remove"
        /\ proc'[p].handle = proc[p].handle
    BY <1>0, <2>1, <2>6 DEF ProcState, JobFacts, Removing
  <2>8. Apart(p) /\ LockType' /\ RestType'
    BY <1>0, <2>1, <2>6 DEF Apart, LockType, RestType, locks, counters, ghosts
  <2>9. JobFacts(p)' /\ PlaceFacts(p)'
    BY <1>0, <2>1, <2>2, <2>4, <2>7
    DEF JobFacts, PlaceFacts, Locking, InsideLabels, Removing, locks
  <2>10. HandleFacts(p)'
    BY <2>5, <2>7, HandleStays DEF HandleFacts, InsideLabels
  <2>11. QED
    BY <2>5, <2>6, <2>8, <2>9, <2>10, Combined DEF ProcFacts
<1>6. CASE StageRename(p)
    BY <1>6, RenameStep
<1>7. CASE ResumeRemoval(p)
  <2>1. /\ proc[p].pc = "resume"
        /\ confirmed' = confirmed \cup {path.staged}
        /\ UNCHANGED <<path, dir, locks, staging, counters, strayed>>
    BY <1>7 DEF ResumeRemoval
  <2>2. path.staged \in Dirs
    BY <1>0, <2>1 DEF PlaceFacts
  <2>3. /\ ProcType' /\ proc'[p] = [proc[p] EXCEPT !.pc = "purge"]
        /\ \A q \in Procs \ {p} : proc'[q] = proc[q]
    BY <1>7, Going DEF ResumeRemoval, Labels
  <2>4. /\ proc'[p].pc = "purge" /\ proc'[p].job = proc[p].job
        /\ proc[p].job = "remove"
        /\ proc'[p].handle = proc[p].handle
    BY <1>0, <2>1, <2>3 DEF ProcState, JobFacts, Removing
  <2>5. Gentle
    BY <2>1, Untouched
  <2>6. Apart(p) /\ LockType' /\ RestType'
    BY <1>0, <2>1, <2>2, <2>3 DEF Apart, LockType, RestType, locks, counters
  <2>7. JobFacts(p)' /\ PlaceFacts(p)'
    BY <1>0, <2>1, <2>4 DEF JobFacts, PlaceFacts, Locking, InsideLabels, Removing, locks
  <2>8. HandleFacts(p)'
    BY <2>4, <2>5, HandleStays DEF HandleFacts, InsideLabels
  <2>9. QED
    BY <2>3, <2>5, <2>6, <2>7, <2>8, Combined DEF ProcFacts
<1>8. CASE ResumeCancelled(p)
    BY <1>0, <1>8, Untouched, QuitStep DEF ResumeCancelled, RestType, counters
<1>9. CASE UnlinkPayload(p) \/ UnlinkMetadata(p) \/ UnlinkRecord(p) \/ UnlinkLockFile(p)
    BY <1>9, UnlinkStep
<1>10. CASE RemoveDirectory(p)
    BY <1>10, RemoveDirectoryStep
<1>11. QED
    BY <1>1, <1>2, <1>3, <1>4, <1>5, <1>6, <1>7, <1>8, <1>9, <1>10 DEF Remove

-----------------------------------------------------------------------------
(* Import, clean-cache and status. *)

\* Moving the imported directory into place keeps the invariant: it replaces no
\* directory in which somebody has opened the lock file.
LEMMA ReplaceStep ==
    ASSUME IInv, NEW p \in Procs, Replace(p)
    PROVE  IInv'
<1>0. /\ PathType /\ DirType /\ LockType /\ ProcType /\ RestType /\ PathsApart
      /\ proc[p] \in ProcState
      /\ path.root \in Dirs => Root = dir[path.root]
    BY Known
<1>1. /\ proc[p].pc = "replace"
      /\ path.incoming # NoDir /\ Root = EmptyDir
      /\ path' = [path EXCEPT !.root = path.incoming, !.incoming = NoDir]
      /\ UNCHANGED <<dir, locks, staging, counters, ghosts>>
    BY DEF Replace, MayReplace
<1>2. /\ ProcType' /\ proc'[p] = [proc[p] EXCEPT !.pc = "state"]
      /\ \A q \in Procs \ {p} : proc'[q] = proc[q]
    BY Going DEF Replace, Labels
<1>3. /\ path'.root = path.incoming /\ path.incoming \in Dirs
      /\ path'.staged = path.staged /\ path'.incoming = NoDir
      /\ PathType'
    BY <1>0, <1>1 DEF PathType
<1>4. NoDir \notin Dirs
    BY LifecycleAssumption
<1>5. PathsApart'
    BY <1>0, <1>3, <1>4 DEF PathsApart
<1>6. DirType' /\ LockType' /\ RestType'
    BY <1>0, <1>1 DEF DirType, LockType, RestType, locks, counters, ghosts
<1>7. path.root \in Dirs => ~dir[path.root].lockfile /\ ~dir[path.root].marker
    BY <1>0, <1>1 DEF EmptyDir
<1>8. ASSUME NEW q \in Procs
      PROVE  /\ proc'[q].pc = proc[q].pc \/ (q = p /\ proc'[q].pc = "state")
             /\ proc'[q].job = proc[q].job
             /\ proc'[q].handle = proc[q].handle
             /\ proc'[q].target = proc[q].target
    BY <1>0, <1>2 DEF ProcState
<1>9. ASSUME NEW q \in Procs PROVE ProcFacts(q)'
  <2>1. JobFacts(q) /\ HandleFacts(q) /\ PlaceFacts(q)
    BY Known
  <2>2. JobFacts(q)'
    BY <1>1, <1>8, <2>1 DEF JobFacts, Locking, InsideLabels, Removing, locks
  <2>3. HandleFacts(q)'
    BY <1>1, <1>3, <1>4, <1>8, <2>1 DEF HandleFacts, InsideLabels, locks
  <2>4. /\ proc[q].pc \in InsideLabels \ Removing => q \in strayed
        /\ ~(/\ proc[q].job = "remove"
             /\ proc[q].pc \in {"flock", "marker", "decide", "prompt"})
        /\ proc[q].pc \notin {"stage", "rename"}
    BY <1>7, <2>1 DEF HandleFacts, PlaceFacts, InsideLabels
  <2>5. PlaceFacts(q)'
    BY <1>1, <1>3, <1>8, <2>1, <2>4 DEF PlaceFacts, InsideLabels, ghosts
  <2>6. QED
    BY <2>2, <2>3, <2>5 DEF ProcFacts
<1>10. QED
    BY <1>2, <1>3, <1>5, <1>6, <1>9
    DEF IInv, TypeOK, PathType, DirType, LockType, ProcType, RestType

\* The rest of an import keeps the invariant.
LEMMA ImportStep ==
    ASSUME IInv, NEW p \in Procs,
           Replace(p) \/ ReplaceFails(p) \/ WriteImportedState(p) \/ RegisterImported(p)
    PROVE  IInv'
<1>0. /\ LockType /\ ProcType /\ RestType
      /\ JobFacts(p) /\ HandleFacts(p) /\ PlaceFacts(p)
      /\ proc[p] \in ProcState
      /\ Root \in Contents
    BY Known
<1>1. CASE Replace(p)
    BY <1>1, ReplaceStep
<1>2. CASE ReplaceFails(p)
    BY <1>0, <1>2, Untouched, QuitStep DEF ReplaceFails, RestType, counters
<1>3. CASE WriteImportedState(p)
  <2>1. /\ [Root EXCEPT !.state = "torrent-verified"] \in Contents
        /\ [Root EXCEPT !.state = "torrent-verified"].marker = Root.marker
        /\ [Root EXCEPT !.state = "torrent-verified"].lockfile = Root.lockfile
    BY <1>0 DEF Contents
  <2>2. Gentle
    BY <1>3, <2>1, Rewritten DEF WriteImportedState, Rewrites
  <2>3. /\ ProcType' /\ proc'[p] = [proc[p] EXCEPT !.pc = "register"]
        /\ \A q \in Procs \ {p} : proc'[q] = proc[q]
    BY <1>3, Going DEF WriteImportedState, Labels
  <2>4. UNCHANGED <<locks, staging, counters, ghosts>>
    BY <1>3 DEF WriteImportedState
  <2>5. /\ proc'[p].pc = "register" /\ proc'[p].job = proc[p].job
        /\ proc'[p].handle = proc[p].handle
    BY <1>0, <2>3 DEF ProcState
  <2>6. Apart(p) /\ LockType' /\ RestType'
    BY <1>0, <2>3, <2>4 DEF Apart, LockType, RestType, locks, counters, ghosts
  <2>7. JobFacts(p)' /\ PlaceFacts(p)'
    BY <1>0, <2>4, <2>5 DEF JobFacts, PlaceFacts, Locking, InsideLabels, Removing, locks
  <2>8. HandleFacts(p)'
    BY <2>2, <2>5, HandleStays DEF HandleFacts, InsideLabels
  <2>9. QED
    BY <2>2, <2>3, <2>6, <2>7, <2>8, Combined DEF ProcFacts
<1>4. CASE RegisterImported(p)
  <2>1. proc[p].target \in Commits \cup {NoCommit}
    BY <1>0 DEF ProcState
  <2>2. LET content == [Root EXCEPT !.fence = proc[p].target]
        IN  /\ content \in Contents
            /\ content.marker = Root.marker /\ content.lockfile = Root.lockfile
    BY <1>0, <2>1 DEF Contents
  <2>3. Gentle
    BY <1>4, <2>2, Rewritten DEF RegisterImported, Rewrites
  <2>4. QED
    BY <1>0, <1>4, <2>3, QuitStep DEF RegisterImported, RestType, counters
<1>5. QED
    BY <1>1, <1>2, <1>3, <1>4

\* clean-cache and status keep the invariant.
LEMMA CacheStep ==
    ASSUME IInv, NEW p \in Procs, Probe(p) \/ Quiet(p) \/ Active(p) \/ Sweep(p)
    PROVE  IInv'
<1>0. /\ PathType /\ DirType /\ LockType /\ ProcType /\ RestType /\ PathsApart
      /\ JobFacts(p) /\ HandleFacts(p) /\ PlaceFacts(p)
      /\ proc[p] \in ProcState
      /\ path.root = NoDir => ~Root.lockfile
      /\ path.root \in Dirs => Root = dir[path.root]
      /\ path.root \in Dirs \cup {NoDir}
    BY Known
<1>a. NoDir \notin Dirs /\ NoProc \notin Procs
    BY LifecycleAssumption
<1>q. ASSUME Quit(p), staging' \subseteq staging, UNCHANGED <<path, dir, counters, confirmed>>
      PROVE  IInv'
    BY <1>0, <1>q, Untouched, QuitStep DEF RestType, counters
<1>1. CASE Probe(p)
  <2>1. /\ proc[p].pc = "probe" /\ path.root \in Dirs /\ dir[path.root].lockfile
        /\ holder[path.root] = NoProc
        /\ holder' = [holder EXCEPT ![path.root] = p]
        /\ proc' = [proc EXCEPT ![p].pc = "probed", ![p].handle = path.root]
        /\ UNCHANGED <<path, dir, control, cleaner, downloaders, staging, counters, ghosts>>
    BY <1>0, <1>1 DEF Probe
  <2>2. /\ proc'[p] = [proc[p] EXCEPT !.pc = "probed", !.handle = path.root]
        /\ \A q \in Procs \ {p} : proc'[q] = proc[q]
    BY <1>0, <2>1 DEF ProcType
  <2>3. /\ proc'[p] \in ProcState /\ proc'[p].pc = "probed"
        /\ proc'[p].job = proc[p].job /\ proc'[p].handle = path.root
    <3>1. PICK s \in ProcState : s = proc[p]
        BY <1>0
    <3>2. PICK t : t = proc'[p]
        OBVIOUS
    <3>3. PICK d \in Dirs : d = path.root
        BY <2>1
    <3>4. t = [s EXCEPT !.pc = "probed", !.handle = d] /\ "probed" \in Labels
        BY <2>2, <3>1, <3>2, <3>3 DEF Labels
    <3>5. t \in ProcState /\ t.pc = "probed" /\ t.job = s.job /\ t.handle = d
        BY ONLY <3>4, s \in ProcState, d \in Dirs DEF ProcState
    <3>6. QED
        BY <3>1, <3>2, <3>3, <3>5
  <2>4. ProcType' /\ LockType' /\ RestType'
    BY <1>0, <2>1, <2>3 DEF ProcType, LockType, RestType, counters, ghosts
  <2>5. Apart(p)
    BY ZenonT(30), <1>0, <1>a, <2>1, <2>2 DEF Apart, LockType, ghosts
  <2>6. Gentle
    BY <2>1, Untouched
  <2>7. ProcFacts(p)'
    BY <1>0, <2>1, <2>3
    DEF ProcFacts, JobFacts, HandleFacts, PlaceFacts, Locking, InsideLabels, Removing, PathsApart
  <2>8. QED
    BY <2>4, <2>5, <2>6, <2>7, Combined
<1>2. CASE Quiet(p)
  <2>1. CASE Quit(p)
    BY <1>2, <1>q, <2>1 DEF Quiet
  <2>2. CASE /\ holder' = [d \in Dirs |-> IF holder[d] = p THEN NoProc ELSE holder[d]]
             /\ proc' = [proc EXCEPT ![p].pc = "sweep", ![p].handle = NoDir]
             /\ UNCHANGED <<control, cleaner, downloaders, strayed>>
    <3>1. UNCHANGED <<path, dir, staging, counters, confirmed>>
        BY <1>2 DEF Quiet
    <3>2. /\ proc'[p] = [proc[p] EXCEPT !.pc = "sweep", !.handle = NoDir]
          /\ \A q \in Procs \ {p} : proc'[q] = proc[q]
        BY <1>0, <2>2 DEF ProcType
    <3>3. /\ proc'[p] \in ProcState /\ proc'[p].pc = "sweep"
          /\ proc'[p].job = proc[p].job /\ proc'[p].handle = NoDir
      <4>1. PICK s \in ProcState : s = proc[p]
        BY <1>0
      <4>2. PICK t : t = proc'[p]
        OBVIOUS
      <4>3. t = [s EXCEPT !.pc = "sweep", !.handle = NoDir] /\ "sweep" \in Labels
        BY <3>2, <4>1, <4>2 DEF Labels
      <4>4. t \in ProcState /\ t.pc = "sweep" /\ t.job = s.job /\ t.handle = NoDir
        BY ONLY <4>3, s \in ProcState DEF ProcState
      <4>5. QED
        BY <4>1, <4>2, <4>4
    <3>4. ProcType' /\ LockType' /\ RestType'
        BY <1>0, <2>2, <3>1, <3>3 DEF ProcType, LockType, RestType, counters
    <3>5. Apart(p)
        BY <1>0, <2>2, <3>2 DEF Apart, LockType
    <3>6. Gentle
        BY <3>1, Untouched
    <3>7. ProcFacts(p)'
        BY <1>0, <1>a, <2>2, <3>1, <3>3
        DEF ProcFacts, JobFacts, HandleFacts, PlaceFacts, Locking, InsideLabels, Removing
    <3>8. QED
        BY <3>4, <3>5, <3>6, <3>7, Combined
  <2>3. QED
    BY <1>2, <2>1, <2>2 DEF Quiet
<1>3. CASE Active(p)
    BY <1>3, <1>q DEF Active
<1>4. CASE Sweep(p)
    BY <1>4, <1>q DEF Sweep
<1>5. QED
    BY <1>1, <1>2, <1>3, <1>4

\* Dying keeps the invariant.
LEMMA CrashStep == ASSUME IInv, NEW p \in Procs, Crash(p) PROVE IInv'
<1>1. RestType
    BY Known
<1>2. crashes' \in 0 .. MaxCrashes
    BY <1>1, LifecycleAssumption DEF Crash, RestType
<1>3. QED
    BY <1>1, <1>2, Untouched, QuitStep DEF Crash, RestType

-----------------------------------------------------------------------------
(* The theorems. *)

\* The invariant holds at the beginning.
LEMMA Initially == Init => IInv
<1> SUFFICES ASSUME Init PROVE IInv
    OBVIOUS
<1> DEFINE mirror == CHOOSE d \in Dirs : TRUE
           incoming == CHOOSE d \in Dirs : d # mirror
           commit == CHOOSE c \in Commits : TRUE
<1>1. NoDir \notin Dirs /\ NoProc \notin Procs /\ MaxCommands \in Nat /\ MaxCrashes \in Nat
    BY LifecycleAssumption
<1>2. mirror \in Dirs /\ incoming \in Dirs /\ incoming # mirror
  <2> DEFINE S == {mirror}
  <2>1. Cardinality(S) = 1 /\ IsFiniteSet(S) /\ Cardinality({}) = 0 /\ IsFiniteSet({})
    BY FS_Singleton, FS_EmptySet
  <2>2. Cardinality(Dirs) >= 3
    <3>1. Cardinality(Procs) \in Nat /\ Cardinality(Dirs) \in Nat
        BY LifecycleAssumption, FS_CardinalityType
    <3>2. QED
        BY <3>1, LifecycleAssumption
  <2>3. Dirs # {}
    BY <2>1, <2>2
  <2>4. mirror \in Dirs
    BY <2>3
  <2>5. Dirs # S
    <3> HIDE DEF S
    <3>1. QED
        BY <2>1, <2>2
  <2>6. \E d \in Dirs : d # mirror
    BY <2>4, <2>5
  <2>7. QED
    BY <2>4, <2>6
<1>3. commit \in Commits
    BY LifecycleAssumption
<1> HIDE DEF mirror, incoming, commit
<1>4. PICK root \in {NoDir, mirror}, c \in Commits :
        /\ path = [root |-> root, staged |-> NoDir, incoming |-> incoming]
        /\ dir = [d \in Dirs |-> IF d = root THEN Mirrored(c)
                                 ELSE IF d = incoming THEN Downloaded(commit)
                                 ELSE EmptyDir]
    BY DEF Init, mirror, incoming, commit
<1>5. PathType /\ path.root = root /\ path.staged = NoDir /\ path.incoming = incoming
    BY <1>2, <1>4 DEF PathType
<1>6. PathsApart
    BY <1>1, <1>2, <1>5 DEF PathsApart
<1>7. Mirrored(c) \in Contents /\ Downloaded(commit) \in Contents /\ EmptyDir \in Contents
    BY <1>3 DEF Mirrored, Downloaded, EmptyDir, Contents
<1>8. DirType
    BY <1>4, <1>7 DEF DirType
<1>9. LockType
    BY DEF Init, LockType
<1>10. /\ Idle \in ProcState /\ Idle.pc = "idle" /\ Idle.job = "none"
       /\ Idle.handle = NoDir
    BY DEF Idle, ProcState, Labels
<1>11. ProcType /\ \A p \in Procs : proc[p] = Idle
    BY <1>10 DEF Init, ProcType
<1>12. RestType
    BY <1>1 DEF Init, RestType
<1>13. \A p \in Procs : ProcFacts(p)
    BY <1>1, <1>10, <1>11
    DEF ProcFacts, JobFacts, HandleFacts, PlaceFacts, Locking, InsideLabels, Removing
<1>14. QED
    BY <1>5, <1>6, <1>8, <1>9, <1>11, <1>12, <1>13, Types DEF IInv

\* Every step keeps the invariant.
LEMMA Inductive == IInv /\ [Next]_vars => IInv'
<1> SUFFICES ASSUME IInv, [Next]_vars PROVE IInv'
    OBVIOUS
<1>1. CASE Next
  <2>1. PICK p \in Procs : Start(p) \/ Step(p) \/ Crash(p)
    BY <1>1 DEF Next
  <2>2. CASE Start(p)
    BY <2>2, StartStep
  <2>3. CASE Step(p)
    BY <2>3, LockStep, MirrorStep, RemoveStep, TorrentStep, ImportStep, CacheStep DEF Step
  <2>4. CASE Crash(p)
    BY <2>4, CrashStep
  <2>5. QED
    BY <2>1, <2>2, <2>3, <2>4
<1>2. CASE UNCHANGED vars
    BY <1>2
    DEF vars, locks, counters, ghosts, IInv, TypeOK, PathsApart, ProcFacts, JobFacts,
        HandleFacts, PlaceFacts
<1>3. QED
    BY <1>1, <1>2

\* The invariant holds at all times.
LEMMA Invariant == Spec => []IInv
BY Initially, Inductive, PTL DEF Spec

\* Every variable keeps its type.  That a new directory finds a free inode is
\* part of it.
THEOREM LifecycleTypes == Spec => []TypeOK
<1>1. IInv => TypeOK
    BY DEF IInv
<1>2. QED
    BY <1>1, Invariant, PTL

\* A command in its lock block holds the lock of the directory its path leads
\* to, unless that directory had been moved away when it entered the block: what
\* ModelLock promises, whatever removals and imports do to the path.
THEOREM LockCoversPathTheorem == Spec => []LockCoversPath
<1>1. IInv => LockCoversPath
  <2> SUFFICES ASSUME IInv, NEW p \in Procs, Inside(p), p \notin strayed
               PROVE  proc[p].handle = path.root /\ holder[path.root] = p
    BY DEF LockCoversPath
  <2>1. JobFacts(p) /\ HandleFacts(p) /\ PlaceFacts(p)
    BY Known
  <2>2. proc[p].pc \in InsideLabels
    BY DEF Inside, InsideLabels
  <2>3. holder[proc[p].handle] = p
    BY <2>1, <2>2 DEF HandleFacts
  <2>4. CASE proc[p].pc \in Removing
    <3>1. proc[p].pc \in {"decide", "prompt"} /\ proc[p].job = "remove"
        BY <2>1, <2>2, <2>4 DEF JobFacts, InsideLabels, Removing
    <3>2. QED
        BY <2>1, <2>3, <3>1 DEF PlaceFacts
  <2>5. CASE proc[p].pc \notin Removing
    BY <2>1, <2>2, <2>3, <2>5 DEF PlaceFacts
  <2>6. QED
    BY <2>4, <2>5
<1>2. QED
    BY <1>1, Invariant, PTL

=============================================================================
