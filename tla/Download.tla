------------------------------ MODULE Download ------------------------------
(***************************************************************************)
(* Downloads from the Hub: one command after the other fetches files of a  *)
(* pinned commit with a pool of threads, each file through a sibling       *)
(* NAME.incomplete that is resumed, verified and renamed into place.  A    *)
(* command can be killed at any point; the next one may want another       *)
(* commit and finds what the first left behind.                            *)
(*                                                                         *)
(* A file is a sequence of blocks, a block the version it belongs to.      *)
(* What is hashed while streaming is kept apart from what is in the file,  *)
(* so that a resumption which hashed the wrong bytes would be seen.  Every *)
(* file of a snapshot has a size and a hash, stall_timeout_seconds is      *)
(* positive, and no payload path is the partial file of another.           *)
(***************************************************************************)
EXTENDS Naturals, Sequences, FiniteSets, SequencesExt

CONSTANTS
    Files,         \* payload paths
    Commits,       \* commits of the upstream repository
    Versions,      \* versions of files on the Hub
    Snapshot,      \* the files of each commit: [Commits -> [Files -> Versions]]
    Size,          \* blocks of each version: [Versions -> Nat]
    WorkerCounts,  \* values config.download_workers may have
    StallRetries,  \* config.stall_retries
    Staged,        \* what a release that staged snapshots left: [Files -> content]
    StagedCommit,  \* the commit it was staging
    Corrupt,       \* a block that belongs to no version
    None,          \* no file, no manifest row
    MaxCommands    \* bound: commands started in one behaviour

Longest == CHOOSE n \in {Size[v] : v \in Versions} :
               \A v \in Versions : Size[v] <= n

Contents == BoundedSeq(Versions \cup {Corrupt}, Longest + 1)

Fewest == CHOOSE n \in WorkerCounts : \A k \in WorkerCounts : n <= k

Full(v) == [i \in 1..Size[v] |-> v]

ASSUME DownloadAssumption ==
    /\ Files # {} /\ Commits # {}
    /\ Snapshot \in [Commits -> [Files -> Versions]]
    /\ Size \in [Versions -> Nat]
    /\ WorkerCounts # {} /\ WorkerCounts \subseteq Nat \ {0}
    /\ StallRetries \in Nat /\ MaxCommands \in Nat
    /\ StagedCommit \in Commits
    /\ Corrupt \notin Versions /\ None \notin Seq(Versions \cup {Corrupt})
    /\ Staged \in [Files -> Contents \cup {None}]

VARIABLES
    disk,     \* what each payload path holds
    partial,  \* what its NAME.incomplete holds
    staged,   \* what the staging directory of StagedCommit holds
    rows,     \* what the manifest row that matches the file on disk was hashed from
    covered,  \* commits whose coverage file has a row that matches the file
    command,  \* the download that runs, or the last one
    task,     \* what the command does for each file
    budget

files == <<disk, partial, staged, rows, covered>>
vars == <<disk, partial, staged, rows, covered, command, task, budget>>

\* resume, retried and stalls are the locals allow_resume,
\* integrity_retry_used and stall_retry_count; hashed is what the writer has
\* hashed, fed what the torrent accumulator has been given; fired and cut say
\* that the watchdog has fired and that the stream's session was aborted.  harm
\* is observability: what the transport did to this file.
Task ==
    [pc: {"out", "queued", "begin", "attempt", "request", "xet", "http",
          "check", "record", "done", "failed"},
     resume: BOOLEAN, retried: BOOLEAN, stalls: 0..StallRetries,
     hashed: Contents, fed: Contents, fired: BOOLEAN, cut: BOOLEAN,
     harm: [bytes: 0..2, stalls: 0..StallRetries + 1, broke: BOOLEAN]]

Unharmed == [bytes |-> 0, stalls |-> 0, broke |-> FALSE]

NewTask(pc) ==
    [pc |-> pc, resume |-> TRUE, retried |-> FALSE, stalls |-> 0,
     hashed |-> <<>>, fed |-> <<>>, fired |-> FALSE, cut |-> FALSE,
     harm |-> Unharmed]

TypeOK ==
    /\ disk \in [Files -> Contents \cup {None}]
    /\ partial \in [Files -> Contents \cup {None}]
    /\ staged \in [Files -> Contents \cup {None}]
    /\ rows \in [Files -> Contents \cup {None}]
    /\ covered \in [Files -> SUBSET Commits]
    /\ command \in [result: {"none", "running", "ok", "failed", "killed"},
                    commit: Commits, selected: SUBSET Files,
                    workers: WorkerCounts]
    /\ task \in [Files -> Task]
    /\ budget \in 0..MaxCommands

Init ==
    /\ disk = [f \in Files |-> None]
    /\ partial = [f \in Files |-> None]
    /\ staged = Staged
    /\ rows = [f \in Files |-> None]
    /\ covered = [f \in Files |-> {}]
    /\ \E n \in WorkerCounts :
          command = [result |-> "none", commit |-> StagedCommit,
                     selected |-> {}, workers |-> n]
    /\ task = [f \in Files |-> NewTask("out")]
    /\ budget = MaxCommands

-----------------------------------------------------------------------------
Running == command.result = "running"

Version(f) == Snapshot[command.commit][f]

Wanted(f) == Full(Version(f))

Expected(f) == Size[Version(f)]

\* ensure_hashes_match: the size of the file, the hash of what was hashed.
Matches(f, content, hashed) ==
    /\ Len(content) = Expected(f)
    /\ hashed = Wanted(f)

RightSoFar(f, content) == IsPrefix(content, Wanted(f))

At(f, pc) == Running /\ task[f].pc = pc

Becomes(f, t) == task' = [task EXCEPT ![f] = t]

Put(fileset, f, content) == fileset' = [fileset EXCEPT ![f] = content]

Worse(n) == IF n = 2 THEN 2 ELSE n + 1

Damaged(t) == [t EXCEPT !.harm.bytes = Worse(@)]

Broken(t) == [t EXCEPT !.harm.broke = TRUE]

\* Another attempt, with the locals of stream_file_to_path as they are.
Retry(t) == [NewTask("attempt") EXCEPT !.resume = t.resume, !.stalls = t.stalls,
                                       !.retried = t.retried, !.harm = t.harm]

Failure(t) == [NewTask("failed") EXCEPT !.harm = t.harm]

-----------------------------------------------------------------------------
(***************************************************************************)
(* The three ways an attempt goes wrong.  A stall is tried again from the  *)
(* bytes already there, an integrity error once more from nothing, any     *)
(* other error ends the file.  stream_file_to_path_once drops the partial  *)
(* of an attempt that was not allowed to resume.                           *)
(***************************************************************************)

\* Mutants: retries that are not counted; a stall that starts over.
Stall_uncounted(f) ==
    /\ Becomes(f, [Retry(task[f]) EXCEPT !.resume = TRUE])
    /\ UNCHANGED <<disk, partial, rows, covered>>

Stall_afresh(f) ==
    /\ IF task[f].stalls = StallRetries
       THEN Becomes(f, Failure(Broken(task[f])))
       ELSE Becomes(f, [Retry(task[f]) EXCEPT !.stalls = @ + 1, !.resume = FALSE])
    /\ UNCHANGED <<disk, partial, rows, covered>>

Stall(f) ==
    LET t == [task[f] EXCEPT !.harm.stalls = @ + 1] IN
    /\ IF t.stalls = StallRetries
       THEN Becomes(f, Failure(t))
       ELSE Becomes(f, [Retry(t) EXCEPT !.stalls = @ + 1, !.resume = TRUE])
    /\ UNCHANGED <<disk, partial, rows, covered>>

\* Mutant: the retry resumes the bytes that were just found wrong.
Integrity_resuming(f, t) ==
    /\ Becomes(f, IF t.retried THEN Failure(t)
                  ELSE [Retry(t) EXCEPT !.retried = TRUE])
    /\ UNCHANGED <<disk, partial, rows, covered>>

Integrity(f, t) ==
    IF t.retried
    THEN /\ Becomes(f, Failure(t))
         /\ Put(partial, f, IF t.resume THEN partial[f] ELSE None)
         /\ UNCHANGED <<disk, rows, covered>>
    ELSE /\ Becomes(f, [Retry(t) EXCEPT !.retried = TRUE, !.resume = FALSE])
         /\ Put(partial, f, None)
         /\ Put(disk, f, None)
         /\ Put(rows, f, None)
         /\ Put(covered, f, {})

Break(f, content) ==
    /\ Becomes(f, Failure(Broken(task[f])))
    /\ Put(partial, f, IF task[f].resume THEN content ELSE None)
    /\ UNCHANGED <<disk, rows, covered>>

-----------------------------------------------------------------------------
(***************************************************************************)
(* stream_snapshot_file: a file already in place or staged is hashed and   *)
(* kept if it is the right one, and thrown away otherwise.                 *)
(***************************************************************************)

\* With one worker the loop takes the next file after the row of the last one.
Begin(f) ==
    LET busy == {g \in Files : task[g].pc \notin
                   {"out", "queued", "done", "failed"}}
    IN  /\ At(f, "queued")
        /\ Cardinality(busy) < command.workers
        /\ command.workers = 1 =>
              \A g \in Files : task[g].pc \notin {"done", "failed"}
        /\ Becomes(f, [task[f] EXCEPT !.pc = "begin"])
        /\ UNCHANGED <<files, command, budget>>

\* The file on disk takes the place of the old one: no row describes it yet.
Placed(f, content) ==
    /\ Put(disk, f, content)
    /\ Put(rows, f, None)
    /\ Put(covered, f, {})

\* Mutant: the coverage of a file found in place is not recorded.
Hashed_unrecorded(f, content) ==
    Becomes(f, [NewTask("done") EXCEPT !.hashed = content, !.fed = content])

Hashed(f, content) ==
    Becomes(f, [NewTask("record") EXCEPT !.hashed = content, !.fed = content])

KeepExisting(f) ==
    /\ At(f, "begin")
    /\ disk[f] # None
    /\ Matches(f, disk[f], disk[f])
    /\ Hashed(f, disk[f])
    /\ UNCHANGED <<files, command, budget>>

DropExisting(f) ==
    /\ At(f, "begin")
    /\ disk[f] # None
    /\ ~Matches(f, disk[f], disk[f])
    /\ Placed(f, None)
    /\ UNCHANGED <<partial, staged, command, task, budget>>

\* The staging directory belongs to one commit and one selection of files.
HasStaged(f) ==
    /\ command.commit = StagedCommit
    /\ command.selected = Files
    /\ staged[f] # None

PromoteStaged(f) ==
    /\ At(f, "begin")
    /\ disk[f] = None
    /\ HasStaged(f)
    /\ Matches(f, staged[f], staged[f])
    /\ Placed(f, staged[f])
    /\ Put(staged, f, None)
    /\ Hashed(f, staged[f])
    /\ UNCHANGED <<partial, command, budget>>

Fetch(f) ==
    LET foreign == partial[f] # None /\ ~RightSoFar(f, partial[f])
        t == [task[f] EXCEPT !.pc = "attempt"]
    IN  /\ At(f, "begin")
        /\ disk[f] = None
        /\ HasStaged(f) => ~Matches(f, staged[f], staged[f])
        /\ Put(staged, f, IF HasStaged(f) THEN None ELSE staged[f])
        /\ Becomes(f, IF foreign THEN Damaged(t) ELSE t)
        /\ UNCHANGED <<disk, partial, rows, covered, command, budget>>

-----------------------------------------------------------------------------
(***************************************************************************)
(* stream_file_to_path_once.                                               *)
(***************************************************************************)

\* What the attempt finds: nothing if it must not resume, and nothing of a
\* partial that is longer than the file will be.
Resumable(f) ==
    IF ~task[f].resume \/ partial[f] = None \/ Len(partial[f]) > Expected(f)
    THEN None
    ELSE partial[f]

Prefix(f) == IF Resumable(f) = None THEN <<>> ELSE Resumable(f)

Complete(f) == Len(Prefix(f)) = Expected(f)

Resume(f) ==
    /\ At(f, "attempt")
    /\ ~Complete(f)
    /\ Put(partial, f, Resumable(f))
    /\ Becomes(f, [task[f] EXCEPT !.pc = "request", !.hashed = Prefix(f),
                                  !.fed = Prefix(f)])
    /\ UNCHANGED <<disk, staged, rows, covered, command, budget>>

\* Mutant: the size is taken for enough.
PlaceComplete_by_size(f) ==
    /\ At(f, "attempt")
    /\ Complete(f)
    /\ Resumable(f) # None
    /\ Placed(f, Prefix(f))
    /\ Put(partial, f, None)
    /\ Hashed(f, Prefix(f))
    /\ UNCHANGED <<staged, command, budget>>

\* A partial of the full size is verified and moved without a request.
PlaceComplete(f) ==
    /\ At(f, "attempt")
    /\ Complete(f)
    /\ Resumable(f) # None
    /\ Matches(f, Prefix(f), Prefix(f))
    /\ Placed(f, Prefix(f))
    /\ Put(partial, f, None)
    /\ Hashed(f, Prefix(f))
    /\ UNCHANGED <<staged, command, budget>>

RejectComplete(f) ==
    /\ At(f, "attempt")
    /\ Complete(f)
    /\ Resumable(f) # None
    /\ ~Matches(f, Prefix(f), Prefix(f))
    /\ Integrity(f, task[f])
    /\ UNCHANGED <<staged, command, budget>>

\* A file of size zero is complete before there is a partial: hashing the file
\* that is not there raises FileNotFoundError.
MissComplete(f) ==
    /\ At(f, "attempt")
    /\ Complete(f)
    /\ Resumable(f) = None
    /\ Put(partial, f, None)
    /\ Becomes(f, Failure(task[f]))
    /\ UNCHANGED <<disk, staged, rows, covered, command, budget>>

\* The metadata request, in which the Hub chooses the transport.  An HTTP server
\* may ignore the range and send the file from its start, and then partial,
\* writer and accumulator are truncated.
Open(f) ==
    /\ At(f, "request")
    /\ \/ /\ Put(partial, f, task[f].hashed)
          /\ \E transport \in {"xet", "http"} :
                Becomes(f, [task[f] EXCEPT !.pc = transport])
       \/ /\ Put(partial, f, <<>>)
          /\ Becomes(f, [task[f] EXCEPT !.pc = "http", !.hashed = <<>>,
                                        !.fed = <<>>])
    /\ UNCHANGED <<disk, staged, rows, covered, command, budget>>

\* The Hub names another commit or size than the plan.
MetadataMismatch(f) ==
    /\ At(f, "request")
    /\ Integrity(f, Damaged(task[f]))
    /\ UNCHANGED <<staged, command, budget>>

Streaming(f) == At(f, "xet") \/ At(f, "http")

\* HashingWriter.write: into the file, the hash and the accumulator.
Receive(f) ==
    /\ Streaming(f)
    /\ ~task[f].cut
    /\ Len(task[f].fed) < Expected(f)
    /\ \E block \in {Version(f), Corrupt} :
          LET t == [task[f] EXCEPT !.hashed = Append(@, block),
                                   !.fed = Append(@, block)]
          IN  /\ Put(partial, f, Append(partial[f], block))
              /\ Becomes(f, IF block = Corrupt THEN Damaged(t) ELSE t)
    /\ UNCHANGED <<disk, staged, rows, covered, command, budget>>

\* More bytes than the file has: the write is done, then the accumulator
\* refuses them.
Overrun(f) ==
    /\ At(f, "http")
    /\ Len(task[f].fed) = Expected(f)
    /\ Break(f, Append(partial[f], Corrupt))
    /\ UNCHANGED <<staged, command, budget>>

\* A connection that fails in the request or while streaming.
Disconnect(f) ==
    /\ At(f, "request") \/ Streaming(f)
    /\ Break(f, partial[f])
    /\ UNCHANGED <<staged, command, budget>>

HttpTimeout(f) ==
    /\ At(f, "http")
    /\ Stall(f)
    /\ UNCHANGED <<staged, command, budget>>

\* StallWatchdog: the one session of the process is aborted, and with it every
\* stream that is open.
WatchdogFires(f) ==
    /\ At(f, "xet")
    /\ ~task[f].fired
    /\ task' = [g \in Files |->
                  IF At(g, "xet")
                  THEN [task[g] EXCEPT !.cut = TRUE, !.fired = @ \/ g = f]
                  ELSE task[g]]
    /\ UNCHANGED <<files, command, budget>>

\* The exception of an aborted stream is a stall for the file whose own
\* watchdog fired, and an error like any other for the rest.
StreamAborted(f) ==
    /\ At(f, "xet")
    /\ task[f].cut
    /\ IF task[f].fired THEN Stall(f) ELSE Break(f, partial[f])
    /\ UNCHANGED <<staged, command, budget>>

\* The stream ends, after all bytes or too early; raise_if_stalled sees a
\* watchdog that fired although the stream came to its end.
EndOfStream(f) ==
    LET t == [task[f] EXCEPT !.pc = "check", !.cut = FALSE] IN
    /\ Streaming(f)
    /\ IF task[f].fired
       THEN Stall(f)
       ELSE /\ Becomes(f, IF Len(t.hashed) < Expected(f) THEN Damaged(t) ELSE t)
            /\ UNCHANGED <<disk, partial, rows, covered>>
    /\ UNCHANGED <<staged, command, budget>>

Place(f) ==
    /\ At(f, "check")
    /\ Matches(f, partial[f], task[f].hashed)
    /\ Placed(f, partial[f])
    /\ Put(partial, f, None)
    /\ Hashed(f, task[f].hashed)
    /\ UNCHANGED <<staged, command, budget>>

Reject(f) ==
    /\ At(f, "check")
    /\ ~Matches(f, partial[f], task[f].hashed)
    /\ Integrity(f, task[f])
    /\ UNCHANGED <<staged, command, budget>>

\* record_torrent_coverage: under the recorder's lock, the rows of the other
\* files of the commit are kept.
Record(f) ==
    /\ At(f, "record")
    /\ Put(covered, f, covered[f] \cup {command.commit})
    /\ Becomes(f, [task[f] EXCEPT !.pc = "done"])
    /\ UNCHANGED <<disk, partial, staged, rows, command, budget>>

\* One step of the thread that downloads f, of its watchdog or of the network.
FileStep(f) ==
    \/ KeepExisting(f) \/ DropExisting(f) \/ PromoteStaged(f) \/ Fetch(f)
    \/ Resume(f) \/ PlaceComplete(f) \/ RejectComplete(f) \/ MissComplete(f)
    \/ Open(f) \/ MetadataMismatch(f)
    \/ Receive(f) \/ Overrun(f) \/ Disconnect(f) \/ HttpTimeout(f)
    \/ WatchdogFires(f) \/ StreamAborted(f) \/ EndOfStream(f)
    \/ Place(f) \/ Reject(f) \/ Record(f)

-----------------------------------------------------------------------------
(***************************************************************************)
(* download_snapshot and stream_snapshot.                                  *)
(***************************************************************************)

\* Mutant: any file with a current row, whatever its hash.
Verified_by_row(c, f) == c \in Commits /\ disk[f] # None /\ rows[f] # None

\* verified_manifest_record.
Verified(c, f) == disk[f] # None /\ rows[f] = Full(Snapshot[c][f])

\* mirror and update fetch a snapshot, repair the paths it has to; for one file
\* the number of workers makes no difference.
Start ==
    /\ ~Running
    /\ budget > 0
    /\ budget' = budget - 1
    /\ \E c \in Commits, workers \in WorkerCounts,
          selected \in SUBSET Files \ {{}} :
          /\ Cardinality(selected) = 1 => workers = Fewest
          /\ command' = [result |-> "running", commit |-> c,
                         selected |-> selected, workers |-> workers]
          /\ task' = [f \in Files |->
                        NewTask(IF f \in selected /\ ~Verified(c, f)
                                THEN "queued" ELSE "out")]
    /\ UNCHANGED files

\* The main thread gets the result of a file and writes its manifest row.
WriteRow(f) ==
    /\ At(f, "done")
    /\ Put(rows, f, task[f].hashed)
    /\ Becomes(f, NewTask("out"))
    /\ UNCHANGED <<disk, partial, staged, covered, command, budget>>

Failed == {f \in Files : task[f].pc = "failed"}

Succeed ==
    /\ Running
    /\ \A f \in Files : task[f].pc = "out"
    /\ command' = [command EXCEPT !.result = "ok"]
    /\ staged' = IF command.commit = StagedCommit /\ command.selected = Files
                 THEN [f \in Files |-> None] ELSE staged
    /\ UNCHANGED <<disk, partial, rows, covered, task, budget>>

\* Mutant: the first error is raised at once.
Fail_at_once ==
    /\ Running
    /\ Failed # {}
    /\ command' = [command EXCEPT !.result = "failed"]
    /\ UNCHANGED <<files, task, budget>>

\* One worker stops at the first error; a pool is waited for, all of its
\* results are taken, and then the first error is raised.
Fail ==
    /\ Running
    /\ Failed # {}
    /\ command.workers > 1 => \A f \in Files : task[f].pc \in {"out", "failed"}
    /\ command' = [command EXCEPT !.result = "failed"]
    /\ UNCHANGED <<files, task, budget>>

Killed ==
    /\ Running
    /\ command' = [command EXCEPT !.result = "killed"]
    /\ task' = [f \in Files |-> NewTask("out")]
    /\ UNCHANGED <<files, budget>>

Next ==
    \/ Start \/ Succeed \/ Fail \/ Killed
    \/ \E f \in Files : Begin(f) \/ FileStep(f) \/ WriteRow(f)

\* Threads run, and the main thread takes what they return.  That a stream
\* does something in the end is what the stall timeout is for.
Fairness ==
    /\ \A f \in Files : WF_vars(Begin(f) \/ FileStep(f) \/ WriteRow(f))
    /\ WF_vars(Succeed \/ Fail)

Spec == Init /\ [][Next]_vars /\ Fairness

-----------------------------------------------------------------------------
\* Whatever the network, the partial files of earlier commits and the kills do,
\* nothing comes into place that is not, block for block, the file of the
\* pinned commit (stream_file_to_path_once: verify, then rename).
PlacedVerified ==
    [][\A f \in Files :
          disk'[f] # disk[f] /\ disk'[f] # None => disk'[f] = Wanted(f)]_vars

\* A download that reports success leaves every file it was asked for right,
\* with a manifest row that vouches for it, also those it skipped as verified
\* (stream_snapshot returns without an error).
SuccessIsComplete ==
    command.result = "ok" =>
        \A f \in command.selected : disk[f] = Wanted(f) /\ rows[f] = Wanted(f)

\* A file fails only for what the network did to it in this command: an error,
\* more stalls than stall_retries, or bytes that were wrong twice, where the
\* partial of an earlier command can be the first time.  What was left behind
\* alone never makes it fail (the integrity retry of stream_file_to_path).
\* Empty files are left to EmptyFilesArrive.
FaultExplains(f) ==
    \/ task[f].harm.broke
    \/ task[f].harm.bytes = 2
    \/ task[f].harm.stalls > StallRetries

FailsOnlyByFault == \A f \in Failed : Expected(f) > 0 => FaultExplains(f)

\* The same of an empty file, which the snapshots of the tests contain like any
\* other.  The code breaks it: stream_file_to_path_once takes a size of zero
\* for a partial that is complete, and hashes a file that does not exist.
EmptyFilesArrive == \A f \in Failed : Expected(f) = 0 => FaultExplains(f)

\* When a pool of threads has failed, the files that did arrive are recorded,
\* each of them, before the error is raised (the as_completed loop).
FailureKeepsTheRest ==
    command.result = "failed" /\ command.workers > 1 =>
        \A f \in command.selected \ Failed : rows[f] = Wanted(f)

\* A file with a manifest row has been recorded in a coverage file first, since
\* no later download will look at it again (record_torrent_coverage before the
\* row).
RowsAreCovered == \A f \in Files : rows[f] # None => covered[f] # {}

\* Right bytes that have been received are given up only after an integrity
\* error, or when the server sends the file from its start: not for a stall, a
\* failed connection or a kill ("Interrupted partial files and staging are
\* retained for resume").
PartialsKept ==
    [][\A f \in Files :
          /\ Running /\ partial[f] # None /\ RightSoFar(f, partial[f])
          /\ partial'[f] = None \/ Len(partial'[f]) < Len(partial[f])
          => \/ disk'[f] = Wanted(f)
             \/ task[f].retried \/ task'[f].retried
             \/ At(f, "request")]_vars

\* Every download ends, however often streams stall and bytes are wrong: the
\* retries are bounded.
Terminates == Running ~> ~Running

=============================================================================
