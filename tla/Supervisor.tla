----------------------------- MODULE Supervisor -----------------------------
(***************************************************************************)
(* A supervised mirror: the command starts itself again as a child,        *)
(* watches the progress file the child keeps, and kills and restarts a     *)
(* child that has stalled, a limited number of times.                      *)
(*                                                                         *)
(* Time is counted in seconds on the clock that both stamp with.  What the *)
(* code compares are differences, so a stamp is kept as its age, capped at *)
(* Timeout.  An entry is fresh if its stamp is not before the start of the *)
(* child that runs now; stamps are cut to whole seconds and the start is   *)
(* not, so an entry written in the second of the start is not fresh.       *)
(*                                                                         *)
(* The child is given no fairness: it may hang wherever it is.             *)
(***************************************************************************)
EXTENDS Naturals, FiniteSets

CONSTANTS
    Files,        \* files of the snapshot that are not there yet
    Size,         \* pieces in which the bytes of a file arrive
    Workers,      \* config.download_workers
    Timeout,      \* stall_timeout_seconds
    RetryLimit,   \* config.stall_retries
    MinInterval,  \* ProgressRecorder.min_interval_seconds
    NoProgress,   \* the key "<no-progress>" of retry_counts
    None,
    MaxBeats      \* bound: reports of a file without new bytes, per child

Age == 0..Timeout
Entries == [age : Age, fresh : BOOLEAN]

ASSUME SupervisorAssumption ==
    /\ IsFiniteSet(Files) /\ Files # {}
    /\ NoProgress \notin Files /\ None \notin Files \cup {NoProgress, 0, 1} \cup Entries
    /\ Size \in Nat \ {0} /\ Workers \in Nat \ {0}
    /\ Timeout \in Nat \ {0} /\ MinInterval \in Nat
    /\ RetryLimit \in Nat /\ MaxBeats \in Nat

VARIABLES
    sup,      \* where run_supervised_mirror is, and what it has made of the child
    retries,  \* retry_counts
    elapsed,  \* seconds since the child was started
    child,    \* what the child does
    work,     \* what it has done of each file
    entry,    \* .model-mirror/progress.json: the entries of active_files
    bytes,    \* size of each NAME.incomplete, or of the file once it is there
    quiet,    \* seconds since bytes of the file were last written
    touched,  \* files whose NAME.incomplete this child has written to
    beats     \* reports without new bytes, of this child

vars == <<sup, retries, elapsed, child, work, entry, bytes, quiet, touched, beats>>
transfer == <<child, work, entry, bytes, quiet, touched, beats>>

TypeOK ==
    /\ sup \in [step : {"poll", "look", "read", "scan", "sleep", "kill", "over"},
                verdict : Files \cup {NoProgress, None},
                code : {0, 1, None}]
    /\ retries \in [Files \cup {NoProgress} -> 0..(RetryLimit + 1)]
    /\ elapsed \in Age
    /\ child \in {"starting", "transferring", "verifying", "exit 0", "exit 1", "killed"}
    /\ work \in [Files -> {"todo", "active", "failed", "done"}]
    /\ entry \in [Files -> Entries \cup {None}]
    /\ bytes \in [Files -> 0..Size]
    /\ quiet \in [Files -> Age]
    /\ touched \in SUBSET Files
    /\ beats \in [Files -> 0..MaxBeats]

Watching(step) == [step |-> step, verdict |-> None, code |-> None]

Init ==
    /\ sup = Watching("poll")
    /\ retries = [k \in Files \cup {NoProgress} |-> 0]
    /\ elapsed = 0
    /\ child = "starting"
    /\ work = [f \in Files |-> "todo"]
    /\ entry = [f \in Files |-> None]
    /\ bytes = [f \in Files |-> 0]
    /\ quiet = [f \in Files |-> Timeout]
    /\ touched = {}
    /\ beats = [f \in Files |-> 0]

-----------------------------------------------------------------------------
(* The child: mirror() with its thread pool and its ProgressRecorder.      *)

Running == child \in {"starting", "transferring", "verifying"}
Active == {f \in Files : work[f] = "active"}
Handled == \A f \in Files : work[f] \in {"done", "failed"}

Stamp == [age |-> 0, fresh |-> elapsed > 0]

\* The recorder writes the entries of its own child only.
Report(f) ==
    entry' = [g \in Files |-> IF g = f THEN Stamp
                              ELSE IF work[g] \in {"active", "failed"} THEN entry[g]
                              ELSE None]

\* Mutant: reports are held back until enough bytes have come, however long.
MustEmit_by_bytes(f) == entry[f] = None

\* Without force, a report is made when the last one is long enough ago, or
\* when enough bytes have come; the bytes are not counted here.
MustEmit(f) == entry[f] = None \/ entry[f].age >= MinInterval

Emit(f) == Report(f) \/ (~MustEmit(f) /\ UNCHANGED entry)

Begin ==
    /\ child = "starting"
    /\ child' \in IF Handled THEN {"verifying"} ELSE {"transferring"}
    /\ UNCHANGED <<sup, retries, elapsed, work, entry, bytes, quiet, touched, beats>>

Track(f) ==
    /\ child = "transferring" /\ work[f] = "todo"
    /\ Cardinality(Active) < Workers
    /\ Workers > 1 \/ \A g \in Files : work[g] # "failed"
    /\ work' = [work EXCEPT ![f] = "active"]
    /\ Report(f)
    /\ UNCHANGED <<sup, retries, elapsed, child, bytes, quiet, touched, beats>>

\* Hashing of what is there already, a retry after a stall in the child, or a
\* fresh start after an integrity error, which drops the partial file.
Beat(f) ==
    /\ child = "transferring" /\ work[f] = "active" /\ beats[f] < MaxBeats
    /\ Emit(f)
    /\ bytes' \in {bytes, [bytes EXCEPT ![f] = 0]}
    /\ beats' = [beats EXCEPT ![f] = @ + 1]
    /\ UNCHANGED <<sup, retries, elapsed, child, work, quiet, touched>>

Receive(f) ==
    /\ child = "transferring" /\ work[f] = "active" /\ bytes[f] < Size
    /\ bytes' = [bytes EXCEPT ![f] = @ + 1]
    /\ quiet' = [quiet EXCEPT ![f] = 0]
    /\ touched' = IF elapsed > 0 THEN touched \cup {f} ELSE touched
    /\ Emit(f)
    /\ UNCHANGED <<sup, retries, elapsed, child, work, beats>>

\* The entry goes, and with the last entry the progress file.
Finish(f) ==
    /\ child = "transferring" /\ work[f] = "active" /\ bytes[f] = Size
    /\ work' = [work EXCEPT ![f] = "done"]
    /\ entry' = [entry EXCEPT ![f] = None]
    /\ UNCHANGED <<sup, retries, elapsed, child, bytes, quiet, touched, beats>>

\* A transfer that fails leaves its entry in the file.
Fail(f) ==
    /\ child = "transferring" /\ work[f] = "active"
    /\ work' = [work EXCEPT ![f] = "failed"]
    /\ UNCHANGED <<sup, retries, elapsed, child, entry, bytes, quiet, touched, beats>>

\* Mutant: what failed in a thread is forgotten.
Transferred_regardless ==
    /\ child = "transferring" /\ Active = {} /\ Handled
    /\ child' = "verifying"
    /\ UNCHANGED <<sup, retries, elapsed, work, entry, bytes, quiet, touched, beats>>

\* One thread stops at the first error, several go on and raise it at the end.
Transferred ==
    /\ child = "transferring" /\ Active = {}
    /\ \/ Handled
       \/ Workers = 1 /\ \E f \in Files : work[f] = "failed"
    /\ child' = IF \A f \in Files : work[f] = "done" THEN "verifying" ELSE "exit 1"
    /\ UNCHANGED <<sup, retries, elapsed, work, entry, bytes, quiet, touched, beats>>

\* Checksums and verification report nothing.
Verify ==
    /\ child = "verifying"
    /\ child' \in {"exit 0", "exit 1"}
    /\ UNCHANGED <<sup, retries, elapsed, work, entry, bytes, quiet, touched, beats>>

\* The archive is busy, the Hub cannot be reached, the child is killed.
GiveUp ==
    /\ Running
    /\ child' = "exit 1"
    /\ UNCHANGED <<sup, retries, elapsed, work, entry, bytes, quiet, touched, beats>>

-----------------------------------------------------------------------------
(* The supervisor.                                                         *)

Poll ==
    /\ sup.step = "poll"
    /\ sup' = IF Running THEN Watching("look")
              ELSE [step |-> "over", verdict |-> None,
                    code |-> IF child = "exit 0" THEN 0 ELSE 1]
    /\ UNCHANGED <<retries, elapsed, transfer>>

Reported == {f \in Files : entry[f] # None}

\* progress_path(root).exists()
Look ==
    /\ sup.step = "look"
    /\ sup' = Watching(IF Reported = {} THEN "scan" ELSE "read")
    /\ UNCHANGED <<retries, elapsed, transfer>>

\* Mutant: entries of an earlier child count as well.
FreshOf_any(shown) == DOMAIN shown

\* What a snapshot of these entries leads to: none of them may be fresh.
FreshOf(shown) == {f \in DOMAIN shown : shown[f].fresh}
Stalled(shown) == {f \in FreshOf(shown) : shown[f].age >= Timeout}

Oldest(shown) ==
    {f \in Stalled(shown) : \A g \in Stalled(shown) : shown[g].age <= shown[f].age}

Verdicts(shown) ==
    IF Stalled(shown) # {} THEN Oldest(shown)
    ELSE IF FreshOf(shown) = {} /\ elapsed >= Timeout THEN {NoProgress}
    ELSE {None}

Judge(shown) ==
    \E key \in Verdicts(shown) :
        IF key = None THEN sup' = Watching("sleep") /\ UNCHANGED retries
        ELSE /\ retries' = [retries EXCEPT ![key] = @ + 1]
             /\ sup' = [sup EXCEPT !.step = "kill", !.verdict = key]

\* An exception that nothing catches ends the supervisor, and the child, if it
\* still runs, goes on without one.
Traceback ==
    /\ sup' = [step |-> "over", verdict |-> None, code |-> None]
    /\ UNCHANGED <<retries, elapsed, transfer>>

\* The file may have gone since it was seen, and read_text raises.
Read ==
    /\ sup.step = "read"
    /\ \/ Reported = {} /\ Traceback
       \/ /\ Reported # {}
          /\ Judge([f \in Reported |-> entry[f]])
          /\ UNCHANGED <<elapsed, transfer>>

Partials == {f \in Files : work[f] # "done" /\ bytes[f] > 0}

\* Without a progress file the times of the partial files are taken.  One that
\* the child renames or drops between is_file() and stat() makes that raise.
Scan ==
    /\ sup.step = "scan"
    /\ \/ child = "transferring" /\ Partials \cap Active # {} /\ Traceback
       \/ /\ Judge([f \in Partials |-> [age |-> quiet[f], fresh |-> f \in touched]])
          /\ UNCHANGED <<elapsed, transfer>>

Restarted(f) == IF work[f] = "done" THEN "done" ELSE "todo"

\* Mutant: retry_counts is made anew for every child.
Spawn_counting_anew ==
    /\ sup' = Watching("poll")
    /\ retries' = [k \in Files \cup {NoProgress} |-> 0]
    /\ elapsed' = 0
    /\ child' = "starting"
    /\ work' = [f \in Files |-> Restarted(f)]
    /\ entry' = [f \in Files |-> IF entry[f] = None THEN None
                                 ELSE [entry[f] EXCEPT !.fresh = FALSE]]
    /\ touched' = {}
    /\ beats' = [f \in Files |-> 0]
    /\ UNCHANGED <<bytes, quiet>>

\* The child is dead, and the next one is started.
Spawn ==
    /\ sup' = Watching("poll")
    /\ elapsed' = 0
    /\ child' = "starting"
    /\ work' = [f \in Files |-> Restarted(f)]
    /\ entry' = [f \in Files |-> IF entry[f] = None THEN None
                                 ELSE [entry[f] EXCEPT !.fresh = FALSE]]
    /\ touched' = {}
    /\ beats' = [f \in Files |-> 0]
    /\ UNCHANGED <<retries, bytes, quiet>>

Quit ==
    /\ sup' = [sup EXCEPT !.step = "over", !.code = 1]
    /\ child' = "killed"
    /\ UNCHANGED <<retries, elapsed, work, entry, bytes, quiet, touched, beats>>

\* terminate_child waits until the child is dead, and gives up on one that does
\* not die of SIGKILL within 30 seconds.  The child may have ended before.
Kill ==
    /\ sup.step = "kill"
    /\ \/ retries[sup.verdict] > RetryLimit /\ Quit
       \/ retries[sup.verdict] <= RetryLimit /\ Spawn
       \/ Running /\ Traceback

-----------------------------------------------------------------------------

Later(n) == IF n < Timeout THEN n + 1 ELSE n

\* Looking at the files takes less than a second; between two looks the
\* supervisor sleeps, and so it does while a child dies.
Tick ==
    /\ sup.step \in {"poll", "sleep", "kill"}
    /\ sup' = IF sup.step = "sleep" THEN Watching("poll") ELSE sup
    /\ elapsed' = Later(elapsed)
    /\ quiet' = [f \in Files |-> Later(quiet[f])]
    /\ entry' = [f \in Files |-> IF entry[f] = None THEN None
                                 ELSE [entry[f] EXCEPT !.age = Later(@)]]
    /\ UNCHANGED <<retries, child, work, bytes, touched, beats>>

Supervise == Poll \/ Look \/ Read \/ Scan \/ Kill

Child ==
    \/ Begin \/ Transferred \/ Verify \/ GiveUp
    \/ \E f \in Files : Track(f) \/ Beat(f) \/ Receive(f) \/ Finish(f) \/ Fail(f)

Next == Supervise \/ Child \/ Tick

\* The supervisor is scheduled and time passes.
Fairness == WF_vars(Supervise) /\ WF_vars(Tick)

Spec == Init /\ [][Next]_vars /\ Fairness

-----------------------------------------------------------------------------
(* Properties.                                                             *)

\* Every child has the whole timeout from its start: a progress file that an
\* older child left behind is never held against its successor, although the
\* supervisor cannot tell from the file who wrote it (fresh_progress_entries).
FairChance == sup.step = "kill" => elapsed >= Timeout

\* A restart that names a file is due to that file: its transfer has written
\* nothing for the timeout, less the interval in which FileProgress.update
\* keeps reports back.
BlamedFileIsQuiet ==
    [][\A f \in Files :
           sup.step # "kill" /\ sup'.step = "kill" /\ sup'.verdict = f
               => quiet[f] + MinInterval >= Timeout]_vars

\* Exit code 0 of the supervised command stands for a mirror whose files are all
\* there, whatever was killed on the way and when.
ZeroMeansMirrored ==
    sup.code = 0 => \A f \in Files : work[f] = "done"

\* Supervision ends, wherever and as often as the children hang: with an exit
\* code, or with the traceback of an exception.
Ends == <>(sup.step = "over")

\* What the option stall_timeout_seconds promises: a child that has just written
\* bytes is not killed (run_supervised_mirror, supervise_child).
ProgressingNotKilled ==
    [][sup.step # "kill" /\ sup'.step = "kill"
           => \A f \in Files : quiet[f] + MinInterval >= Timeout]_vars

=============================================================================
