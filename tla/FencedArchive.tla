---------------------------- MODULE FencedArchive ----------------------------
(***************************************************************************)
(* One archive shared by the managed seeder and by command-line processes: *)
(* the composition of ManagedSeeder and Commands over ArchiveRoot, and     *)
(* what the fence, the lock and the maintenance protocol promise together. *)
(***************************************************************************)
EXTENDS ManagedSeeder, Commands

Init == ArchiveInit

Next == SeederStep \/ (\E p \in Clis : CliStep(p)) \/ Environment

Spec == Init /\ [][Next]_vars

\* A running process goes on.  Nothing makes an operator issue a command, send
\* a signal, or a process crash, and nothing restarts the seeder.
Fairness ==
    /\ WF_vars(Reconcile \/ Finish)
    /\ \A p \in Clis : WF_vars(CliRuns(p))

FairSpec == Spec /\ Fairness

-----------------------------------------------------------------------------
(***************************************************************************)
(* Safety for any number of commands and the seeder at the same time.      *)
(***************************************************************************)

\* Two processes are never inside a locked block at once, and the lock is
\* held exactly while its holder is inside one: no error path, timeout, busy
\* skip or crash leaks it (`with ModelLock` in every handler).
LockOwned ==
    /\ \A p \in Clis : cli[p].pc \in LockedPc <=> lock = p
    /\ seeder.pc \in {"detaching", "reporting", "attaching", "closing"} <=> lock = Seeder

\* While an archive is fenced, its verification state and its payload belong
\* to the commit that was published, whatever mirror, verify, repair and
\* publish do at the same time (create_publication checks the state under the
\* lock; mirror and repair check the fence).
PublishedCommitPinned ==
    fence # NoCommit => state.resolved_commit = fence /\ payload.commit = fence

\* The fence names a publication that was written before it: a crash between
\* the two writes of create_publication never leaves a dangling fence.
FenceBacked == fence # NoCommit => record[fence].lifecycle # "absent"

\* A publication that a client may still be serving is never unfenced, and
\* only a retired one is: retire_publication writes the record first and
\* refuses while the backend is attached.
FenceReleasedByRetirement ==
    [][fence # NoCommit /\ fence' # fence
         => /\ record[fence].lifecycle = "retired"
            /\ ~attached(record[fence])]_vars

Transfers(p) == cli[p].pc \in {"transfer", "persist"}

Transferring == \E p \in Clis : Transfers(p)

\* The seeder never attaches a payload that is being rewritten or that changed
\* since it was published: it re-reads the record under the lock and compares
\* the payload's fingerprints.
AttachesOnlyPublished ==
    [][\A c \in session' \ session :
         /\ ~Transferring
         /\ c \in fingerprints
         /\ fence = c /\ record[c].lifecycle = "published"]_vars

\* The detailed archive keeps the promise of CommitFence.
Promise == INSTANCE CommitFence WITH commit <- payload.commit

KeepsPromise == Promise!Spec

-----------------------------------------------------------------------------
(***************************************************************************)
(* One operator at a time, and the seeder.                                 *)
(***************************************************************************)

\* What the record says of the backend can be relied on: a handle in the
\* session belongs to the fenced publication and is reported attached, as
\* long as no pass of the seeder had to leave a handle behind (`missed`).
AttachmentReported ==
    ~missed => \A c \in session : fence = c /\ attached(record[c])

\* The torrent session lets go of the payload before a repair, an update or a
\* mirror writes to it (REQ-19), as long as no pass had to leave a handle behind
\* and except for the repair that "repair --update" does when there is nothing
\* to update: that one never begins maintenance.
DetachedUnlessMissed ==
    ~missed => \A p \in Clis :
        Transfers(p) /\ ~(cli[p].op = "update" /\ fence # NoCommit) => session = {}

\* The wish to have the archive seeded survives maintenance, reruns of an
\* interrupted maintenance and crashes: begin_maintenance parks it once,
\* finish_maintenance restores it.
SeedIntentSurvives ==
    Fenced /\ fenced_record.lifecycle \in {"published", "maintenance"}
        => intent = (\/ fenced_record.desired_seed
                     \/ fenced_record.maintenance_resume_seed)

\* While the seeder stays up, a publication that is no longer wanted is
\* detached for good, also if the archive was busy on some passes.
StopDetaches ==
    \A c \in Commits :
        <>[](~At("down") /\ ~wanted(record[c])) => <>[](c \notin session)

\* While the seeder stays up, a wanted publication whose payload is as it was
\* published is attached, or libtorrent's error is reported.
SeedAttaches ==
    \A c \in Commits :
        <>[](~At("down") /\ fence = c /\ wanted(record[c]) /\ c \in fingerprints)
            => []<>(c \in session \/ record[c].observed_backend = "error")

=============================================================================
