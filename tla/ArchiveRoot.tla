---------------------------- MODULE ArchiveRoot ----------------------------
(***************************************************************************)
(* One mirrored repository on disk, as the processes that share it see it: *)
(* the advisory lock, the verification state, the payload and its          *)
(* checksum manifest, the publication records and the fence.  The modules  *)
(* that act on it (Commands, ManagedSeeder) extend this one.               *)
(*                                                                         *)
(* Data is kept to what the fence and maintenance protocol tells apart.  A *)
(* payload is the commit its files come from and whether they are all      *)
(* present and intact; the manifest is whether every expected file has a   *)
(* current row with the expected hash; fingerprints are the set of commits *)
(* whose publication record still describes the payload's stat values.     *)
(***************************************************************************)
EXTENDS Naturals, FiniteSets, Publication

CONSTANTS
    Commits,      \* commits of the upstream repository
    NoCommit,     \* no commit: nothing is fenced
    Clis,         \* command-line processes that may run at the same time
    Seeder,       \* the long-running "torrent serve" process
    NoProc,       \* the lock is free
    Operations,   \* the commands the operators of this instance issue
    MaxCommands,  \* bound: commands issued in one behaviour
    Touches       \* whether a file's mtime may change with its bytes intact

AllOperations ==
    {"publish", "create", "publish-external", "stop", "retire",
     "repair", "update", "mirror", "verify", "show"}

ASSUME ConstantsAssumption ==
    /\ Commits # {}
    /\ NoCommit \notin Commits
    /\ Seeder \notin Clis
    /\ NoProc \notin Clis \cup {Seeder}
    /\ Operations \subseteq AllOperations
    /\ MaxCommands \in Nat
    /\ Touches \in BOOLEAN

VARIABLES
    lock,      \* holder of .verification.lock
    fence,     \* commit of the publication .model-mirror/torrent/fence.json names
    record,    \* publication.json of each commit
    fingerprints, \* commits whose recorded fingerprints match the payload
    state,     \* the .verification file
    payload,   \* the files
    manifest,  \* .checksums vouches for every expected file
    upstream,  \* commit the Hub resolves the requested revision to
    session,   \* publications attached to the seeder's torrent session
    seeder,    \* control state of the seeder
    cli,       \* control state of each command-line process
    budget,    \* commands the operators may still issue
    \* Observability variables: nothing in the program reads them.
    intent,    \* whether the operators last asked for this archive to be seeded
    missed     \* a reconcile pass left attached what it found not wanted

files == <<state, payload, manifest, fingerprints>>
torrents == <<fence, record>>
ghosts == <<intent, missed>>
vars == <<lock, fence, record, fingerprints, state, payload, manifest, upstream,
          session, seeder, cli, budget, intent, missed>>

-----------------------------------------------------------------------------

Status == {"clean", "dirty", "incomplete", "in_progress"}

\* "dirty" is a state with repair paths; the last two have none.  The upstream
\* status is derived: "changed" exactly when the two commits differ.
VerificationState ==
    [status: Status, resolved_commit: Commits, upstream_commit: Commits]

Payload == [commit: Commits, intact: BOOLEAN]

SeederPc == {"down", "sleep", "detach", "detaching", "attach", "report",
             "reporting", "attaching", "close", "closing"}

\* commit and found are the publication the last discovery saw, todo the
\* handles its current loop has left and handle the one it has the lock for.
SeederState ==
    [pc: SeederPc, commit: Commits \cup {NoCommit}, found: PublicationRecord,
     todo: SUBSET Commits, handle: Commits \cup {NoCommit}]

\* The control points of a command at which it holds the lock...
LockedPc == {"locked", "publish-fence", "retiring", "retire-unlink",
             "beginning", "repair", "transfer", "persist", "finish", "failing"}

\* ... and those at which it runs without it.
UnlockedPc == {"idle", "retire-wait", "retire-lock", "maintain",
               "detach-wait", "repair-lock", "failed"}

CliState ==
    [op: AllOperations \cup {"none"}, pc: LockedPc \cup UnlockedPc,
     target: Commits \cup {NoCommit}, maintenance: BOOLEAN, healthy: BOOLEAN]

Idle == [op |-> "none", pc |-> "idle", target |-> NoCommit,
         maintenance |-> FALSE, healthy |-> FALSE]

Down == [pc |-> "down", commit |-> NoCommit, found |-> NoRecord,
         todo |-> {}, handle |-> NoCommit]

TypeOK ==
    /\ lock \in Clis \cup {Seeder, NoProc}
    /\ fence \in Commits \cup {NoCommit}
    /\ record \in [Commits -> PublicationRecord]
    /\ fingerprints \in SUBSET Commits
    /\ state \in VerificationState
    /\ payload \in Payload
    /\ manifest \in BOOLEAN
    /\ upstream \in Commits
    /\ session \in SUBSET Commits
    /\ seeder \in SeederState
    /\ cli \in [Clis -> CliState]
    /\ budget \in Nat
    /\ intent \in BOOLEAN
    /\ missed \in BOOLEAN

-----------------------------------------------------------------------------

\* load_fenced_publication returns: a fence, if there is one, points at a
\* record that exists and is not retired.  Otherwise it raises.
Loadable == fence # NoCommit => active(record[fence])

Fenced == fence # NoCommit /\ active(record[fence])

\* The record load_fenced_publication returns when the archive is Fenced.
fenced_record == record[fence]

\* assert_commit_update_allowed.
UpdateAllowed(target) == Loadable /\ fence \in {NoCommit, target}

UpstreamChanged == state.upstream_commit # state.resolved_commit

\* The payload holds exactly what the given commit's snapshot expects.
PayloadIs(commit) == payload.commit = commit /\ payload.intact

ArchiveInit ==
    /\ lock = NoProc
    /\ fence = NoCommit
    /\ record = [c \in Commits |-> NoRecord]
    /\ fingerprints = {}
    /\ \E c \in Commits :
         /\ state = [status |-> "clean", resolved_commit |-> c, upstream_commit |-> c]
         /\ payload = [commit |-> c, intact |-> TRUE]
         /\ upstream = c
    /\ manifest = TRUE
    /\ session = {}
    /\ seeder = Down
    /\ cli = [p \in Clis |-> Idle]
    /\ budget = MaxCommands
    /\ intent = FALSE
    /\ missed = FALSE

-----------------------------------------------------------------------------
(***************************************************************************)
(* What happens to an archive without any process of the program acting.   *)
(***************************************************************************)

\* A file is damaged, deleted, or rewritten in place with the same bytes.
\* Either way its size or mtime no longer matches what was recorded.
FilesChange ==
    /\ \E intact \in {FALSE} \cup {Touches /\ payload.intact} :
         payload' = [payload EXCEPT !.intact = intact]
    /\ manifest' = FALSE
    /\ fingerprints' = {}
    /\ <<payload, manifest, fingerprints>>' # <<payload, manifest, fingerprints>>
    /\ UNCHANGED <<lock, torrents, state, upstream, session, seeder, cli, budget, ghosts>>

\* The requested revision resolves to another commit on the Hub.
UpstreamMoves ==
    /\ \E c \in Commits \ {upstream} : upstream' = c
    /\ UNCHANGED <<lock, torrents, files, session, seeder, cli, budget, ghosts>>

Environment == FilesChange \/ UpstreamMoves

=============================================================================
