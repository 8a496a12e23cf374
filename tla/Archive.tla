------------------------------ MODULE Archive ------------------------------
(***************************************************************************)
(* The files of one mirrored repository: the payload, its checksum         *)
(* manifest, the verification state and the snapshot plan, and how mirror, *)
(* verify, repair and repair --update change them, write by write, with a  *)
(* crash possible between any two writes.  The commands exclude each other *)
(* by the lock (FencedArchive!LockOwned), so one runs at a time; nothing   *)
(* is published here.  config.checksum is on, as it is by default.         *)
(*                                                                         *)
(* A file is the version it holds.  Versions of a path have one size, the  *)
(* case in which only hashes tell them apart.  Files change by themselves  *)
(* only between commands: one that changes while it is being hashed is     *)
(* left out, and so are the partial files of interrupted downloads.        *)
(***************************************************************************)
EXTENDS Naturals, FiniteSets

CONSTANTS
    Paths,        \* payload paths
    Commits,      \* commits of the upstream repository
    NoCommit,     \* no commit recorded
    Versions,     \* versions of files on the Hub
    Absent,       \* no file, no manifest row, not part of a snapshot
    Torn,         \* what a file of another size than expected holds
    Edited,       \* expected size, other bytes, another mtime
    Rotten,       \* expected size and mtime, other bytes
    Snapshot,     \* the files of each commit: [Commits -> [Paths -> version]]
    MaxCommands,  \* bound: commands issued in one behaviour
    MaxFaults     \* bound: files changed behind the program's back

Contents == Versions \cup {Torn, Edited, Rotten}

ASSUME ArchiveAssumption ==
    /\ Commits # {} /\ NoCommit \notin Commits
    /\ Absent \notin Contents
    /\ {Torn, Edited, Rotten} \cap Versions = {}
    /\ Snapshot \in [Commits -> [Paths -> Versions \cup {Absent}]]
    /\ MaxCommands \in Nat /\ MaxFaults \in Nat

VARIABLES
    disk,      \* what each path holds
    manifest,  \* the version each row of .manifest was hashed from
    stale,     \* paths whose size or mtime is not what their row says
    state,     \* the .verification file
    plan,      \* commit of .model-mirror/snapshot.json
    upstream,  \* commit the Hub resolves the requested revision to
    cli,       \* the command that holds the lock
    budget, faults,
    judged     \* observability: what the state was last derived by, as long
               \* as nothing has happened since

payload == <<disk, manifest, stale>>
bounds == <<budget, faults>>
vars == <<disk, manifest, stale, state, plan, upstream, cli, budget, faults, judged>>

Status == {"none", "clean", "dirty", "incomplete", "in_progress", "unavailable"}

VerificationState ==
    [status: Status, commit: Commits \cup {NoCommit},
     upstream: Commits \cup {NoCommit}, repair: SUBSET Paths, offline: BOOLEAN]

NoState == [status |-> "none", commit |-> NoCommit, upstream |-> NoCommit,
            repair |-> {}, offline |-> FALSE]

\* How a state was derived: by verify (full, cached or offline), by mirror from
\* files already there or downloaded, by a repair, by one that came straight
\* after a full verification, or by an update.
Judgement == {"no", "verify", "cached", "offline", "checked", "download",
              "repair", "cure", "update"}

\* What a command does now, the commit it works on, the paths its loop has
\* left, and the paths it will deal with after that.
Command ==
    [op: {"none", "mirror", "verify", "repair", "update"},
     pc: {"idle", "plan", "download", "unlink", "blocking", "deferred",
          "checksums", "verdict"},
     commit: Commits \cup {NoCommit}, todo: SUBSET Paths, later: SUBSET Paths,
     verify: BOOLEAN, as: Judgement]

Idle == [op |-> "none", pc |-> "idle", commit |-> NoCommit, todo |-> {},
         later |-> {}, verify |-> TRUE, as |-> "no"]

TypeOK ==
    /\ disk \in [Paths -> Contents \cup {Absent}]
    /\ manifest \in [Paths -> Contents \cup {Absent}]
    /\ stale \in SUBSET Paths
    /\ state \in VerificationState
    /\ plan \in Commits \cup {NoCommit}
    /\ upstream \in Commits
    /\ cli \in Command
    /\ budget \in Nat /\ faults \in Nat
    /\ judged \in Judgement

Init ==
    /\ disk = [p \in Paths |-> Absent]
    /\ manifest = [p \in Paths |-> Absent]
    /\ stale = {}
    /\ state = NoState
    /\ plan = NoCommit
    /\ upstream \in Commits
    /\ cli = Idle
    /\ budget = MaxCommands /\ faults = MaxFaults
    /\ judged = "no"

-----------------------------------------------------------------------------
(***************************************************************************)
(* Reading the files.                                                      *)
(***************************************************************************)

Expected(c) == {p \in Paths : Snapshot[c][p] # Absent}

\* A file of the expected size.
Sized(p) == disk[p] \notin {Absent, Torn}

\* A row that stands for whatever file has its path.
Current_by_path(p) == disk[p] # Absent /\ manifest[p] # Absent

\* record_is_current.
Current(p) == disk[p] # Absent /\ manifest[p] # Absent /\ p \notin stale

\* verified_manifest_record: present, and its row vouches for it.
Recorded(c, p) == Sized(p) /\ Current(p) /\ manifest[p] = Snapshot[c][p]

\* cached_manifest_verifies.  A manifest without rows vouches for nothing.
Cached(c) ==
    /\ \E p \in Paths : manifest[p] # Absent
    /\ \A p \in Expected(c) : Current(p) /\ manifest[p] = Snapshot[c][p]

\* verify_remote with check_hashes=False.
SizesMatch(c) == \A p \in Expected(c) : Sized(p)

\* The paths verify_remote finds missing, of another size or of another hash.
\* A current row stands for the file; without one the file is hashed, unless
\* the verification is cached.
Bad(c, cached, from_manifest) ==
    {p \in Expected(c) :
        \/ ~Sized(p)
        \/ IF from_manifest /\ Current(p) THEN manifest[p] # Snapshot[c][p]
                                          ELSE ~cached /\ disk[p] # Snapshot[c][p]}

\* Its cached_hash_missing.
Unknown(c) == {p \in Expected(c) : Sized(p) /\ ~Current(p)}

\* verify_checksums: rows that no longer describe what is on disk.
Failures == {p \in Paths : manifest[p] # Absent /\ manifest[p] # disk[p]}

\* missing_manifest_paths.
Unvouched(c, ignored) == {p \in Expected(c) \ ignored : Sized(p) /\ ~Current(p)}

\* state_from_results.
Derived(c, up, bad, unknown) ==
    [status |-> IF bad # {} THEN "dirty" ELSE IF unknown # {} THEN "incomplete" ELSE "clean",
     commit |-> c, upstream |-> up, repair |-> bad, offline |-> FALSE]

UpstreamChanged ==
    state.upstream # NoCommit /\ state.commit # NoCommit /\ state.upstream # state.commit

-----------------------------------------------------------------------------

\* A command starts: what was known about the state is no longer fresh.
Begin(c) ==
    /\ cli.pc = "idle"
    /\ budget > 0 /\ budget' = budget - 1
    /\ cli' = c
    /\ judged' = "no"
    /\ UNCHANGED faults

\* A command that does all it does in one write.
AtOnce(judgement) ==
    /\ cli.pc = "idle"
    /\ budget > 0 /\ budget' = budget - 1
    /\ judged' = judgement
    /\ UNCHANGED <<cli, faults>>

Goto(pc, todo) == cli' = [cli EXCEPT !.pc = pc, !.todo = todo]

\* The command ends by writing the state it derived.
Conclude(derived, judgement) ==
    /\ state' = derived
    /\ cli' = Idle
    /\ judged' = judgement

Unlink(p) ==
    /\ disk' = [disk EXCEPT ![p] = Absent]
    /\ UNCHANGED <<manifest, stale>>

\* A row of the manifest is written for a file just hashed.
Record(p) ==
    /\ manifest' = [manifest EXCEPT ![p] = disk[p]]
    /\ stale' = stale \ {p}
    /\ UNCHANGED disk

\* A command raises, the Hub fails, or the process is killed.
Stops ==
    /\ cli.pc # "idle"
    /\ cli' = Idle
    /\ UNCHANGED <<payload, state, plan, upstream, bounds, judged>>

-----------------------------------------------------------------------------
(***************************************************************************)
(* The download of a snapshot, shared by mirror, repair and update.        *)
(***************************************************************************)

\* Not fetching files that are there with their size.
ToFetch_unsized(c, paths) == {p \in paths : ~Sized(p)}

\* stream_snapshot: what the manifest vouches for is not fetched.
ToFetch(c, paths) == {p \in paths : ~Recorded(c, p)}

Fetching(p) == cli.pc = "download" /\ p \in cli.todo

\* The file is what is expected, found so or just moved into place.
fetched(p) ==
    /\ Fetching(p)
    /\ disk[p] = Snapshot[cli.commit][p]
    /\ Record(p)
    /\ Goto("download", cli.todo \ {p})
    /\ UNCHANGED <<state, plan, upstream, bounds, judged>>

fetch_unlink(p) ==
    /\ Fetching(p)
    /\ disk[p] \notin {Absent, Snapshot[cli.commit][p]}
    /\ Unlink(p)
    /\ UNCHANGED <<state, plan, upstream, cli, bounds, judged>>

\* stream_file_to_path: the verified download replaces the destination.
fetch(p) ==
    /\ Fetching(p)
    /\ disk[p] = Absent
    /\ disk' = [disk EXCEPT ![p] = Snapshot[cli.commit][p]]
    /\ stale' = stale \cup {p}
    /\ UNCHANGED <<manifest, state, plan, upstream, cli, bounds, judged>>

\* After the download: obsolete files go, then the manifest is completed
\* where it has to be, then the state is derived.
fetched_all ==
    /\ cli.pc = "download" /\ cli.todo = {}
    /\ IF cli.op = "update" THEN Goto("deferred", cli.later)
       ELSE IF cli.op = "repair" \/ Cached(cli.commit) THEN Goto("verdict", {})
       ELSE Goto("checksums", Paths)
    /\ UNCHANGED <<payload, state, plan, upstream, bounds, judged>>

\* write_checksums: files without a current row are hashed one by one...
checksum(p) ==
    /\ cli.pc = "checksums" /\ p \in cli.todo
    /\ disk[p] # Absent /\ ~Current(p)
    /\ manifest' = [q \in Paths |-> IF q = p THEN disk[p]
                                    ELSE IF disk[q] = Absent THEN Absent ELSE manifest[q]]
    /\ stale' = stale \ {p}
    /\ UNCHANGED <<disk, state, plan, upstream, cli, bounds, judged>>

\* ... and rows of files that are gone are dropped.
checksums_written ==
    /\ cli.pc = "checksums"
    /\ \A p \in cli.todo : disk[p] = Absent \/ Current(p)
    /\ manifest' = [p \in Paths |-> IF disk[p] = Absent THEN Absent ELSE manifest[p]]
    /\ Goto("verdict", {})
    /\ UNCHANGED <<disk, stale, state, plan, upstream, bounds, judged>>

-----------------------------------------------------------------------------
(***************************************************************************)
(* mirror                                                                  *)
(***************************************************************************)

\* select_mirror_snapshot.
Selected(force) ==
    IF ~force /\ state.status = "in_progress" /\ plan # NoCommit THEN plan ELSE upstream

\* Every file is there with its size: hash what the manifest cannot vouch for.
mirror_present ==
    LET c == Selected(FALSE) IN
    /\ SizesMatch(c)
    /\ ~(state.status = "clean" /\ state.commit = c)
    /\ Begin([Idle EXCEPT !.op = "mirror", !.commit = c, !.as = "checked",
                          !.pc = IF Cached(c) THEN "verdict" ELSE "checksums",
                          !.todo = IF Cached(c) THEN {} ELSE Paths])
    /\ UNCHANGED <<payload, state, plan, upstream>>

InProgress(c) ==
    [status |-> "in_progress", commit |-> c, upstream |-> c, repair |-> {}, offline |-> FALSE]

\* Downloading without the state saying so.
mirror_unannounced ==
    \E force, verify \in BOOLEAN :
      LET c == Selected(force) IN
      /\ force \/ ~SizesMatch(c)
      /\ Begin([Idle EXCEPT !.op = "mirror", !.commit = c, !.pc = "plan",
                            !.as = "download", !.verify = verify])
      /\ UNCHANGED <<payload, state, plan, upstream>>

\* The state says so before anything else changes.
mirror_download ==
    \E force, verify \in BOOLEAN :
      LET c == Selected(force) IN
      /\ force \/ ~SizesMatch(c)
      /\ Begin([Idle EXCEPT !.op = "mirror", !.commit = c, !.pc = "plan",
                            !.as = "download", !.verify = verify])
      /\ state' = InProgress(c)
      /\ UNCHANGED <<payload, plan, upstream>>

write_snapshot_plan ==
    /\ cli.pc = "plan"
    /\ plan' = cli.commit
    /\ Goto("download", ToFetch(cli.commit, Expected(cli.commit)))
    /\ UNCHANGED <<payload, state, upstream, bounds, judged>>

\* derive_state after a mirror; with --no-verify nothing is looked at.
mirror_verdict ==
    /\ cli.op = "mirror" /\ cli.pc = "verdict"
    /\ IF cli.verify
       THEN Conclude(Derived(cli.commit, cli.commit, Bad(cli.commit, FALSE, TRUE), {}), cli.as)
       ELSE Conclude([InProgress(cli.commit) EXCEPT !.status = "dirty"], "no")
    /\ UNCHANGED <<payload, plan, upstream, bounds>>

-----------------------------------------------------------------------------
(***************************************************************************)
(* verify, offline and online                                              *)
(***************************************************************************)

Pinned == IF state.commit # NoCommit THEN state.commit ELSE upstream

HasManifest == \E p \in Paths : manifest[p] # Absent

\* Full verification rehashes what the manifest describes; only when all of
\* that is as recorded does it complete the manifest.
verify ==
    /\ ~state.offline
    /\ \E cached \in BOOLEAN :
         LET write == ~cached /\ (~HasManifest \/ Failures = {}) IN
         Begin([Idle EXCEPT !.op = "verify", !.commit = Pinned,
                            !.as = IF cached THEN "cached" ELSE "verify",
                            !.pc = IF write THEN "checksums" ELSE "verdict",
                            !.todo = IF write THEN Paths ELSE {}])
    /\ UNCHANGED <<payload, state, plan, upstream>>

\* Leaving out what verify_checksums found.
verify_verdict_unmerged ==
    /\ cli.op = "verify" /\ cli.pc = "verdict"
    /\ Conclude(Derived(cli.commit, upstream, Bad(cli.commit, cli.as = "cached", TRUE),
                        IF cli.as = "cached" THEN Unknown(cli.commit) ELSE {}), cli.as)
    /\ UNCHANGED <<payload, plan, upstream, bounds>>

\* merge_checksum_result, for a verification that is not cached.
verify_verdict ==
    /\ cli.op = "verify" /\ cli.pc = "verdict"
    /\ Conclude(IF cli.as = "cached"
                THEN Derived(cli.commit, upstream, Bad(cli.commit, TRUE, TRUE),
                             Unknown(cli.commit))
                ELSE Derived(cli.commit, upstream,
                             Bad(cli.commit, FALSE, TRUE) \cup Failures, {}),
                cli.as)
    /\ UNCHANGED <<payload, plan, upstream, bounds>>

\* handle_upstream_unavailable, when there is nothing to keep.
verify_unavailable ==
    /\ state.status = "none"
    /\ AtOnce("no")
    /\ state' = [NoState EXCEPT !.status = "unavailable"]
    /\ UNCHANGED <<payload, plan, upstream>>

\* Offline, the manifest is all there is to compare with.
verify_one_offline ==
    /\ state.status # "none"
    /\ AtOnce("offline")
    /\ state' = IF HasManifest
                THEN [state EXCEPT !.status = IF Failures = {} THEN "clean" ELSE "dirty",
                                   !.repair = Failures]
                ELSE [state EXCEPT !.status = "incomplete", !.repair = {}]
    /\ UNCHANGED <<payload, plan, upstream>>

handle_offline_mode ==
    /\ state.status # "none"
    /\ AtOnce("no")
    /\ state' = [state EXCEPT !.offline = ~@,
                              !.status = IF @ = "unavailable" /\ ~state.offline
                                         THEN "incomplete" ELSE @]
    /\ UNCHANGED <<payload, plan, upstream>>

-----------------------------------------------------------------------------
(***************************************************************************)
(* repair and repair --update                                              *)
(***************************************************************************)

Repairing(c, paths, force_partial) ==
    force_partial \/ Unvouched(c, paths) = {}

\* repair_locked, on a state with repair paths: those of the pinned commit are
\* removed and fetched again.  After an undisturbed full verification this is
\* a cure; a judgement of an older state is not.
repair ==
    /\ state.status \notin {"none", "clean"} /\ ~state.offline
    /\ state.repair # {} /\ state.commit # NoCommit
    /\ \E force_partial \in BOOLEAN :
         LET paths == state.repair \cap Expected(state.commit) IN
         /\ Repairing(state.commit, paths, force_partial)
         /\ Begin([Idle EXCEPT !.op = "repair", !.commit = state.commit,
                               !.pc = IF paths = {} THEN "verdict" ELSE "unlink",
                               !.todo = paths, !.later = paths,
                               !.as = IF judged = "verify" /\ ~force_partial
                                      THEN "cure" ELSE "repair"])
    /\ UNCHANGED <<payload, state, plan, upstream>>

unlink_recorded(p) ==
    /\ cli.pc = "unlink" /\ p \in cli.todo
    /\ Unlink(p)
    /\ Goto("unlink", cli.todo \ {p})
    /\ UNCHANGED <<state, plan, upstream, bounds, judged>>

repair_download ==
    /\ cli.pc = "unlink" /\ cli.todo = {}
    /\ Goto("download", ToFetch(cli.commit, cli.later))
    /\ UNCHANGED <<payload, state, plan, upstream, bounds, judged>>

\* A plan older than the clean state is brought up to date.
reconcile_snapshot_plan ==
    /\ state.status = "clean" /\ ~state.offline
    /\ state.commit # NoCommit /\ plan \notin {NoCommit, state.commit}
    /\ Begin([Idle EXCEPT !.op = "repair", !.commit = state.commit, !.pc = "verdict",
                          !.as = "repair"])
    /\ UNCHANGED <<payload, state, plan, upstream>>

\* update_to_upstream.  Files the target no longer has are removed, first the
\* ones that stand in the way of a directory of the target, whichever they are.
update_to_upstream ==
    /\ state.status # "none" /\ ~state.offline
    /\ UpstreamChanged
    /\ LET c == state.upstream
           removed == IF plan = state.commit THEN Expected(plan) \ Expected(c) ELSE {}
       IN \E blocking \in SUBSET removed :
            Begin([Idle EXCEPT !.op = "update", !.commit = c, !.pc = "blocking",
                               !.todo = blocking, !.later = removed \ blocking,
                               !.as = "update"])
    /\ UNCHANGED <<payload, state, plan, upstream>>

remove_obsolete(p) ==
    /\ cli.pc \in {"blocking", "deferred"} /\ p \in cli.todo
    /\ disk[p] # Absent
    /\ Unlink(p)
    /\ UNCHANGED <<state, plan, upstream, cli, bounds, judged>>

remove_checksum_paths ==
    /\ cli.pc \in {"blocking", "deferred"}
    /\ \A p \in cli.todo : disk[p] = Absent
    /\ manifest' = [p \in Paths |-> IF p \in cli.todo THEN Absent ELSE manifest[p]]
    /\ IF cli.pc = "blocking"
       THEN Goto("download", ToFetch(cli.commit, Expected(cli.commit)))
       ELSE IF Cached(cli.commit) THEN Goto("verdict", {}) ELSE Goto("checksums", Paths)
    /\ UNCHANGED <<disk, stale, state, plan, upstream, bounds, judged>>

\* derive_state at the end of both: cached if the manifest vouches for the
\* commit or the repaired files have just been recorded.
Repaired ==
    LET cached == (cli.op = "repair" /\ cli.later # {}) \/ Cached(cli.commit) IN
    Derived(cli.commit, IF cli.op = "update" THEN cli.commit ELSE state.upstream,
            Bad(cli.commit, cached, cached),
            IF cached THEN Unknown(cli.commit) ELSE {})

\* persist_repair_state: a clean result takes the plan along, and first.
persist_plan ==
    /\ cli.op \in {"repair", "update"} /\ cli.pc = "verdict"
    /\ Repaired.status = "clean" /\ plan # cli.commit
    /\ plan' = cli.commit
    /\ UNCHANGED <<payload, state, upstream, cli, bounds, judged>>

\* The state without the plan.
persist_repair_state_alone ==
    /\ cli.op \in {"repair", "update"} /\ cli.pc = "verdict"
    /\ Conclude(Repaired, cli.as)
    /\ UNCHANGED <<payload, plan, upstream, bounds>>

persist_repair_state ==
    /\ cli.op \in {"repair", "update"} /\ cli.pc = "verdict"
    /\ Repaired.status = "clean" => plan = cli.commit
    /\ Conclude(Repaired, cli.as)
    /\ UNCHANGED <<payload, plan, upstream, bounds>>

-----------------------------------------------------------------------------
(***************************************************************************)
(* What happens between commands.                                          *)
(***************************************************************************)

\* A file is deleted, truncated, edited, or rots without its size and mtime
\* telling; or somebody puts a file where there is none.
FileChanges ==
    /\ cli.pc = "idle" /\ faults > 0 /\ faults' = faults - 1
    /\ judged' = "no"
    /\ \E p \in Paths :
         \/ \E d \in {Absent, Torn, Edited} \ {disk[p]} :
               disk' = [disk EXCEPT ![p] = d] /\ stale' = stale \cup {p}
         \/ /\ Sized(p)
            /\ disk' = [disk EXCEPT ![p] = Rotten]
            /\ UNCHANGED stale
    /\ UNCHANGED <<manifest, state, plan, upstream, cli, budget>>

\* A file is copied or restored with its bytes intact and another mtime.
FileTouched ==
    /\ cli.pc = "idle" /\ faults > 0 /\ faults' = faults - 1
    /\ judged' = "no"
    /\ \E p \in Paths : disk[p] # Absent /\ stale' = stale \cup {p}
    /\ UNCHANGED <<disk, manifest, state, plan, upstream, cli, budget>>

\* A command resolves the revision once, when it starts.
UpstreamMoves ==
    /\ cli.pc = "idle"
    /\ \E c \in Commits \ {upstream} : upstream' = c
    /\ UNCHANGED <<payload, state, plan, cli, bounds, judged>>

Next ==
    \/ mirror_present \/ mirror_download \/ write_snapshot_plan \/ mirror_verdict
    \/ verify \/ verify_verdict \/ verify_unavailable \/ verify_one_offline
    \/ handle_offline_mode
    \/ repair \/ repair_download \/ reconcile_snapshot_plan
    \/ update_to_upstream \/ remove_checksum_paths
    \/ persist_plan \/ persist_repair_state
    \/ fetched_all \/ checksums_written
    \/ \E p \in Paths :
         \/ fetched(p) \/ fetch_unlink(p) \/ fetch(p) \/ checksum(p)
         \/ unlink_recorded(p) \/ remove_obsolete(p)
    \/ Stops
    \/ FileChanges \/ FileTouched \/ UpstreamMoves

Spec == Init /\ [][Next]_vars

-----------------------------------------------------------------------------

\* The file a path should hold is there, whether or not it has rotted since.
Holds(p, c) == disk[p] \in {Snapshot[c][p], Rotten}

\* A command that declares the archive clean has seen every file of the
\* commit: after a full verification, by its bytes; after the commands that
\* trust current manifest rows, up to damage that size and mtime do not show.
\* Offline verification sees only what the manifest lists.
CleanEarned ==
    state.status = "clean" =>
        /\ judged \notin {"no", "offline"} => \A p \in Expected(state.commit) : Holds(p, state.commit)
        /\ judged = "verify" => \A p \in Expected(state.commit) : disk[p] = Snapshot[state.commit][p]

\* A row that is current tells the truth about its file, unless the file has
\* rotted unseen, whatever was interrupted before.
ManifestHonest ==
    \A p \in Paths : Current(p) => manifest[p] = disk[p] \/ disk[p] = Rotten

\* A command that restores files and runs to its end leaves a clean archive,
\* from whatever interrupted commands have left: a mirror that downloads, an
\* update, and a repair that follows a full verification; the last one even of
\* damage that size and mtime do not show.
TransfersCure ==
    judged \in {"download", "update", "cure"} =>
        /\ state.status = "clean"
        /\ \A p \in Expected(state.commit) :
             Holds(p, state.commit) /\ (judged = "cure" => disk[p] # Rotten)

\* Only "repair --update" touches files while the archive still says clean.
MutationAnnounced ==
    [][cli.pc # "idle" /\ disk' # disk /\ cli.op # "update"
         => state.status # "clean"]_vars

\* A commit that was repaired or updated to is the one the snapshot plan
\* describes, or the next repair finds out and reconciles them.
PlanFollowsRepair ==
    judged \in {"repair", "cure", "update"} /\ state.status = "clean"
        => plan = state.commit

=============================================================================
