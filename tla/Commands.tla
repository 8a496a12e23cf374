------------------------------ MODULE Commands ------------------------------
(***************************************************************************)
(* The commands that read or write a mirror's publication: torrent         *)
(* publish, create, stop, show and retire, repair with and without         *)
(* --update, mirror and verify.  Each is a process p of Clis; a control    *)
(* point in LockedPc is inside a `with ModelLock(...)` block.  A command   *)
(* that finds the lock busy fails without effect, which is no step at all  *)
(* unless it has done something before.                                    *)
(***************************************************************************)
EXTENDS ArchiveRoot

Publishing == {"publish", "create", "publish-external"}

\* Commands whose whole work is done under one acquisition of the lock.
OneLock == Publishing \cup {"stop", "retire", "mirror", "verify", "show"}

AtCli(p, pc) == cli[p].pc = pc

Move(p, pc) == cli' = [cli EXCEPT ![p].pc = pc]

\* An exit path that forgets the lock.
Exit_leaking(p) ==
    /\ cli' = [cli EXCEPT ![p] = Idle]
    /\ lock' = lock

\* The command is over, and whatever lock it holds is released.
Exit(p) ==
    /\ cli' = [cli EXCEPT ![p] = Idle]
    /\ lock' = IF lock = p THEN NoProc ELSE lock

Acquire(p) == lock = NoProc /\ lock' = p

Write(r) == record' = [record EXCEPT ![fence] = r]

-----------------------------------------------------------------------------

\* ModelLock.__enter__ of a one-lock command.
Enter(p, op) ==
    /\ AtCli(p, "idle")
    /\ op \in Operations \cap OneLock
    /\ budget > 0 /\ budget' = budget - 1
    /\ Acquire(p)
    /\ cli' = [cli EXCEPT ![p] = [Idle EXCEPT !.op = op, !.pc = "locked"]]
    /\ UNCHANGED <<torrents, files, upstream, session, seeder, ghosts>>

Locked(p, op) == AtCli(p, "locked") /\ cli[p].op = op

\* Publishing on the strength of the verification state alone.
Publishable_by_state == state.status # "in_progress"

\* build_publication_descriptor: the state is clean and the manifest vouches
\* for exactly the files of the commit it names.
Publishable ==
    /\ state.status = "clean"
    /\ payload.commit = state.resolved_commit
    /\ manifest

\* The fence first, the record it names in the next step.
create_fence_first(p) ==
    /\ AtCli(p, "locked") /\ cli[p].op \in Publishing
    /\ Publishable
    /\ UpdateAllowed(state.resolved_commit)
    /\ fence' = state.resolved_commit
    /\ Move(p, "publish-fence")
    /\ UNCHANGED <<lock, record, files, upstream, session, seeder, budget, ghosts>>

\* create_publication up to the write of publication.json.
create_publication(p) ==
    /\ AtCli(p, "locked") /\ cli[p].op \in Publishing
    /\ Publishable
    /\ UpdateAllowed(state.resolved_commit)
    /\ record' = [record EXCEPT ![state.resolved_commit] =
                    created(@, cli[p].op = "publish",
                            IF cli[p].op = "publish-external"
                            THEN "external" ELSE "managed")]
    /\ fingerprints' = fingerprints \cup {state.resolved_commit}
    /\ intent' = (cli[p].op = "publish")
    /\ Move(p, "publish-fence")
    /\ UNCHANGED <<lock, fence, state, payload, manifest, upstream, session, seeder,
                   budget, missed>>

\* The fence is written after the record it names.
write_fence(p) ==
    /\ AtCli(p, "publish-fence")
    /\ fence' = state.resolved_commit
    /\ Exit(p)
    /\ UNCHANGED <<record, files, upstream, session, seeder, budget, ghosts>>

set_seed_desired(p) ==
    /\ Locked(p, "stop")
    /\ Fenced
    /\ Write(seed_stopped(fenced_record))
    /\ intent' = FALSE
    /\ Exit(p)
    /\ UNCHANGED <<fence, files, upstream, session, seeder, budget, missed>>

show(p) ==
    /\ Locked(p, "show")
    /\ Exit(p)
    /\ UNCHANGED <<torrents, files, upstream, session, seeder, budget, ghosts>>

-----------------------------------------------------------------------------
(***************************************************************************)
(* torrent retire: stop under the lock, wait without it, retire under it.  *)
(***************************************************************************)

\* Retiring without waiting for the backend.
retire_unfences(p) ==
    /\ Locked(p, "retire")
    /\ Fenced
    /\ Write(seed_stopped(fenced_record))
    /\ fence' = NoCommit
    /\ intent' = FALSE
    /\ Exit(p)
    /\ UNCHANGED <<files, upstream, session, seeder, budget, missed>>

retire_stop(p) ==
    /\ Locked(p, "retire")
    /\ Fenced
    /\ Write(seed_stopped(fenced_record))
    /\ intent' = FALSE
    /\ lock' = NoProc
    /\ Move(p, "retire-wait")
    /\ UNCHANGED <<fence, files, upstream, session, seeder, budget, missed>>

\* Not waiting for the backend at all.
Detached_assumed == Loadable

\* wait_for_maintenance_detach returns.
Detached == Loadable /\ (Fenced => ~attached(fenced_record))

wait_for_maintenance_detach(p) ==
    /\ Detached
    /\ \/ AtCli(p, "retire-wait") /\ Move(p, "retire-lock")
       \/ AtCli(p, "detach-wait") /\ Move(p, "repair-lock")
    /\ UNCHANGED <<lock, torrents, files, upstream, session, seeder, budget, ghosts>>

\* It times out, or the fence cannot be loaded.  repair() calls it before its
\* try block, so maintenance is not finished.
detach_timeout(p) ==
    /\ AtCli(p, "retire-wait") \/ AtCli(p, "detach-wait")
    /\ ~Detached
    /\ Exit(p)
    /\ UNCHANGED <<torrents, files, upstream, session, seeder, budget, ghosts>>

retire_lock(p) ==
    /\ AtCli(p, "retire-lock")
    /\ IF lock = NoProc THEN lock' = p /\ Move(p, "retiring") ELSE Exit(p)
    /\ UNCHANGED <<torrents, files, upstream, session, seeder, budget, ghosts>>

Retirable == Fenced /\ ~attached(fenced_record)

retire_publication(p) ==
    /\ AtCli(p, "retiring")
    /\ Retirable
    /\ Write(retired(fenced_record))
    /\ intent' = FALSE
    /\ Move(p, "retire-unlink")
    /\ UNCHANGED <<lock, fence, files, upstream, session, seeder, budget, missed>>

unlink_fence(p) ==
    /\ AtCli(p, "retire-unlink")
    /\ fence' = NoCommit
    /\ Exit(p)
    /\ UNCHANGED <<record, files, upstream, session, seeder, budget, ghosts>>

-----------------------------------------------------------------------------
(***************************************************************************)
(* repair and repair --update.                                             *)
(***************************************************************************)

\* repair() reads the state before it holds the lock, and on that reading
\* decides whether maintenance comes first.
repair_read(p) ==
    /\ AtCli(p, "idle")
    /\ "repair" \in Operations
    /\ budget > 0 /\ budget' = budget - 1
    /\ cli' = [cli EXCEPT ![p] =
                 [Idle EXCEPT !.op = "repair",
                              !.pc = IF state.status = "dirty"
                                     THEN "maintain" ELSE "repair-lock"]]
    /\ UNCHANGED <<lock, torrents, files, upstream, session, seeder, ghosts>>

\* With --update it checks the fence instead, also before it holds the lock.
update_read(p) ==
    /\ AtCli(p, "idle")
    /\ "update" \in Operations
    /\ budget > 0 /\ budget' = budget - 1
    /\ UpstreamChanged => UpdateAllowed(state.upstream_commit)
    /\ cli' = [cli EXCEPT ![p] = [Idle EXCEPT !.op = "update", !.pc = "repair-lock"]]
    /\ UNCHANGED <<lock, torrents, files, upstream, session, seeder, ghosts>>

maintenance_lock(p) ==
    /\ AtCli(p, "maintain")
    /\ IF lock = NoProc THEN lock' = p /\ Move(p, "beginning") ELSE Exit(p)
    /\ UNCHANGED <<torrents, files, upstream, session, seeder, budget, ghosts>>

Maintainable == Loadable /\ (Fenced => maintainable(fenced_record))

begin_maintenance(p) ==
    /\ AtCli(p, "beginning")
    /\ Maintainable
    /\ IF Fenced
       THEN /\ Write(in_maintenance(fenced_record))
            /\ cli' = [cli EXCEPT ![p].pc = "detach-wait", ![p].maintenance = TRUE]
       ELSE /\ UNCHANGED record
            /\ Move(p, "repair-lock")
    /\ lock' = NoProc
    /\ UNCHANGED <<fence, files, upstream, session, seeder, budget, ghosts>>

repair_lock(p) ==
    /\ AtCli(p, "repair-lock")
    /\ IF lock = NoProc
       THEN lock' = p /\ Move(p, "repair")
       ELSE IF cli[p].maintenance THEN UNCHANGED lock /\ Move(p, "failed") ELSE Exit(p)
    /\ UNCHANGED <<torrents, files, upstream, session, seeder, budget, ghosts>>

\* repair_locked reads the state again and dispatches on it.  Its branch that
\* reconciles the snapshot plan (repair.py:254-269) writes the plan only, which is
\* not kept here: Archive!reconcile_snapshot_plan has it.
repair_locked(p) ==
    /\ AtCli(p, "repair")
    /\ cli' = [cli EXCEPT ![p] =
          IF @.op = "update" /\ UpstreamChanged
          THEN [@ EXCEPT !.pc = "transfer", !.target = state.upstream_commit]
          ELSE IF state.status = "dirty"
          THEN [@ EXCEPT !.pc = "transfer", !.target = state.resolved_commit]
          ELSE [@ EXCEPT !.pc = "finish", !.healthy = (state.status = "clean")]]
    /\ UNCHANGED <<lock, torrents, files, upstream, session, seeder, budget, ghosts>>

\* finish_maintenance, and the end of the locked block.
finish_maintenance(p) ==
    /\ AtCli(p, "finish")
    /\ IF cli[p].maintenance /\ Fenced
       THEN /\ Write(after_maintenance(fenced_record, cli[p].healthy))
            /\ intent' = (intent /\ cli[p].healthy)
       ELSE UNCHANGED <<record, intent>>
    /\ Exit(p)
    /\ UNCHANGED <<fence, files, upstream, session, seeder, budget, missed>>

\* An exception in the locked block: maintenance is finished as unhealthy
\* under another acquisition, unless that finds the lock busy.
failed_lock(p) ==
    /\ AtCli(p, "failed")
    /\ IF lock = NoProc THEN lock' = p /\ Move(p, "failing") ELSE Exit(p)
    /\ UNCHANGED <<torrents, files, upstream, session, seeder, budget, ghosts>>

finish_failed(p) ==
    /\ AtCli(p, "failing")
    /\ IF Fenced
       THEN /\ Write(after_maintenance(fenced_record, FALSE))
            /\ intent' = FALSE
       ELSE UNCHANGED <<record, intent>>
    /\ Exit(p)
    /\ UNCHANGED <<fence, files, upstream, session, seeder, budget, missed>>

\* repair_locked gives up: the manifest lacks a row for a file the last
\* verification did not complain about.
verification_incomplete(p) ==
    /\ AtCli(p, "repair")
    /\ state.status = "dirty" /\ ~(cli[p].op = "update" /\ UpstreamChanged)
    /\ ~manifest
    /\ cli' = [cli EXCEPT ![p].pc = "finish", ![p].healthy = FALSE]
    /\ UNCHANGED <<lock, torrents, files, upstream, session, seeder, budget, ghosts>>

-----------------------------------------------------------------------------
(***************************************************************************)
(* mirror and verify, and the transfer of a snapshot into the payload that *)
(* mirror, repair and repair --update share.                               *)
(***************************************************************************)

\* select_mirror_snapshot: an interrupted mirror resumes its snapshot plan.
\* The plan is not kept here, and it may be older than the state beside it.
MirrorTargets == IF state.status = "in_progress" THEN Commits ELSE {upstream}

\* mirror_locked finds every file of the target present with its size, which
\* may also hold of damaged files or of another commit's, and hashes them
\* unless the target is known to be clean.
mirror_present(p) ==
    /\ Locked(p, "mirror")
    /\ \E target \in MirrorTargets :
         /\ UpdateAllowed(target)
         /\ IF state.status = "clean" /\ state.resolved_commit = target
            THEN UNCHANGED <<state, manifest>>
            ELSE /\ state' = [status |-> IF PayloadIs(target) THEN "clean" ELSE "dirty",
                             resolved_commit |-> target, upstream_commit |-> target]
                 /\ manifest' = payload.intact
    /\ Exit(p)
    /\ UNCHANGED <<torrents, payload, fingerprints, upstream, session, seeder, budget, ghosts>>

\* A replacement that allows itself the fenced commit's own publication.
mirror_over_publication(p) ==
    /\ Locked(p, "mirror")
    /\ \E target \in MirrorTargets :
         /\ Loadable
         /\ state' = [status |-> "in_progress", resolved_commit |-> target,
                      upstream_commit |-> target]
         /\ cli' = [cli EXCEPT ![p].pc = "transfer", ![p].target = target]
    /\ UNCHANGED <<lock, torrents, payload, manifest, fingerprints, upstream,
                   session, seeder, budget, ghosts>>

\* A transfer started without its target.
mirror_untargeted(p) ==
    /\ Locked(p, "mirror")
    /\ \E target \in MirrorTargets :
         /\ UpdateAllowed(target) /\ ~Fenced
         /\ state' = [status |-> "in_progress", resolved_commit |-> target,
                      upstream_commit |-> target]
         /\ Move(p, "transfer")
    /\ UNCHANGED <<lock, torrents, payload, manifest, fingerprints, upstream,
                   session, seeder, budget, ghosts>>

\* Otherwise the payload is replaced, which a publication forbids.
mirror_replace(p) ==
    /\ Locked(p, "mirror")
    /\ \E target \in MirrorTargets :
         /\ UpdateAllowed(target) /\ ~Fenced
         /\ state' = [status |-> "in_progress", resolved_commit |-> target,
                      upstream_commit |-> target]
         /\ cli' = [cli EXCEPT ![p].pc = "transfer", ![p].target = target]
    /\ UNCHANGED <<lock, torrents, payload, manifest, fingerprints, upstream,
                   session, seeder, budget, ghosts>>

\* A file of the target replaces what was in its place.
transfer_file(p) ==
    /\ AtCli(p, "transfer")
    /\ payload' = [commit |-> cli[p].target, intact |-> FALSE]
    /\ manifest' = FALSE
    /\ fingerprints' = {}
    /\ UNCHANGED <<lock, torrents, state, upstream, session, seeder, cli, budget, ghosts>>

\* The last file is in place and every file has its row in the manifest.
\* Files the manifest already vouches for are not fetched again.
transferred(p) ==
    /\ AtCli(p, "transfer")
    /\ IF PayloadIs(cli[p].target) /\ manifest
       THEN UNCHANGED <<payload, manifest, fingerprints>>
       ELSE /\ payload' = [commit |-> cli[p].target, intact |-> TRUE]
            /\ manifest' = TRUE
            /\ fingerprints' = {}
    /\ Move(p, "persist")
    /\ UNCHANGED <<lock, torrents, state, upstream, session, seeder, budget, ghosts>>

\* The Hub, the disk or an integrity check fails.
transfer_fails(p) ==
    /\ AtCli(p, "transfer")
    /\ IF cli[p].maintenance
       THEN Move(p, "failed") /\ lock' = NoProc
       ELSE Exit(p)
    /\ UNCHANGED <<torrents, files, upstream, session, seeder, budget, ghosts>>

\* derive_state and persist_repair_state.  A same-commit repair keeps the
\* upstream commit it read.  Only mirror hashes a file the manifest has no
\* current row for; the repairs call the verification incomplete.
persist_repair_state(p) ==
    /\ AtCli(p, "persist")
    /\ LET ok == PayloadIs(cli[p].target)
           hashed == manifest \/ cli[p].op = "mirror"
           status == IF ok THEN IF hashed THEN "clean" ELSE "incomplete" ELSE "dirty"
       IN
       /\ state' = IF cli[p].op = "repair"
                   THEN [state EXCEPT !.status = status]
                   ELSE [status |-> status, resolved_commit |-> cli[p].target,
                         upstream_commit |-> cli[p].target]
       /\ cli' = [cli EXCEPT ![p].pc = "finish", ![p].healthy = (status = "clean")]
    /\ UNCHANGED <<lock, torrents, payload, manifest, fingerprints, upstream, session,
                   seeder, budget, ghosts>>

\* verify hashes the payload against the commit the state names and notes
\* where the requested revision has moved.  A manifest that does not match
\* the files may fail it as well.
verify(p) ==
    /\ Locked(p, "verify")
    /\ \E ok \in {PayloadIs(state.resolved_commit)} \cup {manifest} :
         LET clean == ok /\ PayloadIs(state.resolved_commit) IN
         /\ state' = [state EXCEPT !.status = IF clean THEN "clean" ELSE "dirty",
                                   !.upstream_commit = upstream]
         /\ manifest' = (manifest \/ clean)
    /\ Exit(p)
    /\ UNCHANGED <<torrents, payload, fingerprints, upstream, session, seeder, budget, ghosts>>

-----------------------------------------------------------------------------

Allowed(p) ==
    CASE cli[p].op \in Publishing -> Publishable /\ UpdateAllowed(state.resolved_commit)
      [] cli[p].op \in {"stop", "retire"} -> Fenced
      [] cli[p].op \in {"mirror", "verify"} -> FALSE
      [] OTHER -> TRUE

\* A locked block raises before it has written anything: its precondition
\* does not hold or, for mirror and verify, the Hub does not answer.
refuse(p) ==
    /\ \/ AtCli(p, "locked") /\ ~Allowed(p)
       \/ AtCli(p, "retiring") /\ ~Retirable
       \/ AtCli(p, "beginning") /\ ~Maintainable
    /\ Exit(p)
    /\ UNCHANGED <<torrents, files, upstream, session, seeder, budget, ghosts>>

\* The process is killed; the kernel drops its lock.
CliCrash(p) ==
    /\ ~AtCli(p, "idle")
    /\ Exit(p)
    /\ UNCHANGED <<torrents, files, upstream, session, seeder, budget, ghosts>>

-----------------------------------------------------------------------------

Issue(p) == (\E op \in OneLock : Enter(p, op)) \/ repair_read(p) \/ update_read(p)

\* What a running command does next.
CliRuns(p) ==
    \/ create_publication(p) \/ write_fence(p) \/ set_seed_desired(p) \/ show(p)
    \/ retire_stop(p) \/ wait_for_maintenance_detach(p) \/ detach_timeout(p)
    \/ retire_lock(p) \/ retire_publication(p) \/ unlink_fence(p)
    \/ maintenance_lock(p) \/ begin_maintenance(p) \/ repair_lock(p)
    \/ repair_locked(p) \/ verification_incomplete(p)
    \/ finish_maintenance(p) \/ failed_lock(p) \/ finish_failed(p)
    \/ mirror_present(p) \/ mirror_replace(p)
    \/ transfer_file(p) \/ transferred(p) \/ transfer_fails(p)
    \/ persist_repair_state(p) \/ verify(p) \/ refuse(p)

CliStep(p) == Issue(p) \/ CliRuns(p) \/ CliCrash(p)

=============================================================================
