--------------------------- MODULE ManagedSeeder ---------------------------
(***************************************************************************)
(* The process behind "torrent serve": ManagedSeeder of torrent_seed.py.   *)
(* Each pass of reconcile() discovers the fenced publication without the   *)
(* lock, first detaches handles that are no longer wanted, then attaches   *)
(* what is wanted.  The lock is tried, never waited for: a busy archive is *)
(* skipped until the next pass.  `session` stands both for the handles of  *)
(* the libtorrent session and for ManagedSeeder.active, which change       *)
(* together.                                                               *)
(***************************************************************************)
EXTENDS ArchiveRoot

At(pc) == seeder.pc = pc

Goto(pc) == seeder' = [seeder EXCEPT !.pc = pc]

\* The pass is over for this archive; nothing of it is remembered.
Sleep == seeder' = [Down EXCEPT !.pc = "sleep"]

\* The process ends: closed, by an exception or by a crash.  libtorrent's
\* session is gone and the kernel drops the lock.
Gone ==
    /\ seeder' = Down
    /\ session' = {}
    /\ lock' = IF lock = Seeder THEN NoProc ELSE lock

Observe(r) == record' = [record EXCEPT ![fence] = r]

-----------------------------------------------------------------------------

Start ==
    /\ At("down")
    /\ Sleep
    /\ UNCHANGED <<lock, torrents, files, upstream, session, cli, budget, ghosts>>

\* discover_publications: a fence that cannot be loaded is skipped.
discover_publications ==
    /\ At("sleep")
    /\ seeder' = IF Fenced
                 THEN [Down EXCEPT !.pc = "detach", !.commit = fence,
                                   !.found = fenced_record, !.todo = session]
                 ELSE [Down EXCEPT !.pc = "detach", !.todo = session]
    /\ UNCHANGED <<lock, torrents, files, upstream, session, cli, budget, ghosts>>

\* Holding on to whatever belongs to the fenced publication.
Keeps_fenced(c) == seeder.commit = c

\* A handle is discarded only when the discovered record does not want it.
Keeps(c) == seeder.commit = c /\ wanted(seeder.found)

Proceed(c) == [seeder EXCEPT !.pc = "detach", !.todo = @ \ {c}, !.handle = NoCommit]

DetachKeep(c) ==
    /\ At("detach") /\ c \in seeder.todo
    /\ Keeps(c)
    /\ seeder' = Proceed(c)
    /\ UNCHANGED <<lock, torrents, files, upstream, session, cli, budget, ghosts>>

\* Nothing discovered at this root: the handle goes without the lock.
DetachUnfenced(c) ==
    /\ At("detach") /\ c \in seeder.todo
    /\ seeder.commit = NoCommit
    /\ session' = session \ {c}
    /\ seeder' = Proceed(c)
    /\ UNCHANGED <<lock, torrents, files, upstream, cli, budget, ghosts>>

\* ModelBusyError: leave it to the next pass.
DetachBusy(c) ==
    /\ At("detach") /\ c \in seeder.todo
    /\ seeder.commit # NoCommit /\ ~Keeps(c)
    /\ lock # NoProc
    /\ seeder' = Proceed(c)
    /\ missed' = TRUE
    /\ UNCHANGED <<lock, torrents, files, upstream, session, cli, budget, intent>>

DetachLock(c) ==
    /\ At("detach") /\ c \in seeder.todo
    /\ seeder.commit # NoCommit /\ ~Keeps(c)
    /\ lock = NoProc
    /\ lock' = Seeder
    /\ seeder' = [seeder EXCEPT !.pc = "detaching", !.handle = c]
    /\ UNCHANGED <<torrents, files, upstream, session, cli, budget, ghosts>>

\* Under the lock the record is read again; only a record that is still not
\* wanted loses its handle and is reported stopped.
Detach ==
    /\ At("detaching") /\ Loadable
    /\ lock' = NoProc
    /\ seeder' = Proceed(seeder.handle)
    /\ \/ /\ Fenced /\ wanted(fenced_record)
          /\ missed' = TRUE
          /\ UNCHANGED <<record, session>>
       \/ /\ ~(Fenced /\ wanted(fenced_record))
          /\ session' = session \ {seeder.handle}
          /\ IF Fenced THEN Observe(observed(fenced_record, "stopped"))
                       ELSE UNCHANGED record
          /\ UNCHANGED missed
    /\ UNCHANGED <<fence, files, upstream, cli, budget, intent>>

-----------------------------------------------------------------------------

\* The second loop decides on the record as discovered, not as it is now.
Stopping ==
    /\ ~seeder.found.desired_seed
    /\ seeder.found.client_mode = "managed"
    /\ seeder.found.observed_backend = "stopping"

\* Attaching only what a command has just asked for.
Missing_pending ==
    /\ wanted(seeder.found) /\ seeder.commit \notin session
    /\ seeder.found.observed_backend = "pending"

Missing == wanted(seeder.found) /\ seeder.commit \notin session

SecondLoop == At("detach") /\ seeder.todo = {}

NothingToAttach ==
    /\ SecondLoop
    /\ seeder.commit = NoCommit \/ ~(Stopping \/ Missing)
    /\ Sleep
    /\ UNCHANGED <<lock, torrents, files, upstream, session, cli, budget, ghosts>>

\* _set_observed loads the fence without the lock first.
ReportLoad ==
    /\ SecondLoop
    /\ seeder.commit # NoCommit /\ Stopping
    /\ Loadable
    /\ IF Fenced THEN Goto("report") ELSE Sleep
    /\ UNCHANGED <<lock, torrents, files, upstream, session, cli, budget, ghosts>>

ReportLock ==
    /\ At("report")
    /\ IF lock = NoProc THEN lock' = Seeder /\ Goto("reporting")
                        ELSE UNCHANGED lock /\ Sleep
    /\ UNCHANGED <<torrents, files, upstream, session, cli, budget, ghosts>>

\* update_observed_backend(state="stopped"), whatever the record says now.
Report ==
    /\ At("reporting") /\ Fenced
    /\ Observe(observed(fenced_record, "stopped"))
    /\ lock' = NoProc
    /\ Sleep
    /\ UNCHANGED <<fence, files, upstream, session, cli, budget, ghosts>>

AttachLock ==
    /\ SecondLoop
    /\ seeder.commit # NoCommit /\ Missing
    /\ IF lock = NoProc THEN lock' = Seeder /\ Goto("attaching")
                        ELSE UNCHANGED lock /\ Sleep
    /\ UNCHANGED <<torrents, files, upstream, session, cli, budget, ghosts>>

AttachNot ==
    /\ At("attaching") /\ Loadable
    /\ ~(Fenced /\ wanted(fenced_record))
    /\ lock' = NoProc
    /\ Sleep
    /\ UNCHANGED <<torrents, files, upstream, session, cli, budget, ghosts>>

\* payload_fingerprints_match failed: the publication is marked unhealthy.
AttachMismatch ==
    /\ At("attaching") /\ Fenced /\ wanted(fenced_record)
    /\ fence \notin fingerprints
    /\ Observe(unhealthy(fenced_record))
    /\ lock' = NoProc
    /\ Sleep
    /\ UNCHANGED <<fence, files, upstream, session, cli, budget, ghosts>>

\* Attaching whatever was discovered, without reading the record again under
\* the lock.
AttachDiscovered ==
    /\ At("attaching") /\ Fenced
    /\ fence \in fingerprints
    /\ session' = session \cup {fence}
    /\ Observe(observed(fenced_record, "seeding"))
    /\ lock' = NoProc
    /\ Sleep
    /\ UNCHANGED <<fence, files, upstream, cli, budget, ghosts>>

\* The torrent is added with every piece marked verified, or libtorrent or
\* the torrent file refuses.
Attach ==
    /\ At("attaching") /\ Fenced /\ wanted(fenced_record)
    /\ fence \in fingerprints
    /\ \/ /\ session' = session \cup {fence}
          /\ Observe(observed(fenced_record, "seeding"))
       \/ /\ Observe(observed(fenced_record, "error"))
          /\ UNCHANGED session
    /\ lock' = NoProc
    /\ Sleep
    /\ UNCHANGED <<fence, files, upstream, cli, budget, ghosts>>

-----------------------------------------------------------------------------

\* close() goes through the handles of the session.
BeginClose == seeder' = [Down EXCEPT !.pc = "close", !.todo = session]

\* SIGTERM is noticed between passes: close() detaches what it can lock.
Signal ==
    /\ At("sleep")
    /\ BeginClose
    /\ UNCHANGED <<lock, torrents, files, upstream, session, cli, budget, ghosts>>

CloseLock(c) ==
    /\ At("close") /\ c \in seeder.todo
    /\ IF lock = NoProc
       THEN /\ lock' = Seeder
            /\ seeder' = [seeder EXCEPT !.pc = "closing", !.handle = c]
       ELSE /\ seeder' = [seeder EXCEPT !.todo = @ \ {c}]
            /\ UNCHANGED lock
    /\ UNCHANGED <<torrents, files, upstream, session, cli, budget, ghosts>>

Close ==
    /\ At("closing") /\ Fenced
    /\ session' = session \ {seeder.handle}
    /\ Observe(observed(fenced_record, "stopped"))
    /\ lock' = NoProc
    /\ seeder' = [seeder EXCEPT !.pc = "close", !.todo = @ \ {seeder.handle},
                                !.handle = NoCommit]
    /\ UNCHANGED <<fence, files, upstream, cli, budget, ghosts>>

Closed ==
    /\ At("close") /\ seeder.todo = {}
    /\ Gone
    /\ UNCHANGED <<torrents, files, upstream, cli, budget, ghosts>>

\* A load that raises escapes the block it is in, and reconcile() or close().
Raises ==
    \/ At("detaching") /\ ~Loadable
    \/ SecondLoop /\ seeder.commit # NoCommit /\ Stopping /\ ~Loadable
    \/ At("reporting") /\ ~Fenced
    \/ At("attaching") /\ ~Loadable
    \/ At("closing") /\ ~Fenced

\* What escapes a pass still has serve() close the seeder; what escapes close()
\* ends the process.  ("serve --once" has no such finally: it is SeederCrash.)
SeederRaises ==
    /\ Raises
    /\ \/ /\ ~At("closing")
          /\ BeginClose
          /\ lock' = IF lock = Seeder THEN NoProc ELSE lock
          /\ UNCHANGED session
       \/ At("closing") /\ Gone
    /\ UNCHANGED <<torrents, files, upstream, cli, budget, ghosts>>

SeederCrash ==
    /\ ~At("down")
    /\ Gone
    /\ UNCHANGED <<torrents, files, upstream, cli, budget, ghosts>>

-----------------------------------------------------------------------------

\* reconcile(), one step of it.
Reconcile ==
    \/ discover_publications
    \/ \E c \in Commits :
         DetachKeep(c) \/ DetachUnfenced(c) \/ DetachBusy(c) \/ DetachLock(c)
    \/ Detach
    \/ NothingToAttach \/ ReportLoad \/ ReportLock \/ Report
    \/ AttachLock \/ AttachNot \/ AttachMismatch \/ Attach
    \/ SeederRaises

\* close(), once a signal was noticed or a pass has failed.
Finish == (\E c \in Commits : CloseLock(c)) \/ Close \/ Closed

SeederStep == Start \/ Reconcile \/ Signal \/ Finish \/ SeederCrash

=============================================================================
