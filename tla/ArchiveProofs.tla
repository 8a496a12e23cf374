---------------------------- MODULE ArchiveProofs ----------------------------
(***************************************************************************)
(* Theorems about Archive, for any paths, commits and snapshots, and any   *)
(* number of commands and faults: the invariants the runs check, the one   *)
(* action property, and the inductive invariant they follow from.          *)
(***************************************************************************)
EXTENDS Archive, TLAPS

\* The control points at which a command may touch files.
Touching == {"plan", "download", "unlink", "blocking", "deferred"}

\* A command other than an update that may touch files has said so.
Announced ==
    cli.op # "update" /\ cli.pc \in Touching => state.status # "clean"

\* A judgement is one of a command that has ended.
Settled == judged # "no" => cli.pc = "idle"

\* Which commands pass which control points, and how they judge.
Ordered ==
    /\ cli.pc # "idle" => cli.commit \in Commits
    /\ \/ cli.op = "none" /\ cli.pc = "idle"
       \/ /\ cli.op = "mirror"
          /\ \/ cli.as = "checked" /\ cli.pc \in {"checksums", "verdict"}
             \/ cli.as = "download" /\ cli.pc \in {"plan", "download", "checksums", "verdict"}
       \/ /\ cli.op = "verify" /\ cli.as \in {"verify", "cached"}
          /\ cli.pc \in {"checksums", "verdict"}
       \/ /\ cli.op = "repair" /\ cli.as \in {"repair", "cure"}
          /\ cli.pc \in {"unlink", "download", "verdict"}
       \/ /\ cli.op = "update" /\ cli.as = "update"
          /\ cli.pc \in {"blocking", "download", "deferred", "checksums", "verdict"}

\* A mirror or an update: what it has left to fetch is all there is to fetch,
\* and what it removes is not part of the commit.
Restoring ==
    cli.as \in {"download", "update"} =>
        LET expected == Expected(cli.commit) IN
        /\ cli.pc = "download" =>
             /\ cli.todo \subseteq expected
             /\ \A p \in expected \ cli.todo : Recorded(cli.commit, p)
        /\ cli.pc \in {"deferred", "checksums", "verdict"} =>
             \A p \in expected : Recorded(cli.commit, p)
        /\ cli.op = "update" => cli.later \cap expected = {}
        /\ cli.pc \in {"blocking", "deferred"} => cli.todo \cap expected = {}

\* The file is as expected, and so is its row.
Exact(c, p) == Recorded(c, p) /\ disk[p] = Snapshot[c][p]

\* A repair after a full verification.
Curing ==
    cli.as = "cure" =>
        LET expected == Expected(cli.commit) IN
        /\ cli.later \subseteq expected
        /\ cli.pc = "unlink" =>
             /\ cli.todo \subseteq cli.later
             /\ \A p \in expected \ cli.later : Exact(cli.commit, p)
             /\ \A p \in cli.later \ cli.todo : disk[p] = Absent
        /\ cli.pc = "download" =>
             /\ cli.todo \subseteq expected
             /\ \A p \in expected \ cli.todo : Exact(cli.commit, p)
        /\ cli.pc = "verdict" => \A p \in expected : Exact(cli.commit, p)

\* What a full verification leaves out of the repair paths is as expected.
Verified ==
    judged = "verify" =>
        /\ state.commit \in Commits
        /\ \A p \in Expected(state.commit) \ state.repair :
             disk[p] = Snapshot[state.commit][p]

-----------------------------------------------------------------------------

\* The actions by what they do to the command.
Starts ==
    \/ mirror_present \/ mirror_download \/ verify \/ repair
    \/ reconcile_snapshot_plan \/ update_to_upstream

Instant == verify_unavailable \/ verify_one_offline \/ handle_offline_mode

Works ==
    \/ write_snapshot_plan \/ repair_download \/ remove_checksum_paths
    \/ persist_plan \/ fetched_all \/ checksums_written
    \/ \E p \in Paths :
         \/ fetched(p) \/ fetch_unlink(p) \/ fetch(p) \/ checksum(p)
         \/ unlink_recorded(p) \/ remove_obsolete(p)

Ends == mirror_verdict \/ verify_verdict \/ persist_repair_state

Outside == FileChanges \/ FileTouched \/ UpstreamMoves

\* How a command moves on.
LEMMA Moves ==
    ASSUME cli \in Command
    PROVE  /\ \A pc, todo : Goto(pc, todo) =>
                /\ cli' = [cli EXCEPT !.pc = pc, !.todo = todo]
                /\ cli'.pc = pc /\ cli'.todo = todo
                /\ cli'.op = cli.op /\ cli'.commit = cli.commit /\ cli'.later = cli.later
                /\ cli'.as = cli.as /\ cli'.verify = cli.verify
BY DEF Goto, Command

\* What each kind of action leaves alone.
LEMMA Frames ==
    /\ Starts => cli.pc = "idle" /\ judged' = "no" /\ UNCHANGED <<payload, plan, upstream>>
    /\ Instant => /\ cli.pc = "idle" /\ judged' \in {"no", "offline"}
                  /\ UNCHANGED <<cli, payload, plan, upstream>>
    /\ Ends => /\ cli.pc = "verdict" /\ cli' = Idle
               /\ UNCHANGED <<payload, plan, upstream>>
    /\ Works => cli.pc # "idle" /\ UNCHANGED <<state, upstream, judged>>
    /\ Stops => cli.pc # "idle" /\ cli' = Idle /\ UNCHANGED <<payload, state, plan, upstream, judged>>
    /\ Outside => /\ cli.pc = "idle" /\ UNCHANGED <<cli, state, plan>>
                  /\ judged' = "no" \/ UNCHANGED <<judged, payload>>
<1>1. Starts => cli.pc = "idle" /\ judged' = "no" /\ UNCHANGED <<payload, plan, upstream>>
    BY DEF Starts, mirror_present, mirror_download, verify, repair, reconcile_snapshot_plan,
           update_to_upstream, Begin
<1>2. Instant => /\ cli.pc = "idle" /\ judged' \in {"no", "offline"}
                 /\ UNCHANGED <<cli, payload, plan, upstream>>
    BY DEF Instant, verify_unavailable, verify_one_offline, handle_offline_mode, AtOnce
<1>3. Ends => /\ cli.pc = "verdict" /\ cli' = Idle
              /\ UNCHANGED <<payload, plan, upstream>>
    BY DEF Ends, mirror_verdict, verify_verdict, persist_repair_state, Conclude
<1>4. Works => cli.pc # "idle" /\ UNCHANGED <<state, upstream, judged>>
    BY DEF Works, write_snapshot_plan, repair_download, remove_checksum_paths, persist_plan,
           fetched_all, checksums_written, fetched, fetch_unlink, fetch, checksum,
           unlink_recorded, remove_obsolete, Fetching
<1>5. Stops => cli.pc # "idle" /\ cli' = Idle /\ UNCHANGED <<payload, state, plan, upstream, judged>>
    BY DEF Stops
<1>6. Outside => /\ cli.pc = "idle" /\ UNCHANGED <<cli, state, plan>>
                 /\ judged' = "no" \/ UNCHANGED <<judged, payload>>
    BY DEF Outside, FileChanges, FileTouched, UpstreamMoves
<1>7. QED
    BY <1>1, <1>2, <1>3, <1>4, <1>5, <1>6

\* There are no others.
LEMMA Kinds == Next <=> (Starts \/ Instant \/ Works \/ Ends \/ Stops \/ Outside)
BY DEF Next, Starts, Instant, Works, Ends, Outside

-----------------------------------------------------------------------------

\* A command, its fields given one by one.
Order(op, pc, c, todo, later, check, as) ==
    [op |-> op, pc |-> pc, commit |-> c, todo |-> todo, later |-> later,
     verify |-> check, as |-> as]

\* The command each of them starts.
LEMMA Started ==
    ASSUME TypeOK
    PROVE  /\ mirror_present =>
                \E c \in Commits, pc \in {"verdict", "checksums"}, t \in SUBSET Paths :
                    cli' = Order("mirror", pc, c, t, {}, TRUE, "checked")
           /\ mirror_download =>
                \E c \in Commits, v \in BOOLEAN :
                    cli' = Order("mirror", "plan", c, {}, {}, v, "download")
           /\ verify =>
                \E as \in {"cached", "verify"}, pc \in {"verdict", "checksums"}, t \in SUBSET Paths :
                    cli' = Order("verify", pc, Pinned, t, {}, TRUE, as)
           /\ reconcile_snapshot_plan =>
                    cli' = Order("repair", "verdict", state.commit, {}, {}, TRUE, "repair")
<1>a. \A f \in BOOLEAN : Selected(f) \in Commits
    BY DEF TypeOK, Selected, VerificationState
<1>1. ASSUME mirror_present
      PROVE  \E c \in Commits, pc \in {"verdict", "checksums"}, t \in SUBSET Paths :
                    cli' = Order("mirror", pc, c, t, {}, TRUE, "checked")
  <2>1. cli' = [Idle EXCEPT !.op = "mirror", !.commit = Selected(FALSE), !.as = "checked",
                    !.pc = IF Cached(Selected(FALSE)) THEN "verdict" ELSE "checksums",
                    !.todo = IF Cached(Selected(FALSE)) THEN {} ELSE Paths]
    BY <1>1 DEF mirror_present, Begin
  <2>2. cli' = Order("mirror", IF Cached(Selected(FALSE)) THEN "verdict" ELSE "checksums",
                     Selected(FALSE), IF Cached(Selected(FALSE)) THEN {} ELSE Paths, {}, TRUE, "checked")
    BY <2>1 DEF Order, Idle
  <2>3. QED
    BY <2>2, <1>a
<1>2. ASSUME mirror_download
      PROVE  \E c \in Commits, v \in BOOLEAN :
                    cli' = Order("mirror", "plan", c, {}, {}, v, "download")
  <2>1. PICK c \in Commits, v \in BOOLEAN :
            cli' = [Idle EXCEPT !.op = "mirror", !.commit = c, !.pc = "plan",
                            !.as = "download", !.verify = v]
    BY <1>2, <1>a DEF mirror_download, Begin
  <2>2. cli' = Order("mirror", "plan", c, {}, {}, v, "download")
    BY <2>1 DEF Order, Idle
  <2>3. QED
    BY <2>2
<1>3. ASSUME verify
      PROVE  \E as \in {"cached", "verify"}, pc \in {"verdict", "checksums"}, t \in SUBSET Paths :
                    cli' = Order("verify", pc, Pinned, t, {}, TRUE, as)
  <2>1. PICK as \in {"cached", "verify"}, pc \in {"verdict", "checksums"}, t \in SUBSET Paths :
            cli' = [Idle EXCEPT !.op = "verify", !.commit = Pinned, !.as = as,
                               !.pc = pc, !.todo = t]
    BY <1>3 DEF verify, Begin
  <2>2. cli' = Order("verify", pc, Pinned, t, {}, TRUE, as)
    BY <2>1 DEF Order, Idle
  <2>3. QED
    BY <2>2
<1>4. ASSUME reconcile_snapshot_plan
      PROVE  cli' = Order("repair", "verdict", state.commit, {}, {}, TRUE, "repair")
  <2>1. cli' = [Idle EXCEPT !.op = "repair", !.commit = state.commit, !.pc = "verdict",
                          !.as = "repair"]
    BY <1>4 DEF reconcile_snapshot_plan, Begin
  <2>2. QED
    BY <2>1 DEF Order, Idle
<1>5. QED
    BY <1>1, <1>2, <1>3, <1>4

\* A repair starts on the repair paths of its commit.
LEMMA RepairStarted ==
    ASSUME TypeOK, repair
    PROVE  \E force_partial \in BOOLEAN :
             LET paths == state.repair \cap Expected(state.commit) IN
             /\ Repairing(state.commit, paths, force_partial)
             /\ cli' = Order("repair", IF paths = {} THEN "verdict" ELSE "unlink", state.commit,
                             paths, paths, TRUE,
                             IF judged = "verify" /\ ~force_partial THEN "cure" ELSE "repair")
<1> DEFINE paths == state.repair \cap Expected(state.commit)
           as(f) == IF judged = "verify" /\ ~f THEN "cure" ELSE "repair"
           pc == IF paths = {} THEN "verdict" ELSE "unlink"
<1>1. PICK f \in BOOLEAN :
        /\ Repairing(state.commit, paths, f)
        /\ cli' = [Idle EXCEPT !.op = "repair", !.commit = state.commit, !.pc = pc,
                               !.todo = paths, !.later = paths, !.as = as(f)]
    BY DEF repair, Begin
<1>2. cli' = Order("repair", pc, state.commit, paths, paths, TRUE, as(f))
    BY <1>1 DEF Order, Idle
<1>3. QED
    BY <1>1, <1>2

\* An update removes only what its commit does not have.
LEMMA UpdateStarted ==
    ASSUME TypeOK, update_to_upstream
    PROVE  /\ state.upstream \in Commits
           /\ \E t, l \in SUBSET Paths :
                /\ (t \cup l) \cap Expected(state.upstream) = {}
                /\ cli' = Order("update", "blocking", state.upstream, t, l, TRUE, "update")
<1> DEFINE removed == IF plan = state.commit
                      THEN Expected(plan) \ Expected(state.upstream) ELSE {}
<1>1. state.upstream \in Commits
    BY DEF update_to_upstream, UpstreamChanged, TypeOK, VerificationState
<1>2. PICK t \in SUBSET removed :
        cli' = [Idle EXCEPT !.op = "update", !.commit = state.upstream, !.pc = "blocking",
                            !.todo = t, !.later = removed \ t, !.as = "update"]
    BY DEF update_to_upstream, Begin
<1>3. cli' = Order("update", "blocking", state.upstream, t, removed \ t, TRUE, "update")
    BY <1>2 DEF Order, Idle
<1>4. removed \subseteq Paths /\ removed \cap Expected(state.upstream) = {}
    BY DEF Expected
<1>5. t \in SUBSET Paths /\ (removed \ t) \in SUBSET Paths
      /\ (t \cup (removed \ t)) \cap Expected(state.upstream) = {}
    BY <1>4
<1>6. QED
    BY <1>1, <1>3, <1>5

\* They are commands, of a commit.
LEMMA StartTypes ==
    ASSUME TypeOK, Starts
    PROVE  cli' \in Command /\ cli'.commit \in Commits /\ state' \in VerificationState
<1>a. /\ state \in VerificationState /\ Pinned \in Commits
      /\ \A f \in BOOLEAN : Selected(f) \in Commits
    BY DEF TypeOK, Pinned, VerificationState, Selected
<1>1. CASE mirror_present
  <2>1. state' = state
    BY <1>1 DEF mirror_present
  <2>2. PICK c \in Commits, pc \in {"verdict", "checksums"}, t \in SUBSET Paths :
            cli' = Order("mirror", pc, c, t, {}, TRUE, "checked")
    BY <1>1, Started
  <2>3. QED
    BY <2>1, <2>2, <1>a DEF Order, Command, Judgement
<1>2. CASE mirror_download
  <2>1. \E c \in Commits : state' = InProgress(c)
    BY <1>2, <1>a DEF mirror_download
  <2>2. state' \in VerificationState
    BY <2>1 DEF InProgress, VerificationState, Status
  <2>3. PICK c \in Commits, v \in BOOLEAN :
            cli' = Order("mirror", "plan", c, {}, {}, v, "download")
    BY <1>2, Started
  <2>4. QED
    BY <2>2, <2>3 DEF Order, Command, Judgement
<1>3. CASE verify
  <2>1. state' = state
    BY <1>3 DEF verify
  <2>2. PICK as \in {"cached", "verify"}, pc \in {"verdict", "checksums"}, t \in SUBSET Paths :
            cli' = Order("verify", pc, Pinned, t, {}, TRUE, as)
    BY <1>3, Started
  <2>3. QED
    BY <2>1, <2>2, <1>a DEF Order, Command, Judgement
<1>4. CASE repair
  <2>1. state' = state /\ state.commit \in Commits
    BY <1>4, <1>a DEF repair, VerificationState
  <2>2. PICK paths \in SUBSET Paths, pc \in {"verdict", "unlink"}, as \in {"cure", "repair"} :
            cli' = Order("repair", pc, state.commit, paths, paths, TRUE, as)
    BY <1>4, RepairStarted DEF Expected
  <2>3. QED
    BY <2>1, <2>2, <1>a DEF Order, Command, Judgement
<1>5. CASE reconcile_snapshot_plan
  <2>1. state' = state /\ state.commit \in Commits
    BY <1>5, <1>a DEF reconcile_snapshot_plan, VerificationState
  <2>2. cli' = Order("repair", "verdict", state.commit, {}, {}, TRUE, "repair")
    BY <1>5, Started
  <2>3. QED
    BY <2>1, <2>2, <1>a DEF Order, Command, Judgement
<1>6. CASE update_to_upstream
  <2>1. state' = state
    BY <1>6 DEF update_to_upstream
  <2>2. PICK t, l \in SUBSET Paths :
            cli' = Order("update", "blocking", state.upstream, t, l, TRUE, "update")
    BY <1>6, UpdateStarted
  <2>3. state.upstream \in Commits
    BY <1>6, UpdateStarted
  <2>4. QED
    BY <2>1, <2>2, <2>3, <1>a DEF Order, Command, Judgement
<1>7. QED
    BY <1>1, <1>2, <1>3, <1>4, <1>5, <1>6 DEF Starts

-----------------------------------------------------------------------------

\* What each file operation does to one path.
LEMMA PayloadTypes ==
    ASSUME TypeOK, Ordered, Works
    PROVE  /\ disk' \in [Paths -> Contents \cup {Absent}]
           /\ manifest' \in [Paths -> Contents \cup {Absent}]
           /\ stale' \in SUBSET Paths
<1> USE DEF TypeOK
<1>a. \A p \in Paths : disk[p] \in Contents \cup {Absent} /\ manifest[p] \in Contents \cup {Absent}
    OBVIOUS
<1>1. CASE write_snapshot_plan \/ repair_download \/ persist_plan \/ fetched_all
    BY <1>1 DEF write_snapshot_plan, repair_download, persist_plan, fetched_all, payload
<1>2. CASE remove_checksum_paths \/ checksums_written
    BY <1>2, <1>a DEF remove_checksum_paths, checksums_written
<1>3. ASSUME NEW p \in Paths, fetch_unlink(p) \/ unlink_recorded(p) \/ remove_obsolete(p)
      PROVE  /\ disk' \in [Paths -> Contents \cup {Absent}]
             /\ manifest' \in [Paths -> Contents \cup {Absent}]
             /\ stale' \in SUBSET Paths
    BY <1>3, <1>a DEF fetch_unlink, unlink_recorded, remove_obsolete, Unlink
<1>4. ASSUME NEW p \in Paths, fetched(p) \/ checksum(p)
      PROVE  /\ disk' \in [Paths -> Contents \cup {Absent}]
             /\ manifest' \in [Paths -> Contents \cup {Absent}]
             /\ stale' \in SUBSET Paths
    BY <1>4, <1>a DEF fetched, checksum, Record
<1>5. ASSUME NEW p \in Paths, fetch(p)
      PROVE  /\ disk' \in [Paths -> Contents \cup {Absent}]
             /\ manifest' \in [Paths -> Contents \cup {Absent}]
             /\ stale' \in SUBSET Paths
  <2>1. cli.commit \in Commits
    BY <1>5 DEF fetch, Fetching, Ordered
  <2>2. Snapshot[cli.commit][p] \in Contents \cup {Absent}
    BY <2>1, ArchiveAssumption DEF Contents
  <2>3. QED
    BY <1>5, <2>2 DEF fetch
<1>6. QED
    BY <1>1, <1>2, <1>3, <1>4, <1>5 DEF Works

\* The state a command derives.
LEMMA EndTypes ==
    ASSUME TypeOK, Ordered, Ends
    PROVE  /\ state' \in VerificationState /\ state'.commit = cli.commit
           /\ state'.commit \in Commits
           /\ judged' \in {"no", cli.as}
<1>a. /\ cli.commit \in Commits /\ upstream \in Commits
      /\ state.upstream \in Commits \cup {NoCommit}
    BY Frames DEF Ordered, TypeOK, VerificationState
<1>b. /\ Failures \in SUBSET Paths
      /\ \A x, y : Bad(cli.commit, x, y) \in SUBSET Paths
    BY DEF Failures, Bad, Expected
<1>c. \A up \in Commits \cup {NoCommit}, bad \in SUBSET Paths : \A unknown :
        /\ Derived(cli.commit, up, bad, unknown) \in VerificationState
        /\ Derived(cli.commit, up, bad, unknown).commit = cli.commit
    BY <1>a DEF Derived, VerificationState, Status
<1>1. CASE mirror_verdict
  <2>1. /\ [InProgress(cli.commit) EXCEPT !.status = "dirty"] \in VerificationState
        /\ [InProgress(cli.commit) EXCEPT !.status = "dirty"].commit = cli.commit
    BY <1>a DEF InProgress, VerificationState, Status
  <2>2. /\ \/ state' = [InProgress(cli.commit) EXCEPT !.status = "dirty"]
           \/ state' = Derived(cli.commit, cli.commit, Bad(cli.commit, FALSE, TRUE), {})
        /\ judged' \in {"no", cli.as}
    BY <1>1 DEF mirror_verdict, Conclude
  <2>3. LET s == Derived(cli.commit, cli.commit, Bad(cli.commit, FALSE, TRUE), {}) IN
        s \in VerificationState /\ s.commit = cli.commit
    BY <1>a, <1>b, <1>c
  <2>4. QED
    BY <2>1, <2>2, <2>3, <1>a
<1>2. CASE verify_verdict
  <2>1. \E bad \in SUBSET Paths : \E unknown :
            state' = Derived(cli.commit, upstream, bad, unknown)
    BY <1>2, <1>b DEF verify_verdict, Conclude
  <2>2. judged' = cli.as
    BY <1>2 DEF verify_verdict, Conclude
  <2>3. QED
    BY <2>1, <2>2, <1>a, <1>c
<1>3. CASE persist_repair_state
  <2>1. \E up \in Commits \cup {NoCommit}, bad \in SUBSET Paths : \E unknown :
            state' = Derived(cli.commit, up, bad, unknown)
    BY <1>3, <1>a, <1>b DEF persist_repair_state, Repaired, Conclude
  <2>2. judged' = cli.as
    BY <1>3 DEF persist_repair_state, Conclude
  <2>3. QED
    BY <2>1, <2>2, <1>a, <1>c
<1>4. QED
    BY <1>1, <1>2, <1>3 DEF Ends

\* What a file that changes by itself becomes.
LEMMA OutsideTypes ==
    ASSUME TypeOK, Outside
    PROVE  TypeOK'
<1>1. CASE FileChanges
  <2>1. disk' \in [Paths -> Contents \cup {Absent}] /\ stale' \in SUBSET Paths
    BY <1>1 DEF FileChanges, TypeOK, Contents
  <2>2. QED
    BY <1>1, <2>1 DEF FileChanges, TypeOK, Judgement
<1>2. CASE FileTouched
    BY <1>2 DEF FileTouched, TypeOK, Judgement
<1>3. CASE UpstreamMoves
    BY <1>3 DEF UpstreamMoves, TypeOK, payload, bounds
<1>4. QED
    BY <1>1, <1>2, <1>3 DEF Outside

\* Commands that are one write.
LEMMA InstantTypes ==
    ASSUME TypeOK, Instant
    PROVE  TypeOK'
<1>1. state' \in VerificationState
  <2>1. Failures \in SUBSET Paths
    BY DEF Failures
  <2>2. QED
    <3>1. CASE verify_unavailable
        BY <3>1 DEF verify_unavailable, VerificationState, Status, NoState
    <3>2. CASE verify_one_offline
        BY <2>1, <3>2 DEF verify_one_offline, TypeOK, VerificationState, Status
    <3>3. CASE handle_offline_mode
        BY <3>3 DEF handle_offline_mode, TypeOK, VerificationState, Status
    <3>4. QED
        BY <3>1, <3>2, <3>3 DEF Instant
<1>2. budget' \in Nat /\ faults' \in Nat
    BY DEF Instant, verify_unavailable, verify_one_offline, handle_offline_mode, AtOnce, TypeOK
<1>3. QED
    BY <1>1, <1>2, Frames DEF TypeOK, payload, Judgement

\* The command, after a step of its own.
LEMMA WorkTypes ==
    ASSUME TypeOK, Ordered, Works
    PROVE  /\ cli' \in Command /\ plan' \in Commits \cup {NoCommit}
           /\ UNCHANGED bounds
<1>a. cli \in Command /\ cli.commit \in Commits /\ plan \in Commits \cup {NoCommit}
    BY Frames DEF TypeOK, Ordered
<1>b. \A pc \in {"download", "unlink", "deferred", "checksums", "verdict"}, todo \in SUBSET Paths :
        Goto(pc, todo) => cli' \in Command
    BY ZenonT(30), <1>a DEF Goto, Command
<1>c. /\ cli.todo \in SUBSET Paths /\ cli.later \in SUBSET Paths
      /\ \A paths \in SUBSET Paths : ToFetch(cli.commit, paths) \in SUBSET Paths
      /\ Expected(cli.commit) \in SUBSET Paths
    BY <1>a DEF Command, ToFetch, Expected
<1>1. CASE write_snapshot_plan \/ repair_download \/ persist_plan
    BY <1>1, <1>a, <1>b, <1>c DEF write_snapshot_plan, repair_download, persist_plan, bounds
<1>2. CASE fetched_all \/ remove_checksum_paths \/ checksums_written
    BY <1>2, <1>a, <1>b, <1>c DEF fetched_all, remove_checksum_paths, checksums_written, bounds
<1>3. ASSUME NEW p \in Paths,
             fetched(p) \/ fetch_unlink(p) \/ fetch(p) \/ checksum(p) \/ unlink_recorded(p)
               \/ remove_obsolete(p)
      PROVE  /\ cli' \in Command /\ plan' \in Commits \cup {NoCommit}
             /\ UNCHANGED bounds
    BY <1>3, <1>a, <1>b, <1>c DEF fetched, fetch_unlink, fetch, checksum, unlink_recorded,
                                 remove_obsolete, bounds
<1>4. QED
    BY <1>1, <1>2, <1>3 DEF Works

\* No command is one, too.
LEMMA IdleTypes == Idle \in Command /\ Idle.pc = "idle" /\ Idle.op = "none" /\ Idle.as = "no"
BY DEF Idle, Command, Judgement

\* Types are kept.
LEMMA TypeStep ==
    ASSUME TypeOK, Ordered, [Next]_vars
    PROVE  TypeOK'
<1>1. CASE Starts
  <2>1. budget > 0 /\ budget' = budget - 1 /\ UNCHANGED faults
    BY <1>1 DEF Starts, mirror_present, mirror_download, verify, repair,
               reconcile_snapshot_plan, update_to_upstream, Begin
  <2>2. budget' \in Nat /\ faults' \in Nat
    BY <2>1 DEF TypeOK
  <2>3. QED
    BY <1>1, <2>2, Frames, StartTypes DEF TypeOK, payload, Judgement
<1>2. CASE Instant
    BY <1>2, InstantTypes
<1>3. CASE Works
  <2>1. UNCHANGED <<state, upstream, judged>>
    BY <1>3, Frames
  <2>2. QED
    BY <1>3, <2>1, PayloadTypes, WorkTypes DEF TypeOK, bounds
<1>4. CASE Ends
  <2>1. cli' = Idle /\ UNCHANGED <<payload, plan, upstream>>
    BY <1>4, Frames
  <2>2. UNCHANGED bounds
    BY <1>4 DEF Ends, mirror_verdict, verify_verdict, persist_repair_state
  <2>3. judged' \in Judgement
    BY <1>4, EndTypes DEF TypeOK, Command, Judgement
  <2>4. QED
    BY <1>4, <2>1, <2>2, <2>3, EndTypes, IdleTypes DEF TypeOK, payload, bounds
<1>5. CASE Stops
    BY <1>5, IdleTypes DEF Stops, TypeOK, payload, bounds
<1>6. CASE Outside
    BY <1>6, OutsideTypes
<1>7. CASE UNCHANGED vars
    BY <1>7 DEF vars, TypeOK
<1>8. QED
    BY <1>1, <1>2, <1>3, <1>4, <1>5, <1>6, <1>7, Kinds

-----------------------------------------------------------------------------

\* Where a step of a command takes it.
LEMMA Control ==
    ASSUME TypeOK, Works
    PROVE  /\ cli'.op = cli.op /\ cli'.commit = cli.commit
           /\ cli'.later = cli.later /\ cli'.as = cli.as
           /\ \/ cli'.pc = cli.pc
              \/ cli.pc \in {"plan", "unlink", "blocking"} /\ cli'.pc = "download"
              \/ cli.pc = "download" /\ cli.op = "update" /\ cli'.pc = "deferred"
              \/ cli.pc = "download" /\ cli.op # "update" /\ cli'.pc = "verdict"
              \/ cli.pc = "download" /\ cli.op \notin {"update", "repair"} /\ cli'.pc = "checksums"
              \/ cli.pc = "deferred" /\ cli'.pc \in {"verdict", "checksums"}
              \/ cli.pc = "checksums" /\ cli'.pc = "verdict"
<1>a. cli \in Command
    BY DEF TypeOK
<1>1. CASE write_snapshot_plan \/ repair_download \/ fetched_all
    BY <1>1, <1>a, Moves DEF write_snapshot_plan, repair_download, fetched_all
<1>2. CASE remove_checksum_paths \/ checksums_written
    BY <1>2, <1>a, Moves DEF remove_checksum_paths, checksums_written
<1>3. ASSUME NEW p \in Paths, fetched(p) \/ unlink_recorded(p)
      PROVE  /\ cli'.op = cli.op /\ cli'.commit = cli.commit
             /\ cli'.later = cli.later /\ cli'.as = cli.as
             /\ cli'.pc = cli.pc
    BY <1>3, <1>a, Moves DEF fetched, unlink_recorded, Fetching
<1>4. ASSUME NEW p \in Paths, fetch_unlink(p) \/ fetch(p) \/ checksum(p) \/ remove_obsolete(p)
      PROVE  cli' = cli
    BY <1>4 DEF fetch_unlink, fetch, checksum, remove_obsolete
<1>5. CASE persist_plan
    BY <1>5 DEF persist_plan
<1>6. QED
    BY <1>1, <1>2, <1>3, <1>4, <1>5 DEF Works

\* A row is written only for the file just hashed, and a file that is replaced
\* outdates its row.
LEMMA HonestStep ==
    ASSUME TypeOK, Ordered, ManifestHonest, [Next]_vars
    PROVE  ManifestHonest'
<1> USE DEF ManifestHonest, Current
<1>a. /\ disk \in [Paths -> Contents \cup {Absent}]
      /\ manifest \in [Paths -> Contents \cup {Absent}]
    BY DEF TypeOK
<1>1. CASE UNCHANGED payload
    BY <1>1 DEF payload
<1>2. CASE remove_checksum_paths \/ checksums_written
    BY <1>2 DEF remove_checksum_paths, checksums_written
<1>3. ASSUME NEW p \in Paths, fetch_unlink(p) \/ unlink_recorded(p) \/ remove_obsolete(p)
      PROVE  ManifestHonest'
    BY <1>3, <1>a DEF fetch_unlink, unlink_recorded, remove_obsolete, Unlink
<1>4. ASSUME NEW p \in Paths, fetched(p) PROVE ManifestHonest'
    BY <1>4, <1>a DEF fetched, Record
<1>5. ASSUME NEW p \in Paths, checksum(p) PROVE ManifestHonest'
    BY <1>5, <1>a DEF checksum
<1>6. ASSUME NEW p \in Paths, fetch(p) PROVE ManifestHonest'
    BY <1>6, <1>a DEF fetch
<1>7. CASE FileChanges
  <2>1. PICK p \in Paths :
          \/ \E d : disk' = [disk EXCEPT ![p] = d] /\ stale' = stale \cup {p}
          \/ disk' = [disk EXCEPT ![p] = Rotten] /\ UNCHANGED stale
    BY <1>7 DEF FileChanges
  <2>2. UNCHANGED manifest /\ \A q \in Paths \ {p} : disk'[q] = disk[q]
    BY <1>7, <2>1, <1>a DEF FileChanges
  <2>3. p \in stale' \/ disk'[p] = Rotten
    BY <2>1, <1>a
  <2>4. stale \subseteq stale'
    BY <2>1
  <2>5. QED
    BY <2>2, <2>3, <2>4
<1>8. CASE FileTouched
    BY <1>8 DEF FileTouched
<1>9. CASE Works
  <2>1. CASE write_snapshot_plan \/ repair_download \/ persist_plan \/ fetched_all
    BY <2>1, <1>1 DEF write_snapshot_plan, repair_download, persist_plan, fetched_all
  <2>2. QED
    BY <1>9, <2>1, <1>2, <1>3, <1>4, <1>5, <1>6 DEF Works
<1>10. QED
  <2>1. CASE Starts \/ Instant \/ Ends \/ Stops \/ UNCHANGED vars
    BY <2>1, <1>1, Frames DEF vars, payload
  <2>2. CASE UpstreamMoves
    BY <2>2, <1>1 DEF UpstreamMoves
  <2>3. QED
    BY <2>1, <2>2, <1>7, <1>8, <1>9, Kinds DEF Outside

\* Commands keep to their control points.
LEMMA OrderedStep ==
    ASSUME TypeOK, Ordered, [Next]_vars
    PROVE  Ordered'
<1>1. CASE Starts
  <2>1. cli'.commit \in Commits
    BY <1>1, StartTypes
  <2>2. CASE mirror_present
    <3>1. PICK c \in Commits, pc \in {"verdict", "checksums"}, t \in SUBSET Paths :
            cli' = Order("mirror", pc, c, t, {}, TRUE, "checked")
      BY <2>2, Started
    <3>2. QED
      BY <2>1, <3>1 DEF Order, Ordered
  <2>3. CASE mirror_download
    <3>1. PICK c \in Commits, v \in BOOLEAN :
            cli' = Order("mirror", "plan", c, {}, {}, v, "download")
      BY <2>3, Started
    <3>2. QED
      BY <2>1, <3>1 DEF Order, Ordered
  <2>4. CASE verify
    <3>1. PICK as \in {"cached", "verify"}, pc \in {"verdict", "checksums"}, t \in SUBSET Paths :
            cli' = Order("verify", pc, Pinned, t, {}, TRUE, as)
      BY <2>4, Started
    <3>2. QED
      BY <2>1, <3>1 DEF Order, Ordered
  <2>5. CASE repair \/ reconcile_snapshot_plan
    <3>1. PICK t \in SUBSET Paths, pc \in {"verdict", "unlink"}, as \in {"cure", "repair"} :
            cli' = Order("repair", pc, state.commit, t, t, TRUE, as)
      <4>1. CASE repair
        BY <4>1, RepairStarted DEF Expected
      <4>2. CASE reconcile_snapshot_plan
        BY <4>2, Started
      <4>3. QED
        BY <2>5, <4>1, <4>2
    <3>2. QED
      BY <2>1, <3>1 DEF Order, Ordered
  <2>6. CASE update_to_upstream
    <3>1. PICK t, l : cli' = Order("update", "blocking", state.upstream, t, l, TRUE, "update")
      BY <2>6, UpdateStarted
    <3>2. QED
      BY <2>1, <3>1 DEF Order, Ordered
  <2>7. QED
    BY <1>1, <2>2, <2>3, <2>4, <2>5, <2>6 DEF Starts
<1>2. CASE Works
    BY <1>2, Control, Frames DEF Ordered
<1>3. CASE Ends \/ Stops
    BY <1>3, Frames, IdleTypes DEF Ordered
<1>4. CASE Instant \/ Outside \/ UNCHANGED vars
    BY <1>4, Frames DEF Ordered, vars
<1>5. QED
    BY <1>1, <1>2, <1>3, <1>4, Kinds

\* The state says what is going on before files are touched.
LEMMA AnnouncedStep ==
    ASSUME TypeOK, Ordered, Announced, [Next]_vars
    PROVE  Announced'
<1> USE DEF Announced, Touching
<1>1. CASE Starts
  <2>1. CASE mirror_present
    <3>1. PICK c \in Commits, pc \in {"verdict", "checksums"}, t \in SUBSET Paths :
            cli' = Order("mirror", pc, c, t, {}, TRUE, "checked")
      BY <2>1, Started
    <3>2. QED
      BY <3>1 DEF Order
  <2>2. CASE mirror_download
    BY <2>2 DEF mirror_download, InProgress
  <2>3. CASE verify
    <3>1. PICK as \in {"cached", "verify"}, pc \in {"verdict", "checksums"}, t \in SUBSET Paths :
            cli' = Order("verify", pc, Pinned, t, {}, TRUE, as)
      BY <2>3, Started
    <3>2. QED
      BY <3>1 DEF Order
  <2>4. CASE repair
    BY <2>4 DEF repair
  <2>5. CASE reconcile_snapshot_plan
    BY <2>5, Started DEF Order
  <2>6. CASE update_to_upstream
    <3>1. PICK t, l : cli' = Order("update", "blocking", state.upstream, t, l, TRUE, "update")
      BY <2>6, UpdateStarted
    <3>2. QED
      BY <3>1 DEF Order
  <2>7. QED
    BY <1>1, <2>1, <2>2, <2>3, <2>4, <2>5, <2>6 DEF Starts
<1>2. CASE Works
    BY <1>2, Control, Frames DEF Ordered
<1>3. CASE Ends \/ Stops
    BY <1>3, Frames, IdleTypes
<1>4. CASE Instant \/ Outside \/ UNCHANGED vars
    BY <1>4, Frames DEF vars
<1>5. QED
    BY <1>1, <1>2, <1>3, <1>4, Kinds

\* A command that starts takes the judgement back.
LEMMA SettledStep ==
    ASSUME Settled, [Next]_vars
    PROVE  Settled'
BY Kinds, Frames, IdleTypes DEF Settled, vars

-----------------------------------------------------------------------------

\* A recorded file stays recorded as long as neither it nor its row changes.
LEMMA RecordedKept ==
    \A c \in Commits, p \in Paths :
        /\ disk'[p] = disk[p] /\ manifest'[p] = manifest[p] /\ (p \in stale' => p \in stale)
        => /\ Recorded(c, p) => Recorded(c, p)'
           /\ Exact(c, p) => Exact(c, p)'
BY DEF Recorded, Exact, Sized, Current

\* A file that is as expected is recorded by hashing it.
LEMMA RecordedNow ==
    ASSUME TypeOK, NEW c \in Commits, NEW p \in Expected(c), disk[p] = Snapshot[c][p], Record(p)
    PROVE  Exact(c, p)'
<1>1. Snapshot[c][p] \in Versions /\ p \in Paths
    BY ArchiveAssumption DEF Expected
<1>2. Snapshot[c][p] \notin {Absent, Torn}
    BY <1>1, ArchiveAssumption DEF Contents
<1>3. disk' = disk /\ manifest'[p] = disk[p] /\ p \notin stale'
    BY <1>1 DEF Record, TypeOK
<1>4. QED
    BY <1>1, <1>2, <1>3 DEF Exact, Recorded, Sized, Current

\* The paths a file operation touches, and what it does to the other ones.
LEMMA Elsewhere ==
    ASSUME TypeOK
    PROVE  /\ \A p \in Paths : Unlink(p) \/ Record(p) \/ fetch(p) =>
                \A q \in Paths \ {p} :
                    disk'[q] = disk[q] /\ manifest'[q] = manifest[q] /\ (q \in stale' => q \in stale)
           /\ \A p \in Paths : checksum(p) \/ checksums_written =>
                \A c \in Commits, q \in Paths : Recorded(c, q) =>
                    disk'[q] = disk[q] /\ manifest'[q] = manifest[q] /\ (q \in stale' => q \in stale)
BY DEF TypeOK, Unlink, Record, fetch, checksum, checksums_written, Recorded, Sized, Current

\* A download, and an update, keep track of what is left to restore.
LEMMA RestoringWorks ==
    ASSUME TypeOK, Ordered, Restoring, Works
    PROVE  Restoring'
<1>1. SUFFICES ASSUME cli.as \in {"download", "update"} PROVE Restoring'
    BY Control DEF Restoring
<1>2. PICK c \in Commits : c = cli.commit
    BY Frames DEF Ordered
<1> DEFINE expected == Expected(c)
<1>3. cli'.commit = c /\ cli'.op = cli.op /\ cli'.later = cli.later /\ cli \in Command
    BY <1>2, Control DEF TypeOK
<1>4. /\ cli.op = "update" => cli.later \cap expected = {}
      /\ cli.pc = "download" =>
           /\ cli.todo \subseteq expected
           /\ \A p \in expected \ cli.todo : Recorded(c, p)
      /\ cli.pc \in {"deferred", "checksums", "verdict"} => \A p \in expected : Recorded(c, p)
      /\ cli.pc \in {"blocking", "deferred"} => cli.todo \cap expected = {}
    BY <1>1, <1>2 DEF Restoring
<1> DEFINE Restored ==
             /\ cli'.pc = "download" =>
                  /\ cli'.todo \subseteq expected
                  /\ \A p \in expected \ cli'.todo : Recorded(c, p)'
             /\ cli'.pc \in {"deferred", "checksums", "verdict"} =>
                  \A p \in expected : Recorded(c, p)'
             /\ cli'.pc \in {"blocking", "deferred"} => cli'.todo \cap expected = {}
<1>5. SUFFICES Restored
    BY <1>3, <1>4 DEF Restoring
<1>6. cli.op \in {"mirror", "update"} /\ cli.pc # "unlink"
    BY <1>1, Frames DEF Ordered
<1>7. expected \subseteq Paths
    BY DEF Expected
<1>8. \A pc, todo : Goto(pc, todo) => cli'.pc = pc /\ cli'.todo = todo
    BY <1>3, Moves
<1>9. UNCHANGED payload => \A p \in expected : Recorded(c, p) => Recorded(c, p)'
    BY <1>7, RecordedKept DEF payload
<1>10. \A p \in expected \ ToFetch(c, expected) : Recorded(c, p)
    BY DEF ToFetch
<1>11. CASE write_snapshot_plan
  <2>1. cli'.pc = "download" /\ cli'.todo = ToFetch(c, expected) /\ UNCHANGED payload
    BY <1>2, <1>8, <1>11 DEF write_snapshot_plan
  <2>2. QED
    BY <2>1, <1>9, <1>10 DEF ToFetch
<1>12. CASE remove_checksum_paths
  <2>1. /\ cli.pc \in {"blocking", "deferred"} /\ UNCHANGED <<disk, stale>>
        /\ \A p \in Paths : p \notin cli.todo => manifest'[p] = manifest[p]
    BY <1>12 DEF remove_checksum_paths, TypeOK
  <2>2. \A p \in expected : Recorded(c, p) => Recorded(c, p)'
    BY <2>1, <1>4, <1>7, RecordedKept
  <2>3. CASE cli.pc = "blocking"
    <3>1. cli'.pc = "download" /\ cli'.todo = ToFetch(c, expected)
      BY <1>2, <1>8, <1>12, <2>3 DEF remove_checksum_paths
    <3>2. QED
      BY <3>1, <2>2, <1>10 DEF ToFetch
  <2>4. CASE cli.pc = "deferred"
    <3>1. cli'.pc \in {"verdict", "checksums"}
      BY <1>8, <1>12, <2>4 DEF remove_checksum_paths
    <3>2. QED
      BY <3>1, <2>2, <2>4, <1>4
  <2>5. QED
    BY <2>1, <2>3, <2>4
<1>13. CASE persist_plan
  <2>1. UNCHANGED <<payload, cli>>
    BY <1>13 DEF persist_plan, payload
  <2>2. QED
    BY <2>1, <1>4, <1>9
<1>14. CASE fetched_all
  <2>1. /\ cli.pc = "download" /\ cli.todo = {} /\ UNCHANGED payload
        /\ \/ cli.op = "update" /\ cli'.pc = "deferred" /\ cli'.todo = cli.later
           \/ cli'.pc \in {"verdict", "checksums"}
    BY <1>8, <1>14 DEF fetched_all
  <2>2. QED
    BY <2>1, <1>4, <1>9
<1>15. CASE checksums_written
  <2>1. cli.pc = "checksums" /\ cli'.pc = "verdict"
    BY <1>8, <1>15 DEF checksums_written
  <2>2. \A p \in expected : Recorded(c, p)'
    BY <2>1, <1>4, <1>7, <1>15, Elsewhere, RecordedKept
  <2>3. QED
    BY <2>1, <2>2
<1>16. ASSUME NEW p \in Paths, fetched(p) PROVE Restored
  <2>1. /\ cli.pc = "download" /\ p \in cli.todo /\ disk[p] = Snapshot[c][p]
        /\ Record(p)
        /\ cli'.pc = "download" /\ cli'.todo = cli.todo \ {p}
    BY <1>2, <1>8, <1>16 DEF fetched, Fetching
  <2>2. Recorded(c, p)'
    BY <2>1, <1>4, RecordedNow DEF Exact
  <2>3. \A q \in expected \ cli.todo : Recorded(c, q)'
    BY <2>1, <1>4, <1>7, Elsewhere, RecordedKept
  <2>4. QED
    BY <2>1, <2>2, <2>3, <1>4
<1>17. ASSUME NEW p \in Paths, fetch_unlink(p) \/ fetch(p) PROVE Restored
  <2>1. cli.pc = "download" /\ p \in cli.todo /\ cli' = cli /\ (Unlink(p) \/ fetch(p))
    BY <1>17 DEF fetch_unlink, fetch, Fetching
  <2>2. \A q \in expected \ cli.todo : Recorded(c, q)'
    BY <2>1, <1>4, <1>7, Elsewhere, RecordedKept
  <2>3. QED
    BY <2>1, <2>2, <1>4
<1>18. ASSUME NEW p \in Paths, checksum(p) PROVE Restored
  <2>1. cli.pc = "checksums" /\ cli' = cli
    BY <1>18 DEF checksum
  <2>2. \A q \in expected : Recorded(c, q)'
    BY <2>1, <1>4, <1>7, <1>18, Elsewhere, RecordedKept
  <2>3. QED
    BY <2>1, <2>2
<1>19. ASSUME NEW p \in Paths, remove_obsolete(p) PROVE Restored
  <2>1. cli.pc \in {"blocking", "deferred"} /\ p \in cli.todo /\ cli' = cli /\ Unlink(p)
    BY <1>19 DEF remove_obsolete
  <2>2. \A q \in expected : Recorded(c, q) => Recorded(c, q)'
    BY <2>1, <1>4, <1>7, Elsewhere, RecordedKept
  <2>3. QED
    BY <2>1, <2>2, <1>4
<1>20. QED
    BY <1>6, <1>11, <1>12, <1>13, <1>14, <1>15, <1>16, <1>17, <1>18, <1>19
       DEF Works, repair_download, unlink_recorded

\* So do the commands that start, and the ones that end have nothing left.
LEMMA RestoringStep ==
    ASSUME TypeOK, Ordered, Restoring, [Next]_vars
    PROVE  Restoring'
<1>1. CASE Works
    BY <1>1, RestoringWorks
<1>2. CASE Starts
  <2>1. CASE update_to_upstream
    <3>1. PICK t, l \in SUBSET Paths :
            /\ (t \cup l) \cap Expected(state.upstream) = {}
            /\ cli' = Order("update", "blocking", state.upstream, t, l, TRUE, "update")
      BY <2>1, UpdateStarted
    <3>2. /\ cli'.pc = "blocking" /\ cli'.commit = state.upstream
          /\ cli'.todo = t /\ cli'.later = l
      BY <3>1 DEF Order
    <3>3. QED
      BY <3>1, <3>2 DEF Restoring, Expected
  <2>2. CASE mirror_download
    <3>1. cli'.pc = "plan" /\ cli'.op = "mirror"
      BY <2>2, Started DEF Order
    <3>2. QED
      BY <3>1 DEF Restoring
  <2>3. CASE mirror_present \/ verify \/ repair \/ reconcile_snapshot_plan
    <3>1. CASE mirror_present \/ verify \/ reconcile_snapshot_plan
      <4>1. cli'.as \in {"checked", "cached", "verify", "repair"}
        BY <3>1, Started DEF Order
      <4>2. QED
        BY <4>1 DEF Restoring
    <3>2. CASE repair
      <4>1. cli'.as \in {"cure", "repair"}
        BY <3>2, RepairStarted DEF Order
      <4>2. QED
        BY <4>1 DEF Restoring
    <3>3. QED
      BY <2>3, <3>1, <3>2
  <2>4. QED
    BY <1>2, <2>1, <2>2, <2>3 DEF Starts
<1>3. CASE Ends \/ Stops
    BY <1>3, Frames, IdleTypes DEF Restoring
<1>4. CASE Instant \/ Outside
  <2>1. cli' = cli /\ cli.pc = "idle" /\ cli.op = "none"
    BY <1>4, Frames DEF Ordered
  <2>2. QED
    BY <2>1 DEF Restoring
<1>5. CASE UNCHANGED vars
    BY <1>5 DEF vars, Restoring, Expected, Recorded, Sized, Current
<1>6. QED
    BY <1>1, <1>2, <1>3, <1>4, <1>5, Kinds

-----------------------------------------------------------------------------

\* A repair after a full verification starts with every other file as it
\* should be, and its row with it.
LEMMA CureStarts ==
    ASSUME TypeOK, ManifestHonest, Verified, repair
    PROVE  Curing'
<1> DEFINE c == state.commit
           paths == state.repair \cap Expected(c)
<1>1. SUFFICES ASSUME cli'.as = "cure" PROVE Curing'
    BY DEF Curing
<1>2. PICK f \in BOOLEAN :
        /\ Repairing(c, paths, f)
        /\ cli' = Order("repair", IF paths = {} THEN "verdict" ELSE "unlink", c,
                        paths, paths, TRUE,
                        IF judged = "verify" /\ ~f THEN "cure" ELSE "repair")
    BY RepairStarted
<1>3. /\ cli'.pc = IF paths = {} THEN "verdict" ELSE "unlink"
      /\ cli'.commit = c /\ cli'.todo = paths /\ cli'.later = paths
      /\ judged = "verify" /\ ~f
    BY <1>1, <1>2 DEF Order
<1>4. Unvouched(c, paths) = {}
    BY <1>2, <1>3 DEF Repairing
<1>5. c \in Commits /\ \A p \in Expected(c) \ paths : disk[p] = Snapshot[c][p]
    BY <1>3 DEF Verified
<1>6. \A p \in Expected(c) : p \in Paths /\ Snapshot[c][p] \in Versions
    BY <1>5, ArchiveAssumption DEF Expected
<1>7. \A v \in Versions : v \notin {Absent, Torn, Rotten}
    BY ArchiveAssumption DEF Contents
<1>8. ASSUME NEW p \in Expected(c) \ paths PROVE Exact(c, p)
  <2>1. Sized(p)
    BY <1>5, <1>6, <1>7 DEF Sized
  <2>2. Current(p)
    BY <1>4, <2>1 DEF Unvouched
  <2>3. manifest[p] = disk[p]
    BY <1>5, <1>6, <1>7, <2>2 DEF ManifestHonest
  <2>4. QED
    BY <1>5, <2>1, <2>2, <2>3 DEF Exact, Recorded
<1>9. UNCHANGED <<disk, manifest, stale>>
    BY Frames DEF Starts, payload
<1>10. state' = state
    BY DEF repair
<1>11. \A p \in Expected(c) \ paths : Exact(c, p)'
    BY <1>8, <1>9, <1>10 DEF Exact, Recorded, Sized, Current
<1>12. QED
    BY <1>3, <1>10, <1>11 DEF Curing, Expected

\* It keeps track of what is left to cure.
LEMMA CuringWorks ==
    ASSUME TypeOK, Ordered, Curing, Works
    PROVE  Curing'
<1>1. SUFFICES ASSUME cli.as = "cure" PROVE Curing'
    BY Control DEF Curing
<1>2. PICK c \in Commits : c = cli.commit
    BY Frames DEF Ordered
<1> DEFINE expected == Expected(c)
           Cured ==
             /\ cli'.pc = "unlink" =>
                  /\ cli'.todo \subseteq cli.later
                  /\ \A p \in expected \ cli.later : Exact(c, p)'
                  /\ \A p \in cli.later \ cli'.todo : disk'[p] = Absent
             /\ cli'.pc = "download" =>
                  /\ cli'.todo \subseteq expected
                  /\ \A p \in expected \ cli'.todo : Exact(c, p)'
             /\ cli'.pc = "verdict" => \A p \in expected : Exact(c, p)'
<1>3. cli'.commit = c /\ cli'.op = cli.op /\ cli'.later = cli.later /\ cli \in Command
    BY <1>2, Control DEF TypeOK
<1>4. /\ cli.later \subseteq expected
      /\ cli.pc = "unlink" =>
           /\ cli.todo \subseteq cli.later
           /\ \A p \in expected \ cli.later : Exact(c, p)
           /\ \A p \in cli.later \ cli.todo : disk[p] = Absent
      /\ cli.pc = "download" =>
           /\ cli.todo \subseteq expected
           /\ \A p \in expected \ cli.todo : Exact(c, p)
      /\ cli.pc = "verdict" => \A p \in expected : Exact(c, p)
    BY <1>1, <1>2 DEF Curing
<1>5. SUFFICES Cured
    BY <1>3, <1>4 DEF Curing
<1>6. cli.op = "repair" /\ cli.pc \in {"unlink", "download", "verdict"}
    BY <1>1, Frames DEF Ordered
<1>7. expected \subseteq Paths
    BY DEF Expected
<1>8. \A pc, todo : Goto(pc, todo) => cli'.pc = pc /\ cli'.todo = todo
    BY <1>3, Moves
<1>9. UNCHANGED payload => \A p \in expected : Exact(c, p) => Exact(c, p)'
    BY <1>7, RecordedKept DEF payload
<1>10. CASE repair_download
  <2>1. /\ cli.pc = "unlink" /\ cli.todo = {} /\ UNCHANGED payload
        /\ cli'.pc = "download" /\ cli'.todo = ToFetch(c, cli.later)
    BY <1>2, <1>8, <1>10 DEF repair_download
  <2>2. ToFetch(c, cli.later) = cli.later
    BY <1>4, <2>1 DEF ToFetch, Recorded, Sized
  <2>3. QED
    BY <2>1, <2>2, <1>4, <1>9
<1>11. CASE persist_plan
  <2>1. UNCHANGED <<payload, cli>>
    BY <1>11 DEF persist_plan, payload
  <2>2. QED
    BY <2>1, <1>4, <1>6, <1>7, <1>9 DEF payload
<1>12. CASE fetched_all
  <2>1. cli.pc = "download" /\ cli.todo = {} /\ UNCHANGED payload /\ cli'.pc = "verdict"
    BY <1>6, <1>8, <1>12 DEF fetched_all
  <2>2. QED
    BY <2>1, <1>4, <1>9
<1>13. ASSUME NEW p \in Paths, fetched(p) PROVE Cured
  <2>1. /\ cli.pc = "download" /\ p \in cli.todo /\ disk[p] = Snapshot[c][p]
        /\ Record(p)
        /\ cli'.pc = "download" /\ cli'.todo = cli.todo \ {p}
    BY <1>2, <1>8, <1>13 DEF fetched, Fetching
  <2>2. Exact(c, p)'
    BY <2>1, <1>4, RecordedNow
  <2>3. \A q \in expected \ cli.todo : Exact(c, q)'
    BY <2>1, <1>4, <1>7, Elsewhere, RecordedKept
  <2>4. QED
    BY <2>1, <2>2, <2>3, <1>4
<1>14. ASSUME NEW p \in Paths, fetch_unlink(p) \/ fetch(p) PROVE Cured
  <2>1. cli.pc = "download" /\ p \in cli.todo /\ cli' = cli /\ (Unlink(p) \/ fetch(p))
    BY <1>14 DEF fetch_unlink, fetch, Fetching
  <2>2. \A q \in expected \ cli.todo : Exact(c, q)'
    BY <2>1, <1>4, <1>7, Elsewhere, RecordedKept
  <2>3. QED
    BY <2>1, <2>2, <1>4
<1>15. ASSUME NEW p \in Paths, unlink_recorded(p) PROVE Cured
  <2>1. /\ cli.pc = "unlink" /\ p \in cli.todo /\ Unlink(p)
        /\ cli'.pc = "unlink" /\ cli'.todo = cli.todo \ {p}
    BY <1>8, <1>15 DEF unlink_recorded
  <2>2. \A q \in expected \ cli.later : Exact(c, q)'
    BY <2>1, <1>4, <1>7, Elsewhere, RecordedKept
  <2>3. disk'[p] = Absent /\ \A q \in Paths \ {p} : disk'[q] = disk[q]
    BY <2>1 DEF Unlink, TypeOK
  <2>4. QED
    BY <2>1, <2>2, <2>3, <1>4, <1>7
<1>16. CASE write_snapshot_plan \/ remove_checksum_paths \/ checksums_written
    BY <1>6, <1>16 DEF write_snapshot_plan, remove_checksum_paths, checksums_written
<1>17. ASSUME NEW p \in Paths, checksum(p) \/ remove_obsolete(p) PROVE Cured
    BY <1>6, <1>17 DEF checksum, remove_obsolete
<1>18. QED
    BY <1>10, <1>11, <1>12, <1>13, <1>14, <1>15, <1>16, <1>17 DEF Works

\* So does every other step.
LEMMA CuringStep ==
    ASSUME TypeOK, Ordered, ManifestHonest, Verified, Curing, [Next]_vars
    PROVE  Curing'
<1>1. CASE Works
    BY <1>1, CuringWorks
<1>2. CASE Starts
  <2>1. CASE repair
    BY <2>1, CureStarts
  <2>2. CASE update_to_upstream
    <3>1. cli'.as = "update"
      BY <2>2, UpdateStarted DEF Order
    <3>2. QED
      BY <3>1 DEF Curing
  <2>3. CASE mirror_present \/ mirror_download \/ verify \/ reconcile_snapshot_plan
    <3>1. cli'.as \in {"checked", "download", "cached", "verify", "repair"}
      BY <2>3, Started DEF Order
    <3>2. QED
      BY <3>1 DEF Curing
  <2>4. QED
    BY <1>2, <2>1, <2>2, <2>3 DEF Starts
<1>3. CASE Ends \/ Stops
    BY <1>3, Frames, IdleTypes DEF Curing
<1>4. CASE Instant \/ Outside
  <2>1. cli' = cli /\ cli.pc = "idle" /\ cli.op = "none"
    BY <1>4, Frames DEF Ordered
  <2>2. QED
    BY <2>1 DEF Curing, Expected
<1>5. CASE UNCHANGED vars
    BY <1>5 DEF vars, Curing, Expected, Exact, Recorded, Sized, Current
<1>6. QED
    BY <1>1, <1>2, <1>3, <1>4, <1>5, Kinds

-----------------------------------------------------------------------------

\* What finding nothing bad says of the files.
LEMMA Judging ==
    ASSUME ManifestHonest, NEW c \in Commits
    PROVE  /\ \A p \in Expected(c) :
                p \notin Bad(c, FALSE, TRUE) => Holds(p, c)
           /\ Bad(c, TRUE, TRUE) = {} /\ Unknown(c) = {} => \A p \in Expected(c) : Holds(p, c)
           /\ Bad(c, FALSE, FALSE) = {} => \A p \in Expected(c) : Holds(p, c)
           /\ \A p \in Expected(c) :
                p \notin Bad(c, FALSE, TRUE) \cup Failures => disk[p] = Snapshot[c][p]
<1>1. \A p \in Expected(c) : p \in Paths /\ Snapshot[c][p] # Absent
    BY DEF Expected
<1>2. \A p \in Expected(c) : Current(p) /\ manifest[p] = Snapshot[c][p] => Holds(p, c)
    BY <1>1 DEF ManifestHonest, Holds
<1>3. ASSUME NEW p \in Expected(c), p \notin Bad(c, FALSE, TRUE) PROVE Holds(p, c)
    BY <1>2, <1>3 DEF Bad, Holds
<1>4. ASSUME Bad(c, TRUE, TRUE) = {}, Unknown(c) = {}, NEW p \in Expected(c) PROVE Holds(p, c)
  <2>1. Sized(p) /\ Current(p) /\ manifest[p] = Snapshot[c][p]
    BY <1>4 DEF Bad, Unknown
  <2>2. QED
    BY <2>1, <1>2
<1>5. ASSUME Bad(c, FALSE, FALSE) = {}, NEW p \in Expected(c) PROVE Holds(p, c)
    BY <1>5 DEF Bad, Holds
<1>6. ASSUME NEW p \in Expected(c), p \notin Bad(c, FALSE, TRUE) \cup Failures
      PROVE  disk[p] = Snapshot[c][p]
    BY <1>1, <1>6 DEF Bad, Failures, Current
<1>7. QED
    BY <1>3, <1>4, <1>5, <1>6

\* Where every file is recorded, nothing bad is found, in whatever way.
LEMMA AllRecorded ==
    ASSUME NEW c \in Commits, \A p \in Expected(c) : Recorded(c, p)
    PROVE  /\ Bad(c, FALSE, TRUE) = {} /\ Bad(c, TRUE, TRUE) = {} /\ Unknown(c) = {}
           /\ ~Cached(c) => Expected(c) = {}
           /\ \/ Expected(c) = {}
              \/ \A p \in Expected(c) : disk[p] = Snapshot[c][p]
              => Bad(c, FALSE, FALSE) = {}
BY DEF Bad, Unknown, Recorded, Cached, Current, Expected

\* What is true of the files when a command has ended.
Judged(s, j, c) ==
    /\ s.commit = c
    /\ s.status = "clean" /\ j # "no" => \A p \in Expected(c) : Holds(p, c)
    /\ j = "verify" => \A p \in Expected(c) \ s.repair : disk[p] = Snapshot[c][p]
    /\ s.status = "clean" => s.repair = {}
    /\ j \in {"download", "update", "cure"} =>
         /\ s.status = "clean"
         /\ \A p \in Expected(c) : Holds(p, c) /\ (j = "cure" => disk[p] # Rotten)

\* A mirror.
LEMMA MirrorEnds ==
    ASSUME TypeOK, Ordered, ManifestHonest, Restoring, mirror_verdict
    PROVE  Judged(state', judged', cli.commit)
<1> DEFINE c == cli.commit
           s == Derived(c, c, Bad(c, FALSE, TRUE), {})
<1>1. c \in Commits /\ cli.as \in {"checked", "download"}
    BY DEF mirror_verdict, Ordered
<1>2. CASE ~cli.verify
  <2>1. state' = [InProgress(c) EXCEPT !.status = "dirty"] /\ judged' = "no"
    BY <1>2 DEF mirror_verdict, Conclude
  <2>2. state'.status = "dirty" /\ state'.commit = c
    BY <2>1 DEF InProgress
  <2>3. QED
    BY <2>1, <2>2 DEF Judged
<1>3. CASE cli.verify
  <2>1. state' = s /\ judged' = cli.as
    BY <1>3 DEF mirror_verdict, Conclude
  <2>2. /\ s.commit = c /\ s.repair = Bad(c, FALSE, TRUE)
        /\ s.status = "clean" <=> Bad(c, FALSE, TRUE) = {}
    BY DEF Derived
  <2>3. Bad(c, FALSE, TRUE) = {} => \A p \in Expected(c) : Holds(p, c)
    BY <1>1, Judging
  <2>4. cli.as = "download" => Bad(c, FALSE, TRUE) = {}
    <3>1. cli.as = "download" => \A p \in Expected(c) : Recorded(c, p)
      BY DEF mirror_verdict, Restoring
    <3>2. QED
      BY <3>1, <1>1, AllRecorded
  <2>5. QED
    BY <1>1, <2>1, <2>2, <2>3, <2>4 DEF Judged
<1>4. QED
    BY <1>2, <1>3

\* A verification.
LEMMA VerifyEnds ==
    ASSUME TypeOK, Ordered, ManifestHonest, verify_verdict
    PROVE  Judged(state', judged', cli.commit)
<1> DEFINE c == cli.commit
<1>1. c \in Commits /\ cli.as \in {"verify", "cached"}
    BY DEF verify_verdict, Ordered
<1>2. CASE cli.as = "cached"
  <2>1. /\ state' = Derived(c, upstream, Bad(c, TRUE, TRUE), Unknown(c))
        /\ judged' = "cached"
    BY <1>2 DEF verify_verdict, Conclude
  <2>2. /\ state'.commit = c /\ state'.repair = Bad(c, TRUE, TRUE)
        /\ state'.status = "clean" <=> Bad(c, TRUE, TRUE) = {} /\ Unknown(c) = {}
    BY <2>1 DEF Derived
  <2>3. Bad(c, TRUE, TRUE) = {} /\ Unknown(c) = {} => \A p \in Expected(c) : Holds(p, c)
    BY <1>1, Judging
  <2>4. QED
    BY <2>1, <2>2, <2>3 DEF Judged
<1>3. CASE cli.as = "verify"
  <2>1. /\ state' = Derived(c, upstream, Bad(c, FALSE, TRUE) \cup Failures, {})
        /\ judged' = "verify"
    BY <1>3 DEF verify_verdict, Conclude
  <2>2. /\ state'.commit = c /\ state'.repair = Bad(c, FALSE, TRUE) \cup Failures
        /\ state'.status = "clean" <=> Bad(c, FALSE, TRUE) \cup Failures = {}
    BY <2>1 DEF Derived
  <2>3. \A p \in Expected(c) :
          /\ p \notin Bad(c, FALSE, TRUE) => Holds(p, c)
          /\ p \notin Bad(c, FALSE, TRUE) \cup Failures => disk[p] = Snapshot[c][p]
    BY <1>1, Judging
  <2>4. QED
    BY <2>1, <2>2, <2>3 DEF Judged
<1>4. QED
    BY <1>1, <1>2, <1>3

\* A repair and an update.
LEMMA RepairEnds ==
    ASSUME TypeOK, Ordered, ManifestHonest, Restoring, Curing, persist_repair_state
    PROVE  /\ Judged(state', judged', cli.commit)
           /\ state'.status = "clean" => plan = cli.commit
<1> DEFINE c == cli.commit
           up == IF cli.op = "update" THEN cli.commit ELSE state.upstream
           cached == (cli.op = "repair" /\ cli.later # {}) \/ Cached(c)
<1>1. c \in Commits /\ cli.as \in {"repair", "cure", "update"} /\ cli.pc = "verdict"
    BY DEF persist_repair_state, Ordered
<1>2. /\ state' = Derived(c, up, Bad(c, cached, cached), IF cached THEN Unknown(c) ELSE {})
      /\ judged' = cli.as
      /\ state'.status = "clean" => plan = c
    BY DEF persist_repair_state, Conclude, Repaired
<1>3. /\ state'.commit = c /\ state'.repair = Bad(c, cached, cached)
      /\ state'.status = "clean" <=>
           Bad(c, cached, cached) = {} /\ (IF cached THEN Unknown(c) ELSE {}) = {}
    BY <1>2 DEF Derived
<1>4. state'.status = "clean" => \A p \in Expected(c) : Holds(p, c)
  <2>1. CASE cached
    BY <2>1, <1>1, <1>3, Judging
  <2>2. CASE ~cached
    BY <2>2, <1>1, <1>3, Judging
  <2>3. QED
    BY <2>1, <2>2
<1>5. cli.as = "update" => \A p \in Expected(c) : Recorded(c, p)
    BY <1>1 DEF Restoring
<1>6. cli.as = "cure" => \A p \in Expected(c) : Recorded(c, p) /\ disk[p] = Snapshot[c][p]
    BY <1>1 DEF Curing, Exact
<1>7. cli.as \in {"update", "cure"} => state'.status = "clean"
  <2>1. SUFFICES ASSUME cli.as \in {"update", "cure"}
                 PROVE  Bad(c, cached, cached) = {} /\ (cached => Unknown(c) = {})
    BY <1>3
  <2>2. \A p \in Expected(c) : Recorded(c, p)
    BY <2>1, <1>5, <1>6
  <2>3. CASE cached
    BY <2>2, <2>3, <1>1, AllRecorded
  <2>4. CASE ~cached
    BY <2>2, <2>4, <1>1, AllRecorded
  <2>5. QED
    BY <2>3, <2>4
<1>8. cli.as = "cure" => \A p \in Expected(c) : disk[p] # Rotten
    BY <1>1, <1>6, ArchiveAssumption DEF Expected
<1>9. QED
    BY <1>1, <1>2, <1>3, <1>4, <1>7, <1>8 DEF Judged

-----------------------------------------------------------------------------

\* What is known of the files, after a command that has ended and before
\* anything happens to them.
Concluded == CleanEarned /\ TransfersCure /\ PlanFollowsRepair /\ Verified

\* The inductive invariant.
IInv ==
    /\ TypeOK /\ ManifestHonest
    /\ Ordered /\ Settled /\ Announced
    /\ Restoring /\ Curing
    /\ Concluded

\* A command that ends has earned its judgement.
LEMMA ConcludedEnds ==
    ASSUME TypeOK, Ordered, ManifestHonest, Restoring, Curing, Ends
    PROVE  Concluded'
<1>1. PICK c \in Commits : c = cli.commit
    BY Frames DEF Ordered
<1>2. UNCHANGED <<disk, plan>>
    BY Frames DEF payload
<1>3. /\ Judged(state', judged', c)
      /\ judged' \in {"repair", "cure", "update"} /\ state'.status = "clean" => plan = c
  <2>1. CASE mirror_verdict
    <3>1. judged' \in {"no", "checked", "download"}
      BY <2>1 DEF mirror_verdict, Conclude, Ordered
    <3>2. QED
      BY <2>1, <3>1, <1>1, MirrorEnds
  <2>2. CASE verify_verdict
    <3>1. judged' \in {"verify", "cached"}
      BY <2>2 DEF verify_verdict, Conclude, Ordered
    <3>2. QED
      BY <2>2, <3>1, <1>1, VerifyEnds
  <2>3. CASE persist_repair_state
    BY <2>3, <1>1, RepairEnds
  <2>4. QED
    BY <2>1, <2>2, <2>3 DEF Ends
<1>4. state'.commit = c
    BY <1>3 DEF Judged
<1>5. \A p \in Paths : Holds(p, c)' <=> Holds(p, c)
    BY <1>2 DEF Holds
<1>6. Expected(c) \subseteq Paths
    BY DEF Expected
<1>7. CleanEarned'
    BY <1>2, <1>3, <1>4, <1>5, <1>6 DEF CleanEarned, Judged, Expected, Holds
<1>8. TransfersCure'
    BY <1>2, <1>3, <1>4, <1>5, <1>6 DEF TransfersCure, Judged, Expected, Holds
<1>9. PlanFollowsRepair'
    BY <1>2, <1>3, <1>4 DEF PlanFollowsRepair
<1>10. Verified'
    BY <1>1, <1>2, <1>3, <1>4 DEF Verified, Judged, Expected
<1>11. QED
    BY <1>7, <1>8, <1>9, <1>10 DEF Concluded

\* Whatever else happens leaves the judgement true, or takes it back.
LEMMA ConcludedStep ==
    ASSUME TypeOK, Ordered, Settled, ManifestHonest, Restoring, Curing, Concluded, [Next]_vars
    PROVE  Concluded'
<1> USE DEF Concluded, CleanEarned, TransfersCure, PlanFollowsRepair, Verified
<1>1. CASE Ends
    BY <1>1, ConcludedEnds
<1>2. CASE Starts \/ Instant \/ Works \/ Stops
  <2>1. judged' \in {"no", "offline"}
    BY <1>2, Frames DEF Settled
  <2>2. QED
    BY <2>1
<1>3. CASE Outside \/ UNCHANGED vars
  <2>1. judged' = "no" \/ UNCHANGED <<judged, disk, state, plan>>
    BY <1>3, Frames DEF vars, payload
  <2>2. CASE judged' = "no"
    BY <2>2
  <2>3. CASE UNCHANGED <<judged, disk, state, plan>>
    BY <2>3 DEF Expected, Holds
  <2>4. QED
    BY <2>1, <2>2, <2>3
<1>4. QED
    BY <1>1, <1>2, <1>3, Kinds

\* An empty directory satisfies the invariant.
LEMMA InitInvariant == Init => IInv
<1> SUFFICES ASSUME Init PROVE IInv
    OBVIOUS
<1> USE DEF Init
<1>1. TypeOK
    BY IdleTypes, ArchiveAssumption DEF TypeOK, NoState, VerificationState, Status, Judgement
<1>2. ManifestHonest
    BY DEF ManifestHonest, Current
<1>3. Ordered /\ Settled /\ Announced
    BY IdleTypes DEF Ordered, Settled, Announced, Touching
<1>4. Restoring /\ Curing
    BY IdleTypes DEF Restoring, Curing
<1>5. Concluded
    BY DEF Concluded, CleanEarned, TransfersCure, PlanFollowsRepair, Verified
<1>6. QED
    BY <1>1, <1>2, <1>3, <1>4, <1>5 DEF IInv

\* It is inductive.
LEMMA Invariant == Spec => []IInv
<1>1. IInv /\ [Next]_vars => IInv'
    BY TypeStep, HonestStep, OrderedStep, SettledStep, AnnouncedStep, RestoringStep, CuringStep,
       ConcludedStep DEF IInv, Concluded
<1>2. QED
    BY <1>1, InitInvariant, PTL DEF Spec

-----------------------------------------------------------------------------

\* The variables keep their types, for any snapshots, paths and versions.
THEOREM TypesKept == Spec => []TypeOK
<1>1. IInv => TypeOK
    BY DEF IInv
<1>2. QED
    BY <1>1, Invariant, PTL

\* A current row of the manifest tells the truth about its file, whichever
\* command was interrupted between two writes, and wherever.
THEOREM ManifestIsHonest == Spec => []ManifestHonest
<1>1. IInv => ManifestHonest
    BY DEF IInv
<1>2. QED
    BY <1>1, Invariant, PTL

\* A clean state is one that the command that wrote it has earned by looking at
\* every file of the commit, and a full verification by their bytes.
THEOREM CleanIsEarned == Spec => []CleanEarned
<1>1. IInv => CleanEarned
    BY DEF IInv, Concluded
<1>2. QED
    BY <1>1, Invariant, PTL

\* A mirror that downloads, an update, and a repair after a full verification,
\* leave a clean archive if they get to their end, from whatever state earlier
\* commands and faults have left.
THEOREM TransfersAreCures == Spec => []TransfersCure
<1>1. IInv => TransfersCure
    BY DEF IInv, Concluded
<1>2. QED
    BY <1>1, Invariant, PTL

\* After a repair or an update that ends clean the snapshot plan is that of the
\* commit the archive holds.
THEOREM PlanIsRepaired == Spec => []PlanFollowsRepair
<1>1. IInv => PlanFollowsRepair
    BY DEF IInv, Concluded
<1>2. QED
    BY <1>1, Invariant, PTL

\* What a step that touches files finds in the state.
Announcing ==
    cli.pc # "idle" /\ disk' # disk /\ cli.op # "update" => state.status # "clean"

\* Every command but an update takes the state from clean, or finds it so,
\* before it touches a file, so that a crash leaves no clean state behind on
\* files half replaced.
THEOREM MutationsAreAnnounced == Spec => MutationAnnounced
<1>1. IInv /\ [Next]_vars => [Announcing]_vars
  <2> SUFFICES ASSUME IInv, Next, cli.pc # "idle", disk' # disk, cli.op # "update"
               PROVE  state.status # "clean"
    BY DEF Announcing
  <2>1. Works
    BY Kinds, Frames DEF payload
  <2>2. \E p \in Paths : fetch_unlink(p) \/ fetch(p) \/ unlink_recorded(p) \/ remove_obsolete(p)
    BY <2>1 DEF Works, write_snapshot_plan, repair_download, remove_checksum_paths, persist_plan,
               fetched_all, checksums_written, fetched, checksum, Record, payload
  <2>3. cli.pc \in {"download", "unlink", "blocking", "deferred"}
    BY <2>2 DEF fetch_unlink, fetch, Fetching, unlink_recorded, remove_obsolete
  <2>4. QED
    BY <2>3 DEF IInv, Announced, Touching
<1>2. Spec => [][Announcing]_vars
    BY <1>1, Invariant, PTL DEF Spec
<1>3. QED
    BY <1>2 DEF MutationAnnounced, Announcing

=============================================================================
