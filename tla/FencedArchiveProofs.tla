------------------------- MODULE FencedArchiveProofs -------------------------
(***************************************************************************)
(* Theorems about FencedArchive, for any sets of commits and processes.    *)
(***************************************************************************)
EXTENDS FencedArchive, TLAPS

\* A transfer has its target.
Targeted == \A p \in Clis : Transfers(p) => cli[p].target \in Commits

\* On a fenced archive it is the published commit.
FencedTransfers ==
    \A p \in Clis : Transfers(p) /\ fence # NoCommit => cli[p].target = fence

\* The fence about to be written is that of the payload.
FencePending ==
    \A p \in Clis : cli[p].pc = "publish-fence" =>
        /\ payload.commit = state.resolved_commit
        /\ fence \in {NoCommit, state.resolved_commit}

\* No command is a "repair --update".
NoUpdates == \A p \in Clis : cli[p].op # "update"

Pins == FencedTransfers /\ FencePending /\ NoUpdates /\ PublishedCommitPinned

\* Every transition of a publication record yields a publication record.
LEMMA RecordTransitions ==
    ASSUME NEW r \in PublicationRecord,
           NEW d \in BOOLEAN, NEW m \in ClientMode, NEW b \in Backend
    PROVE  /\ created(r, d, m) \in PublicationRecord
           /\ seed_stopped(r) \in PublicationRecord
           /\ retired(r) \in PublicationRecord
           /\ in_maintenance(r) \in PublicationRecord
           /\ after_maintenance(r, d) \in PublicationRecord
           /\ observed(r, b) \in PublicationRecord
           /\ unhealthy(r) \in PublicationRecord
<1>1. created(r, d, m) \in PublicationRecord
    BY DEF created, PublicationRecord, Backend, Lifecycle, ClientMode
<1>2. seed_stopped(r) \in PublicationRecord
    BY DEF seed_stopped, PublicationRecord, Backend, Lifecycle, ClientMode
<1>3. retired(r) \in PublicationRecord
    BY DEF retired, PublicationRecord, Backend, Lifecycle, ClientMode
<1>4. in_maintenance(r) \in PublicationRecord
    BY DEF in_maintenance, PublicationRecord, Backend, Lifecycle, ClientMode
<1>5. after_maintenance(r, d) \in PublicationRecord
    BY DEF after_maintenance, PublicationRecord, Backend, Lifecycle, ClientMode
<1>6. observed(r, b) \in PublicationRecord
    BY DEF observed, PublicationRecord, Backend, Lifecycle, ClientMode
<1>7. unhealthy(r) \in PublicationRecord
    BY DEF unhealthy, PublicationRecord, Backend, Lifecycle, ClientMode
<1>8. QED
    BY <1>1, <1>2, <1>3, <1>4, <1>5, <1>6, <1>7

\* The forms in which the actions of the seeder update its control state.
LEMMA SeederTypes ==
    /\ Down \in SeederState
    /\ NoRecord \in PublicationRecord
    /\ \A s \in SeederState, pc \in SeederPc :
         [s EXCEPT !.pc = pc] \in SeederState
    /\ \A s \in SeederState, t \in SUBSET Commits :
         [s EXCEPT !.todo = t] \in SeederState
    /\ \A s \in SeederState, pc \in SeederPc, t \in SUBSET Commits :
         [s EXCEPT !.pc = pc, !.todo = t] \in SeederState
    /\ \A s \in SeederState, pc \in SeederPc, h \in Commits \cup {NoCommit} :
         [s EXCEPT !.pc = pc, !.handle = h] \in SeederState
    /\ \A s \in SeederState, pc \in SeederPc, t \in SUBSET Commits, h \in Commits \cup {NoCommit} :
         [s EXCEPT !.pc = pc, !.todo = t, !.handle = h] \in SeederState
    /\ \A s \in SeederState, pc \in SeederPc, t \in SUBSET Commits, h \in Commits \cup {NoCommit}, r \in PublicationRecord :
         [s EXCEPT !.pc = pc, !.commit = h, !.found = r, !.todo = t] \in SeederState
<1>1. NoRecord \in PublicationRecord
    BY DEF NoRecord, PublicationRecord, Lifecycle, ClientMode, Backend
<1>2. Down \in SeederState
    BY <1>1 DEF Down, SeederState, SeederPc
<1>3. \A s \in SeederState, pc \in SeederPc :
        [s EXCEPT !.pc = pc] \in SeederState
    BY DEF SeederState
<1>4. \A s \in SeederState, t \in SUBSET Commits :
        [s EXCEPT !.todo = t] \in SeederState
    BY DEF SeederState
<1>5. \A s \in SeederState, pc \in SeederPc, t \in SUBSET Commits :
        [s EXCEPT !.pc = pc, !.todo = t] \in SeederState
    BY DEF SeederState
<1>6. \A s \in SeederState, pc \in SeederPc, h \in Commits \cup {NoCommit} :
        [s EXCEPT !.pc = pc, !.handle = h] \in SeederState
    BY DEF SeederState
<1>7. \A s \in SeederState, pc \in SeederPc, t \in SUBSET Commits, h \in Commits \cup {NoCommit} :
        [s EXCEPT !.pc = pc, !.todo = t, !.handle = h] \in SeederState
    BY DEF SeederState
<1>8. \A s \in SeederState, pc \in SeederPc, t \in SUBSET Commits, h \in Commits \cup {NoCommit}, r \in PublicationRecord :
        [s EXCEPT !.pc = pc, !.commit = h, !.found = r, !.todo = t] \in SeederState
    BY DEF SeederState
<1>9. QED
    BY <1>1, <1>2, <1>3, <1>4, <1>5, <1>6, <1>7, <1>8

\* What the actions of the seeder do to the lock, the session and itself.
LEMMA SeederParts ==
    ASSUME TypeOK
    PROVE  /\ Gone => /\ seeder' \in SeederState
                      /\ session' \in SUBSET Commits
                      /\ lock' \in Clis \cup {Seeder, NoProc}
           /\ Sleep \/ BeginClose => seeder' \in SeederState
           /\ \A pc \in SeederPc : Goto(pc) => seeder' \in SeederState
           /\ \A c : Proceed(c) \in SeederState
           /\ \A r \in PublicationRecord :
                Observe(r) => record' \in [Commits -> PublicationRecord]
           /\ Fenced => fence \in Commits /\ fenced_record \in PublicationRecord
           /\ seeder.todo \in SUBSET Commits
<1> USE SeederTypes DEF TypeOK
<1>1. Gone => /\ seeder' \in SeederState
              /\ session' \in SUBSET Commits
              /\ lock' \in Clis \cup {Seeder, NoProc}
    BY DEF Gone
<1>2. Sleep \/ BeginClose => seeder' \in SeederState
  <2>1. {"sleep", "close"} \subseteq SeederPc
    BY DEF SeederPc
  <2>2. Sleep => seeder' \in SeederState
    BY <2>1 DEF Sleep
  <2>3. BeginClose => seeder' \in SeederState
    <3>1. Down \in SeederState /\ "close" \in SeederPc /\ session \in SUBSET Commits
      BY <2>1
    <3>2. [Down EXCEPT !.pc = "close", !.todo = session] \in SeederState
      BY ONLY <3>1, SeederTypes
    <3>3. QED
      BY <3>2 DEF BeginClose
  <2>4. QED
    BY <2>2, <2>3
<1>3. \A pc \in SeederPc : Goto(pc) => seeder' \in SeederState
    BY DEF Goto
<1>4. seeder.todo \in SUBSET Commits
    BY DEF SeederState
<1>5. \A c : Proceed(c) \in SeederState
    BY <1>4 DEF Proceed, SeederPc
<1>6. \A r \in PublicationRecord : Observe(r) => record' \in [Commits -> PublicationRecord]
    BY DEF Observe
<1>7. Fenced => fence \in Commits /\ fenced_record \in PublicationRecord
    BY DEF Fenced, fenced_record
<1>8. QED
    BY <1>1, <1>2, <1>3, <1>4, <1>5, <1>6, <1>7

\* No step of the seeder breaks the types.
LEMMA SeederType == ASSUME TypeOK, SeederStep PROVE TypeOK'
<1> USE DEF torrents, files, ghosts
<1>a. Fenced => fence \in Commits /\ fenced_record \in PublicationRecord
    BY SeederParts
<1>b. \A b \in Backend : Fenced =>
        /\ observed(fenced_record, b) \in PublicationRecord
        /\ unhealthy(fenced_record) \in PublicationRecord
    BY <1>a, RecordTransitions DEF ClientMode
<1>c. Gone => /\ seeder' \in SeederState
              /\ session' \in SUBSET Commits
              /\ lock' \in Clis \cup {Seeder, NoProc}
    BY SeederParts
<1>d. \A r \in PublicationRecord : Observe(r) => record' \in [Commits -> PublicationRecord]
    BY SeederParts
<1>e. /\ Sleep \/ BeginClose => seeder' \in SeederState
      /\ \A pc \in SeederPc : Goto(pc) => seeder' \in SeederState
    BY SeederParts
<1>f. \A c : Proceed(c) \in SeederState
    BY SeederParts
<1>g. seeder.todo \in SUBSET Commits
    BY SeederParts
<1>1. CASE Start
    BY <1>1, <1>e DEF Start, TypeOK
<1>2. CASE discover_publications
  <2>1. seeder' \in SeederState
    BY <1>2, <1>a, <1>g, SeederTypes DEF discover_publications, TypeOK, SeederPc
  <2>2. QED
    BY <1>2, <2>1 DEF discover_publications, TypeOK
<1>3. CASE \E c \in Commits : DetachKeep(c)
    BY <1>3, <1>f DEF DetachKeep, TypeOK
<1>4. CASE \E c \in Commits : DetachUnfenced(c)
    BY <1>4, <1>f DEF DetachUnfenced, TypeOK
<1>5. CASE \E c \in Commits : DetachBusy(c)
    BY <1>5, <1>f DEF DetachBusy, TypeOK
<1>6. CASE \E c \in Commits : DetachLock(c)
  <2>0. PICK c \in Commits : DetachLock(c)
    BY <1>6
  <2>1. seeder' \in SeederState
    BY <2>0, <1>a, <1>g, SeederTypes DEF DetachLock, TypeOK, SeederPc
  <2>2. QED
    BY <2>0, <2>1 DEF DetachLock, TypeOK
<1>7. CASE Detach
    BY <1>7, <1>a, <1>b, <1>d, <1>f DEF Detach, TypeOK, Backend
<1>8. CASE NothingToAttach
    BY <1>8, <1>e DEF NothingToAttach, TypeOK
<1>9. CASE ReportLoad
    BY <1>9, <1>e DEF ReportLoad, TypeOK, SeederPc
<1>10. CASE ReportLock
    BY <1>10, <1>e DEF ReportLock, TypeOK, SeederPc
<1>11. CASE Report
    BY <1>11, <1>a, <1>b, <1>d, <1>e DEF Report, TypeOK, Backend
<1>12. CASE AttachLock
    BY <1>12, <1>e DEF AttachLock, TypeOK, SeederPc
<1>13. CASE AttachNot
    BY <1>13, <1>e DEF AttachNot, TypeOK
<1>14. CASE AttachMismatch
    BY <1>14, <1>a, <1>b, <1>d, <1>e DEF AttachMismatch, TypeOK, Backend
<1>15. CASE Attach
    BY <1>15, <1>a, <1>b, <1>d, <1>e DEF Attach, TypeOK, Backend
<1>16. CASE SeederRaises
    BY <1>16, <1>c, <1>e DEF SeederRaises, TypeOK
<1>17. CASE Signal
  <2>1. seeder' \in SeederState
    BY <1>17, <1>e DEF Signal
  <2>2. QED
    BY <1>17, <2>1 DEF Signal, TypeOK
<1>18. CASE \E c \in Commits : CloseLock(c)
  <2>0. PICK c \in Commits : CloseLock(c)
    BY <1>18
  <2>a. seeder.todo \ {c} \in SUBSET Commits
    BY <1>g
  <2>1. seeder' \in SeederState
    <3>1. \/ seeder' = [seeder EXCEPT !.pc = "closing", !.handle = c]
          \/ seeder' = [seeder EXCEPT !.todo = seeder.todo \ {c}]
      BY <2>0 DEF CloseLock
    <3>2. seeder \in SeederState /\ "closing" \in SeederPc
      BY DEF TypeOK, SeederPc
    <3>3. [seeder EXCEPT !.todo = seeder.todo \ {c}] \in SeederState
      BY <2>a, <3>2, SeederTypes
    <3>4. [seeder EXCEPT !.pc = "closing", !.handle = c] \in SeederState
      BY <3>2, SeederTypes
    <3>5. QED
      BY <3>1, <3>3, <3>4
  <2>2. QED
    BY <2>0, <2>1 DEF CloseLock, TypeOK
<1>19. CASE Close
  <2>1. seeder' \in SeederState
    BY <1>19, <1>a, <1>g, SeederTypes DEF Close, TypeOK, SeederPc
  <2>2. QED
    BY <1>19, <2>1, <1>a, <1>b, <1>d DEF Close, TypeOK, Backend
<1>20. CASE Closed
    BY <1>20, <1>c DEF Closed, TypeOK
<1>21. CASE SeederCrash
    BY <1>21, <1>c DEF SeederCrash, TypeOK
<1>22. QED
    BY <1>1, <1>2, <1>3, <1>4, <1>5, <1>6, <1>7, <1>8, <1>9, <1>10, <1>11, <1>12, <1>13, <1>14, <1>15, <1>16, <1>17, <1>18, <1>19, <1>20, <1>21 DEF SeederStep, Reconcile, Finish

\* The forms in which commands update their control state.
LEMMA CliTypes ==
    /\ \A s \in CliState, pc \in LockedPc \cup UnlockedPc :
         [s EXCEPT !.pc = pc] \in CliState
    /\ \A s \in CliState, pc \in LockedPc \cup UnlockedPc, b \in BOOLEAN :
         [s EXCEPT !.pc = pc, !.maintenance = b] \in CliState
    /\ \A s \in CliState, pc \in LockedPc \cup UnlockedPc, b \in BOOLEAN :
         [s EXCEPT !.pc = pc, !.healthy = b] \in CliState
    /\ \A s \in CliState, pc \in LockedPc \cup UnlockedPc, c \in Commits :
         [s EXCEPT !.pc = pc, !.target = c] \in CliState
    /\ Idle \in CliState
    /\ \A op \in AllOperations, pc \in LockedPc \cup UnlockedPc :
         [Idle EXCEPT !.op = op, !.pc = pc] \in CliState
<1>1. \A s \in CliState, pc \in LockedPc \cup UnlockedPc :
        [s EXCEPT !.pc = pc] \in CliState
    BY DEF CliState
<1>2. \A s \in CliState, pc \in LockedPc \cup UnlockedPc, b \in BOOLEAN :
        [s EXCEPT !.pc = pc, !.maintenance = b] \in CliState
    BY DEF CliState
<1>3. \A s \in CliState, pc \in LockedPc \cup UnlockedPc, b \in BOOLEAN :
        [s EXCEPT !.pc = pc, !.healthy = b] \in CliState
    BY DEF CliState
<1>4. \A s \in CliState, pc \in LockedPc \cup UnlockedPc, c \in Commits :
        [s EXCEPT !.pc = pc, !.target = c] \in CliState
    BY DEF CliState
<1>5. Idle \in CliState
    BY DEF Idle, CliState, LockedPc, UnlockedPc
<1>6. \A op \in AllOperations, pc \in LockedPc \cup UnlockedPc :
        [Idle EXCEPT !.op = op, !.pc = pc] \in CliState
    BY <1>5 DEF CliState
<1>7. QED
    BY <1>1, <1>2, <1>3, <1>4, <1>5, <1>6

\* Replacing the control state of one command.
LEMMA CliUpdate ==
    ASSUME TypeOK, NEW p \in Clis, NEW s \in CliState, cli' = [cli EXCEPT ![p] = s]
    PROVE  cli' \in [Clis -> CliState]
BY DEF TypeOK

\* What the actions of a command do to the lock, the record and itself.
LEMMA CliParts ==
    ASSUME TypeOK, NEW p \in Clis
    PROVE  /\ cli[p] \in CliState
           /\ Exit(p) => /\ cli' \in [Clis -> CliState]
                         /\ lock' \in Clis \cup {Seeder, NoProc}
           /\ \A pc \in LockedPc \cup UnlockedPc : Move(p, pc) => cli' \in [Clis -> CliState]
           /\ \A r \in PublicationRecord :
                Write(r) => record' \in [Commits -> PublicationRecord]
           /\ Fenced => fence \in Commits /\ fenced_record \in PublicationRecord
           /\ state.resolved_commit \in Commits /\ state.upstream_commit \in Commits
<1>1. cli[p] \in CliState
    BY DEF TypeOK
<1>2. Exit(p) => /\ cli' \in [Clis -> CliState]
                 /\ lock' \in Clis \cup {Seeder, NoProc}
    BY CliTypes DEF Exit, TypeOK
<1>3. \A pc \in LockedPc \cup UnlockedPc : Move(p, pc) => cli' \in [Clis -> CliState]
    BY <1>1, CliTypes DEF Move, TypeOK
<1>4. \A r \in PublicationRecord : Write(r) => record' \in [Commits -> PublicationRecord]
    BY DEF Write, TypeOK
<1>5. Fenced => fence \in Commits /\ fenced_record \in PublicationRecord
    BY DEF Fenced, fenced_record, TypeOK
<1>6. state.resolved_commit \in Commits /\ state.upstream_commit \in Commits
    BY DEF TypeOK, VerificationState
<1>7. QED
    BY <1>1, <1>2, <1>3, <1>4, <1>5, <1>6

\* No step of a command breaks the types.
LEMMA CliType ==
    ASSUME TypeOK, Targeted, NEW p \in Clis, CliStep(p)
    PROVE  TypeOK'
<1> USE DEF torrents, files, ghosts
<1>a. Fenced =>
        /\ fence \in Commits
        /\ fenced_record \in PublicationRecord
        /\ seed_stopped(fenced_record) \in PublicationRecord
        /\ retired(fenced_record) \in PublicationRecord
        /\ in_maintenance(fenced_record) \in PublicationRecord
        /\ \A b \in BOOLEAN : after_maintenance(fenced_record, b) \in PublicationRecord
    BY CliParts, RecordTransitions DEF ClientMode, Backend
<1>b. \A r \in PublicationRecord : Write(r) => record' \in [Commits -> PublicationRecord]
    BY CliParts
<1>c. Exit(p) => /\ cli' \in [Clis -> CliState]
                 /\ lock' \in Clis \cup {Seeder, NoProc}
    BY CliParts
<1>d. \A pc \in LockedPc \cup UnlockedPc : Move(p, pc) => cli' \in [Clis -> CliState]
    BY CliParts
<1>e. /\ state.resolved_commit \in Commits /\ state.upstream_commit \in Commits
      /\ cli[p] \in CliState
    BY CliParts
<1>f. AtCli(p, "transfer") \/ AtCli(p, "persist") => cli[p].target \in Commits
    BY DEF Targeted, Transfers, AtCli
<1> USE DEF LockedPc, UnlockedPc
<1>1. CASE \E op \in OneLock : Enter(p, op)
  <2>1. PICK op \in OneLock : Enter(p, op)
    BY <1>1
  <2>2. [Idle EXCEPT !.op = op, !.pc = "locked"] \in CliState
    BY CliTypes DEF OneLock, Publishing, AllOperations
  <2>3. QED
    BY <2>1, <2>2 DEF Enter, Acquire, TypeOK
<1>2. CASE repair_read(p)
  <2>1. PICK pc \in {"maintain", "repair-lock"} :
            cli' = [cli EXCEPT ![p] = [Idle EXCEPT !.op = "repair", !.pc = pc]]
    BY <1>2 DEF repair_read
  <2>2. [Idle EXCEPT !.op = "repair", !.pc = pc] \in CliState
    BY CliTypes DEF AllOperations
  <2>3. QED
    BY <1>2, <2>1, <2>2 DEF repair_read, TypeOK
<1>3. CASE update_read(p)
  <2>1. [Idle EXCEPT !.op = "update", !.pc = "repair-lock"] \in CliState
    BY CliTypes DEF AllOperations
  <2>2. QED
    BY <1>3, <2>1 DEF update_read, TypeOK
<1>4. CASE create_publication(p)
  <2>1. \A b \in BOOLEAN, m \in ClientMode :
            created(record[state.resolved_commit], b, m) \in PublicationRecord
    BY <1>e, RecordTransitions DEF TypeOK, Backend
  <2>2. record' \in [Commits -> PublicationRecord]
    BY <1>4, <1>e, <2>1 DEF create_publication, TypeOK, ClientMode
  <2>3. QED
    BY <1>4, <2>2, <1>d, <1>e DEF create_publication, TypeOK
<1>5. CASE write_fence(p)
    BY <1>5, <1>c, <1>e DEF write_fence, TypeOK
<1>6. CASE set_seed_desired(p)
    BY <1>6, <1>a, <1>b, <1>c DEF set_seed_desired, TypeOK
<1>7. CASE show(p)
    BY <1>7, <1>c DEF show, TypeOK
<1>8. CASE retire_stop(p)
    BY <1>8, <1>a, <1>b, <1>d DEF retire_stop, TypeOK
<1>9. CASE wait_for_maintenance_detach(p)
    BY <1>9, <1>d DEF wait_for_maintenance_detach, TypeOK
<1>10. CASE detach_timeout(p)
    BY <1>10, <1>c DEF detach_timeout, TypeOK
<1>11. CASE retire_lock(p)
    BY <1>11, <1>c, <1>d DEF retire_lock, TypeOK
<1>12. CASE retire_publication(p)
    BY <1>12, <1>a, <1>b, <1>d DEF retire_publication, TypeOK, Retirable
<1>13. CASE unlink_fence(p)
    BY <1>13, <1>c DEF unlink_fence, TypeOK
<1>14. CASE maintenance_lock(p)
    BY <1>14, <1>c, <1>d DEF maintenance_lock, TypeOK
<1>15. CASE begin_maintenance(p)
  <2>1. CASE Fenced
    <3>1. [cli[p] EXCEPT !.pc = "detach-wait", !.maintenance = TRUE] \in CliState
      BY <1>e, CliTypes
    <3>2. QED
      BY <1>15, <2>1, <3>1, <1>a, <1>b DEF begin_maintenance, TypeOK
  <2>2. CASE ~Fenced
    BY <1>15, <2>2, <1>d DEF begin_maintenance, TypeOK
  <2>3. QED
    BY <2>1, <2>2
<1>16. CASE repair_lock(p)
    BY <1>16, <1>c, <1>d DEF repair_lock, TypeOK
<1>17. CASE repair_locked(p)
  <2>1. /\ \A c \in Commits : [cli[p] EXCEPT !.pc = "transfer", !.target = c] \in CliState
        /\ \A b \in BOOLEAN : [cli[p] EXCEPT !.pc = "finish", !.healthy = b] \in CliState
    BY <1>e, CliTypes
  <2>2. QED
    BY <1>17, <2>1, <1>e DEF repair_locked, TypeOK
<1>18. CASE verification_incomplete(p)
  <2>1. [cli[p] EXCEPT !.pc = "finish", !.healthy = FALSE] \in CliState
    BY <1>e, CliTypes
  <2>2. QED
    BY <1>18, <2>1 DEF verification_incomplete, TypeOK
<1>19. CASE finish_maintenance(p)
    BY <1>19, <1>a, <1>b, <1>c, <1>e DEF finish_maintenance, TypeOK, CliState
<1>20. CASE failed_lock(p)
    BY <1>20, <1>c, <1>d DEF failed_lock, TypeOK
<1>21. CASE finish_failed(p)
    BY <1>21, <1>a, <1>b, <1>c DEF finish_failed, TypeOK
<1>22. CASE mirror_present(p)
  <2>1. PICK target \in MirrorTargets :
            IF state.status = "clean" /\ state.resolved_commit = target
            THEN UNCHANGED <<state, manifest>>
            ELSE /\ state' = [status |-> IF PayloadIs(target) THEN "clean" ELSE "dirty",
                              resolved_commit |-> target, upstream_commit |-> target]
                 /\ manifest' = payload.intact
    BY <1>22 DEF mirror_present
  <2>2. target \in Commits
    BY DEF MirrorTargets, TypeOK
  <2>3. state' \in VerificationState /\ manifest' \in BOOLEAN
    BY <2>1, <2>2 DEF TypeOK, VerificationState, Status, Payload
  <2>4. QED
    BY <1>22, <2>3, <1>c DEF mirror_present, TypeOK
<1>23. CASE mirror_replace(p)
  <2>1. PICK target \in MirrorTargets :
            /\ state' = [status |-> "in_progress", resolved_commit |-> target,
                         upstream_commit |-> target]
            /\ cli' = [cli EXCEPT ![p].pc = "transfer", ![p].target = target]
    BY <1>23 DEF mirror_replace
  <2>2. target \in Commits
    BY DEF MirrorTargets, TypeOK
  <2>3. state' \in VerificationState
    BY <2>1, <2>2 DEF VerificationState, Status
  <2>4. [cli[p] EXCEPT !.pc = "transfer", !.target = target] \in CliState
    BY <2>2, <1>e, CliTypes
  <2>5. cli' \in [Clis -> CliState]
    BY <2>1, <2>4 DEF TypeOK
  <2>6. QED
    BY <1>23, <2>3, <2>5 DEF mirror_replace, TypeOK
<1>24. CASE transfer_file(p)
    BY <1>24, <1>f DEF transfer_file, TypeOK, Payload
<1>25. CASE transferred(p)
  <2>1. \/ UNCHANGED <<payload, manifest, fingerprints>>
        \/ /\ payload' = [commit |-> cli[p].target, intact |-> TRUE]
           /\ manifest' = TRUE
           /\ fingerprints' = {}
    BY <1>25 DEF transferred
  <2>2. [commit |-> cli[p].target, intact |-> TRUE] \in Payload
    BY <1>25, <1>f DEF transferred, Payload
  <2>3. payload' \in Payload /\ manifest' \in BOOLEAN /\ fingerprints' \in SUBSET Commits
    BY <2>1, <2>2 DEF TypeOK
  <2>4. QED
    BY <1>25, <2>3, <1>d DEF transferred, TypeOK
<1>26. CASE transfer_fails(p)
    BY <1>26, <1>c, <1>d DEF transfer_fails, TypeOK
<1>27. CASE persist_repair_state(p)
  <2>1. PICK status \in Status :
            /\ \/ state' = [state EXCEPT !.status = status]
               \/ state' = [status |-> status, resolved_commit |-> cli[p].target,
                            upstream_commit |-> cli[p].target]
            /\ cli' = [cli EXCEPT ![p].pc = "finish", ![p].healthy = (status = "clean")]
    BY <1>27 DEF persist_repair_state, Status
  <2>2. cli[p].target \in Commits
    BY <1>27, <1>f DEF persist_repair_state
  <2>3. state' \in VerificationState
    BY <2>1, <2>2 DEF TypeOK, VerificationState
  <2>4. [cli[p] EXCEPT !.pc = "finish", !.healthy = (status = "clean")] \in CliState
    BY <1>e, CliTypes
  <2>5. cli' \in [Clis -> CliState]
    BY <2>1, <2>4 DEF TypeOK
  <2>6. QED
    BY <1>27, <2>3, <2>5 DEF persist_repair_state, TypeOK
<1>28. CASE verify(p)
  <2>1. state' \in VerificationState /\ manifest' \in BOOLEAN
    BY <1>28 DEF verify, TypeOK, VerificationState, Status, PayloadIs
  <2>2. QED
    BY <1>28, <2>1, <1>c DEF verify, TypeOK
<1>29. CASE refuse(p)
    BY <1>29, <1>c DEF refuse, TypeOK
<1>30. CASE CliCrash(p)
    BY <1>30, <1>c DEF CliCrash, TypeOK
<1>31. QED
    BY <1>1, <1>2, <1>3, <1>4, <1>5, <1>6, <1>7, <1>8, <1>9, <1>10, <1>11, <1>12, <1>13, <1>14, <1>15, <1>16, <1>17, <1>18, <1>19, <1>20, <1>21, <1>22, <1>23, <1>24, <1>25, <1>26, <1>27, <1>28, <1>29, <1>30
       DEF CliStep, Issue, CliRuns

\* How a command moves, and that no other command moves with it.
LEMMA CliMoves ==
    ASSUME TypeOK, NEW p \in Clis
    PROVE  /\ \A pc : Move(p, pc) =>
                /\ cli'[p].pc = pc /\ cli'[p].op = cli[p].op /\ cli'[p].target = cli[p].target
                /\ \A q \in Clis \ {p} : cli'[q] = cli[q]
           /\ Exit(p) =>
                /\ cli'[p].pc = "idle" /\ cli'[p].op = "none"
                /\ \A q \in Clis \ {p} : cli'[q] = cli[q]
                /\ lock' = IF lock = p THEN NoProc ELSE lock
           /\ \A s : cli' = [cli EXCEPT ![p] = s] =>
                /\ cli'[p] = s
                /\ \A q \in Clis \ {p} : cli'[q] = cli[q]
           /\ \A pc, b : cli' = [cli EXCEPT ![p].pc = pc, ![p].maintenance = b] =>
                /\ cli'[p].pc = pc /\ cli'[p].op = cli[p].op
                /\ \A q \in Clis \ {p} : cli'[q] = cli[q]
           /\ \A pc, b : cli' = [cli EXCEPT ![p].pc = pc, ![p].healthy = b] =>
                /\ cli'[p].pc = pc /\ cli'[p].op = cli[p].op
                /\ \A q \in Clis \ {p} : cli'[q] = cli[q]
           /\ \A pc, c : cli' = [cli EXCEPT ![p].pc = pc, ![p].target = c] =>
                /\ cli'[p].pc = pc /\ cli'[p].op = cli[p].op /\ cli'[p].target = c
                /\ \A q \in Clis \ {p} : cli'[q] = cli[q]
<1>1. cli \in [Clis -> CliState] /\ cli[p] \in CliState
    BY DEF TypeOK
<1>2. \A pc : Move(p, pc) =>
        /\ cli'[p].pc = pc /\ cli'[p].op = cli[p].op /\ cli'[p].target = cli[p].target
        /\ \A q \in Clis \ {p} : cli'[q] = cli[q]
    BY <1>1 DEF Move, CliState
<1>3. Exit(p) =>
        /\ cli'[p].pc = "idle" /\ cli'[p].op = "none"
        /\ \A q \in Clis \ {p} : cli'[q] = cli[q]
        /\ lock' = IF lock = p THEN NoProc ELSE lock
    BY <1>1 DEF Exit, Idle
<1>4. \A s : cli' = [cli EXCEPT ![p] = s] =>
        /\ cli'[p] = s
        /\ \A q \in Clis \ {p} : cli'[q] = cli[q]
    BY <1>1
<1>5. \A pc, b : cli' = [cli EXCEPT ![p].pc = pc, ![p].maintenance = b] =>
        /\ cli'[p].pc = pc /\ cli'[p].op = cli[p].op
        /\ \A q \in Clis \ {p} : cli'[q] = cli[q]
    BY <1>1 DEF CliState
<1>6. \A pc, b : cli' = [cli EXCEPT ![p].pc = pc, ![p].healthy = b] =>
        /\ cli'[p].pc = pc /\ cli'[p].op = cli[p].op
        /\ \A q \in Clis \ {p} : cli'[q] = cli[q]
    BY <1>1 DEF CliState
<1>7. \A pc, c : cli' = [cli EXCEPT ![p].pc = pc, ![p].target = c] =>
        /\ cli'[p].pc = pc /\ cli'[p].op = cli[p].op /\ cli'[p].target = c
        /\ \A q \in Clis \ {p} : cli'[q] = cli[q]
    BY <1>1 DEF CliState
<1>8. QED
    BY <1>2, <1>3, <1>4, <1>5, <1>6, <1>7

\* A repair that is at its end.
LEMMA CliFinishes ==
    ASSUME TypeOK, NEW p \in Clis,
           \E b : cli' = [cli EXCEPT ![p].pc = "finish", ![p].healthy = b]
    PROVE  cli'[p].pc = "finish" /\ \A q \in Clis \ {p} : cli'[q] = cli[q]
<1>1. cli \in [Clis -> CliState] /\ cli[p] \in CliState
    BY DEF TypeOK
<1>2. QED
    BY <1>1 DEF CliState

\* What a step does to the lock: its process keeps its side of it, takes it
\* when it is free, or gives it back.
Keeps_lock(p) == lock' = lock /\ (cli'[p].pc \in LockedPc <=> cli[p].pc \in LockedPc)

Takes_lock(p) == lock = NoProc /\ lock' = p /\ cli'[p].pc \in LockedPc

Gives_back(p) == lock = p /\ lock' = NoProc /\ cli'[p].pc \notin LockedPc

\* A command keeps its side of the lock and leaves everybody else's alone.
LEMMA CliLocking ==
    ASSUME TypeOK, LockOwned, NEW p \in Clis, CliStep(p)
    PROVE  /\ Keeps_lock(p) \/ Takes_lock(p) \/ Gives_back(p)
           /\ \A q \in Clis \ {p} : cli'[q] = cli[q]
           /\ UNCHANGED seeder
<1>a. /\ cli[p].pc \in LockedPc <=> lock = p
      /\ p # NoProc
    BY ConstantsAssumption DEF LockOwned
<1>b. Exit(p) => /\ Keeps_lock(p) \/ Gives_back(p)
                 /\ \A q \in Clis \ {p} : cli'[q] = cli[q]
    BY <1>a, CliMoves DEF Keeps_lock, Gives_back, LockedPc
<1>c. \A pc : Move(p, pc) =>
        /\ cli'[p].pc = pc
        /\ \A q \in Clis \ {p} : cli'[q] = cli[q]
    BY CliMoves
<1>d. \A s : cli' = [cli EXCEPT ![p] = s] =>
        /\ cli'[p] = s
        /\ \A q \in Clis \ {p} : cli'[q] = cli[q]
    BY CliMoves
<1>e. cli \in [Clis -> CliState] /\ cli[p] \in CliState
    BY DEF TypeOK
<1>f. \A pc, c : cli' = [cli EXCEPT ![p].pc = pc, ![p].target = c] =>
        /\ cli'[p].pc = pc
        /\ \A q \in Clis \ {p} : cli'[q] = cli[q]
    BY <1>e DEF CliState
<1> USE DEF LockedPc, Keeps_lock, Takes_lock, Gives_back, AtCli, Locked
<1>1. CASE \E op \in OneLock : Enter(p, op)
  <2>1. PICK op \in OneLock : Enter(p, op)
    BY <1>1
  <2>2. /\ cli'[p] = [Idle EXCEPT !.op = op, !.pc = "locked"]
        /\ \A q \in Clis \ {p} : cli'[q] = cli[q]
    BY <2>1, <1>d DEF Enter
  <2>3. cli'[p].pc = "locked"
    BY <2>2 DEF Idle
  <2>4. QED
    BY <2>1, <2>2, <2>3 DEF Enter, Acquire
<1>2. CASE repair_read(p)
  <2>1. PICK pc \in {"maintain", "repair-lock"} :
            cli' = [cli EXCEPT ![p] = [Idle EXCEPT !.op = "repair", !.pc = pc]]
    BY <1>2 DEF repair_read
  <2>2. /\ cli'[p].pc \in {"maintain", "repair-lock"}
        /\ \A q \in Clis \ {p} : cli'[q] = cli[q]
    BY <2>1, <1>d DEF Idle
  <2>3. QED
    BY <1>2, <2>2, <1>a DEF repair_read
<1>3. CASE update_read(p)
  <2>1. /\ cli'[p].pc = "repair-lock"
        /\ \A q \in Clis \ {p} : cli'[q] = cli[q]
    BY <1>3, <1>d DEF update_read, Idle
  <2>2. QED
    BY <1>3, <2>1, <1>a DEF update_read
<1>4. CASE create_publication(p)
    BY <1>4, <1>a, <1>c DEF create_publication
<1>5. CASE write_fence(p)
    BY <1>5, <1>b DEF write_fence
<1>6. CASE set_seed_desired(p)
    BY <1>6, <1>b DEF set_seed_desired
<1>7. CASE show(p)
    BY <1>7, <1>b DEF show
<1>8. CASE retire_stop(p)
    BY <1>8, <1>a, <1>c DEF retire_stop
<1>9. CASE wait_for_maintenance_detach(p)
    BY <1>9, <1>a, <1>c DEF wait_for_maintenance_detach
<1>10. CASE detach_timeout(p)
    BY <1>10, <1>b DEF detach_timeout
<1>11. CASE retire_lock(p)
    BY <1>11, <1>a, <1>b, <1>c DEF retire_lock
<1>12. CASE retire_publication(p)
    BY <1>12, <1>a, <1>c DEF retire_publication
<1>13. CASE unlink_fence(p)
    BY <1>13, <1>b DEF unlink_fence
<1>14. CASE maintenance_lock(p)
    BY <1>14, <1>a, <1>b, <1>c DEF maintenance_lock
<1>15. CASE begin_maintenance(p)
  <2>1. /\ cli'[p].pc \in {"detach-wait", "repair-lock"}
        /\ \A q \in Clis \ {p} : cli'[q] = cli[q]
    BY <1>15, CliMoves DEF begin_maintenance
  <2>2. QED
    BY <1>15, <2>1, <1>a DEF begin_maintenance
<1>16. CASE repair_lock(p)
    BY <1>16, <1>a, <1>b, <1>c DEF repair_lock
<1>17. CASE repair_locked(p)
  <2>1. PICK s : /\ cli' = [cli EXCEPT ![p] = s]
                 /\ \/ s = [cli[p] EXCEPT !.pc = "transfer", !.target = state.upstream_commit]
                    \/ s = [cli[p] EXCEPT !.pc = "transfer", !.target = state.resolved_commit]
                    \/ s = [cli[p] EXCEPT !.pc = "finish", !.healthy = (state.status = "clean")]
    BY <1>17 DEF repair_locked
  <2>2. s.pc \in {"transfer", "finish"}
    BY <2>1, <1>e DEF CliState
  <2>3. /\ cli'[p].pc \in {"transfer", "finish"}
        /\ \A q \in Clis \ {p} : cli'[q] = cli[q]
    BY <2>1, <2>2, <1>d
  <2>4. QED
    BY <1>17, <2>3, <1>a DEF repair_locked
<1>18. CASE verification_incomplete(p)
  <2>1. /\ cli'[p].pc = "finish"
        /\ \A q \in Clis \ {p} : cli'[q] = cli[q]
    <3>1. cli' = [cli EXCEPT ![p].pc = "finish", ![p].healthy = FALSE]
        BY <1>18 DEF verification_incomplete
    <3>2. QED
        BY <3>1, CliFinishes
  <2>2. QED
    BY <1>18, <2>1, <1>a DEF verification_incomplete
<1>19. CASE finish_maintenance(p)
    BY <1>19, <1>b DEF finish_maintenance
<1>20. CASE failed_lock(p)
    BY <1>20, <1>a, <1>b, <1>c DEF failed_lock
<1>21. CASE finish_failed(p)
    BY <1>21, <1>b DEF finish_failed
<1>22. CASE mirror_present(p)
    BY <1>22, <1>b DEF mirror_present
<1>23. CASE mirror_replace(p)
  <2>0. PICK target : cli' = [cli EXCEPT ![p].pc = "transfer", ![p].target = target]
    BY <1>23 DEF mirror_replace
  <2>1. /\ cli'[p].pc = "transfer"
        /\ \A q \in Clis \ {p} : cli'[q] = cli[q]
    BY <2>0, <1>f
  <2>2. QED
    BY <1>23, <2>1, <1>a DEF mirror_replace
<1>24. CASE transfer_file(p)
    BY <1>24, <1>a DEF transfer_file
<1>25. CASE transferred(p)
    BY <1>25, <1>a, <1>c DEF transferred
<1>26. CASE transfer_fails(p)
    BY <1>26, <1>a, <1>b, <1>c DEF transfer_fails
<1>27. CASE persist_repair_state(p)
  <2>1. /\ cli'[p].pc = "finish"
        /\ \A q \in Clis \ {p} : cli'[q] = cli[q]
    <3>1. \E b : cli' = [cli EXCEPT ![p].pc = "finish", ![p].healthy = b]
        BY <1>27 DEF persist_repair_state
    <3>2. QED
        BY <3>1, CliFinishes
  <2>2. QED
    BY <1>27, <2>1, <1>a DEF persist_repair_state
<1>28. CASE verify(p)
    BY <1>28, <1>b DEF verify
<1>29. CASE refuse(p)
    BY <1>29, <1>b DEF refuse
<1>30. CASE CliCrash(p)
    BY <1>30, <1>b DEF CliCrash
<1>31. QED
    BY <1>1, <1>2, <1>3, <1>4, <1>5, <1>6, <1>7, <1>8, <1>9, <1>10, <1>11, <1>12, <1>13, <1>14, <1>15, <1>16, <1>17, <1>18, <1>19, <1>20, <1>21, <1>22, <1>23, <1>24, <1>25, <1>26, <1>27, <1>28, <1>29, <1>30
       DEF CliStep, Issue, CliRuns

\* How the seeder moves.
LEMMA SeederMoves ==
    ASSUME TypeOK
    PROVE  /\ Sleep => seeder'.pc = "sleep"
           /\ Gone => seeder'.pc = "down" /\ lock' = IF lock = Seeder THEN NoProc ELSE lock
           /\ BeginClose => seeder'.pc = "close" /\ seeder'.todo = session
           /\ \A pc : Goto(pc) => seeder'.pc = pc
           /\ \A c : Proceed(c).pc = "detach"
<1>1. BeginClose => seeder'.pc = "close" /\ seeder'.todo = session
    BY DEF BeginClose, Down
<1>2. QED
    BY <1>1 DEF TypeOK, SeederState, Sleep, Gone, Goto, Proceed, Down

\* The seeder keeps its side of the lock, and neither moves a command nor
\* touches the fence, the state or the payload.
LEMMA SeederLocking ==
    ASSUME TypeOK, LockOwned, SeederStep
    PROVE  LockOwned' /\ UNCHANGED <<cli, fence, state, payload>>
<1>a. /\ seeder \in SeederState /\ Seeder # NoProc
      /\ \A p \in Clis : p # Seeder /\ p # NoProc
    BY ConstantsAssumption DEF TypeOK
<1>b. /\ Sleep => seeder'.pc = "sleep"
      /\ Gone => seeder'.pc = "down" /\ lock' = IF lock = Seeder THEN NoProc ELSE lock
      /\ BeginClose => seeder'.pc = "close"
      /\ \A pc : Goto(pc) => seeder'.pc = pc
      /\ \A c : Proceed(c).pc = "detach"
    BY SeederMoves
<1> USE <1>a, <1>b DEF LockOwned, At, torrents, files, SecondLoop, Down, SeederState
<1>1. CASE Start
    BY <1>1 DEF Start
<1>2. CASE discover_publications
    BY <1>2 DEF discover_publications
<1>3. CASE \E c \in Commits : DetachKeep(c)
    BY <1>3 DEF DetachKeep
<1>4. CASE \E c \in Commits : DetachUnfenced(c)
    BY <1>4 DEF DetachUnfenced
<1>5. CASE \E c \in Commits : DetachBusy(c)
    BY <1>5 DEF DetachBusy
<1>6. CASE \E c \in Commits : DetachLock(c)
    BY <1>6 DEF DetachLock
<1>7. CASE Detach
    BY <1>7 DEF Detach
<1>8. CASE NothingToAttach
    BY <1>8 DEF NothingToAttach
<1>9. CASE ReportLoad
    BY <1>9 DEF ReportLoad
<1>10. CASE ReportLock
    BY <1>10 DEF ReportLock
<1>11. CASE Report
    BY <1>11 DEF Report
<1>12. CASE AttachLock
    BY <1>12 DEF AttachLock
<1>13. CASE AttachNot
    BY <1>13 DEF AttachNot
<1>14. CASE AttachMismatch
    BY <1>14 DEF AttachMismatch
<1>15. CASE Attach
    BY <1>15 DEF Attach
<1>16. CASE SeederRaises
    BY <1>16 DEF SeederRaises, Raises
<1>17. CASE Signal
    BY <1>17 DEF Signal
<1>18. CASE \E c \in Commits : CloseLock(c)
    BY <1>18 DEF CloseLock
<1>19. CASE Close
    BY <1>19 DEF Close
<1>20. CASE Closed
    BY <1>20 DEF Closed
<1>21. CASE SeederCrash
    BY <1>21 DEF SeederCrash
<1>22. QED
    BY <1>1, <1>2, <1>3, <1>4, <1>5, <1>6, <1>7, <1>8, <1>9, <1>10, <1>11, <1>12, <1>13, <1>14, <1>15, <1>16, <1>17, <1>18, <1>19, <1>20, <1>21 DEF SeederStep, Reconcile, Finish

\* Most steps of a command leave alone what the publication pins.
Quiet(p) ==
    /\ cli'[p].pc \notin {"transfer", "persist", "publish-fence"}
    /\ UNCHANGED <<fence, payload>>
    /\ state'.resolved_commit = state.resolved_commit

Loud(p) ==
    \/ create_publication(p) \/ write_fence(p) \/ unlink_fence(p)
    \/ repair_locked(p) \/ mirror_present(p) \/ mirror_replace(p)
    \/ transfer_file(p) \/ transferred(p) \/ persist_repair_state(p)

\* The quiet actions of a command leave what the pins speak of as it is.
LEMMA CliQuiet ==
    ASSUME TypeOK, NEW p \in Clis, CliStep(p)
    PROVE  /\ Quiet(p) \/ Loud(p)
           /\ "update" \notin Operations /\ cli[p].op # "update" => cli'[p].op # "update"
<1>a. Exit(p) => /\ cli'[p].pc = "idle"
                 /\ cli'[p].op = "none"
    BY CliMoves
<1>b. \A pc : Move(p, pc) => cli'[p].pc = pc /\ cli'[p].op = cli[p].op
    BY CliMoves
<1>c. /\ cli \in [Clis -> CliState] /\ cli[p] \in CliState
      /\ state \in VerificationState
    BY DEF TypeOK
<1>d. \A s : cli' = [cli EXCEPT ![p] = s] => cli'[p] = s
    BY <1>c
<1> USE DEF Quiet, Loud, torrents, files
<1>1. CASE \E op \in OneLock : Enter(p, op)
  <2>1. PICK op \in OneLock : Enter(p, op)
    BY <1>1
  <2>2. cli'[p] = [Idle EXCEPT !.op = op, !.pc = "locked"]
    BY <2>1, <1>d DEF Enter
  <2>3. cli'[p].pc = "locked" /\ cli'[p].op = op
    BY <2>2 DEF Idle
  <2>4. QED
    BY <2>1, <2>3 DEF Enter, OneLock, Publishing
<1>2. CASE repair_read(p)
  <2>1. PICK pc \in {"maintain", "repair-lock"} :
            cli' = [cli EXCEPT ![p] = [Idle EXCEPT !.op = "repair", !.pc = pc]]
    BY <1>2 DEF repair_read
  <2>2. cli'[p].pc = pc /\ cli'[p].op = "repair"
    BY <2>1, <1>d DEF Idle
  <2>3. QED
    BY <1>2, <2>2 DEF repair_read
<1>3. CASE update_read(p)
  <2>1. cli'[p] = [Idle EXCEPT !.op = "update", !.pc = "repair-lock"]
    BY <1>3, <1>d DEF update_read
  <2>2. cli'[p].pc = "repair-lock"
    BY <2>1 DEF Idle
  <2>3. QED
    BY <1>3, <2>2 DEF update_read
<1>4. CASE create_publication(p)
    BY <1>4, <1>b DEF create_publication
<1>5. CASE write_fence(p)
    BY <1>5, <1>a DEF write_fence
<1>6. CASE set_seed_desired(p)
    BY <1>6, <1>a DEF set_seed_desired
<1>7. CASE show(p)
    BY <1>7, <1>a DEF show
<1>8. CASE retire_stop(p)
    BY <1>8, <1>b DEF retire_stop
<1>9. CASE wait_for_maintenance_detach(p)
    BY <1>9, <1>b DEF wait_for_maintenance_detach
<1>10. CASE detach_timeout(p)
    BY <1>10, <1>a DEF detach_timeout
<1>11. CASE retire_lock(p)
    BY <1>11, <1>a, <1>b DEF retire_lock
<1>12. CASE retire_publication(p)
    BY <1>12, <1>b DEF retire_publication
<1>13. CASE unlink_fence(p)
    BY <1>13, <1>a DEF unlink_fence
<1>14. CASE maintenance_lock(p)
    BY <1>14, <1>a, <1>b DEF maintenance_lock
<1>15. CASE begin_maintenance(p)
  <2>1. /\ cli'[p].pc \in {"detach-wait", "repair-lock"}
        /\ cli'[p].op = cli[p].op
    BY <1>15, <1>b, <1>c DEF begin_maintenance, CliState
  <2>2. QED
    BY <1>15, <2>1 DEF begin_maintenance
<1>16. CASE repair_lock(p)
    BY <1>16, <1>a, <1>b DEF repair_lock
<1>17. CASE repair_locked(p)
  <2>1. PICK s : /\ cli' = [cli EXCEPT ![p] = s]
                 /\ \/ s = [cli[p] EXCEPT !.pc = "transfer", !.target = state.upstream_commit]
                    \/ s = [cli[p] EXCEPT !.pc = "transfer", !.target = state.resolved_commit]
                    \/ s = [cli[p] EXCEPT !.pc = "finish", !.healthy = (state.status = "clean")]
    BY <1>17 DEF repair_locked
  <2>2. s.op = cli[p].op
    BY <2>1, <1>c DEF CliState
  <2>3. QED
    BY <1>17, <2>1, <2>2, <1>d
<1>18. CASE verification_incomplete(p)
    BY <1>18, <1>c DEF verification_incomplete, CliState
<1>19. CASE finish_maintenance(p)
    BY <1>19, <1>a DEF finish_maintenance
<1>20. CASE failed_lock(p)
    BY <1>20, <1>a, <1>b DEF failed_lock
<1>21. CASE finish_failed(p)
    BY <1>21, <1>a DEF finish_failed
<1>22. CASE mirror_present(p)
    BY <1>22, <1>a DEF mirror_present
<1>23. CASE mirror_replace(p)
    BY <1>23, <1>c DEF mirror_replace, CliState
<1>24. CASE transfer_file(p)
    BY <1>24 DEF transfer_file
<1>25. CASE transferred(p)
    BY <1>25, <1>b DEF transferred
<1>26. CASE transfer_fails(p)
    BY <1>26, <1>a, <1>b DEF transfer_fails
<1>27. CASE persist_repair_state(p)
  <2>1. PICK b : cli' = [cli EXCEPT ![p].pc = "finish", ![p].healthy = b]
    BY <1>27 DEF persist_repair_state
  <2>2. cli'[p].op = cli[p].op
    BY <2>1, <1>c DEF CliState
  <2>3. QED
    BY <1>27, <2>2
<1>28. CASE verify(p)
    BY <1>28, <1>a, <1>c DEF verify, VerificationState
<1>29. CASE refuse(p)
    BY <1>29, <1>a DEF refuse
<1>30. CASE CliCrash(p)
    BY <1>30, <1>a DEF CliCrash
<1>31. QED
    BY <1>1, <1>2, <1>3, <1>4, <1>5, <1>6, <1>7, <1>8, <1>9, <1>10, <1>11, <1>12, <1>13, <1>14, <1>15, <1>16, <1>17, <1>18, <1>19, <1>20, <1>21, <1>22, <1>23, <1>24, <1>25, <1>26, <1>27, <1>28, <1>29, <1>30
       DEF CliStep, Issue, CliRuns

\* A transfer never loses its target.
LEMMA CliTargets ==
    ASSUME TypeOK, LockOwned, Targeted, NEW p \in Clis, CliStep(p)
    PROVE  Targeted'
<1>a. \A q \in Clis \ {p} : cli'[q] = cli[q]
    BY CliLocking
<1>b. cli[p] \in CliState /\ state.resolved_commit \in Commits /\ state.upstream_commit \in Commits
    BY CliParts
<1>c. SUFFICES Transfers(p)' => cli'[p].target \in Commits
    BY <1>a DEF Targeted, Transfers
<1>1. CASE Quiet(p)
    BY <1>1 DEF Quiet, Transfers
<1>2. CASE create_publication(p) \/ write_fence(p) \/ unlink_fence(p) \/ mirror_present(p)
    BY <1>2, CliMoves
       DEF create_publication, write_fence, unlink_fence, mirror_present, Transfers
<1>3. CASE repair_locked(p)
  <2>1. PICK s : /\ cli' = [cli EXCEPT ![p] = s]
                 /\ \/ s = [cli[p] EXCEPT !.pc = "transfer", !.target = state.upstream_commit]
                    \/ s = [cli[p] EXCEPT !.pc = "transfer", !.target = state.resolved_commit]
                    \/ s = [cli[p] EXCEPT !.pc = "finish", !.healthy = (state.status = "clean")]
    BY <1>3 DEF repair_locked
  <2>2. s.target \in Commits \/ s.pc = "finish"
    BY <2>1, <1>b DEF CliState
  <2>3. cli'[p] = s
    BY <2>1 DEF TypeOK
  <2>4. QED
    BY <2>2, <2>3 DEF Transfers
<1>4. CASE mirror_replace(p)
  <2>1. PICK target \in MirrorTargets :
            cli' = [cli EXCEPT ![p].pc = "transfer", ![p].target = target]
    BY <1>4 DEF mirror_replace
  <2>2. target \in Commits
    BY DEF MirrorTargets, TypeOK
  <2>3. cli'[p].target = target
    BY <2>1, <1>b DEF TypeOK, CliState
  <2>4. QED
    BY <2>2, <2>3
<1>5. CASE transfer_file(p)
    BY <1>5 DEF transfer_file, Targeted, Transfers
<1>6. CASE transferred(p)
    BY <1>6, CliMoves DEF transferred, Targeted, Transfers, AtCli
<1>7. CASE persist_repair_state(p)
  <2>1. PICK b : cli' = [cli EXCEPT ![p].pc = "finish", ![p].healthy = b]
    BY <1>7 DEF persist_repair_state
  <2>2. cli'[p].pc = "finish"
    BY <2>1, <1>b DEF TypeOK, CliState
  <2>3. QED
    BY <2>2 DEF Transfers
<1>8. QED
    BY <1>1, <1>2, <1>3, <1>4, <1>5, <1>6, <1>7, CliQuiet DEF Loud

\* No step of a command lets go of what the publication pins.
LEMMA CliPins ==
    ASSUME TypeOK, LockOwned, Pins, "update" \notin Operations, NEW p \in Clis, CliStep(p)
    PROVE  Pins'
<1>a. \A q \in Clis \ {p} : cli'[q] = cli[q]
    BY CliLocking
<1>b. cli[p] \in CliState
    BY CliParts
<1>c. NoUpdates'
    BY <1>a, CliQuiet DEF Pins, NoUpdates
<1>d. cli[p].pc \in LockedPc => \A q \in Clis \ {p} : cli[q].pc \notin LockedPc
    BY DEF LockOwned
<1> USE DEF Pins, FencedTransfers, FencePending, PublishedCommitPinned, Transfers
<1>1. CASE Quiet(p)
    BY <1>1, <1>a, <1>c DEF Quiet
<1>2. CASE create_publication(p)
  <2>1. /\ cli'[p].pc = "publish-fence"
        /\ UNCHANGED <<fence, state, payload>>
    BY <1>2, CliMoves DEF create_publication
  <2>2. payload.commit = state.resolved_commit /\ fence \in {NoCommit, state.resolved_commit}
    BY <1>2 DEF create_publication, Publishable, UpdateAllowed
  <2>3. QED
    BY <2>1, <2>2, <1>a, <1>c
<1>3. CASE write_fence(p)
  <2>1. /\ cli'[p].pc = "idle"
        /\ fence' = state.resolved_commit /\ UNCHANGED <<state, payload>>
        /\ payload.commit = state.resolved_commit
    BY <1>3, CliMoves DEF write_fence, AtCli, files
  <2>2. \A q \in Clis \ {p} : cli[q].pc \notin LockedPc
    BY <1>3, <1>d DEF write_fence, AtCli, LockedPc
  <2>3. QED
    BY <2>1, <2>2, <1>a, <1>c DEF LockedPc
<1>4. CASE unlink_fence(p)
  <2>1. /\ cli'[p].pc = "idle"
        /\ fence' = NoCommit /\ UNCHANGED <<state, payload>>
    BY <1>4, CliMoves DEF unlink_fence, files
  <2>2. QED
    BY <2>1, <1>a, <1>c
<1>5. CASE repair_locked(p)
  <2>1. PICK s : /\ cli' = [cli EXCEPT ![p] = s]
                 /\ \/ s = [cli[p] EXCEPT !.pc = "transfer", !.target = state.resolved_commit]
                    \/ s = [cli[p] EXCEPT !.pc = "finish", !.healthy = (state.status = "clean")]
    BY <1>5 DEF repair_locked, NoUpdates
  <2>2. \/ s.pc = "transfer" /\ s.target = state.resolved_commit
        \/ s.pc = "finish"
    BY <2>1, <1>b DEF CliState
  <2>3. cli'[p] = s /\ UNCHANGED <<fence, state, payload>>
    BY <2>1, <1>5 DEF TypeOK, repair_locked, torrents, files
  <2>4. QED
    BY <2>2, <2>3, <1>a, <1>c
<1>6. CASE mirror_present(p)
  <2>1. PICK target \in MirrorTargets :
            /\ UpdateAllowed(target)
            /\ IF state.status = "clean" /\ state.resolved_commit = target
               THEN UNCHANGED <<state, manifest>>
               ELSE /\ state' = [status |-> IF PayloadIs(target) THEN "clean" ELSE "dirty",
                                 resolved_commit |-> target, upstream_commit |-> target]
                    /\ manifest' = payload.intact
    BY <1>6 DEF mirror_present
  <2>2. fence \in {NoCommit, state'.resolved_commit}
    BY <2>1 DEF UpdateAllowed
  <2>3. cli'[p].pc = "idle" /\ UNCHANGED <<fence, payload>>
    BY <1>6, CliMoves DEF mirror_present, torrents
  <2>4. \A q \in Clis \ {p} : cli[q].pc \notin LockedPc
    BY <1>6, <1>d DEF mirror_present, Locked, AtCli, LockedPc
  <2>5. QED
    BY <2>2, <2>3, <2>4, <1>a, <1>c DEF LockedPc
<1>7. CASE mirror_replace(p)
  <2>1. PICK target \in MirrorTargets :
            /\ UpdateAllowed(target) /\ ~Fenced
            /\ cli' = [cli EXCEPT ![p].pc = "transfer", ![p].target = target]
    BY <1>7 DEF mirror_replace
  <2>2. fence = NoCommit
    BY <2>1 DEF UpdateAllowed, Loadable, Fenced
  <2>3. cli'[p].pc = "transfer" /\ UNCHANGED <<fence, payload>>
    BY <1>7, <2>1, <1>b DEF mirror_replace, torrents, TypeOK, CliState
  <2>4. \A q \in Clis \ {p} : cli[q].pc \notin LockedPc
    BY <1>7, <1>d DEF mirror_replace, Locked, AtCli, LockedPc
  <2>5. QED
    BY <2>2, <2>3, <2>4, <1>a, <1>c DEF LockedPc
<1>8. CASE transfer_file(p) \/ transferred(p)
  <2>1. /\ cli[p].pc = "transfer"
        /\ cli'[p].pc \in {"transfer", "persist"} /\ cli'[p].target = cli[p].target
        /\ UNCHANGED <<fence, state>>
        /\ payload'.commit = payload.commit \/ payload'.commit = cli[p].target
    BY <1>8, CliMoves DEF transfer_file, transferred, AtCli, torrents
  <2>2. \A q \in Clis \ {p} : cli[q].pc \notin LockedPc
    BY <2>1, <1>d DEF LockedPc
  <2>3. QED
    BY <2>1, <2>2, <1>a, <1>c DEF LockedPc
<1>9. CASE persist_repair_state(p)
  <2>1. /\ cli[p].pc = "persist" /\ cli'[p].pc = "finish"
        /\ UNCHANGED <<fence, payload>>
    <3>1. /\ cli[p].pc = "persist" /\ UNCHANGED <<fence, payload>>
          /\ \E b : cli' = [cli EXCEPT ![p].pc = "finish", ![p].healthy = b]
        BY <1>9 DEF persist_repair_state, AtCli, torrents
    <3>2. QED
        BY <3>1, CliFinishes
  <2>2. \/ state'.resolved_commit = state.resolved_commit
        \/ state'.resolved_commit = cli[p].target
    BY <1>9 DEF persist_repair_state, TypeOK, VerificationState
  <2>3. \A q \in Clis \ {p} : cli[q].pc \notin LockedPc
    BY <2>1, <1>d DEF LockedPc
  <2>4. QED
    BY <2>1, <2>2, <2>3, <1>a, <1>c DEF LockedPc
<1>10. QED
    BY <1>1, <1>2, <1>3, <1>4, <1>5, <1>6, <1>7, <1>8, <1>9, CliQuiet DEF Loud

-----------------------------------------------------------------------------
(***************************************************************************)
(* The theorems.                                                           *)
(***************************************************************************)

\* The archive a behaviour starts from satisfies every part of the invariant.
LEMMA InitTypes == Init => TypeOK /\ LockOwned /\ Targeted /\ Pins
<1> SUFFICES ASSUME Init PROVE TypeOK /\ LockOwned /\ Targeted /\ Pins
    OBVIOUS
<1> USE DEF Init, ArchiveInit
<1>1. TypeOK
  <2>1. PICK c \in Commits :
            /\ state = [status |-> "clean", resolved_commit |-> c, upstream_commit |-> c]
            /\ payload = [commit |-> c, intact |-> TRUE]
            /\ upstream = c
    OBVIOUS
  <2>2. state \in VerificationState /\ payload \in Payload
    BY <2>1 DEF VerificationState, Payload, Status
  <2>3. QED
    BY <2>1, <2>2, SeederTypes, CliTypes, ConstantsAssumption DEF TypeOK
<1>2. \A p \in Clis : cli[p].pc = "idle" /\ cli[p].op = "none"
    BY DEF Idle
<1>3. LockOwned
    BY <1>2, ConstantsAssumption DEF LockOwned, LockedPc, Down
<1>4. Targeted /\ Pins
    BY <1>2 DEF Targeted, Pins, FencedTransfers, FencePending, NoUpdates,
               PublishedCommitPinned, Transfers
<1>5. QED
    BY <1>1, <1>3, <1>4

\* What happens to the files and upstream pins nothing down and locks nothing.
LEMMA EnvironmentFrame ==
    ASSUME TypeOK, Environment \/ UNCHANGED vars
    PROVE  /\ TypeOK'
           /\ UNCHANGED <<lock, fence, state, seeder, cli>>
           /\ payload'.commit = payload.commit
<1> USE DEF torrents, files, ghosts
<1>1. CASE FilesChange
  <2>1. PICK intact \in BOOLEAN : payload' = [payload EXCEPT !.intact = intact]
    BY <1>1, ConstantsAssumption DEF FilesChange, TypeOK, Payload
  <2>2. payload' \in Payload /\ payload'.commit = payload.commit
    BY <2>1 DEF TypeOK, Payload
  <2>3. QED
    BY <1>1, <2>2 DEF FilesChange, TypeOK
<1>2. CASE UpstreamMoves
    BY <1>2 DEF UpstreamMoves, TypeOK
<1>3. CASE UNCHANGED vars
    BY <1>3 DEF vars, TypeOK
<1>4. QED
    BY <1>1, <1>2, <1>3 DEF Environment

\* The lock discipline is inductive together with the types.
LEMMA LockStep ==
    ASSUME TypeOK, LockOwned, Targeted, [Next]_vars
    PROVE  TypeOK' /\ LockOwned' /\ Targeted'
<1>1. CASE SeederStep
  <2>1. LockOwned' /\ UNCHANGED cli
    BY <1>1, SeederLocking
  <2>2. QED
    BY <1>1, <2>1, SeederType DEF Targeted, Transfers
<1>2. ASSUME NEW p \in Clis, CliStep(p)
      PROVE  TypeOK' /\ LockOwned' /\ Targeted'
  <2>1. TypeOK' /\ Targeted'
    BY <1>2, CliType, CliTargets
  <2>2. /\ Keeps_lock(p) \/ Takes_lock(p) \/ Gives_back(p)
        /\ \A q \in Clis \ {p} : cli'[q] = cli[q]
        /\ UNCHANGED seeder
    BY <1>2, CliLocking
  <2>3. p # NoProc /\ p # Seeder /\ Seeder # NoProc /\ \A q \in Clis : q # NoProc
    BY ConstantsAssumption
  <2>4. LockOwned'
    <3>1. CASE Keeps_lock(p)
      BY <2>2, <2>3, <3>1 DEF LockOwned, Keeps_lock
    <3>2. CASE Takes_lock(p)
      BY <2>2, <2>3, <3>2 DEF LockOwned, Takes_lock
    <3>3. CASE Gives_back(p)
      BY <2>2, <2>3, <3>3 DEF LockOwned, Gives_back
    <3>4. QED
      BY <2>2, <3>1, <3>2, <3>3
  <2>5. QED
    BY <2>1, <2>4
<1>3. CASE Environment \/ UNCHANGED vars
    BY <1>3, EnvironmentFrame DEF LockOwned, Targeted, Transfers
<1>4. QED
    BY <1>1, <1>2, <1>3 DEF Next

\* Every variable of the composed archive keeps its type.
THEOREM TypeCorrect == Spec => []TypeOK
<1>1. Init => TypeOK /\ LockOwned /\ Targeted
    BY InitTypes
<1>2. TypeOK /\ LockOwned /\ Targeted /\ [Next]_vars => (TypeOK /\ LockOwned /\ Targeted)'
    BY LockStep
<1>3. QED
    BY <1>1, <1>2, PTL DEF Spec

\* The lock is held exactly by the one process that is inside a locked block,
\* for any number of processes and whichever way they leave it.
THEOREM LockCorrect == Spec => []LockOwned
<1>1. Init => TypeOK /\ LockOwned /\ Targeted
    BY InitTypes
<1>2. TypeOK /\ LockOwned /\ Targeted /\ [Next]_vars => (TypeOK /\ LockOwned /\ Targeted)'
    BY LockStep
<1>3. QED
    BY <1>1, <1>2, PTL DEF Spec

\* The inductive invariant behind the publication fence.
IInv == TypeOK /\ LockOwned /\ Targeted /\ Pins

\* The pins are inductive under the types, the lock discipline and the targets.
LEMMA PinsStep ==
    ASSUME "update" \notin Operations, IInv, [Next]_vars
    PROVE  IInv'
<1> USE DEF IInv
<1>1. TypeOK' /\ LockOwned' /\ Targeted'
    BY LockStep
<1>2. CASE SeederStep
    BY <1>1, <1>2, SeederLocking
       DEF Pins, FencedTransfers, FencePending, NoUpdates, PublishedCommitPinned, Transfers
<1>3. ASSUME NEW p \in Clis, CliStep(p) PROVE Pins'
    BY <1>3, CliPins
<1>4. CASE Environment \/ UNCHANGED vars
  <2>1. UNCHANGED <<fence, state, cli>> /\ payload'.commit = payload.commit
    BY <1>4, EnvironmentFrame
  <2>2. QED
    BY <1>1, <2>1
       DEF Pins, FencedTransfers, FencePending, NoUpdates, PublishedCommitPinned, Transfers
<1>5. QED
    BY <1>1, <1>2, <1>3, <1>4 DEF Next

\* As long as nobody runs "repair --update", a fenced archive holds, and its
\* verification state names, the commit that was published.
THEOREM PublishedCommitStaysPinned ==
    ASSUME "update" \notin Operations
    PROVE  Spec => []PublishedCommitPinned
<1>1. Init => IInv
    BY InitTypes DEF IInv
<1>2. IInv /\ [Next]_vars => IInv'
    BY PinsStep
<1>3. IInv => PublishedCommitPinned
    BY DEF IInv, Pins
<1>4. QED
    BY <1>1, <1>2, <1>3, PTL DEF Spec

\* Under the same assumption the archive implements CommitFence: the path
\* moves to another commit only while nothing is published.
THEOREM ArchiveKeepsPromise ==
    ASSUME "update" \notin Operations
    PROVE  Spec => KeepsPromise
<1>1. Init => IInv /\ Promise!Init
  <2>1. Init => payload.commit \in Commits /\ fence = NoCommit
    BY DEF Init, ArchiveInit
  <2>2. QED
    BY <2>1, InitTypes DEF IInv, Promise!Init
<1>2. IInv /\ [Next]_vars => IInv'
    BY PinsStep
<1>3. IInv /\ IInv' /\ [Next]_vars => [Promise!Next]_(Promise!fencevars)
  <2> SUFFICES ASSUME IInv, IInv', [Next]_vars
               PROVE  [Promise!Next]_(Promise!fencevars)
    OBVIOUS
  <2> USE DEF IInv, Promise!fencevars
  <2>a. fence' \in Commits \cup {NoCommit} /\ payload'.commit \in Commits
    BY DEF TypeOK, Payload
  <2>b. UNCHANGED <<fence, payload.commit>> => [Promise!Next]_(Promise!fencevars)
    OBVIOUS
  <2>1. CASE SeederStep
    BY <2>1, <2>b, SeederLocking
  <2>2. ASSUME NEW p \in Clis, CliStep(p)
        PROVE  [Promise!Next]_(Promise!fencevars)
    <3>1. CASE Quiet(p)
      BY <3>1, <2>b DEF Quiet
    <3>2. CASE write_fence(p)
      <4>1. fence' = payload.commit /\ payload' = payload /\ fence \in {NoCommit, payload.commit}
        BY <3>2 DEF write_fence, Pins, FencePending, AtCli, files
      <4>2. QED
        BY <4>1 DEF Promise!Next, Promise!Publish
    <3>3. CASE unlink_fence(p)
      BY <3>3 DEF unlink_fence, files, Promise!Next, Promise!Retire
    <3>4. CASE transfer_file(p) \/ transferred(p)
      <4>1. fence' = fence
        BY <3>4 DEF transfer_file, transferred, torrents
      <4>2. CASE fence = NoCommit
        BY <4>1, <4>2, <2>a DEF Promise!Next, Promise!Update
      <4>3. CASE fence # NoCommit
        BY <4>1, <4>3, <2>b DEF Pins, PublishedCommitPinned
      <4>4. QED
        BY <4>2, <4>3
    <3>5. CASE \/ create_publication(p) \/ repair_locked(p) \/ mirror_present(p)
               \/ mirror_replace(p) \/ persist_repair_state(p)
      BY <3>5, <2>b DEF create_publication, repair_locked, mirror_present,
                       mirror_replace, persist_repair_state, torrents, files
    <3>6. QED
      BY <2>2, <3>1, <3>2, <3>3, <3>4, <3>5, CliQuiet DEF Loud
  <2>3. CASE Environment \/ UNCHANGED vars
    BY <2>3, <2>b, EnvironmentFrame
  <2>4. QED
    BY <2>1, <2>2, <2>3 DEF Next
<1>4. QED
    BY <1>1, <1>2, <1>3, PTL DEF Spec, KeepsPromise, Promise!Spec

-----------------------------------------------------------------------------

\* The commands' writes to publication records.
Records(p) ==
    \/ create_publication(p) \/ set_seed_desired(p) \/ retire_stop(p)
    \/ retire_publication(p) \/ begin_maintenance(p)
    \/ finish_maintenance(p) \/ finish_failed(p)

\* A command changes the archive only while it holds the lock, the records in
\* seven steps and the fence in two; the session is the seeder's.
LEMMA CliFrame ==
    ASSUME NEW p \in Clis, CliStep(p)
    PROVE  /\ cli[p].pc \notin LockedPc =>
                UNCHANGED <<fence, record, fingerprints, state, payload, manifest, intent>>
           /\ Records(p) \/ UNCHANGED <<record, intent>>
           /\ write_fence(p) \/ unlink_fence(p) \/ UNCHANGED fence
           /\ UNCHANGED <<session, seeder, missed, upstream>>
BY DEF CliStep, Issue, CliRuns, Records, torrents, files, ghosts, AtCli, Locked, LockedPc,
       Enter, repair_read, update_read, create_publication, write_fence,
       set_seed_desired, show, retire_stop, wait_for_maintenance_detach,
       detach_timeout, retire_lock, retire_publication, unlink_fence,
       maintenance_lock, begin_maintenance, repair_lock, repair_locked,
       verification_incomplete, finish_maintenance, failed_lock, finish_failed,
       mirror_present, mirror_replace, transfer_file, transferred, transfer_fails,
       persist_repair_state, verify, refuse, CliCrash

\* What the seeder does to the archive: it writes what it observes into the
\* fenced record while it holds the lock, and only attaching adds a handle.
LEMMA SeederFrame ==
    ASSUME SeederStep
    PROVE  /\ UNCHANGED <<fence, fingerprints, state, payload, manifest, upstream, cli, intent>>
           /\ record' # record =>
                /\ seeder.pc \in {"detaching", "reporting", "attaching", "closing"}
                /\ Fenced
                /\ \/ Observe(observed(fenced_record, "stopped"))
                   \/ /\ wanted(fenced_record)
                      /\ \/ \E b \in {"seeding", "error"} : Observe(observed(fenced_record, b))
                         \/ Observe(unhealthy(fenced_record))
           /\ Attach \/ session' \subseteq session
           /\ missed => missed'
<1> USE DEF torrents, files, ghosts, At, Gone
<1>1. CASE \E c \in Commits :
            DetachKeep(c) \/ DetachUnfenced(c) \/ DetachBusy(c) \/ DetachLock(c) \/ CloseLock(c)
    BY <1>1 DEF DetachKeep, DetachUnfenced, DetachBusy, DetachLock, CloseLock
<1>2. CASE Detach \/ Report \/ AttachMismatch \/ Attach \/ Close
    BY <1>2 DEF Detach, Report, AttachMismatch, Attach, Close
<1>3. CASE \/ Start \/ discover_publications \/ NothingToAttach \/ ReportLoad \/ ReportLock
           \/ AttachLock \/ AttachNot \/ Signal
    BY <1>3 DEF Start, discover_publications, NothingToAttach, ReportLoad, ReportLock,
                AttachLock, AttachNot, Signal
<1>4. CASE Closed \/ SeederRaises \/ SeederCrash
    BY <1>4 DEF Closed, SeederRaises, SeederCrash
<1>5. QED
    BY <1>1, <1>2, <1>3, <1>4 DEF SeederStep, Reconcile, Finish

-----------------------------------------------------------------------------

\* Between the two writes of create_publication and of retire_publication the
\* first has been made, and the fence is what the second takes it for.
Publishing_half(p) ==
    cli[p].pc = "publish-fence" =>
        /\ fence \in {NoCommit, state.resolved_commit}
        /\ record[state.resolved_commit].lifecycle = "published"

Retiring_half(p) ==
    cli[p].pc = "retire-unlink" =>
        /\ fence # NoCommit
        /\ record[fence].lifecycle = "retired"
        /\ record[fence].observed_backend = "stopped"

Backed == FenceBacked /\ \A p \in Clis : Publishing_half(p) /\ Retiring_half(p)

\* No write to a record makes it one of a publication that never was.
LEMMA NeverAbsent ==
    /\ \A r, d, m : created(r, d, m).lifecycle = "published"
    /\ \A r \in PublicationRecord : r.lifecycle # "absent" =>
         /\ seed_stopped(r).lifecycle # "absent"
         /\ in_maintenance(r).lifecycle # "absent"
         /\ \A b : after_maintenance(r, b).lifecycle # "absent"
         /\ \A b : observed(r, b).lifecycle # "absent"
         /\ unhealthy(r).lifecycle # "absent"
         /\ retired(r).lifecycle = "retired" /\ retired(r).observed_backend = "stopped"
BY DEF created, seed_stopped, in_maintenance, after_maintenance, observed, unhealthy,
       retired, PublicationRecord

\* The seeder writes no record while a command is between two writes.
LEMMA SeederBacked ==
    ASSUME TypeOK, LockOwned, Backed, SeederStep
    PROVE  Backed'
<1>1. UNCHANGED <<fence, state, cli>>
    BY SeederFrame
<1>2. CASE record' = record
    BY <1>1, <1>2 DEF Backed, FenceBacked, Publishing_half, Retiring_half
<1>3. CASE record' # record
  <2>1. lock = Seeder /\ Fenced
    BY <1>3, SeederFrame DEF LockOwned
  <2>2. \A p \in Clis : cli[p].pc \notin {"publish-fence", "retire-unlink"}
    BY <2>1, ConstantsAssumption DEF LockOwned, LockedPc
  <2>3. fence \in Commits /\ fenced_record \in PublicationRecord
    BY <2>1 DEF Fenced, fenced_record, TypeOK
  <2>4. fenced_record.lifecycle # "absent"
    BY <2>1 DEF Fenced, fenced_record, active
  <2>5. \E r : Observe(r) /\ r.lifecycle # "absent"
    BY <1>3, <2>3, <2>4, SeederFrame, NeverAbsent
  <2>6. record'[fence].lifecycle # "absent"
    BY <2>3, <2>5 DEF Observe, TypeOK
  <2>7. QED
    BY <1>1, <2>2, <2>6 DEF Backed, FenceBacked, Publishing_half, Retiring_half
<1>4. QED
    BY <1>2, <1>3

\* Where a command comes from at the control points that matter.
LEMMA CliArrives ==
    ASSUME TypeOK, NEW p \in Clis, CliStep(p)
    PROVE  /\ cli'[p].pc = "publish-fence" => create_publication(p)
           /\ cli'[p].pc = "retire-unlink" => retire_publication(p)
<1>a. /\ Exit(p) => cli'[p].pc = "idle"
      /\ \A pc : Move(p, pc) => cli'[p].pc = pc
    BY CliMoves
<1>b. cli[p] \in CliState /\ cli \in [Clis -> CliState]
    BY DEF TypeOK
<1>c. \A s : cli' = [cli EXCEPT ![p] = s] => cli'[p] = s
    BY <1>b
<1>d. \A pc, b : cli' = [cli EXCEPT ![p].pc = pc, ![p].maintenance = b] => cli'[p].pc = pc
    BY <1>b DEF CliState
<1>e. \A pc, b : cli' = [cli EXCEPT ![p].pc = pc, ![p].healthy = b] => cli'[p].pc = pc
    BY <1>b DEF CliState
<1>f. \A pc, c : cli' = [cli EXCEPT ![p].pc = pc, ![p].target = c] => cli'[p].pc = pc
    BY <1>b DEF CliState
<1>1. CASE (\E op \in OneLock : Enter(p, op)) \/ repair_read(p) \/ update_read(p)
  <2>1. \E op, pc : /\ cli' = [cli EXCEPT ![p] = [Idle EXCEPT !.op = op, !.pc = pc]]
                   /\ pc \in {"locked", "maintain", "repair-lock"}
    BY <1>1 DEF Enter, repair_read, update_read
  <2>2. QED
    BY <2>1, <1>c DEF Idle
<1>2. CASE \/ write_fence(p) \/ set_seed_desired(p) \/ show(p) \/ detach_timeout(p)
           \/ unlink_fence(p) \/ finish_maintenance(p) \/ finish_failed(p)
           \/ mirror_present(p) \/ verify(p) \/ refuse(p) \/ CliCrash(p)
    BY <1>2, <1>a DEF write_fence, set_seed_desired, show, detach_timeout, unlink_fence,
                      finish_maintenance, finish_failed, mirror_present, verify, refuse,
                      CliCrash
<1>3. CASE \/ retire_stop(p) \/ wait_for_maintenance_detach(p) \/ retire_lock(p)
           \/ maintenance_lock(p) \/ repair_lock(p) \/ failed_lock(p) \/ transferred(p)
           \/ transfer_fails(p)
    BY <1>3, <1>a DEF retire_stop, wait_for_maintenance_detach, retire_lock,
                      maintenance_lock, repair_lock, failed_lock, transferred, transfer_fails
<1>4. CASE begin_maintenance(p) \/ verification_incomplete(p) \/ mirror_replace(p)
    BY <1>4, <1>a, <1>d, <1>e, <1>f DEF begin_maintenance, verification_incomplete, mirror_replace
<1>5. CASE transfer_file(p)
    BY <1>5 DEF transfer_file, AtCli
<1>6. CASE persist_repair_state(p)
    BY <1>6, <1>e DEF persist_repair_state
<1>7. CASE repair_locked(p)
  <2>1. PICK s : /\ cli' = [cli EXCEPT ![p] = s]
                 /\ \/ s = [cli[p] EXCEPT !.pc = "transfer", !.target = state.upstream_commit]
                    \/ s = [cli[p] EXCEPT !.pc = "transfer", !.target = state.resolved_commit]
                    \/ s = [cli[p] EXCEPT !.pc = "finish", !.healthy = (state.status = "clean")]
    BY <1>7 DEF repair_locked
  <2>2. s.pc \in {"transfer", "finish"}
    BY <2>1, <1>b DEF CliState
  <2>3. QED
    BY <2>1, <2>2, <1>c
<1>8. CASE create_publication(p) \/ retire_publication(p)
    BY <1>8, <1>a DEF create_publication, retire_publication
<1>9. QED
    BY <1>1, <1>2, <1>3, <1>4, <1>5, <1>6, <1>7, <1>8 DEF CliStep, Issue, CliRuns

\* Nor does another command; and each write leaves a record behind.
LEMMA CliBacked ==
    ASSUME TypeOK, LockOwned, Backed, NEW p \in Clis, CliStep(p)
    PROVE  Backed'
<1> USE DEF Backed, FenceBacked, Publishing_half, Retiring_half
<1>a. \A q \in Clis \ {p} : cli'[q] = cli[q]
    BY CliLocking
<1>b. CASE cli[p].pc \notin LockedPc
  <2>1. UNCHANGED <<fence, record, state>>
    BY <1>b, CliFrame
  <2>2. cli'[p].pc \notin {"publish-fence", "retire-unlink"}
    BY <1>b, CliArrives DEF create_publication, retire_publication, AtCli, LockedPc
  <2>3. QED
    BY <2>1, <2>2, <1>a
<1>c. CASE cli[p].pc \in LockedPc
  <2>1. \A q \in Clis \ {p} : cli[q].pc \notin {"publish-fence", "retire-unlink"}
    BY <1>c DEF LockOwned, LockedPc
  <2>2. SUFFICES (FenceBacked /\ Publishing_half(p) /\ Retiring_half(p))'
    BY <2>1, <1>a
  <2>a. cli[p] \in CliState /\ record \in [Commits -> PublicationRecord]
    BY DEF TypeOK
  <2>b. state.resolved_commit \in Commits /\ (fence # NoCommit => fence \in Commits)
    BY DEF TypeOK, VerificationState
  <2>3. CASE create_publication(p)
    <3>1. /\ UNCHANGED <<fence, state>>
          /\ fence \in {NoCommit, state.resolved_commit}
          /\ \E d, m : record' = [record EXCEPT ![state.resolved_commit] =
                                     created(record[state.resolved_commit], d, m)]
          /\ cli'[p].pc = "publish-fence"
      <4>1. UNCHANGED <<fence, state>> /\ fence \in {NoCommit, state.resolved_commit}
        BY <2>3 DEF create_publication, UpdateAllowed
      <4>2. \E d, m : record' = [record EXCEPT ![state.resolved_commit] =
                                  created(record[state.resolved_commit], d, m)]
        BY <2>3 DEF create_publication
      <4>3. Move(p, "publish-fence")
        BY <2>3 DEF create_publication
      <4>4. cli'[p].pc = "publish-fence"
        BY <4>3, CliMoves
      <4>5. QED
        BY <4>1, <4>2, <4>4
    <3>2. record'[state.resolved_commit].lifecycle = "published"
      BY <3>1, <2>a, <2>b, NeverAbsent
    <3>3. QED
      BY <3>1, <3>2, <2>b
  <2>4. CASE write_fence(p)
    <3>1. /\ fence' = state.resolved_commit /\ UNCHANGED <<record, state>>
          /\ cli[p].pc = "publish-fence" /\ cli'[p].pc = "idle"
      BY <2>4, CliMoves DEF write_fence, AtCli, files
    <3>2. QED
      BY <3>1
  <2>5. CASE unlink_fence(p)
    <3>1. fence' = NoCommit /\ cli'[p].pc = "idle"
      BY <2>5, CliMoves DEF unlink_fence
    <3>2. QED
      BY <3>1
  <2>6. CASE retire_publication(p)
    <3>1. /\ Fenced /\ Write(retired(fenced_record)) /\ UNCHANGED fence
          /\ cli'[p].pc = "retire-unlink"
      BY <2>6, CliMoves DEF retire_publication, Retirable
    <3>2. /\ fence # NoCommit
          /\ record'[fence] = retired(fenced_record) /\ fenced_record \in PublicationRecord
          /\ fenced_record.lifecycle # "absent"
      BY <3>1, <2>a, <2>b DEF Fenced, Write, fenced_record, active
    <3>3. QED
      BY <3>1, <3>2, NeverAbsent
  <2>7. CASE \/ set_seed_desired(p) \/ retire_stop(p) \/ begin_maintenance(p)
             \/ finish_maintenance(p) \/ finish_failed(p)
    <3>1. /\ UNCHANGED fence
          /\ record' # record => \E r : Write(r) /\ Fenced /\ r.lifecycle # "absent"
      <4>1. Fenced => /\ fenced_record \in PublicationRecord
                      /\ fenced_record.lifecycle # "absent"
        BY <2>a, <2>b DEF Fenced, fenced_record, active
      <4>2. QED
        BY <2>7, <4>1, NeverAbsent DEF set_seed_desired, retire_stop, begin_maintenance,
               finish_maintenance, finish_failed
    <3>2. cli'[p].pc \notin {"publish-fence", "retire-unlink"}
      BY <2>7, CliArrives DEF set_seed_desired, retire_stop, begin_maintenance,
             finish_maintenance, finish_failed, create_publication, retire_publication,
             Locked, AtCli, Publishing
    <3>3. record' # record => record'[fence].lifecycle # "absent"
      BY <3>1, <2>a, <2>b DEF Fenced, Write
    <3>4. QED
      BY <3>1, <3>2, <3>3
  <2>8. CASE ~Records(p) /\ ~write_fence(p) /\ ~unlink_fence(p)
    <3>1. UNCHANGED <<fence, record>>
      BY <2>8, CliFrame
    <3>2. cli'[p].pc \notin {"publish-fence", "retire-unlink"}
      BY <2>8, CliArrives DEF Records
    <3>3. QED
      BY <3>1, <3>2
  <2>9. QED
    BY <2>3, <2>4, <2>5, <2>6, <2>7, <2>8 DEF Records
<1>d. QED
    BY <1>b, <1>c

\* So the two writes of a command are never torn apart.
LEMMA BackedStep ==
    ASSUME TypeOK, LockOwned, Targeted, Backed, [Next]_vars
    PROVE  Backed'
<1>1. CASE SeederStep
    BY <1>1, SeederBacked
<1>2. ASSUME NEW p \in Clis, CliStep(p) PROVE Backed'
    BY <1>2, CliBacked
<1>3. CASE Environment \/ UNCHANGED vars
  <2>1. UNCHANGED <<fence, state, cli, record>>
    BY <1>3 DEF Environment, FilesChange, UpstreamMoves, vars, torrents, files
  <2>2. QED
    BY <2>1 DEF Backed, FenceBacked, Publishing_half, Retiring_half
<1>4. QED
    BY <1>1, <1>2, <1>3 DEF Next

\* Nothing is written at first.
LEMMA InitBacked == Init => Backed
BY DEF Init, ArchiveInit, Idle, Backed, FenceBacked, Publishing_half, Retiring_half

\* The fence never names a publication that was not written, whatever crashes
\* between the two writes of create_publication.
THEOREM FenceIsBacked == Spec => []FenceBacked
<1>1. Init => TypeOK /\ LockOwned /\ Targeted /\ Backed
    BY InitTypes, InitBacked
<1>2. TypeOK /\ LockOwned /\ Targeted /\ Backed /\ [Next]_vars
        => (TypeOK /\ LockOwned /\ Targeted /\ Backed)'
    BY LockStep, BackedStep
<1>3. Backed => FenceBacked
    BY DEF Backed
<1>4. QED
    BY <1>1, <1>2, <1>3, PTL DEF Spec

\* What a step that releases the fence finds.
Released ==
    fence # NoCommit /\ fence' # fence
        => record[fence].lifecycle = "retired" /\ ~attached(record[fence])

\* The fence is released by retirement only, and only of a backend that has let
\* go, for any number of operators, updates included.
THEOREM RetirementReleases == Spec => FenceReleasedByRetirement
<1>1. Init => TypeOK /\ LockOwned /\ Targeted /\ Backed
    BY InitTypes, InitBacked
<1>2. TypeOK /\ LockOwned /\ Targeted /\ Backed /\ [Next]_vars
        => (TypeOK /\ LockOwned /\ Targeted /\ Backed)'
    BY LockStep, BackedStep
<1>3. TypeOK /\ Backed /\ [Next]_vars => [Released]_vars
  <2> SUFFICES ASSUME TypeOK, Backed, Next PROVE Released
    BY DEF Released, vars
  <2>1. CASE SeederStep
    BY <2>1, SeederFrame DEF Released
  <2>2. ASSUME NEW p \in Clis, CliStep(p) PROVE Released
    BY <2>2, CliFrame DEF write_fence, unlink_fence, AtCli, Backed, Publishing_half,
                          Retiring_half, Released, attached
  <2>3. CASE Environment
    BY <2>3 DEF Environment, FilesChange, UpstreamMoves, torrents, Released
  <2>4. QED
    BY <2>1, <2>2, <2>3 DEF Next
<1>4. QED
    BY <1>1, <1>2, <1>3, PTL DEF Spec, FenceReleasedByRetirement, Released

\* What the seeder attaches in a step.
Attaching ==
    \A c \in session' \ session :
        /\ ~Transferring
        /\ c \in fingerprints
        /\ fence = c /\ record[c].lifecycle = "published"

\* The seeder attaches a publication only while it is published, unchanged and
\* not being rewritten, for any number of operators, updates included.
THEOREM AttachmentsArePublished == Spec => AttachesOnlyPublished
<1>1. Init => TypeOK /\ LockOwned /\ Targeted
    BY InitTypes
<1>2. TypeOK /\ LockOwned /\ Targeted /\ [Next]_vars => (TypeOK /\ LockOwned /\ Targeted)'
    BY LockStep
<1>3. LockOwned /\ [Next]_vars => [Attaching]_vars
  <2> SUFFICES ASSUME LockOwned, Next PROVE Attaching
    BY DEF Attaching, vars
  <2>1. CASE SeederStep
    <3>1. CASE session' \subseteq session
      BY <3>1 DEF Attaching
    <3>2. CASE Attach
      <4>1. lock = Seeder
        BY <3>2 DEF Attach, At, LockOwned
      <4>2. ~Transferring
        BY <4>1, ConstantsAssumption DEF LockOwned, Transferring, Transfers, LockedPc
      <4>3. session' \subseteq session \cup {fence} /\ fence \in fingerprints
        BY <3>2 DEF Attach
      <4>4. record[fence].lifecycle = "published"
        BY <3>2 DEF Attach, wanted, fenced_record
      <4>5. QED
        BY <4>2, <4>3, <4>4 DEF Attaching
    <3>3. QED
      BY <2>1, <3>1, <3>2, SeederFrame
  <2>2. ASSUME NEW p \in Clis, CliStep(p) PROVE Attaching
    BY <2>2, CliFrame DEF Attaching
  <2>3. CASE Environment
    BY <2>3 DEF Environment, FilesChange, UpstreamMoves, Attaching
  <2>4. QED
    BY <2>1, <2>2, <2>3 DEF Next
<1>4. Spec => [][Attaching]_vars
    BY <1>1, <1>2, <1>3, PTL DEF Spec
<1>5. QED
    BY <1>4 DEF AttachesOnlyPublished, Attaching

-----------------------------------------------------------------------------

\* The torrent commands of a lone operator who uses no external client.
LoneOperator == "publish-external" \notin Operations /\ \A p, q \in Clis : p = q

\* Records of managed publications: an absent one has no backend, and only
\* maintenance has an intent parked, instead of an intent.
ManagedRecord(r) ==
    /\ r.client_mode = "managed"
    /\ r.lifecycle = "absent" => ~attached(r)
    /\ r.maintenance_resume_seed => r.lifecycle = "maintenance"
    /\ r.lifecycle = "maintenance" => ~r.desired_seed

AtMostOne(S) == \A a, b \in S : a = b

\* How far a pass that leaves nothing behind has come with the handles: those
\* behind it are kept, and there is none when it reports or attaches.
PassFacts ==
    /\ At("detach") \/ At("close") => AtMostOne(session \cup seeder.todo)
    /\ At("detaching") \/ At("closing") =>
         AtMostOne(session \cup seeder.todo \cup {seeder.handle})
    /\ At("detach") \/ At("detaching") => \A c \in session \ seeder.todo : Keeps(c)
    /\ At("report") \/ At("reporting") \/ At("attaching") => session = {}

MaintenancePc ==
    {"detach-wait", "repair-lock", "repair", "transfer", "persist", "finish", "failed", "failing"}

\* A repair in maintenance has the record to itself, and once it is past the
\* wait the backend has let go.
MaintenanceFacts(p) ==
    /\ cli[p].maintenance =>
         /\ cli[p].pc \in MaintenancePc
         /\ Fenced /\ fenced_record.lifecycle = "maintenance"
         /\ cli[p].pc # "detach-wait" => ~attached(fenced_record)
    /\ cli[p].pc \in {"detach-wait", "failed", "failing"} => cli[p].maintenance

\* A repair or mirror that is not in maintenance transfers only to an archive
\* that is not fenced.
TransferFacts(p) ==
    /\ cli[p].op # "publish-external"
    /\ cli[p].pc \in {"maintain", "beginning", "detach-wait"} => cli[p].op = "repair"
    /\ cli[p].pc \in {"repair-lock", "repair"} => cli[p].op \in {"repair", "update"}
    /\ ~cli[p].maintenance /\ cli[p].op = "repair" /\ cli[p].pc \in {"repair-lock", "repair"} =>
         state.status # "dirty" \/ fence = NoCommit
    /\ Transfers(p) /\ ~cli[p].maintenance /\ cli[p].op # "update" => fence = NoCommit

Seeding_intent(r) == r.desired_seed \/ r.maintenance_resume_seed

IntentFacts ==
    /\ Fenced => intent = Seeding_intent(fenced_record)
    /\ \A p \in Clis : cli[p].pc = "publish-fence" =>
         intent = Seeding_intent(record[state.resolved_commit])

OperatorFacts ==
    /\ \A c \in Commits : ManagedRecord(record[c])
    /\ ~missed => PassFacts
    /\ AttachmentReported
    /\ \A p \in Clis : MaintenanceFacts(p) /\ TransferFacts(p)
    /\ IntentFacts

\* What the writes to a record leave as it was.
LEMMA Observations ==
    ASSUME NEW r \in PublicationRecord, NEW b
    PROVE  /\ observed(r, b).client_mode = r.client_mode
           /\ observed(r, b).lifecycle = r.lifecycle
           /\ observed(r, b).observed_backend = b
           /\ Seeding_intent(observed(r, b)) = Seeding_intent(r)
           /\ Seeding_intent(unhealthy(r)) = Seeding_intent(r)
           /\ ManagedRecord(r) /\ r.lifecycle # "absent" => ManagedRecord(observed(r, b))
           /\ ManagedRecord(r) /\ wanted(r) => ManagedRecord(unhealthy(r))
BY DEF observed, unhealthy, PublicationRecord, Seeding_intent, ManagedRecord, wanted

\* How the seeder moves, in full.
LEMMA SeederGoes ==
    ASSUME TypeOK
    PROVE  /\ \A pc : Goto(pc) =>
                /\ seeder'.pc = pc /\ seeder'.todo = seeder.todo
                /\ seeder'.commit = seeder.commit /\ seeder'.found = seeder.found
           /\ \A c : /\ Proceed(c).pc = "detach" /\ Proceed(c).todo = seeder.todo \ {c}
                     /\ Proceed(c).commit = seeder.commit /\ Proceed(c).found = seeder.found
BY DEF TypeOK, SeederState, Goto, Proceed

\* The record a seeder's write leaves.
LEMMA SeederRecord ==
    ASSUME TypeOK, SeederStep, \A c \in Commits : ManagedRecord(record[c])
    PROVE  /\ \A c \in Commits : /\ ManagedRecord(record'[c])
                                 /\ Seeding_intent(record'[c]) = Seeding_intent(record[c])
           /\ \A c \in Commits : record[c].lifecycle = "maintenance" =>
                /\ record'[c].lifecycle = "maintenance"
                /\ ~attached(record[c]) => ~attached(record'[c])
           /\ Fenced' => Fenced
<1>1. CASE record' = record
    BY <1>1, SeederFrame DEF Fenced
<1>2. CASE record' # record
  <2>1. /\ Fenced /\ fence \in Commits /\ fence' = fence
        /\ fenced_record \in PublicationRecord /\ fenced_record.lifecycle # "absent"
    BY <1>2, SeederFrame DEF Fenced, fenced_record, active, TypeOK
  <2>2. PICK r \in PublicationRecord :
            /\ Observe(r) /\ ManagedRecord(r)
            /\ Seeding_intent(r) = Seeding_intent(fenced_record)
            /\ fenced_record.lifecycle = "maintenance" =>
                 r.lifecycle = "maintenance" /\ ~attached(r)
    <3>1. ManagedRecord(fenced_record)
      BY <2>1 DEF fenced_record
    <3>2. CASE Observe(observed(fenced_record, "stopped"))
      <4>1. ~attached(observed(fenced_record, "stopped"))
        BY <2>1, Observations DEF attached
      <4>2. observed(fenced_record, "stopped") \in PublicationRecord
        BY <2>1, RecordTransitions DEF Backend, ClientMode
      <4>3. QED
        BY <2>1, <3>1, <3>2, <4>1, <4>2, Observations
    <3>3. ASSUME wanted(fenced_record), NEW b \in {"seeding", "error"},
                 Observe(observed(fenced_record, b))
          PROVE  \E r \in PublicationRecord :
                   /\ Observe(r) /\ ManagedRecord(r)
                   /\ Seeding_intent(r) = Seeding_intent(fenced_record)
                   /\ fenced_record.lifecycle # "maintenance"
      BY <2>1, <3>1, <3>3, Observations, RecordTransitions DEF wanted, Backend, ClientMode
    <3>4. ASSUME wanted(fenced_record), Observe(unhealthy(fenced_record))
          PROVE  \E r \in PublicationRecord :
                   /\ Observe(r) /\ ManagedRecord(r)
                   /\ Seeding_intent(r) = Seeding_intent(fenced_record)
                   /\ fenced_record.lifecycle # "maintenance"
      BY <2>1, <3>1, <3>4, Observations, RecordTransitions DEF wanted, Backend, ClientMode
    <3>5. QED
      BY <1>2, <3>2, <3>3, <3>4, SeederFrame
  <2>3. record'[fence] = r /\ \A c \in Commits \ {fence} : record'[c] = record[c]
    BY <2>1, <2>2 DEF Observe, TypeOK
  <2>4. QED
    BY <2>1, <2>2, <2>3 DEF fenced_record
<1>3. QED
    BY <1>1, <1>2

\* The handles, in a pass of a seeder that leaves none behind.
LEMMA SeederPass ==
    ASSUME TypeOK, SeederStep, ~missed', PassFacts, AttachmentReported
    PROVE  (PassFacts /\ AttachmentReported)'
<1> USE DEF PassFacts, AttachmentReported, At, AtMostOne
<1>a. ~missed /\ UNCHANGED fence
    BY SeederFrame
<1>b. /\ Sleep => seeder'.pc = "sleep"
      /\ Gone => seeder'.pc = "down" /\ session' = {}
    BY SeederMoves DEF Gone
<1>c. \A pc : Goto(pc) =>
        /\ seeder'.pc = pc /\ seeder'.todo = seeder.todo
        /\ seeder'.commit = seeder.commit /\ seeder'.found = seeder.found
    BY SeederGoes
<1>d. \A c : /\ Proceed(c).pc = "detach" /\ Proceed(c).todo = seeder.todo \ {c}
             /\ Proceed(c).commit = seeder.commit /\ Proceed(c).found = seeder.found
    BY SeederGoes
<1>e. seeder \in SeederState /\ session \subseteq Commits
    BY DEF TypeOK
<1> USE DEF torrents, files, ghosts
<1>1. CASE Start \/ NothingToAttach \/ AttachNot
    BY <1>1, <1>a, <1>b DEF Start, NothingToAttach, AttachNot
<1>2. CASE Closed \/ SeederRaises \/ SeederCrash
  <2>1. CASE Gone
    BY <1>b, <2>1
  <2>2. CASE SeederRaises /\ ~Gone
    <3>1. /\ seeder'.pc = "close" /\ seeder'.todo = session
          /\ UNCHANGED <<session, record>>
      BY <2>2, SeederMoves DEF SeederRaises
    <3>2. QED
      BY <3>1, <1>a
  <2>3. QED
    BY <1>2, <2>1, <2>2 DEF Closed, SeederCrash
<1>3. CASE discover_publications
  <2>1. /\ seeder'.pc = "detach" /\ seeder'.todo = session
        /\ UNCHANGED <<session, record>>
    BY <1>3, SeederTypes DEF discover_publications, Down
  <2>2. QED
    BY <2>1, <1>a
<1>4. CASE \E c \in Commits : DetachKeep(c)
    BY <1>4, <1>a, <1>d DEF DetachKeep, Keeps
<1>5. CASE \E c \in Commits : DetachUnfenced(c)
    BY <1>5, <1>a, <1>d DEF DetachUnfenced, Keeps
<1>6. CASE \E c \in Commits : DetachBusy(c)
    BY <1>6 DEF DetachBusy
<1>7. CASE \E c \in Commits : DetachLock(c)
  <2>0. PICK c \in Commits : DetachLock(c)
    BY <1>7
  <2>1. /\ seeder'.pc = "detaching" /\ seeder'.handle = c /\ seeder'.todo = seeder.todo
        /\ seeder'.commit = seeder.commit /\ seeder'.found = seeder.found
        /\ c \in seeder.todo /\ seeder.pc = "detach"
        /\ UNCHANGED <<session, record>>
    BY <2>0, <1>e DEF DetachLock, SeederState
  <2>2. QED
    BY <2>1, <1>a DEF Keeps
<1>8. CASE Detach
  <2>1. /\ seeder' = Proceed(seeder.handle) /\ session' = session \ {seeder.handle}
        /\ seeder.pc = "detaching"
    BY <1>8, <1>a DEF Detach
  <2>2. session' = {}
    BY <2>1, <1>a
  <2>3. QED
    BY <2>1, <2>2, <1>a, <1>d
<1>9. CASE ReportLoad
  <2>1. session = {}
    BY <1>9, <1>a DEF ReportLoad, SecondLoop, Stopping, Keeps, wanted
  <2>2. seeder'.pc \in {"report", "sleep"} /\ session' = session
    BY <1>9, <1>b, <1>c DEF ReportLoad
  <2>3. QED
    BY <2>1, <2>2
<1>10. CASE ReportLock
    BY <1>10, <1>a, <1>b, <1>c DEF ReportLock
<1>11. CASE Report \/ AttachMismatch
    BY <1>11, <1>a, <1>b DEF Report, AttachMismatch
<1>12. CASE AttachLock
  <2>1. session = {}
    BY <1>12, <1>a DEF AttachLock, SecondLoop, Missing, Keeps
  <2>2. seeder'.pc \in {"attaching", "sleep"} /\ session' = session
    BY <1>12, <1>b, <1>c DEF AttachLock
  <2>3. QED
    BY <2>1, <2>2
<1>13. CASE Attach
  <2>1. /\ session = {} /\ seeder'.pc = "sleep" /\ fence \in Commits
        /\ fenced_record \in PublicationRecord
    BY <1>13, <1>a, <1>b, SeederParts DEF Attach
  <2>2. \/ session' = {}
        \/ session' = {fence} /\ record'[fence] = observed(fenced_record, "seeding")
    BY <1>13, <2>1 DEF Attach, Observe, TypeOK
  <2>3. QED
    BY <2>1, <2>2, <1>a, Observations DEF attached
<1>14. CASE Signal
  <2>1. /\ seeder'.pc = "close" /\ seeder'.todo = session
        /\ UNCHANGED <<session, record>>
    BY <1>14, SeederMoves DEF Signal
  <2>2. QED
    BY <2>1, <1>a
<1>15. CASE \E c \in Commits : CloseLock(c)
  <2>0. PICK c \in Commits : CloseLock(c)
    BY <1>15
  <2>1. /\ \/ /\ seeder'.pc = "closing" /\ seeder'.handle = c /\ seeder'.todo = seeder.todo
           \/ seeder'.pc = "close" /\ seeder'.todo = seeder.todo \ {c}
        /\ c \in seeder.todo /\ seeder.pc = "close"
        /\ UNCHANGED <<session, record>>
    BY <2>0, <1>e DEF CloseLock, SeederState
  <2>2. QED
    BY <2>1, <1>a
<1>16. CASE Close
  <2>1. /\ seeder'.pc = "close" /\ seeder'.todo = seeder.todo \ {seeder.handle}
        /\ session' = session \ {seeder.handle} /\ seeder.pc = "closing"
    BY <1>16, <1>e DEF Close, SeederState
  <2>2. session' = {}
    BY <2>1, <1>a
  <2>3. QED
    BY <2>1, <2>2, <1>a
<1>17. QED
    BY <1>1, <1>2, <1>3, <1>4, <1>5, <1>6, <1>7, <1>8, <1>9, <1>10, <1>11, <1>12, <1>13,
       <1>14, <1>15, <1>16 DEF SeederStep, Reconcile, Finish

\* The seeder's part of the invariant of a lone operator.
LEMMA SeederOperator ==
    ASSUME TypeOK, OperatorFacts, SeederStep
    PROVE  OperatorFacts'
<1>a. UNCHANGED <<fence, state, cli, intent>> /\ (missed => missed')
    BY SeederFrame
<1>b. \A c \in Commits : /\ ManagedRecord(record'[c])
                         /\ Seeding_intent(record'[c]) = Seeding_intent(record[c])
    BY SeederRecord DEF OperatorFacts
<1>c. \A c \in Commits : record[c].lifecycle = "maintenance" =>
        /\ record'[c].lifecycle = "maintenance"
        /\ ~attached(record[c]) => ~attached(record'[c])
    BY SeederRecord DEF OperatorFacts
<1>d. (Fenced' => Fenced) /\ (Fenced => fence \in Commits) /\ state.resolved_commit \in Commits
    BY SeederRecord DEF OperatorFacts, Fenced, TypeOK, VerificationState
<1>1. (~missed => PassFacts)' /\ AttachmentReported'
    BY <1>a, SeederPass DEF OperatorFacts, AttachmentReported
<1>2. ASSUME NEW p \in Clis PROVE (MaintenanceFacts(p) /\ TransferFacts(p))'
  <2>1. MaintenanceFacts(p) /\ TransferFacts(p)
    BY DEF OperatorFacts
  <2>2. TransferFacts(p)'
    BY <2>1, <1>a DEF TransferFacts, Transfers
  <2>3. MaintenanceFacts(p)'
    BY <2>1, <1>a, <1>c, <1>d DEF MaintenanceFacts, Fenced, fenced_record, active
  <2>4. QED
    BY <2>2, <2>3
<1>3. IntentFacts'
    BY <1>a, <1>b, <1>d DEF OperatorFacts, IntentFacts, fenced_record
<1>4. QED
    BY <1>b, <1>1, <1>2, <1>3 DEF OperatorFacts

-----------------------------------------------------------------------------

\* What the writes of the commands do to the intent and to the backend: a
\* publication takes the intent it is created with.
LEMMA CreatedFacts ==
    ASSUME NEW r \in PublicationRecord, ManagedRecord(r), NEW b \in BOOLEAN
    PROVE  /\ ManagedRecord(created(r, b, "managed"))
           /\ Seeding_intent(created(r, b, "managed")) = b
           /\ attached(r) => attached(created(r, b, "managed"))
BY DEF PublicationRecord, Seeding_intent, ManagedRecord, attached, created

\* Stopping and retiring withdraw the intent.
LEMMA StoppedFacts ==
    ASSUME NEW r \in PublicationRecord, ManagedRecord(r), r.lifecycle # "absent"
    PROVE  /\ ManagedRecord(seed_stopped(r)) /\ Seeding_intent(seed_stopped(r)) = FALSE
           /\ attached(r) => attached(seed_stopped(r))
           /\ ManagedRecord(retired(r))
BY DEF PublicationRecord, Seeding_intent, ManagedRecord, attached, seed_stopped, retired

\* Maintenance parks the intent...
LEMMA BegunFacts ==
    ASSUME NEW r \in PublicationRecord, ManagedRecord(r), r.lifecycle # "absent"
    PROVE  /\ ManagedRecord(in_maintenance(r))
           /\ in_maintenance(r).lifecycle = "maintenance"
           /\ Seeding_intent(in_maintenance(r)) = Seeding_intent(r)
           /\ attached(r) => attached(in_maintenance(r))
BY DEF PublicationRecord, Seeding_intent, ManagedRecord, attached, in_maintenance

\* ... and gives it back, to a healthy archive only.
LEMMA FinishedFacts ==
    ASSUME NEW r \in PublicationRecord, ManagedRecord(r), r.lifecycle = "maintenance",
           NEW b \in BOOLEAN
    PROVE  /\ ManagedRecord(after_maintenance(r, b))
           /\ Seeding_intent(after_maintenance(r, b)) = (b /\ Seeding_intent(r))
BY DEF PublicationRecord, Seeding_intent, ManagedRecord, after_maintenance

\* How a command moves, in full.
LEMMA CliFields ==
    ASSUME TypeOK, NEW p \in Clis
    PROVE  /\ \A pc : Move(p, pc) =>
                /\ cli'[p].pc = pc /\ cli'[p].op = cli[p].op
                /\ cli'[p].maintenance = cli[p].maintenance
           /\ Exit(p) => cli'[p] = Idle
           /\ \A s : cli' = [cli EXCEPT ![p] = s] => cli'[p] = s
BY DEF TypeOK, CliState, Move, Exit, Idle

\* Writing the fenced record, in a way that forgets no attached backend.
LEMMA WriteFacts ==
    ASSUME TypeOK, OperatorFacts, NEW p \in Clis, CliStep(p), cli'[p].pc # "publish-fence",
           LoneOperator, Fenced, UNCHANGED fence,
           NEW r \in PublicationRecord, Write(r), ManagedRecord(r),
           attached(fenced_record) => attached(r),
           active(r) => intent' = Seeding_intent(r)
    PROVE  /\ \A c \in Commits : ManagedRecord(record'[c])
           /\ AttachmentReported'
           /\ IntentFacts'
<1>1. /\ fence \in Commits /\ record' = [record EXCEPT ![fence] = r]
      /\ \A q \in Clis : q = p
    BY DEF TypeOK, Fenced, Write, LoneOperator
<1>2. record'[fence] = r /\ \A c \in Commits \ {fence} : record'[c] = record[c]
    BY <1>1 DEF TypeOK
<1>3. UNCHANGED <<session, missed>>
    BY CliFrame
<1>4. \A c \in Commits : ManagedRecord(record'[c])
    BY <1>2 DEF OperatorFacts
<1>5. AttachmentReported'
    BY <1>1, <1>2, <1>3 DEF OperatorFacts, AttachmentReported, fenced_record, TypeOK
<1>6. IntentFacts'
    BY <1>1, <1>2 DEF IntentFacts, Fenced, fenced_record
<1>7. QED
    BY <1>4, <1>5, <1>6

\* The records, the session and the intent, in a step of a lone operator.
LEMMA OperatorRecords ==
    ASSUME TypeOK, LockOwned, Backed, OperatorFacts, LoneOperator, NEW p \in Clis, CliStep(p)
    PROVE  /\ \A c \in Commits : ManagedRecord(record'[c])
           /\ AttachmentReported'
           /\ IntentFacts'
<1>a. UNCHANGED <<session, missed>> /\ \A q \in Clis : q = p
    BY CliFrame DEF LoneOperator
<1>b. Fenced => /\ fence \in Commits /\ fenced_record \in PublicationRecord
                /\ fenced_record.lifecycle # "absent" /\ ManagedRecord(fenced_record)
    BY DEF Fenced, fenced_record, active, OperatorFacts, TypeOK
<1>c. Fenced => intent = Seeding_intent(fenced_record)
    BY DEF OperatorFacts, IntentFacts
<1>d. /\ Exit(p) => cli'[p].pc = "idle"
      /\ \A pc : Move(p, pc) => cli'[p].pc = pc
    BY CliMoves
<1>e. Fenced /\ ~attached(fenced_record) /\ ~missed => session = {}
    BY DEF OperatorFacts, AttachmentReported, fenced_record
<1>1. CASE create_publication(p)
  <2>1. PICK b \in BOOLEAN :
            /\ record' = [record EXCEPT ![state.resolved_commit] =
                            created(record[state.resolved_commit], b, "managed")]
            /\ intent' = b
    BY <1>1 DEF create_publication, OperatorFacts, TransferFacts
  <2>2. /\ state.resolved_commit \in Commits
        /\ record[state.resolved_commit] \in PublicationRecord
        /\ ManagedRecord(record[state.resolved_commit])
    BY DEF TypeOK, VerificationState, OperatorFacts
  <2>3. /\ record'[state.resolved_commit] = created(record[state.resolved_commit], b, "managed")
        /\ \A c \in Commits \ {state.resolved_commit} : record'[c] = record[c]
    BY <2>1, <2>2 DEF TypeOK
  <2>4. /\ UNCHANGED <<fence, state>> /\ fence \in {NoCommit, state.resolved_commit}
    BY <1>1 DEF create_publication, UpdateAllowed
  <2>5. /\ ManagedRecord(record'[state.resolved_commit])
        /\ Seeding_intent(record'[state.resolved_commit]) = b
        /\ attached(record[state.resolved_commit]) => attached(record'[state.resolved_commit])
    BY <2>2, <2>3, CreatedFacts
  <2>6. \A c \in Commits : ManagedRecord(record'[c])
    BY <2>3, <2>5 DEF OperatorFacts
  <2>7. AttachmentReported'
    BY <2>3, <2>4, <2>5, <1>a DEF OperatorFacts, AttachmentReported, TypeOK
  <2>8. IntentFacts'
    BY <2>1, <2>4, <2>5 DEF IntentFacts, Fenced, fenced_record
  <2>9. QED
    BY <2>6, <2>7, <2>8
<1>2. CASE write_fence(p)
  <2>1. /\ fence' = state.resolved_commit /\ UNCHANGED <<record, state, intent>>
        /\ cli[p].pc = "publish-fence" /\ cli'[p].pc = "idle"
    BY <1>2, <1>d DEF write_fence, AtCli, files, ghosts
  <2>2. fence \in {NoCommit, state.resolved_commit}
    BY <2>1 DEF Backed, Publishing_half
  <2>3. AttachmentReported'
    BY <2>1, <2>2, <1>a, ConstantsAssumption DEF OperatorFacts, AttachmentReported, TypeOK
  <2>4. IntentFacts'
    BY <2>1, <1>a DEF OperatorFacts, IntentFacts, Fenced, fenced_record
  <2>5. QED
    BY <2>1, <2>3, <2>4 DEF OperatorFacts
<1>3. CASE unlink_fence(p)
  <2>1. /\ fence' = NoCommit /\ UNCHANGED <<record, state, intent>>
        /\ cli[p].pc = "retire-unlink" /\ cli'[p].pc = "idle"
    BY <1>3, <1>d DEF unlink_fence, AtCli, files, ghosts
  <2>2. fence # NoCommit /\ ~attached(record[fence])
    BY <2>1 DEF Backed, Retiring_half, attached
  <2>3. AttachmentReported'
    BY <2>1, <2>2, <1>a DEF OperatorFacts, AttachmentReported
  <2>4. IntentFacts'
    BY <2>1, <1>a DEF IntentFacts, Fenced
  <2>5. QED
    BY <2>1, <2>3, <2>4 DEF OperatorFacts
<1>4. CASE set_seed_desired(p) \/ retire_stop(p)
  <2>1. /\ Fenced /\ Write(seed_stopped(fenced_record)) /\ intent' = FALSE
        /\ UNCHANGED fence /\ cli'[p].pc # "publish-fence"
    BY <1>4, <1>d DEF set_seed_desired, retire_stop
  <2>2. seed_stopped(fenced_record) \in PublicationRecord
    BY <2>1, <1>b, RecordTransitions DEF ClientMode, Backend
  <2>3. /\ ManagedRecord(seed_stopped(fenced_record))
        /\ attached(fenced_record) => attached(seed_stopped(fenced_record))
        /\ Seeding_intent(seed_stopped(fenced_record)) = FALSE
    BY <2>1, <1>b, StoppedFacts
  <2>4. QED
    BY <2>1, <2>2, <2>3, WriteFacts
<1>5. CASE retire_publication(p)
  <2>1. /\ Fenced /\ ~attached(fenced_record) /\ Write(retired(fenced_record))
        /\ UNCHANGED fence /\ cli'[p].pc # "publish-fence"
    BY <1>5, <1>d DEF retire_publication, Retirable
  <2>2. retired(fenced_record) \in PublicationRecord
    BY <2>1, <1>b, RecordTransitions DEF ClientMode, Backend
  <2>3. ManagedRecord(retired(fenced_record)) /\ ~active(retired(fenced_record))
    BY <2>1, <1>b, StoppedFacts, NeverAbsent DEF active
  <2>4. QED
    BY <2>1, <2>2, <2>3, WriteFacts
<1>6. CASE begin_maintenance(p)
  <2>1. UNCHANGED <<fence, intent>> /\ cli'[p].pc # "publish-fence"
    BY <1>6, CliArrives DEF begin_maintenance, create_publication, AtCli, files, ghosts
  <2>2. CASE Fenced
    <3>1. Write(in_maintenance(fenced_record))
      BY <1>6, <2>2 DEF begin_maintenance
    <3>2. in_maintenance(fenced_record) \in PublicationRecord
      BY <2>2, <1>b, RecordTransitions DEF ClientMode, Backend
    <3>3. /\ ManagedRecord(in_maintenance(fenced_record))
          /\ attached(fenced_record) => attached(in_maintenance(fenced_record))
          /\ Seeding_intent(in_maintenance(fenced_record)) = Seeding_intent(fenced_record)
      BY <2>2, <1>b, BegunFacts
    <3>4. intent' = Seeding_intent(in_maintenance(fenced_record))
      BY <2>1, <2>2, <3>3, <1>c
    <3>5. QED
      BY <2>1, <2>2, <3>1, <3>2, <3>3, <3>4, WriteFacts
  <2>3. CASE ~Fenced
    <3>1. UNCHANGED record
      BY <1>6, <2>3 DEF begin_maintenance
    <3>2. QED
      BY <2>1, <3>1, <1>a DEF OperatorFacts, AttachmentReported, IntentFacts, Fenced, fenced_record
  <2>4. QED
    BY <2>2, <2>3
<1>7. CASE finish_maintenance(p) \/ finish_failed(p)
  <2>1. UNCHANGED fence /\ cli'[p].pc # "publish-fence"
    BY <1>7, <1>d DEF finish_maintenance, finish_failed
  <2>2. CASE cli[p].maintenance /\ Fenced
    <3>1. PICK b \in BOOLEAN : /\ Write(after_maintenance(fenced_record, b))
                              /\ intent' = (b /\ intent)
      BY <1>7, <2>2 DEF finish_maintenance, finish_failed, TypeOK, CliState
    <3>2. after_maintenance(fenced_record, b) \in PublicationRecord
      BY <2>2, <1>b, RecordTransitions DEF ClientMode, Backend
    <3>3. fenced_record.lifecycle = "maintenance" /\ ~attached(fenced_record)
      BY <1>7, <2>2 DEF OperatorFacts, MaintenanceFacts, finish_maintenance, finish_failed, AtCli
    <3>4. /\ ManagedRecord(after_maintenance(fenced_record, b))
          /\ Seeding_intent(after_maintenance(fenced_record, b)) = (b /\ Seeding_intent(fenced_record))
      BY <2>2, <3>3, <1>b, FinishedFacts
    <3>5. intent' = Seeding_intent(after_maintenance(fenced_record, b))
      BY <2>2, <3>1, <3>4, <1>c
    <3>6. QED
      BY <2>1, <2>2, <3>1, <3>2, <3>3, <3>4, <3>5, WriteFacts
  <2>3. CASE ~(cli[p].maintenance /\ Fenced)
    <3>1. UNCHANGED <<record, intent>>
      BY <1>7, <2>3 DEF finish_maintenance, finish_failed, OperatorFacts, MaintenanceFacts, AtCli
    <3>2. QED
      BY <2>1, <3>1, <1>a DEF OperatorFacts, AttachmentReported, IntentFacts, Fenced, fenced_record
  <2>4. QED
    BY <2>2, <2>3
<1>8. CASE ~Records(p) /\ ~write_fence(p) /\ ~unlink_fence(p)
  <2>1. UNCHANGED <<fence, record, intent>> /\ cli'[p].pc # "publish-fence"
    BY <1>8, CliFrame, CliArrives DEF Records
  <2>2. QED
    BY <2>1, <1>a DEF OperatorFacts, AttachmentReported, IntentFacts, Fenced, fenced_record
<1>9. QED
    BY <1>1, <1>2, <1>3, <1>4, <1>5, <1>6, <1>7, <1>8 DEF Records

-----------------------------------------------------------------------------

\* The maintenance and the transfers of a lone operator.
LEMMA OperatorControl ==
    ASSUME TypeOK, OperatorFacts, LoneOperator, NEW p \in Clis, CliStep(p)
    PROVE  (MaintenanceFacts(p) /\ TransferFacts(p))'
<1>a. /\ MaintenanceFacts(p) /\ TransferFacts(p)
      /\ cli[p] \in CliState /\ cli \in [Clis -> CliState]
    BY DEF OperatorFacts, TypeOK
<1>b. Exit(p) => cli'[p] = Idle
    BY CliFields
<1>c. \A pc : Move(p, pc) =>
        /\ cli'[p].pc = pc /\ cli'[p].op = cli[p].op
        /\ cli'[p].maintenance = cli[p].maintenance
    BY CliFields
<1>d. \A s : cli' = [cli EXCEPT ![p] = s] => cli'[p] = s
    BY CliFields
<1>e. UNCHANGED <<fence, record>> => UNCHANGED fenced_record /\ (Fenced' <=> Fenced)
    BY DEF Fenced, fenced_record
<1> USE DEF MaintenanceFacts, TransferFacts, Transfers, MaintenancePc, AtCli, Locked,
            torrents, files, ghosts
<1>1. CASE \E op \in OneLock : Enter(p, op)
  <2>1. PICK op \in OneLock : Enter(p, op)
    BY <1>1
  <2>2. /\ cli'[p] = [Idle EXCEPT !.op = op, !.pc = "locked"]
        /\ op # "publish-external"
    BY <2>1, <1>d DEF Enter, LoneOperator
  <2>3. QED
    BY <2>2 DEF Idle
<1>2. CASE repair_read(p)
  <2>1. PICK pc \in {"maintain", "repair-lock"} :
            /\ cli' = [cli EXCEPT ![p] = [Idle EXCEPT !.op = "repair", !.pc = pc]]
            /\ pc = "repair-lock" => state.status # "dirty"
    BY <1>2 DEF repair_read
  <2>2. cli'[p].pc = pc /\ cli'[p].op = "repair" /\ ~cli'[p].maintenance
    BY <2>1, <1>d DEF Idle
  <2>3. QED
    BY <1>2, <2>1, <2>2 DEF repair_read
<1>3. CASE update_read(p)
  <2>1. cli'[p] = [Idle EXCEPT !.op = "update", !.pc = "repair-lock"]
    BY <1>3, <1>d DEF update_read
  <2>2. QED
    BY <2>1 DEF Idle
<1>4. CASE \/ write_fence(p) \/ set_seed_desired(p) \/ show(p) \/ detach_timeout(p)
           \/ unlink_fence(p) \/ finish_maintenance(p) \/ finish_failed(p)
           \/ mirror_present(p) \/ verify(p) \/ refuse(p) \/ CliCrash(p)
  <2>1. cli'[p] = Idle
    BY <1>4, <1>b DEF write_fence, set_seed_desired, show, detach_timeout, unlink_fence,
                      finish_maintenance, finish_failed, mirror_present, verify, refuse,
                      CliCrash
  <2>2. QED
    BY <2>1 DEF Idle
<1>5. CASE create_publication(p) \/ retire_stop(p) \/ retire_publication(p)
  <2>1. /\ cli'[p].pc \in {"publish-fence", "retire-wait", "retire-unlink"}
        /\ cli[p].pc \in {"locked", "retiring"}
        /\ cli'[p].op = cli[p].op /\ cli'[p].maintenance = cli[p].maintenance
    BY <1>5, <1>c DEF create_publication, retire_stop, retire_publication
  <2>2. QED
    BY <2>1, <1>a
<1>6. CASE wait_for_maintenance_detach(p)
  <2>1. /\ \/ cli[p].pc = "retire-wait" /\ cli'[p].pc = "retire-lock"
           \/ cli[p].pc = "detach-wait" /\ cli'[p].pc = "repair-lock"
        /\ cli'[p].op = cli[p].op /\ cli'[p].maintenance = cli[p].maintenance
        /\ UNCHANGED <<fence, record, state>>
        /\ Fenced => ~attached(fenced_record)
    BY <1>6, <1>c DEF wait_for_maintenance_detach, Detached
  <2>2. MaintenanceFacts(p)'
    BY <2>1, <1>a, <1>e
  <2>3. TransferFacts(p)'
    BY <2>1, <1>a, <1>e
  <2>4. QED
    BY <2>2, <2>3
<1>7. CASE retire_lock(p) \/ maintenance_lock(p)
  <2>1. \/ cli'[p] = Idle
        \/ /\ cli'[p].pc \in {"retiring", "beginning"} /\ cli'[p].op = cli[p].op
           /\ cli'[p].maintenance = cli[p].maintenance
           /\ cli[p].pc = "maintain" \/ cli'[p].pc = "retiring"
           /\ cli[p].pc \notin MaintenancePc
    BY <1>7, <1>b, <1>c DEF retire_lock, maintenance_lock
  <2>2. QED
    BY <2>1, <1>a DEF Idle
<1>8. CASE repair_lock(p) \/ failed_lock(p)
  <2>1. /\ \/ cli'[p] = Idle
           \/ /\ cli'[p].op = cli[p].op /\ cli'[p].maintenance = cli[p].maintenance
              /\ \/ cli[p].pc = "repair-lock" /\ cli'[p].pc = "repair"
                 \/ cli[p].pc = "repair-lock" /\ cli'[p].pc = "failed" /\ cli[p].maintenance
                 \/ cli[p].pc = "failed" /\ cli'[p].pc = "failing"
        /\ UNCHANGED <<fence, record, state>>
    BY <1>8, <1>b, <1>c DEF repair_lock, failed_lock
  <2>2. QED
    BY <2>1, <1>a, <1>e DEF Idle
<1>9. CASE begin_maintenance(p)
  <2>1. cli[p].pc = "beginning" /\ cli[p].op = "repair" /\ UNCHANGED fence
    BY <1>9, <1>a DEF begin_maintenance
  <2>2. CASE Fenced
    <3>1. /\ cli'[p].pc = "detach-wait" /\ cli'[p].op = cli[p].op /\ cli'[p].maintenance
          /\ Write(in_maintenance(fenced_record))
      BY <1>9, <2>2, <1>a DEF begin_maintenance, CliState
    <3>2. fence \in Commits /\ record \in [Commits -> PublicationRecord]
      BY <2>2 DEF Fenced, TypeOK
    <3>3. record'[fence].lifecycle = "maintenance"
      BY <3>1, <3>2 DEF Write, in_maintenance, fenced_record, PublicationRecord
    <3>4. QED
      BY <2>1, <2>2, <3>1, <3>3 DEF Fenced, fenced_record, active
  <2>3. CASE ~Fenced
    <3>1. /\ cli'[p].pc = "repair-lock" /\ cli'[p].op = cli[p].op
          /\ cli'[p].maintenance = cli[p].maintenance
      BY <1>9, <2>3, <1>c DEF begin_maintenance
    <3>2. fence = NoCommit
      BY <1>9, <2>3 DEF begin_maintenance, Maintainable, Loadable, Fenced
    <3>3. QED
      BY <2>1, <3>1, <3>2, <1>a
  <2>4. QED
    BY <2>2, <2>3
<1>10. CASE repair_locked(p)
  <2>1. PICK s : /\ cli' = [cli EXCEPT ![p] = s]
                 /\ \/ /\ s = [cli[p] EXCEPT !.pc = "transfer", !.target = state.upstream_commit]
                       /\ cli[p].op = "update"
                    \/ /\ s = [cli[p] EXCEPT !.pc = "transfer", !.target = state.resolved_commit]
                       /\ state.status = "dirty"
                    \/ s = [cli[p] EXCEPT !.pc = "finish", !.healthy = (state.status = "clean")]
    BY <1>10 DEF repair_locked
  <2>2. /\ s.op = cli[p].op /\ s.maintenance = cli[p].maintenance
        /\ \/ s.pc = "transfer" /\ (cli[p].op = "update" \/ state.status = "dirty")
           \/ s.pc = "finish"
    BY <2>1, <1>a DEF CliState
  <2>3. cli'[p] = s /\ cli[p].pc = "repair" /\ UNCHANGED <<fence, record>>
    BY <2>1, <1>d, <1>10 DEF repair_locked
  <2>4. QED
    BY <2>2, <2>3, <1>a, <1>e
<1>11. CASE verification_incomplete(p)
  <2>1. /\ cli'[p].pc = "finish" /\ cli'[p].op = cli[p].op
        /\ cli'[p].maintenance = cli[p].maintenance
        /\ cli[p].pc = "repair" /\ UNCHANGED <<fence, record>>
    BY <1>11, <1>a DEF verification_incomplete, CliState
  <2>2. QED
    BY <2>1, <1>a, <1>e
<1>12. CASE mirror_replace(p)
  <2>1. PICK target : /\ Loadable /\ ~Fenced
                      /\ cli' = [cli EXCEPT ![p].pc = "transfer", ![p].target = target]
    BY <1>12 DEF mirror_replace, UpdateAllowed
  <2>2. /\ cli'[p].pc = "transfer" /\ cli'[p].op = cli[p].op
        /\ cli'[p].maintenance = cli[p].maintenance
        /\ cli[p].pc = "locked" /\ UNCHANGED fence
    BY <2>1, <1>12, <1>a DEF mirror_replace, CliState
  <2>3. fence = NoCommit
    BY <2>1 DEF Loadable, Fenced
  <2>4. QED
    BY <2>2, <2>3, <1>a
<1>13. CASE transfer_file(p)
    BY <1>13, <1>a, <1>e DEF transfer_file
<1>14. CASE transferred(p)
    BY <1>14, <1>a, <1>c, <1>e DEF transferred
<1>15. CASE transfer_fails(p)
  <2>1. /\ \/ cli'[p] = Idle
           \/ /\ cli'[p].op = cli[p].op /\ cli'[p].maintenance = cli[p].maintenance
              /\ cli'[p].pc = "failed" /\ cli[p].maintenance
        /\ cli[p].pc = "transfer" /\ UNCHANGED <<fence, record>>
    BY <1>15, <1>b, <1>c DEF transfer_fails
  <2>2. QED
    BY <2>1, <1>a, <1>e DEF Idle
<1>16. CASE persist_repair_state(p)
  <2>1. PICK b : cli' = [cli EXCEPT ![p].pc = "finish", ![p].healthy = b]
    BY <1>16 DEF persist_repair_state
  <2>2. /\ cli'[p].pc = "finish" /\ cli'[p].op = cli[p].op
        /\ cli'[p].maintenance = cli[p].maintenance
        /\ cli[p].pc = "persist" /\ UNCHANGED <<fence, record>>
    BY <2>1, <1>16, <1>a DEF persist_repair_state, CliState
  <2>3. QED
    BY <2>2, <1>a, <1>e
<1>17. QED
    BY <1>1, <1>2, <1>3, <1>4, <1>5, <1>6, <1>7, <1>8, <1>9, <1>10, <1>11, <1>12, <1>13,
       <1>14, <1>15, <1>16 DEF CliStep, Issue, CliRuns

\* The inductive invariant behind maintenance.
OInv == TypeOK /\ LockOwned /\ Targeted /\ Backed /\ OperatorFacts

\* It is inductive.
LEMMA OperatorStep ==
    ASSUME LoneOperator, OInv, [Next]_vars
    PROVE  OInv'
<1> USE DEF OInv
<1>1. TypeOK' /\ LockOwned' /\ Targeted' /\ Backed'
    BY LockStep, BackedStep
<1>2. CASE SeederStep
    BY <1>1, <1>2, SeederOperator
<1>3. ASSUME NEW p \in Clis, CliStep(p) PROVE OperatorFacts'
  <2>1. (~missed => PassFacts)'
    BY <1>3, CliFrame DEF OperatorFacts, PassFacts, At, Keeps
  <2>2. \A q \in Clis : q = p
    BY DEF LoneOperator
  <2>3. (MaintenanceFacts(p) /\ TransferFacts(p))'
    BY <1>3, OperatorControl
  <2>4. QED
    BY <1>3, <2>1, <2>2, <2>3, OperatorRecords DEF OperatorFacts
<1>4. CASE Environment \/ UNCHANGED vars
  <2>1. UNCHANGED <<fence, record, state, session, seeder, cli, missed, intent>>
    BY <1>4 DEF Environment, FilesChange, UpstreamMoves, vars, torrents, files, ghosts
  <2>2. QED
    BY <1>1, <2>1
       DEF OperatorFacts, PassFacts, At, Keeps, AttachmentReported, MaintenanceFacts,
           TransferFacts, Transfers, IntentFacts, Fenced, fenced_record
<1>5. QED
    BY <1>1, <1>2, <1>3, <1>4 DEF Next

\* It holds at first.
LEMMA InitOperator == Init => OInv
<1> SUFFICES ASSUME Init PROVE OperatorFacts
    BY InitTypes, InitBacked DEF OInv
<1> USE DEF Init, ArchiveInit
<1>1. \A p \in Clis : cli[p] = Idle
    OBVIOUS
<1>2. \A p \in Clis : MaintenanceFacts(p) /\ TransferFacts(p) /\ cli[p].pc = "idle"
    BY <1>1 DEF MaintenanceFacts, TransferFacts, Transfers, Idle
<1>3. \A c \in Commits : ManagedRecord(record[c])
    BY DEF ManagedRecord, NoRecord, attached
<1>4. QED
    BY <1>2, <1>3
       DEF OperatorFacts, PassFacts, At, Down, AttachmentReported, IntentFacts, Fenced

\* So it holds always.
LEMMA OperatorInvariant ==
    ASSUME LoneOperator
    PROVE  Spec => []OInv
<1>1. OInv /\ [Next]_vars => OInv'
    BY OperatorStep
<1>2. QED
    BY <1>1, InitOperator, PTL DEF Spec

\* For a lone operator without an external client: as long as no pass of the
\* seeder had to leave a handle behind, whatever is attached belongs to the
\* fenced publication, and its record says that it is attached.
THEOREM AttachmentsAreReported ==
    ASSUME LoneOperator
    PROVE  Spec => []AttachmentReported
<1>1. OInv => AttachmentReported
    BY DEF OInv, OperatorFacts
<1>2. QED
    BY <1>1, OperatorInvariant, PTL

\* Under the same condition nothing is attached while a repair, an update or a
\* mirror transfers files, but for the repair that "repair --update" does when
\* there is nothing to update.
THEOREM DetachedForTransfers ==
    ASSUME LoneOperator
    PROVE  Spec => []DetachedUnlessMissed
<1>1. OInv => DetachedUnlessMissed
  <2> SUFFICES ASSUME OInv, ~missed, NEW p \in Clis, Transfers(p),
                      ~(cli[p].op = "update" /\ fence # NoCommit)
               PROVE  session = {}
    BY DEF DetachedUnlessMissed
  <2>1. MaintenanceFacts(p) /\ TransferFacts(p) /\ AttachmentReported /\ session \subseteq Commits
    BY DEF OInv, OperatorFacts, TypeOK
  <2>2. CASE fence = NoCommit
    BY <2>1, <2>2, ConstantsAssumption DEF AttachmentReported
  <2>3. CASE fence # NoCommit
    BY <2>1, <2>3
       DEF AttachmentReported, MaintenanceFacts, TransferFacts, Transfers, fenced_record
  <2>4. QED
    BY <2>2, <2>3
<1>2. QED
    BY <1>1, OperatorInvariant, PTL

\* For a lone operator without an external client: what was last asked for is
\* in the record, as desired or as parked, whatever crashes.
THEOREM IntentSurvives ==
    ASSUME LoneOperator
    PROVE  Spec => []SeedIntentSurvives
<1>1. OInv => SeedIntentSurvives
    BY DEF OInv, OperatorFacts, IntentFacts, Seeding_intent, SeedIntentSurvives
<1>2. QED
    BY <1>1, OperatorInvariant, PTL

=============================================================================
