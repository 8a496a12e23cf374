# A verification model of model-mirror

model-mirror keeps local, verified copies of Hugging Face repositories. It
downloads a snapshot of a commit, checks every file against the hashes the Hub
publishes, keeps a manifest of what it has checked, repairs and updates the
copy, and can publish it as a torrent that a long-running seeder serves. All of
this is done by short-lived command-line processes and one seeder process that
share nothing but files: there is no daemon and no database, and each process
may be killed at any point. This directory holds TLA+ models of that program,
TLC configurations that check them, and proofs that TLAPS checks.

Paths below are relative to `src/model_mirror/`.

## Inventory

| Component | State it keeps | Operations | Talks to |
|---|---|---|---|
| Publication records and fence (`torrent_publication.py`) | `publication.json` per commit, `fence.json` per archive | create, stop, retire, begin/finish maintenance, observe backend, check the fence | torrent commands, repair, mirror, seeder |
| Managed seeder (`torrent_seed.py`) | libtorrent session, handles attached | `reconcile()` every two seconds, `close()` on a signal | records and fence, lock, payload fingerprints |
| Repair (`repair.py`) | none of its own | same-commit repair with maintenance, `--update`, plan reconciliation | state, manifest, plan, Hub, records |
| Mirror (`mirror.py`) | snapshot plan | mirror, resume, `--force`, `--no-verify` | state, manifest, plan, Hub, fence |
| Verification (`checksums.py`, `verify.py`, `state.py`, `cli.py`) | `.manifest`, `.verification` | full, cached and offline verify, offline/online | payload, Hub, plan |
| Archive lock (`lock.py`) | `.verification.lock` (flock) | make the directory, open, try-lock, look for the removal marker, release | every command and the seeder |
| Downloads (`hub.py`) | staging directory, `.incomplete` files | stream, resume, retry, record | Hub, payload, manifest, runtime cache lock |
| Torrent descriptor (`torrent.py`) | none | build descriptor and metainfo | state, plan, manifest |
| Hash coverage (`torrent_coverage.py`, `torrent_hashes.py`) | coverage file per commit; the hasher's buffers | hash while streaming, upgrade, record, judge a row | payload, plan, downloads, torrent create |
| Import and join (`torrent_import.py`) | staged payload and what it writes into it | check a received payload, make its plan, coverage and manifest, move it into place, register it | records, state, payload |
| Removal (`removal.py`, `cli.py`) | removal marker | stage, complete, resume | lock, records, payload |
| Runtime cache (`runtime_cache.py`) | cache lock, staging records | inspect, clean | downloads |
| Supervised mirror (`cli.py`, `progress.py`) | progress file, retry counts | report progress; watch, kill, restart a mirror child | mirror, downloads |
| Configuration, payload paths, version check, other output | configuration files | parsing, validation, printing | everything |

What is hard in this code, and what the properties below are for:

* **Check, then lock.** `repair` reads the state and the fence before it holds
  the lock; the seeder decides on records it discovered without the lock. What
  is decided may be out of date when it is acted upon.
* **Two processes, one protocol, no messages.** A repair asks the seeder to let
  go of the payload by writing `stopping` into a record and polling it. Every
  attempt of the seeder to answer can meet a busy lock.
* **Several files, one meaning.** A publication is a record and a fence, a
  clean archive is a state, a plan, a manifest and the files. Each is replaced
  atomically, the set is not, and a crash falls between any two of them.
* **Cached truth.** Manifest rows and fingerprints stand for the bytes of a
  file as long as its size and mtime agree.
* **Leftovers.** A download resumes what another command, of another commit,
  on another transport, left in a partial file, and hashes it again from there.
* **A lock that lives in what it protects.** The lock file is in the archive's
  directory, the commands work on its path, and a removal renames the directory
  away. An import moves a directory onto the path and takes no lock.
* **Threads that share.** Download threads share one Xet session, one coverage
  file and one manifest; a stall of one stream aborts the others.
* **A watchdog that reads files.** The supervisor knows of its child only what a
  progress file says, which may be an older child's, held back, or just removed.
* **Hashes of a stream.** A file is hashed in chunks while it comes in, in several
  attempts, for two torrent formats at once, and never looked at as a whole.
* **Parked intent.** Maintenance clears the wish to seed and must restore it
  after reruns, timeouts, failures and crashes.

`PROJECT.json` lists these as hazards, each at its line and with the properties
that would catch it going wrong.

## Modules

| Module | Models |
|---|---|
| `Publication` | the publication record and its transitions, no state of its own |
| `ArchiveRoot` | the shared state of one archive: lock, fence, records, verification state, payload, manifest; what the Hub and the file system do to it |
| `ManagedSeeder` | the seeder: `reconcile()`, `close()`, `serve()` |
| `Commands` | torrent publish, create, stop, show, retire; repair, repair --update, mirror, verify |
| `FencedArchive` | the composition of the two and its properties |
| `CommitFence` | what a publication promises: the path holds the published commit |
| `FencedArchiveProofs` | the theorems about `FencedArchive` |
| `Archive` | one archive file by file: mirror, verify, repair, update, write by write |
| `ArchiveProofs` | the theorems about `Archive` |
| `Download` | downloads: threads, partial files, resumption, retries, staging, kills |
| `DownloadProofs` | the theorems about `Download` |
| `Lifecycle` | how an archive's directory comes and goes: mirror, remove, import, clean-cache and the locks between them |
| `LifecycleProofs`, `RemovalProofs` | the theorems about `Lifecycle` |
| `Supervisor` | a supervised mirror: the parent, its children, the progress file, time |
| `SupervisorProofs` | the theorems about `Supervisor` |
| `TorrentHashes` | the streaming hasher of one file, and what its hashes should be |
| `TorrentFiles` | hash coverage, the metainfo made from it, import and join; uses `TorrentHashes` |
| `TorrentHashProofs`, `TorrentFileProofs` | the theorems about these two |
| `MC*` | instances for TLC |

### FencedArchive: publications, maintenance, the seeder

The state is what processes share on disk (`lock`, `fence`, `record`,
`fingerprints`, `state`, `payload`, `manifest`), the Hub's `upstream` commit,
the seeder's `session` and control state, and one control state per
command-line process. Data is cut down to what the protocol tells apart: the
payload is the commit its files come from and whether they are all intact, the
manifest is whether it vouches for every file, `fingerprints` are the commits
whose publication still describes the payload's sizes and mtimes. `intent` and
`missed` are history variables that no action reads.

An exception that leaves a pass of the seeder takes it into `close()`, as `serve`'s
`finally` does (`SeederRaises`); one that leaves `close()` ends the process.

An action is the code between two points at which another process can
interfere: a lock attempt, the body of a `with ModelLock` block, a read made
without the lock, one of two file writes. Where a body makes two writes whose
order matters (record and fence in `create_publication` and
`retire_publication`) they are two actions. A control point in `LockedPc` is
inside a locked block. `CliCrash` and `SeederCrash` may happen at every control
point; the kernel then drops the lock. A command that finds the lock busy before
it has done anything leaves no trace and is no step.

`MirrorTargets` lets an interrupted mirror resume any commit: the snapshot plan
is not kept at this level, and it may be older than the state next to it. For the
same reason the branch of `repair_locked` that reconciles the plan is not here but in
`Archive`.

### Archive: the files of one mirror

Here the lock is taken for granted (`LockOwned` is checked and proved above) and
one command runs at a time, but every write is a step and `Stops`, a crash or an
exception, may come after any of them. A file is the version it holds; `Torn`,
`Edited` and `Rotten` are files of another size, of another mtime, and files
whose damage neither size nor mtime shows. `manifest` is the version each row was
hashed from and `stale` the paths whose size or mtime is no longer the row's.
Versions of a path have one size, which is the case in which only hashes help.

`judged` is a history variable: which command derived the state, as long as
nothing has happened since. Most properties are about what the derived state
can be trusted for.

Taken as they are by default: `config.checksum` on, no `--strict`, one
download thread (the manifest is rewritten after each file in either case).
Files change only between commands. A manifest file without rows is treated as
no manifest. What `repair` rehashes after it has just recorded it is no step.

### Download: how a file arrives

`Archive` fetches a file in one step; this module is what happens inside it,
`stream_snapshot` and below, with one action per point at which threads
interleave or a kill leaves something behind. `disk`, `partial` and `staged` are
what NAME, NAME.incomplete and the staging directory hold, block by block; a
block is the version it comes from, or `Corrupt`. `rows` is what the manifest row
of the file on disk was hashed from, `covered` the commits whose coverage file
has a row for it; both are reset when the file is replaced, because they no
longer match. `command` is the download that runs or the last one, `task` the
locals of the thread that has the file: its control point, `allow_resume`,
`integrity_retry_used`, `stall_retry_count`, what the writer has hashed and what
the torrent accumulator was fed. Hashing is kept apart from writing, so that a
resumption that hashes other bytes than it keeps would show. `harm` records
what the network did and is read by no guard.

The network chooses: the transport, a server that ignores the range, wrong
blocks, too many or too few, an answer for another commit, an error, an HTTP
timeout, a Xet stream that stalls. `WatchdogFires` aborts the one Xet session of
the process, so every open stream is cut, and only the file whose own watchdog
fired counts it as a stall.

Taken for granted: `stall_timeout_seconds` is positive (with 0 there is no
watchdog, and a stream may hang for ever), every file has a size and a hash, and
no payload path is the `.incomplete` of another. Left out: the process-wide HTTP
timeout, which threads set and restore around each other, and the runtime cache
lock, which `Lifecycle` has. A snapshot staged by an older release
is promoted file by file, as `promote_legacy_staged_file` does.

### Lifecycle: the directory itself

The other modules take for granted that there is one directory and that its lock
works. Here a directory is its inode, `path` says which inode the canonical, the
removal and the import path lead to, and `ModelLock` is the four calls it makes:
`Mkdir`, `Open`, `Flock`, and the look at the removal marker (`Enter`,
`RemovePending`), each a step. `holder` is the flock on each directory's lock
file, `control` the lock on the removals directory, `cleaner` and `downloaders`
the two sides of the runtime cache lock. A process may have a directory open
that no path leads to any more; `Fresh` is the inode a new directory gets, which
may be one that was freed.

A mirror is here the start of its snapshot, its download as far as it uses the
staging directory, and the state it ends with; publish and retire are their
fence; retire is the second of its two lock blocks. Removal is whole: the
prompt, the record, the rename, and `complete_removal` unlink by unlink, except
that the metadata files go in one step. Import begins at the payload it received
and has `finalize_payload` and the two writes that register it; the metainfo and
libtorrent are left out. The probe of `status` and of `clean-cache` takes the
lock to see whether it is free, and a command that meets it is turned away.

`confirmed` (directories an operator agreed to remove) and `strayed` (processes
that entered a lock block through a directory that had been moved away) are
history variables that no guard reads; a directory leaves `confirmed` when its
removal is cancelled. The module looks at one repository.

### Supervisor: a child under watch

`mirror` starts itself again as a child and looks at the child's progress file
at every poll. `sup` is where `supervise_child` is: it polls the child, looks for
the progress file, reads it (or scans the partial files), judges, and sleeps or
kills. Looking and reading are two steps, because the child removes the file when
its last transfer is done. When it is gone by the reading, when a partial file is
renamed during the scan, or when a killed child does not die in time, the supervisor
ends with a traceback (`Traceback`) and the child may go on alone; `Ends` and
`ZeroMeansMirrored` accept that end, and no property is about such a child. `entry` is the file, one entry per transfer; `work`,
`bytes` and `quiet` are what the child has done of each file and for how long it
has received nothing, which no supervisor sees. The child may do any step of its
transfers, fail, exit, or hang wherever it is.

Time is whole seconds (`Tick`). All comparisons in the code are of differences, so
a stamp is its age, capped at the timeout. Whether a stamp is fresh, which is not
before the start of the present child, is kept with it: `utc_now_iso` cuts to
seconds and the start does not, so an entry of the starting second is not fresh.
`FileProgress.update` may hold a report back until `MinInterval` has passed; that
it does not have to, because of its byte limit, is a nondeterministic choice
(`Emit`). `Spawn` covers `terminate_child` and the next `Popen`: the child may
have ended in between, and is started again all the same.

### TorrentHashes and TorrentFiles: what a torrent is made of

`TorrentHashes` is `TorrentFileHasher`: `Update` brings a chunk of any length, and
every round of its two loops is a step (`FillPiece`, `FillBlock`), up to
`Finalize`. A hash stands for what is hashed (a piece for its bytes, a node of a
Merkle tree for the pair below it), so two hashes are equal when the code would
hash the same bytes in the same shape. `V1Of`, `V2Of` and `RootOf` define, from
the file as a whole, what BitTorrent v1 and v2 ask for: `Tree` is one tree over all
blocks of the file (`BlocksOf`), level by level, which the code never builds.
Recursion is by functions on the numbers (`TwoTo`, `Tree`, `Cursor`, the pieces of
the files before one), so that it can be reasoned about.

`TorrentFiles` has one payload, mirrored or received, with one command at work on
it at a time and anyone writing to it between any two steps. A file holds the
right bytes, wrong ones of the right length, fewer or more, or is not there; its
`mtime` counts its writes. `Upgrade` hashes what has no current row (the upgrade
command and torrent create), `Fetch` does what a download does to the coverage (a
right file is hashed where it is, any other is fetched and hashed on the way,
`Reread` when its length is not what was hashed), `Import` is `finalize_payload`,
one step per file it writes, with coverage from the bytes for `import` and from
the metainfo for `join`. `Create` puts the metainfo together. The bytes are not
kept in `disk`: `tainted` says that a byte that went into the full hashes was
wrong, which is what the comparison with the commit's hashes finds. `torn` are
the files written to while they were read; it is a history variable.

The lock and the canonical path are `Lifecycle`'s, partial files and retries are
`Download`'s. Taken for granted: no two payloads with one root name, paths that
collide nowhere, metainfo that `parse_publication_metainfo` accepts. `Upgrade` and
`Create` do not ask for the clean state and the current manifest that
`build_publication_descriptor` wants, so more happens here than in the code. The
files of the payload have one order, that of the release: the v2 file tree, which is
ordered by name within each directory, is not modelled, and neither is what a client
makes of a tree whose order differs from the descriptor's.

## Runs

| Run | Instance | Shows |
|---|---|---|
| `fence` | two commits, two operators, the seeder, four commands, mtimes may change | the fence protocol without `repair --update` |
| `maintenance` | two commits, one operator, the seeder, four commands, fairness | maintenance, the intent to seed, liveness, with `repair --update` |
| `archive_files` | three paths, two commits, four commands, one file changed from outside | files, manifest, state and plan under crashes |
| `download` | two files, two commits, two commands, one or two threads, fairness | resumption, integrity, retries, and that downloads end |
| `lifecycle` | one repository, two processes, two commits, three commands, one crash, fairness | removal, import, cache cleaning and the locks between them |
| `supervisor` | two files, two threads, a timeout of two seconds, one retry, fairness | whom the supervisor kills, what its exit code means, that it ends |
| `torrent_files` | a payload of three files and one of a single file, chunks of up to three and five bytes, two writes | hashing, coverage, metainfo, import |
| `update_race` | as `fence`, with `repair --update` | a disagreement with the documentation, below |
| `empty_files` | as `download` | a disagreement with the documentation, below |
| `moved_lock` | as `lifecycle`, fewer kinds of commands, no crash | a disagreement with the documentation, below |
| `healthy_child` | as `supervisor` | a disagreement with the documentation, below |
| `import_rerun` | as `torrent_files`, no writes from outside | a disagreement with the documentation, below |

### fence

* `LockOwned`: a process is inside a locked block exactly while it holds the
  lock, on every return, error, timeout and crash.
* `PublishedCommitPinned`: state and payload belong to the published commit for
  as long as the fence is set.
* `FenceBacked`: the fence never names a publication that was not written.
* `FenceReleasedByRetirement`: a fence goes only after its record is retired
  and its backend detached.
* `AttachesOnlyPublished`: the seeder attaches only what is published at that
  moment, unchanged since, and not being rewritten.
* `KeepsPromise`: the archive implements `CommitFence`.

### maintenance

* `AttachmentReported`: while a handle is attached, its record says so and is
  the fenced one, unless a pass had to leave a handle behind (`missed`).
* `DetachedUnlessMissed`: nothing is attached while a transfer writes, with the
  same exception and that of a same-commit `repair --update`, which repairs
  without maintenance (`repair.py:192`). Both exceptions are real and are described
  below: what the property shows is that there are no others.
* `SeedIntentSurvives`: what the operator last asked for is in the record, as
  desired or as parked intent, in every published or maintained state.
* `StopDetaches`, `SeedAttaches`: while the seeder stays up, a publication that
  stays unwanted is detached for good, and one that stays wanted with an
  unchanged payload is attached, or libtorrent's error is reported.

### archive_files

* `CleanEarned`: a clean state that was just derived is true: by bytes after a
  full verification, up to damage that size and mtime hide after commands that
  trust the manifest.
* `ManifestHonest`: a current row tells the truth about its file.
* `TransfersCure`: a mirror that downloads, an update, and a repair right after
  a full verification end clean with every file in place, whatever was
  interrupted before.
* `PlanFollowsRepair`: after a repair or update the plan is the state's commit.
* `MutationAnnounced`: no command but `repair --update` changes a file while the
  archive says it is clean.

### download

* `PlacedVerified`: nothing comes into place that is not, block for block, the
  file of the pinned commit.
* `SuccessIsComplete`: success means that every requested file is right and has
  a row that vouches for it, also those that were skipped as verified.
* `FailsOnlyByFault`: a file fails only for what the network did to it in this
  command; what an earlier command left behind costs at most the integrity
  retry.
* `FailureKeepsTheRest`: when one thread of a pool fails, the rows of the files
  that did arrive are written before the error is raised.
* `RowsAreCovered`: a file with a manifest row is in a coverage file, since no
  later download looks at it again.
* `PartialsKept`: right bytes are given up only after an integrity error, or
  when the server starts over, never for a stall, a lost connection or a kill.
* `Terminates`: a download ends, because its retries are bounded.

### lifecycle

* `OnlyConfirmedRemoved`: files are deleted only from the directory remove moved
  away, and a directory with anything in it leaves its path only for removal,
  both only after an operator confirmed the removal of that very directory; a
  mirror made while an older removal is pending is safe from it.
* `RemovedInOrder`: what remove has moved away goes payload first, then metadata,
  record and lock file last, over any number of interruptions and resumptions; what
  is left shows what the mirror was until nothing of it is left.
* `LockCoversPath`: a command in its lock block holds the lock file of the
  directory its path leads to, with one exception, which is a finding.
* `PreparedLeftAlone`: nothing changes a mirror whose removal is prepared, with
  the two exceptions that are findings.
* `CleanSparesDownloads`: clean-cache never deletes the staging directory of a
  download that is in progress.
* `CommandsEnd`: every command ends; none waits for ever for a lock or keeps one.

### supervisor

* `FairChance`: no child is killed before the timeout has passed since its own
  start, whatever its predecessors have left in the progress file.
* `BlamedFileIsQuiet`: when a file is blamed for a restart, nothing has been
  written to it for the timeout, less the interval in which reports are held back.
* `ZeroMeansMirrored`: exit code 0 means that every file is there.
* `Ends`: supervision ends, however often children hang, because each kind of
  verdict has a bounded count that outlives the children.

### torrent_files

* `PiecesRight`, `RootsRight`: whatever the chunks, and whatever was hashed before
  a reset, the hashes are those of BitTorrent v1 and v2.
* `CoverageHonest`: a row that passes for current has the hashes of the file, and
  the file has the bytes of the commit, unless somebody wrote to it while it was
  read: `record` takes the time of the file afterwards, and this exception is a
  hazard of the code.
* `MetainfoRight`: the torrent put together from coverage, file by file, is the
  one that any software makes of the payload as one stream with padding.
* `ArrivesWhole`: nothing comes to the canonical path without plan, manifest and a
  row for every file, wherever the import is killed.

### Bounds

Two commits are the fewest for which "another commit" exists, and every
property compares at most two. Two operators give every pair of racing
commands; a third adds no new kind of race to a lock that is tried, not queued
for. Four commands are enough for publish, interrupted maintenance or update,
rerun, and one more. In `archive_files` the two commits differ in all three
ways a path can: changed, removed, added. With `MaxFaults = 2` the run also
passes (3.8 million states, about four minutes); the configuration has one to
stay quick. In `download` one file has
two blocks under one commit and one under the other, so that partials are too
short, too long, and a proper prefix of neither; the other file has one block or
none. One stall retry is the fewest with which a stall can be tried again.
Errors have no budget: termination rests on the retry bounds of the code alone.
In `lifecycle` two processes give every race between two commands, and the third
command is the one that comes after (mirror, remove, mirror again; or a removal
that crashes, another mirror, the removal resumed). Five directories are three
paths and two open handles, so a new directory always finds an inode.
In `supervisor` two files are the fewest for which one stalls while another goes
on or is finished; a timeout of two seconds and an interval of one are the fewest
for which a report can be old, held back, and still not stalled.
In `torrent_files` a block has two bytes and a piece two blocks. One file has nine
bytes: three pieces, the last of them one byte, so that its tree has an empty block
in a piece and an empty piece beside it. One is a byte shorter than a piece, one is
empty; they come before it, so that its pieces begin behind padding, and it comes
alone, without padding. Chunks of three and five bytes end before and after every
boundary of blocks and pieces, and span one and two. Two writes give a file that is
changed and changed back, or changed while another is.
Symmetry is used in `fence` only, where no liveness is checked.
`CHECK_DEADLOCK` is off because the program really may stop: operators run out of
commands (`budget`) and the seeder may be down.

### Fairness

`Fairness` says that a running process goes on: weak fairness of the seeder's
pass (`serve` loops for ever with a two-second sleep) and of each running
command. Nothing makes an operator issue a command, a signal arrive or a crash
happen. The lock needs no strong fairness: the bounded number of commands means
that it is free in the end, and the liveness properties are about what stays
wanted or unwanted in the end. In `Download` fairness is weak and per file: the
thread of a file, its watchdog and the network together do something in the end,
which is what the stall timeout is for, and the main thread takes the results.
In `Lifecycle` it is weak and per process: a command that can go on does, and an
operator who is asked answers. Only downloads wait for a lock, that of the
runtime cache, which a bounded number of commands can take.
In `Supervisor` it is for the supervisor and for time: the parent is a loop around
`sleep`, and the clock goes on. The child gets none, since hanging is what it is
watched for. `TorrentFiles` states no liveness.

### Where the code and its documentation disagree

Each is a run that checks one property and finds it violated.

* `update_race`: `repair --update` checks the fence before it holds the lock
  (`repair.py:179`) and not again; REQ-17 wants it to fail before mutation.
* `empty_files`: a file of size zero is taken for a complete partial file, which
  does not exist, so its download raises FileNotFoundError (`hub.py:615`), where
  the repository's README promises that it is verified and renamed into place.
* `moved_lock`: a command that opened the lock file before a removal moved the
  directory away gets the lock of the removed directory and works on the
  canonical path next to the command that holds the lock of the new one
  (`lock.py:38`); `docs/archive-operations.md` says that commands exclude each
  other by this lock.
* `healthy_child`: the supervisor kills a child that has just written bytes. A
  finished file takes its entry along, without an entry the time counts from the
  start of the child (`cli.py:835`), and checksums and verification have no entry
  at all; the documentation speaks of seconds without byte progress.
* `import_rerun`: an import that was interrupted, or refused for its filesystem,
  has left its plan in the staged payload, and the next import rejects it as an
  unexpected file (`torrent_import.py:361`); REQ-21 wants failed joins resumable.

Six more were seen while modelling. They are in the hazards and have no run of
their own:

* A repair decides on maintenance by a state it read before it held the lock
  (`repair.py:188`), and `repair_locked` repairs what another operator's verification
  has condemned since under an attached session; REQ-19 wants it detached before
  mutation. `DetachedUnlessMissed` is about one operator and cannot show it.
* A pass of the seeder that meets a busy archive skips the detachment and, in its
  second loop, reports the backend stopped all the same (`torrent_seed.py:72-81`);
  the repair that waited for this report goes on, against `docs/torrent.md`. The
  attachment properties are stated for passes that met no busy archive.
* Maintenance ends with the old fingerprints (`torrent_publication.py:509`), so the
  seeder condemns the repaired payload that `docs/torrent.md` says it resumes.
* A mirror that finds the files in place writes a clean state and no snapshot plan
  (`mirror.py:96`), so the plan is missing or another commit's, against REQ-05.
  `status` calls such an archive stale, and repair reconciles it.
* A full verification that finds one damaged file leaves the outdated row of a
  touched one (`cli.py:2804`), and repair asks for a full verification for ever,
  against `docs/archive-operations.md` and its own message.
* An import writes its publication and fence without the lock
  (`torrent_import.py:344`), also after a removal has looked for a fence;
  `docs/archive-operations.md` says that a fence blocks removal and that these
  writes take the lock.

## Proofs

`FencedArchiveProofs` proves, for every set of commits and processes and every
bound on commands:

* `TypeCorrect`: `Spec => []TypeOK`.
* `LockCorrect`: `Spec => []LockOwned`.
* `PublishedCommitStaysPinned`: without `repair --update`,
  `Spec => []PublishedCommitPinned`.
* `ArchiveKeepsPromise`: without `repair --update`, `Spec => KeepsPromise`.

* `FenceIsBacked`, `RetirementReleases`, `AttachmentsArePublished`: for all
  commands, updates included, `FenceBacked`, `FenceReleasedByRetirement` and
  `AttachesOnlyPublished`.
* `AttachmentsAreReported`, `DetachedForTransfers`, `IntentSurvives`: under
  `LoneOperator` (one command-line process, no `publish --external`), updates and
  crashes included, `AttachmentReported`, `DetachedUnlessMissed` and
  `SeedIntentSurvives`.

The assumption about `repair --update` is needed: run `update_race` is the
counterexample. The argument: types and `LockOwned` are inductive together with
`Targeted`, which says that a running transfer has a commit as its target.
`PublishedCommitPinned` is not inductive. A transfer writes files of its
target, so the target of a running transfer must be the fenced commit if there
is one; a publisher between its two writes relies on state and payload still
being of one commit when it sets the fence, and `LockOwned` is what keeps
everybody else out in between. The inductive invariant adds these facts about
control points that hold the lock. Each step of the seeder leaves fence, state
and payload alone, so the work is in the locked commands. The refinement then
follows step by step from the invariant: only `write_fence` publishes, only
`unlink_fence` retires, and a file transfer with the fence set keeps the
commit.

`FenceBacked` becomes inductive with what is true between two writes: the record of
a publisher is there before its fence, and the record of a retirement stays retired
and detached until the fence goes (`Backed`). No write to a record makes it absent
again, and the lock keeps the seeder out in between. `RetirementReleases` and
`AttachmentsArePublished` are action properties and follow from `Backed`, the lock
and the guards of the one step each is about: the seeder asks for fence, record and
fingerprints again once it has the lock, which is why a stale discovery does no harm.

The attachment properties rest on the larger invariant `OInv`. Its parts
say what kinds of records there are (`ManagedRecord`), how far a pass of the seeder
has come with the handles as long as it has missed none (`PassFacts`: those it is
done with are wanted ones, and before it reports or attaches there are none), that a
repair in maintenance has the record to itself and is past its wait only when the
backend has let go (`MaintenanceFacts`), and that any other transfer meets no fence
(`TransferFacts`). `LoneOperator` is needed for these three: in the code they are
broken by two repairs in maintenance at once, by publishing again while a repair is in
maintenance, by a verification that turns the state dirty between a repair's read of
it and its lock, and by an external publication over a managed one. The first, the
third and the last are listed as hazards.

`ArchiveProofs` proves `TypesKept`, `ManifestIsHonest`, `CleanIsEarned`,
`TransfersAreCures`, `PlanIsRepaired` and `MutationsAreAnnounced`, for any paths,
versions and snapshots, any number of commands and a crash or a fault anywhere, from
one inductive invariant. `ManifestHonest` is its base. `Ordered` ties each control
point to its command, `Settled` says that a judgement is one of a command that has
ended, and `Announced` that a command has said so before it touches files. `Restoring`
and `Curing` are loop invariants: what a transfer has left to do is all there is to
do, and what it has done is recorded and right. They are what makes `TransfersCure`
hold whatever was interrupted before. `Concluded` collects what is known once a
command has ended.

`DownloadProofs` proves six of the properties of `Download`, for any files,
commits, sizes, thread counts, retry bounds and staged content:
`SuccessTheorem`, `FailureTheorem`, `PoolTheorem`, `CoverageTheorem`,
`PlacementTheorem` and `ResumeTheorem`. All follow from one inductive invariant,
a conjunction over the files: a step of one thread leaves the other files alone,
so each action has one lemma about its own file. The part that makes
`FailsOnlyByFault` inductive is `Accounted`: while the bytes hashed so far are not
a prefix of the wanted file, wrong bytes have been counted once, and twice after
the integrity retry. That the accumulator was fed what was hashed, and that what
was hashed is what is in the partial file, is needed for it and for
`PlacedVerified`.

`LifecycleProofs` proves, for any number of directories, processes, commands and
crashes, `LifecycleTypes` and `LockCoversPathTheorem`, from one inductive
invariant. Its facts about one process say which command a control point belongs
to, which directory it has open and whose lock it holds, and where that directory
is. A step of another process can break them only by changing what the canonical
path leads to, so most steps are shown to be `Gentle`: they keep the directory at
the path with its marker and lock file, or make one that nobody has open.
`FreshDir`, by counting, is why there is one. Four steps are not gentle. A
withdrawal, a confirmation and the rename belong to the one process that holds
the control lock, and the marker keeps everybody else out by the time of the
rename; an import replaces only a directory that is empty, so one whose lock file
nobody has opened.

`RemovalProofs` proves four theorems on top of it. For `OnlyConfirmedTheorem`
see the next paragraph. `RemovedInOrderTheorem` is about steps: that the record is
there as long as anything else is (`RecordKept`) is an invariant, that the lock file
is as well follows from `MarkedLocked`, and no step but the unlink of the metadata,
which waits for the payload, changes the metadata of what has been moved away
(`MetadataStep`). `PreparedLeftAloneTheorem` needs in addition
that a marked directory has its lock file (`MarkedLocked`): then no command makes one
of its own, and whoever gets the lock meets the marker. `CleanSparesTheorem` needs
who has the runtime cache (`CacheFacts`): a clean-cache that sweeps, or downloads,
never both.

The strengthening says that what a removal is about to move or delete is
confirmed, that the rename overwrites nothing, and that a directory no path leads
to has no payload; without the last a new mirror might take an inode with files
in it, and overwriting them would be a deletion.

The only assumption is `LifecycleAssumption`: finitely many processes and three
more directories than processes, a file system that has an inode left.

`SupervisorProofs` proves `SupervisorTypes`, `EveryChildHasItsTime`,
`ZeroIsEarned` and `BlameIsEarned`, for any files, threads, timeout, interval and
retry limit. The inductive invariant relates what the supervisor sees to what it
does not: a fresh stamp is no older than the child (`StampsOfThisChild`), and the
bytes of an active file have been quiet for at least the age of its entry, less
the interval (`StampsFollowBytes`). A child that verifies has every file
(`ThereWhenVerified`).

`TorrentHashProofs` proves, for any file length, block and piece length, chunks and
resets, `StreamedPiecesAreRight` (`HashSpec => []PiecesRight`) and
`StreamedRootsAreRight` (`HashSpec => []RootsRight`). The invariant for the first says
that the pieces so far are the first pieces of the file, that the open piece is the
stretch behind them, and that what is left of the chunk follows it up to `pos`. For
the second, `RInv` says the same of blocks, of the leaves of the open piece and of
the roots of the pieces before it. What remains is about trees: the levels of the
tree depend on the leaves below them only (`TreeLocal`), a tree over the roots
of equal subtrees is the tree over all leaves (`TreeOfTrees`), `merkle_root` with its
padding is the tree over the padded leaves (`MerkleRootIs`), and `zero_subtree_root`
is the root over empty ones (`ZeroSubtreeIs`); that a file of one piece is padded to
its own size and a longer one to full pieces comes out of the two cases at the end
(`SmallFile`, `LargeFile`).

The library's induction theorems cannot be used here, since their parameter is an
operator. `SetInduction` is induction for a set instead, proved by counting: were a
number missing, the numbers in the set below it would fit into themselves without 0.
`Recursion` builds on it, and with it each recursive function is shown to be what its
definition says (`TwoToIs`, `TreeIs`, `FlattenIs`, `CursorIs`) before anything is
proved about it.

`TorrentFileProofs` shows that `TorrentFiles` implements `HashSpec`
(`CommandsUseTheHasher`: every step of a command is a step of the hasher or leaves
it alone), so that `PayloadPiecesAreRight` and `PayloadRootsAreRight` follow from the
refinement, and proves

* `ImportsArriveWhole`, from an invariant on the control points of an import: what
  has been prepared when, and that no crash or restart of another command takes it
  back before the rename;
* `CoverageIsHonest`, from `CoverageInv` and `RowsRight`. A write raises the time of a
  file above that of its row, so a current row can only come from the command at
  work. `Watched` says what that command has seen: a wrong byte has tainted what is
  read, or the file was written to meanwhile; what has been received or validated is
  right. `Listed` says that the rows of what is left to hash are not current, and
  `Fitted` that the hasher is made for the file at work. `RowsRight` then is
  `PiecesRight` and `RootsRight` at the moment a row is recorded, or the cutting of
  the metainfo (`RowFromMetainfoRight`) when a join takes it from there;
* `MetainfoIsRight`, for any number of files. With more than one file each is padded
  to full pieces, so the pieces of the joined stream are the joined pieces of the
  files (`JoinedCuts`), the stream's length is the sum of theirs, and cutting the
  pieces at the cursors gives each file its own again (`SlicesAre`). A single file has
  no padding and is its own stream.

All that the torrent theorems assume is `HashesAssumption` and `FilesAssumption`: block
and piece lengths are positive and a piece is a power of two of blocks, as
`select_piece_length` makes it, and a payload is a sequence of files with lengths.

Every safety property of a passing run is stated by a theorem. Only model-checked:
liveness (`StopDetaches`, `SeedAttaches`, `Terminates`, `CommandsEnd`, `Ends`), which
needs fairness and ENABLED and is out of the prover's reach; the bounds on lengths
and counts that `Download`'s `TypeOK` adds to the proved types; the attachment
properties for an operator who mixes `--external` in, which do not hold; and the
violations, which are counterexamples.

## Plan

Done: `FencedArchive`, `Archive`, `Download`, `Lifecycle`, `Supervisor`,
`TorrentHashes` and `TorrentFiles`, each with its proofs. To come, in this order:

1. Proofs: how far the attachment properties hold for several operators, and the
   bounds of `Download`.
2. Filters (`include`, `exclude`) in `Archive`; a payload named like the partial
   file of another; the v2 file tree and its order.
3. The update plan and the partition of blocking removals, as operators checked
   against reference definitions.

## Not modelled

* Configuration, payload path validation, the version check: parsing and lookups
  that no other process waits for.
* What the command line prints, the JSON and bencode formats, malformed files.
* libtorrent: an attached publication is a member of a set, a join begins when
  its session has the payload.
