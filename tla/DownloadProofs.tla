--------------------------- MODULE DownloadProofs ---------------------------
(***************************************************************************)
(* Proofs about Download, for any files, commits, sizes, thread counts,    *)
(* retries and staged content.                                             *)
(*                                                                         *)
(* The properties are consequences of an inductive invariant IInv, which   *)
(* is a conjunction over the files: a step for one file leaves the others  *)
(* alone (FrameKeeps), so each step has one lemma, about its own file.     *)
(* The watchdog, which cuts every open stream, and the start and the end   *)
(* of a command are the exceptions and touch no file on disk.  The heart   *)
(* of the invariant is Accounted: bytes that are wrong have been counted   *)
(* as the network's doing, once before the integrity retry and again after *)
(* it, so that a second failure is never the fault of an old partial.      *)
(***************************************************************************)
EXTENDS Download, SequenceTheorems, TLAPS

Block == Versions \cup {Corrupt}
Content == Seq(Block)

\* No content is the absence of a file.
LEMMA NoneIsNoContent == None \notin Content
BY DownloadAssumption DEF DownloadAssumption, Content, Block

\* The blocks of a version.
LEMMA FullIsContent ==
    ASSUME NEW v \in Versions
    PROVE  /\ Full(v) \in Content
           /\ Len(Full(v)) = Size[v]
           /\ Size[v] \in Nat
           /\ \A i \in 1..Size[v] : Full(v)[i] = v
<1>1. Size[v] \in Nat
  BY DownloadAssumption DEF DownloadAssumption
<1>2. Full(v) \in [1..Size[v] -> Block]
  BY DEF Full, Block
<1>3. Full(v) \in Content /\ Len(Full(v)) = Size[v]
  BY <1>1, <1>2 DEF Content, Full
<1> QED BY <1>1, <1>3 DEF Full

\* A prefix of a version, block by block.
LEMMA PrefixOfFull ==
    ASSUME NEW v \in Versions, NEW s \in Content
    PROVE  IsPrefix(s, Full(v)) <=>
              /\ Len(s) <= Size[v]
              /\ \A i \in 1..Len(s) : s[i] = v
<1>0. /\ Full(v) \in Content /\ Len(Full(v)) = Size[v] /\ Size[v] \in Nat
      /\ \A i \in 1..Size[v] : Full(v)[i] = v
  BY FullIsContent
<1>1. Len(s) \in Nat
  BY LenProperties DEF Content
<1>2. CASE Len(s) > Size[v]
  BY <1>0, <1>1, <1>2 DEF IsPrefix
<1>3. CASE Len(s) <= Size[v]
  <2>1. /\ SubSeq(s, 1, Len(s)) \in Seq(Block)
        /\ Len(SubSeq(s, 1, Len(s))) = Len(s)
        /\ \A i \in 1..Len(s) : SubSeq(s, 1, Len(s))[i] = s[i]
    BY <1>1 DEF Content
  <2>2. /\ SubSeq(Full(v), 1, Len(s)) \in Seq(Block)
        /\ Len(SubSeq(Full(v), 1, Len(s))) = Len(s)
        /\ \A i \in 1..Len(s) : SubSeq(Full(v), 1, Len(s))[i] = v
    BY <1>0, <1>1, <1>3 DEF Content
  <2>3. SubSeq(s, 1, Len(s)) = SubSeq(Full(v), 1, Len(s))
           <=> \A i \in 1..Len(s) : s[i] = v
    BY <2>1, <2>2, SeqEqual
  <2> QED BY <1>0, <1>3, <2>3 DEF IsPrefix
<1> QED BY <1>0, <1>1, <1>2, <1>3

\* The empty file is a prefix, a prefix of full length is the file, and the
\* right block makes a longer prefix.
LEMMA PrefixFacts ==
    ASSUME NEW v \in Versions
    PROVE  /\ IsPrefix(<<>>, Full(v))
           /\ \A s \in Content : IsPrefix(s, Full(v)) => Len(s) <= Size[v]
           /\ \A s \in Content :
                 IsPrefix(s, Full(v)) /\ Len(s) = Size[v] => s = Full(v)
           /\ \A s \in Content :
                 IsPrefix(s, Full(v)) /\ Len(s) < Size[v]
                    => IsPrefix(Append(s, v), Full(v))
<1>0. /\ Full(v) \in Content /\ Len(Full(v)) = Size[v] /\ Size[v] \in Nat
      /\ \A i \in 1..Size[v] : Full(v)[i] = v
  BY FullIsContent
<1>1. <<>> \in Content /\ Len(<<>>) = 0
  BY DEF Content
<1>2. IsPrefix(<<>>, Full(v))
  BY <1>0, <1>1, PrefixOfFull
<1>3. ASSUME NEW s \in Content, IsPrefix(s, Full(v))
      PROVE  Len(s) <= Size[v]
  BY <1>3, PrefixOfFull
<1>4. ASSUME NEW s \in Content, IsPrefix(s, Full(v)), Len(s) = Size[v]
      PROVE  s = Full(v)
  <2>1. \A i \in 1..Len(s) : s[i] = v
    BY <1>4, PrefixOfFull
  <2> QED BY <1>0, <1>4, <2>1, SeqEqual DEF Content
<1>5. ASSUME NEW s \in Content, IsPrefix(s, Full(v)), Len(s) < Size[v]
      PROVE  IsPrefix(Append(s, v), Full(v))
  <2>1. Len(s) \in Nat /\ v \in Block
    BY DEF Content, Block
  <2>2. \A i \in 1..Len(s) : s[i] = v
    BY <1>5, PrefixOfFull
  <2>3. /\ Append(s, v) \in Content
        /\ Len(Append(s, v)) = Len(s) + 1
        /\ \A i \in 1..Len(s) : Append(s, v)[i] = s[i]
        /\ Append(s, v)[Len(s) + 1] = v
    BY <2>1, AppendProperties DEF Content
  <2>4. \A i \in 1..Len(Append(s, v)) : Append(s, v)[i] = v
    BY <2>1, <2>2, <2>3
  <2>5. Len(Append(s, v)) <= Size[v]
    BY <1>0, <1>5, <2>1, <2>3
  <2> QED BY <2>3, <2>4, <2>5, PrefixOfFull
<1> QED BY <1>2, <1>3, <1>4, <1>5

-----------------------------------------------------------------------------
(***************************************************************************)
(* The inductive invariant, file by file.                                  *)
(***************************************************************************)

MaybeContent == Content \cup {None}

Job ==
    [pc: {"out", "queued", "begin", "attempt", "request", "xet", "http",
          "check", "record", "done", "failed"},
     resume: BOOLEAN, retried: BOOLEAN, stalls: Nat,
     hashed: Content, fed: Content, fired: BOOLEAN, cut: BOOLEAN,
     harm: [bytes: 0..2, stalls: Nat, broke: BOOLEAN]]

\* Types, without the bounds on lengths and counts that TypeOK adds.
Shape ==
    /\ disk \in [Files -> MaybeContent]
    /\ partial \in [Files -> MaybeContent]
    /\ staged \in [Files -> MaybeContent]
    /\ rows \in [Files -> MaybeContent]
    /\ covered \in [Files -> SUBSET Commits]
    /\ command \in [result: {"none", "running", "ok", "failed", "killed"},
                    commit: Commits, selected: SUBSET Files,
                    workers: WorkerCounts]
    /\ task \in [Files -> Job]

\* What has been streamed is what has been hashed, and what the accumulator
\* has been given.
StreamHashed(f) ==
    /\ task[f].pc \in {"xet", "http", "check"} => partial[f] = task[f].hashed
    /\ task[f].pc \in {"request", "xet", "http"} =>
          task[f].fed = task[f].hashed

\* A file that was verified stays what it was until its row is written.
Verifying(f) ==
    task[f].pc \in {"record", "done"} =>
        disk[f] = Wanted(f) /\ task[f].hashed = Wanted(f)

RowHonest(f) == rows[f] # None => rows[f] = disk[f]

RowCovered(f) ==
    rows[f] # None \/ task[f].pc = "done" => covered[f] # {}

\* A file that was asked for and is not being worked on is there.
Settled(f) ==
    f \in command.selected /\ task[f].pc = "out" /\ command.result # "killed"
        => disk[f] = Wanted(f) /\ rows[f] = Wanted(f)

\* Wrong bytes are accounted for: once before the integrity retry, and once
\* more after it.
Accounted(f, content) ==
    ~RightSoFar(f, content) =>
        task[f].harm.bytes >= IF task[f].retried THEN 2 ELSE 1

Reckoned(f) ==
    /\ task[f].stalls <= StallRetries
    /\ task[f].pc # "failed" => task[f].harm.stalls = task[f].stalls
    /\ task[f].pc # "failed" /\ task[f].retried => task[f].harm.bytes >= 1
    /\ ~task[f].resume => task[f].retried
    /\ task[f].pc \in {"queued", "begin"} => ~task[f].retried
    /\ task[f].pc = "attempt" /\ partial[f] # None => Accounted(f, partial[f])
    /\ task[f].pc \in {"request", "xet", "http"} => Accounted(f, task[f].hashed)
    /\ task[f].pc = "check" /\ ~Matches(f, partial[f], task[f].hashed) =>
          task[f].harm.bytes >= IF task[f].retried THEN 2 ELSE 1
    /\ task[f].pc = "failed" /\ Expected(f) > 0 => FaultExplains(f)

FileInv(f) ==
    /\ StreamHashed(f) /\ Verifying(f) /\ RowHonest(f) /\ RowCovered(f)
    /\ Settled(f) /\ Reckoned(f)

Results ==
    /\ command.result = "ok" => \A f \in Files : task[f].pc = "out"
    /\ command.result = "failed" /\ command.workers > 1 =>
          \A f \in Files : task[f].pc \in {"out", "failed"}

IInv == Shape /\ Results /\ \A f \in Files : FileInv(f)

-----------------------------------------------------------------------------
(***************************************************************************)
(* Facts about the records a step builds, and about the file it is about.  *)
(***************************************************************************)

\* The fields of a new task.
LEMMA NewTaskFacts ==
    ASSUME NEW pc \in {"out", "queued", "begin", "attempt", "request", "xet",
                       "http", "check", "record", "done", "failed"}
    PROVE  /\ NewTask(pc) \in Job
           /\ NewTask(pc).pc = pc
           /\ NewTask(pc).resume = TRUE
           /\ NewTask(pc).retried = FALSE
           /\ NewTask(pc).stalls = 0
           /\ NewTask(pc).hashed = <<>>
           /\ NewTask(pc).harm = Unharmed
<1>1. <<>> \in Content
  BY DEF Content
<1> QED BY <1>1 DEF NewTask, Job, Unharmed

\* Wrong bytes change only the count of wrong bytes.
LEMMA DamagedFacts ==
    ASSUME NEW t \in Job
    PROVE  /\ Damaged(t) \in Job
           /\ Damaged(t).harm.bytes >= t.harm.bytes
           /\ Damaged(t).harm.bytes >= 1
           /\ t.harm.bytes >= 1 => Damaged(t).harm.bytes = 2
           /\ Damaged(t).harm.stalls = t.harm.stalls
           /\ Damaged(t).pc = t.pc
           /\ Damaged(t).resume = t.resume
           /\ Damaged(t).retried = t.retried
           /\ Damaged(t).stalls = t.stalls
           /\ Damaged(t).hashed = t.hashed
           /\ Damaged(t).fed = t.fed
BY DEF Damaged, Worse, Job

\* A broken connection is noted.
LEMMA BrokenFacts ==
    ASSUME NEW t \in Job
    PROVE  Broken(t) \in Job /\ Broken(t).harm.broke = TRUE
                /\ Broken(t).stalls = t.stalls
BY DEF Broken, Job

\* Another attempt keeps the counts (the loop of stream_file_to_path).
LEMMA RetryFacts ==
    ASSUME NEW t \in Job
    PROVE  /\ Retry(t) \in Job
           /\ Retry(t).pc = "attempt"
           /\ Retry(t).resume = t.resume
           /\ Retry(t).retried = t.retried
           /\ Retry(t).stalls = t.stalls
           /\ Retry(t).harm = t.harm
<1>. DEFINE r == NewTask("attempt")
<1>1. r \in Job /\ r.pc = "attempt"
  BY NewTaskFacts
<1>2. Retry(t) = [r EXCEPT !.resume = t.resume, !.stalls = t.stalls,
                           !.retried = t.retried, !.harm = t.harm]
  BY DEF Retry
<1> HIDE DEF r
<1> QED BY <1>1, <1>2 DEF Job

\* A failure keeps what the network did.
LEMMA FailureFacts ==
    ASSUME NEW t \in Job
    PROVE  /\ Failure(t) \in Job
           /\ Failure(t).pc = "failed"
           /\ Failure(t).resume = TRUE
           /\ Failure(t).retried = FALSE
           /\ Failure(t).stalls = 0
           /\ Failure(t).harm = t.harm
<1>. DEFINE r == NewTask("failed")
<1>1. /\ r \in Job /\ r.pc = "failed" /\ r.resume = TRUE
      /\ r.retried = FALSE /\ r.stalls = 0
  BY NewTaskFacts
<1>2. Failure(t) = [r EXCEPT !.harm = t.harm]
  BY DEF Failure
<1> HIDE DEF r
<1> QED BY <1>1, <1>2 DEF Job

\* What is expected of a file.
LEMMA WantedFacts ==
    ASSUME Shape, NEW f \in Files
    PROVE  /\ Version(f) \in Versions
           /\ Version(f) \in Block
           /\ Expected(f) \in Nat
           /\ Wanted(f) \in Content
           /\ Len(Wanted(f)) = Expected(f)
           /\ <<>> \in Content
           /\ Len(<<>>) = 0
           /\ RightSoFar(f, <<>>)
           /\ \A s \in Content :
                 /\ Len(s) \in Nat
                 /\ RightSoFar(f, s) => Len(s) <= Expected(f)
                 /\ RightSoFar(f, s) /\ Len(s) = Expected(f) => s = Wanted(f)
                 /\ RightSoFar(f, s) /\ Len(s) < Expected(f)
                       => RightSoFar(f, Append(s, Version(f)))
                 /\ \A b \in Block : /\ Append(s, b) \in Content
                                     /\ Len(Append(s, b)) = Len(s) + 1
<1>1. Version(f) \in Versions
  BY DownloadAssumption DEF DownloadAssumption, Shape, Version
<1>2. \A s \in Content :
         /\ Len(s) \in Nat
         /\ \A b \in Block : /\ Append(s, b) \in Content
                             /\ Len(Append(s, b)) = Len(s) + 1
  BY DEF Content
<1>3. <<>> \in Content /\ Len(<<>>) = 0
  BY DEF Content
<1>4. /\ Wanted(f) \in Content /\ Len(Wanted(f)) = Expected(f)
      /\ Expected(f) \in Nat
  BY <1>1, FullIsContent DEF Wanted, Expected
<1> QED
  BY <1>1, <1>2, <1>3, <1>4, PrefixFacts
  DEF RightSoFar, Wanted, Expected, Block

-----------------------------------------------------------------------------
(***************************************************************************)
(* A step for f leaves the other files alone.                              *)
(***************************************************************************)

Frame(f) ==
    /\ command' = command
    /\ \A g \in Files \ {f} :
          /\ disk'[g] = disk[g] /\ partial'[g] = partial[g]
          /\ rows'[g] = rows[g] /\ covered'[g] = covered[g]
          /\ task'[g] = task[g]

\* What holds of a file holds after the step of another.
LEMMA FrameKeeps ==
    ASSUME NEW f, Frame(f), NEW g \in Files \ {f}, FileInv(g)
    PROVE  FileInv(g)'
<1>1. /\ disk'[g] = disk[g] /\ partial'[g] = partial[g]
      /\ rows'[g] = rows[g] /\ covered'[g] = covered[g]
      /\ task'[g] = task[g] /\ command' = command
  BY DEF Frame
<1>2. StreamHashed(g)' /\ RowHonest(g)' /\ RowCovered(g)'
  BY <1>1 DEF FileInv, StreamHashed, RowHonest, RowCovered
<1>3. Verifying(g)' /\ Settled(g)'
  BY <1>1 DEF FileInv, Verifying, Settled, Wanted, Version
<1>4. Reckoned(g)'
  BY <1>1 DEF FileInv, Reckoned, Accounted, RightSoFar, Matches, FaultExplains,
              Wanted, Expected, Version
<1> QED BY <1>2, <1>3, <1>4 DEF FileInv

-----------------------------------------------------------------------------
(***************************************************************************)
(* One lemma per step.                                                     *)
(***************************************************************************)

PlacesRight(f) ==
    disk'[f] # disk[f] /\ disk'[f] # None => disk'[f] = Wanted(f)

KeepsPartial(f) ==
    /\ Running /\ partial[f] # None /\ RightSoFar(f, partial[f])
    /\ partial'[f] = None \/ Len(partial'[f]) < Len(partial[f])
    => \/ disk'[f] = Wanted(f)
       \/ task[f].retried \/ task'[f].retried
       \/ At(f, "request")

\* What a step for f does to f, and that it leaves the rest.
Steps(f) ==
    Shape' /\ Frame(f) /\ FileInv(f)' /\ PlacesRight(f) /\ KeepsPartial(f)

\* What is wanted changes with the command only.
LEMMA SameWanted ==
    ASSUME command' = command, NEW f
    PROVE  /\ Wanted(f)' = Wanted(f) /\ Expected(f)' = Expected(f)
           /\ Version(f)' = Version(f)
BY DEF Wanted, Expected, Version

\* The types, at one file.
LEMMA Typed ==
    ASSUME Shape, NEW f \in Files
    PROVE  /\ disk[f] \in MaybeContent /\ partial[f] \in MaybeContent
           /\ staged[f] \in MaybeContent /\ rows[f] \in MaybeContent
           /\ covered[f] \in SUBSET Commits /\ task[f] \in Job
BY DEF Shape

\* The attempts of a file that is new to the command.
LEMMA FreshReckoned ==
    ASSUME NEW f, task'[f].stalls = 0, task'[f].harm = Unharmed,
           task'[f].resume = TRUE, task'[f].retried = FALSE,
           task'[f].pc \in {"out", "queued", "begin", "record", "done"}
    PROVE  Reckoned(f)'
BY DownloadAssumption DEF DownloadAssumption, Reckoned, Unharmed

\* A thread takes a file.
LEMMA BeginStep ==
    ASSUME IInv, NEW f \in Files, Begin(f)
    PROVE  Steps(f)
<1>. DEFINE t == [task[f] EXCEPT !.pc = "begin"]
<1>1. /\ Shape /\ FileInv(f) /\ task[f] \in Job /\ task[f].pc = "queued"
      /\ UNCHANGED <<disk, partial, staged, rows, covered, command>>
      /\ task' = [task EXCEPT ![f] = t]
  BY DEF IInv, Shape, Begin, At, Becomes, files
<1>2. t \in Job /\ t.pc = "begin"
  BY <1>1 DEF Job
<1>3. Shape' /\ Frame(f) /\ task'[f] = t
  BY <1>1, <1>2 DEF Shape, Frame
<1>4. StreamHashed(f)' /\ Verifying(f)' /\ RowHonest(f)' /\ RowCovered(f)'
        /\ Settled(f)'
  BY <1>1, <1>2, <1>3
  DEF FileInv, StreamHashed, Verifying, RowHonest, RowCovered, Settled
<1>5. Reckoned(f)'
  BY <1>1, <1>2, <1>3 DEF FileInv, Reckoned, Job
<1>6. PlacesRight(f) /\ KeepsPartial(f)
  BY <1>1, WantedFacts DEF PlacesRight, KeepsPartial, Shape, MaybeContent
<1> QED BY <1>3, <1>4, <1>5, <1>6 DEF FileInv, Steps

\* Hashed: the task is to record what was hashed, which is the file.
LEMMA HashedFacts ==
    ASSUME Shape, NEW f \in Files, NEW s \in Content, Hashed(f, s)
    PROVE  /\ task' = [task EXCEPT ![f] = task'[f]] /\ task'[f] \in Job
           /\ task'[f].pc = "record" /\ task'[f].hashed = s
           /\ Reckoned(f)'
<1>. DEFINE r == NewTask("record")
            t == [r EXCEPT !.hashed = s, !.fed = s]
<1>1. /\ t \in Job /\ t.pc = "record" /\ t.hashed = s /\ t.stalls = 0
      /\ t.harm = Unharmed /\ t.resume = TRUE /\ t.retried = FALSE
  <2>1. /\ r \in Job /\ r.pc = "record" /\ r.stalls = 0 /\ r.harm = Unharmed
        /\ r.resume = TRUE /\ r.retried = FALSE
    BY NewTaskFacts
  <2> HIDE DEF r
  <2> QED BY <2>1 DEF Job
<1>2. task' = [task EXCEPT ![f] = t] /\ task'[f] = t
  BY DEF Hashed, Becomes, Shape
<1>3. Reckoned(f)'
  BY <1>1, <1>2, FreshReckoned
<1> QED BY <1>1, <1>2, <1>3

\* A verified file: found, promoted, or placed.
LEMMA VerifiedStep ==
    ASSUME IInv, NEW f \in Files, command' = command, Hashed(f, Wanted(f)),
           \/ UNCHANGED <<disk, rows, covered>> /\ disk[f] = Wanted(f)
           \/ Placed(f, Wanted(f)),
           partial' = partial \/ Put(partial, f, None),
           partial' = partial \/ disk'[f] = Wanted(f),
           staged' = staged \/ Put(staged, f, None)
    PROVE  Steps(f)
<1>1. /\ Shape /\ FileInv(f) /\ disk[f] \in MaybeContent
      /\ partial[f] \in MaybeContent /\ Wanted(f) \in Content
      /\ None \in MaybeContent
  BY WantedFacts DEF IInv, Shape, MaybeContent
<1>2. /\ task' = [task EXCEPT ![f] = task'[f]] /\ task'[f] \in Job
      /\ task'[f].pc = "record" /\ task'[f].hashed = Wanted(f)
      /\ Reckoned(f)'
  BY <1>1, HashedFacts
<1>3. disk'[f] = Wanted(f)
  BY <1>1 DEF Placed, Put, Shape
<1>4. Shape' /\ Frame(f)
  <2>1. CASE UNCHANGED <<disk, rows, covered>>
    BY <1>1, <1>2, <2>1 DEF Shape, Frame, Put
  <2>2. CASE Placed(f, Wanted(f))
    BY <1>1, <1>2, <2>2 DEF Shape, Frame, Put, Placed, MaybeContent
  <2> QED BY <2>1, <2>2
<1>5. rows'[f] # None => rows'[f] = rows[f] /\ disk'[f] = disk[f]
                           /\ covered'[f] = covered[f]
  BY <1>1 DEF Placed, Put, Shape
<1>6. StreamHashed(f)' /\ Verifying(f)' /\ Settled(f)'
  BY <1>2, <1>3, SameWanted DEF StreamHashed, Verifying, Settled
<1>7. RowHonest(f)' /\ RowCovered(f)'
  BY <1>1, <1>2, <1>5 DEF FileInv, RowHonest, RowCovered
<1>8. PlacesRight(f)
  BY <1>3 DEF PlacesRight
<1>9. KeepsPartial(f)
  BY <1>1, <1>3, WantedFacts DEF KeepsPartial, MaybeContent
<1> QED BY <1>2, <1>4, <1>6, <1>7, <1>8, <1>9 DEF FileInv, Steps

\* The file on disk is the right one.
LEMMA KeepExistingStep ==
    ASSUME IInv, NEW f \in Files, KeepExisting(f)
    PROVE  Steps(f)
<1>1. disk[f] = Wanted(f)
  BY DEF KeepExisting, Matches
<1>2. /\ Hashed(f, Wanted(f))
      /\ UNCHANGED <<disk, partial, staged, rows, covered, command>>
  BY <1>1 DEF KeepExisting, files, Hashed, Becomes
<1> QED BY <1>1, <1>2, VerifiedStep

\* The staged file is moved into place.
LEMMA PromoteStagedStep ==
    ASSUME IInv, NEW f \in Files, PromoteStaged(f)
    PROVE  Steps(f)
<1>1. staged[f] = Wanted(f)
  BY DEF PromoteStaged, Matches
<1>2. /\ Hashed(f, Wanted(f)) /\ Placed(f, Wanted(f)) /\ Put(staged, f, None)
      /\ UNCHANGED <<partial, command>>
  BY <1>1 DEF PromoteStaged, Hashed, Becomes, Placed, Put
<1> QED BY <1>2, VerifiedStep

\* What an attempt resumes is the partial file, or nothing.
LEMMA PrefixIsPartial ==
    ASSUME Shape, NEW f \in Files
    PROVE  /\ Prefix(f) \in Content
           /\ Resumable(f) # None =>
                 /\ partial[f] # None /\ Resumable(f) = partial[f]
                 /\ Prefix(f) = partial[f] /\ task[f].resume
           /\ Resumable(f) = None => Prefix(f) = <<>>
           /\ partial[f] # None /\ task[f].resume /\ RightSoFar(f, partial[f])
                 => Resumable(f) = partial[f]
           /\ Resumable(f) \in MaybeContent
<1>1. partial[f] \in MaybeContent /\ task[f] \in Job /\ <<>> \in Content
  BY DEF Shape, Content
<1>2. partial[f] # None /\ RightSoFar(f, partial[f]) =>
        ~(Len(partial[f]) > Expected(f))
  BY <1>1, WantedFacts DEF MaybeContent
<1> QED BY <1>1, <1>2 DEF Prefix, Resumable, MaybeContent

\* A complete partial is verified and moved into place.
LEMMA PlaceCompleteStep ==
    ASSUME IInv, NEW f \in Files, PlaceComplete(f)
    PROVE  Steps(f)
<1>1. Prefix(f) = Wanted(f)
  BY DEF PlaceComplete, Matches
<1>2. /\ Hashed(f, Wanted(f)) /\ Placed(f, Wanted(f)) /\ Put(partial, f, None)
      /\ UNCHANGED <<staged, command>>
  BY <1>1 DEF PlaceComplete, Hashed, Becomes, Placed, Put
<1>3. disk'[f] = Wanted(f)
  BY <1>2 DEF Placed, Put, IInv, Shape
<1> QED BY <1>2, <1>3, VerifiedStep

\* What was streamed is verified and moved into place.
LEMMA PlaceStep ==
    ASSUME IInv, NEW f \in Files, Place(f)
    PROVE  Steps(f)
<1>1. FileInv(f) /\ task[f].pc = "check"
  BY DEF IInv, Place, At
<1>2. task[f].hashed = Wanted(f) /\ partial[f] = Wanted(f)
  BY <1>1 DEF FileInv, StreamHashed, Place, Matches
<1>3. /\ Hashed(f, Wanted(f)) /\ Placed(f, Wanted(f))
      /\ Put(partial, f, None) /\ UNCHANGED <<staged, command>>
  BY <1>2 DEF Place, Placed, Hashed, Put, Becomes
<1>4. disk'[f] = Wanted(f)
  BY <1>3 DEF Placed, Put, IInv, Shape
<1> QED BY <1>3, <1>4, VerifiedStep

\* A step after which the file is still being fetched, or has failed.
LEMMA OngoingStep ==
    ASSUME IInv, NEW f \in Files, command' = command,
           \/ UNCHANGED <<disk, rows, covered>>
           \/ Placed(f, None),
           partial' = [partial EXCEPT ![f] = partial'[f]],
           partial'[f] \in MaybeContent,
           staged' = staged \/ Put(staged, f, None),
           task' = [task EXCEPT ![f] = task'[f]], task'[f] \in Job,
           task'[f].pc \notin {"out", "record", "done"},
           StreamHashed(f)', Reckoned(f)', KeepsPartial(f)
    PROVE  Steps(f)
<1>1. Shape /\ FileInv(f) /\ None \in MaybeContent
  BY DEF IInv, MaybeContent
<1>2. Shape' /\ Frame(f)
  <2>b. CASE UNCHANGED <<disk, rows, covered>>
    BY <1>1, <2>b DEF Shape, Frame, Put
  <2>c. CASE Placed(f, None)
    BY <1>1, <2>c DEF Shape, Frame, Put, Placed
  <2> QED BY <2>b, <2>c
<1>3. \/ /\ rows'[f] = rows[f] /\ disk'[f] = disk[f]
         /\ covered'[f] = covered[f]
      \/ rows'[f] = None /\ disk'[f] = None
  BY <1>1 DEF Placed, Put, Shape
<1>4. Verifying(f)' /\ Settled(f)'
  BY DEF Verifying, Settled
<1>5. RowHonest(f)' /\ RowCovered(f)'
  BY <1>1, <1>3 DEF FileInv, RowHonest, RowCovered
<1>6. PlacesRight(f)
  BY <1>3 DEF PlacesRight
<1> QED BY <1>2, <1>4, <1>5, <1>6 DEF FileInv, Steps

\* A partial that stays, or grows, is kept.
LEMMA PartialStays ==
    ASSUME Shape, NEW f \in Files, partial'[f] = partial[f]
    PROVE  KeepsPartial(f)
BY WantedFacts DEF KeepsPartial, Shape, MaybeContent

\* The file fails, for a reason.
LEMMA FailingStep ==
    ASSUME IInv, NEW f \in Files, command' = command, NEW t \in Job,
           Becomes(f, Failure(t)),
           \/ Expected(f) = 0 \/ t.harm.broke \/ t.harm.bytes = 2
           \/ t.harm.stalls > StallRetries,
           UNCHANGED <<disk, rows, covered, staged>>,
           partial' = [partial EXCEPT ![f] = partial'[f]],
           partial'[f] \in MaybeContent, KeepsPartial(f)
    PROVE  Steps(f)
<1>1. /\ task' = [task EXCEPT ![f] = task'[f]] /\ task'[f] = Failure(t)
      /\ task'[f] \in Job /\ task'[f].pc = "failed" /\ task'[f].resume = TRUE
      /\ task'[f].retried = FALSE /\ task'[f].stalls = 0
      /\ task'[f].harm = t.harm
  BY FailureFacts DEF Becomes, IInv, Shape
<1>2. StreamHashed(f)'
  BY <1>1 DEF StreamHashed
<1>3. Reckoned(f)'
  BY <1>1, SameWanted, DownloadAssumption
  DEF Reckoned, FaultExplains, DownloadAssumption
<1> QED BY <1>1, <1>2, <1>3, OngoingStep

\* Another attempt: the counts are right and the partial is accounted for.
LEMMA RetryingStep ==
    ASSUME IInv, NEW f \in Files, command' = command,
           \/ UNCHANGED <<disk, rows, covered>>
           \/ Placed(f, None),
           task' = [task EXCEPT ![f] = task'[f]], task'[f] \in Job,
           task'[f].pc = "attempt",
           task'[f].stalls <= StallRetries,
           task'[f].harm.stalls = task'[f].stalls,
           task'[f].retried => task'[f].harm.bytes >= 1,
           task'[f].resume \/ task'[f].retried,
           staged' = staged \/ Put(staged, f, None),
           partial' = [partial EXCEPT ![f] = partial'[f]],
           partial'[f] \in MaybeContent, KeepsPartial(f),
           partial'[f] # None /\ ~RightSoFar(f, partial'[f]) =>
              task'[f].harm.bytes >= IF task'[f].retried THEN 2 ELSE 1
    PROVE  Steps(f)
<1>1. StreamHashed(f)'
  BY DEF StreamHashed
<1>2. partial'[f] # None => Accounted(f, partial[f])'
  BY SameWanted DEF Accounted, RightSoFar
<1>3. Reckoned(f)'
  BY <1>2 DEF Reckoned
<1> QED BY <1>1, <1>3, OngoingStep

\* A stall, which is tried again or is one too many.
LEMMA StallStep ==
    ASSUME IInv, NEW f \in Files, command' = command, staged' = staged,
           At(f, "xet") \/ At(f, "http"), Stall(f)
    PROVE  Steps(f)
<1>. DEFINE t == [task[f] EXCEPT !.harm.stalls = @ + 1]
<1>1. /\ Shape /\ FileInv(f) /\ task[f] \in Job
      /\ task[f].pc \in {"xet", "http"}
      /\ UNCHANGED <<disk, partial, rows, covered>>
  BY DEF IInv, Shape, At, Stall
<1>2. /\ t \in Job /\ t.harm.stalls = task[f].harm.stalls + 1
      /\ t.harm.bytes = task[f].harm.bytes
      /\ t.stalls = task[f].stalls /\ t.retried = task[f].retried
  BY <1>1 DEF Job
<1>3. /\ task[f].stalls <= StallRetries /\ StallRetries \in Nat
      /\ task[f].harm.stalls = task[f].stalls /\ task[f].stalls \in Nat
      /\ task[f].retried => task[f].harm.bytes >= 1
      /\ partial[f] = task[f].hashed /\ Accounted(f, partial[f])
  BY <1>1, DownloadAssumption
  DEF DownloadAssumption, FileInv, Reckoned, StreamHashed, Job
<1>4. /\ partial' = [partial EXCEPT ![f] = partial'[f]]
      /\ partial'[f] = partial[f]
      /\ partial'[f] \in MaybeContent /\ KeepsPartial(f)
  BY <1>1, PartialStays DEF Shape
<1>5. CASE t.stalls = StallRetries
  <2>b. Becomes(f, Failure(t))
    BY <1>5 DEF Stall
  <2>c. t.harm.stalls > StallRetries
    BY <1>2, <1>3, <1>5
  <2> QED BY <1>1, <1>2, <1>4, <2>b, <2>c, FailingStep
<1>6. CASE t.stalls # StallRetries
  <2>. DEFINE r == Retry(t)
              u == [r EXCEPT !.stalls = @ + 1, !.resume = TRUE]
  <2>1. task' = [task EXCEPT ![f] = u]
    BY <1>6 DEF Stall, Becomes
  <2>2. /\ r \in Job /\ r.pc = "attempt" /\ r.stalls = task[f].stalls
        /\ r.retried = task[f].retried
        /\ r.harm.stalls = task[f].harm.stalls + 1
        /\ r.harm.bytes = task[f].harm.bytes
    BY <1>2, RetryFacts
  <2> HIDE DEF r
  <2>3. /\ u \in Job /\ u.pc = "attempt" /\ u.stalls = task[f].stalls + 1
        /\ u.harm.stalls = u.stalls /\ u.resume = TRUE
        /\ u.retried = task[f].retried /\ u.harm.bytes = task[f].harm.bytes
    BY <1>3, <2>2 DEF Job
  <2>4. task'[f] = u
    BY <2>1, <1>1 DEF Shape
  <2>5. u.stalls <= StallRetries
    BY <1>2, <1>3, <1>6, <2>3
  <2>6. partial'[f] # None /\ ~RightSoFar(f, partial'[f]) =>
           u.harm.bytes >= IF u.retried THEN 2 ELSE 1
    BY <1>3, <1>4, <2>3 DEF Accounted
  <2>7. u.retried => u.harm.bytes >= 1
    BY <1>3, <2>3
  <2> HIDE DEF u
  <2>8. task' = [task EXCEPT ![f] = task'[f]]
    BY <2>1, <2>4
  <2> QED BY <1>1, <1>4, <2>3, <2>4, <2>5, <2>6, <2>7, <2>8, RetryingStep
<1> QED BY <1>5, <1>6

\* An integrity error, of a task whose wrong bytes have been counted.
Counted(t) == t.harm.bytes >= IF t.retried THEN 2 ELSE 1

IntegrityError(f) ==
    \E t \in Job :
       /\ t.retried = task[f].retried /\ t.stalls = task[f].stalls
       /\ t.harm.stalls = t.stalls /\ Counted(t)
       /\ IF t.retried
          THEN Becomes(f, Failure(t)) /\ UNCHANGED <<disk, rows, covered>>
          ELSE /\ Becomes(f, [Retry(t) EXCEPT !.retried = TRUE, !.resume = FALSE])
               /\ Placed(f, None) /\ partial'[f] = None

\* The first one starts over, the second one fails the file.
LEMMA IntegrityStep ==
    ASSUME IInv, NEW f \in Files, IntegrityError(f),
           command' = command, staged' = staged,
           partial' = [partial EXCEPT ![f] = partial'[f]],
           partial'[f] = partial[f] \/ partial'[f] = None
    PROVE  Steps(f)
<1>. PICK t \in Job :
        /\ t.retried = task[f].retried /\ t.stalls = task[f].stalls
        /\ t.harm.stalls = t.stalls /\ Counted(t)
        /\ IF t.retried
           THEN Becomes(f, Failure(t)) /\ UNCHANGED <<disk, rows, covered>>
           ELSE /\ Becomes(f, [Retry(t) EXCEPT !.retried = TRUE, !.resume = FALSE])
                /\ Placed(f, None) /\ partial'[f] = None
  BY DEF IntegrityError
<1>. t.harm.bytes >= IF t.retried THEN 2 ELSE 1
  BY DEF Counted
<1>1. /\ Shape /\ FileInv(f) /\ None \in MaybeContent
      /\ partial[f] \in MaybeContent
  BY DEF IInv, Shape, MaybeContent
<1>2. t.stalls <= StallRetries
  BY <1>1 DEF FileInv, Reckoned
<1>3. CASE t.retried
  <2>1. Becomes(f, Failure(t)) /\ UNCHANGED <<disk, rows, covered>>
    BY <1>3
  <2>2. t.harm.bytes = 2
    BY <1>3 DEF Job
  <2>3. KeepsPartial(f)
    BY <1>3 DEF KeepsPartial
  <2> QED BY <1>1, <2>1, <2>2, <2>3, FailingStep
<1>4. CASE ~t.retried
  <2>. DEFINE r == Retry(t)
              u == [r EXCEPT !.retried = TRUE, !.resume = FALSE]
  <2>1. /\ task' = [task EXCEPT ![f] = u] /\ Placed(f, None)
        /\ partial'[f] = None
    BY <1>4 DEF Becomes
  <2>2. /\ r \in Job /\ r.pc = "attempt" /\ r.stalls = t.stalls
        /\ r.harm = t.harm
    BY RetryFacts
  <2> HIDE DEF r
  <2>3. /\ u \in Job /\ u.pc = "attempt" /\ u.stalls = t.stalls
        /\ u.harm = t.harm /\ u.retried = TRUE
    <3>1. /\ u.pc = r.pc /\ u.stalls = r.stalls /\ u.harm = r.harm
          /\ u.retried = TRUE
      BY <2>2 DEF Job
    <3>2. u \in Job
      BY <2>2 DEF Job
    <3> QED BY <2>2, <3>1, <3>2
  <2>4. task'[f] = u
    BY <1>1, <2>1 DEF Shape
  <2>5. KeepsPartial(f) /\ (u.retried => u.harm.bytes >= 1)
    BY <1>4, <2>1, <2>3, <2>4 DEF KeepsPartial
  <2> HIDE DEF u
  <2>6. task' = [task EXCEPT ![f] = task'[f]]
    BY <2>1, <2>4
  <2>7. /\ task'[f] \in Job /\ task'[f].pc = "attempt"
        /\ task'[f].stalls <= StallRetries
        /\ task'[f].harm.stalls = task'[f].stalls
        /\ task'[f].retried => task'[f].harm.bytes >= 1
        /\ task'[f].resume \/ task'[f].retried
    BY <1>2, <2>3, <2>4, <2>5
  <2> QED BY <1>1, <2>1, <2>5, <2>6, <2>7, RetryingStep
<1> QED BY <1>3, <1>4

\* An error, which leaves the partial as it is or longer.
LEMMA BreakStep ==
    ASSUME IInv, NEW f \in Files,
           UNCHANGED <<disk, rows, covered, staged, command>>,
           Becomes(f, Failure(Broken(task[f]))),
           partial' = [partial EXCEPT ![f] = partial'[f]],
           partial'[f] \in MaybeContent,
           \/ ~task[f].resume \/ partial'[f] = partial[f]
           \/ partial'[f] # None /\ Len(partial'[f]) > Len(partial[f])
    PROVE  Steps(f)
<1>1. Shape /\ FileInv(f) /\ task[f] \in Job /\ partial[f] \in MaybeContent
  BY DEF IInv, Shape
<1>2. KeepsPartial(f)
  <2>1. ~task[f].resume => task[f].retried
    BY <1>1 DEF FileInv, Reckoned
  <2>2. \A x \in Content : Len(x) \in Nat
    BY DEF Content
  <2>3. \A m, n \in Nat : m > n => ~(m < n)
    OBVIOUS
  <2> QED BY <1>1, <2>1, <2>2, <2>3 DEF KeepsPartial, MaybeContent
<1>3. Broken(task[f]) \in Job /\ Broken(task[f]).harm.broke
  BY <1>1, BrokenFacts
<1> QED BY <1>2, <1>3, FailingStep

\* Wrong bytes are counted once more.
LEMMA DamageCounts ==
    ASSUME IInv, NEW f \in Files,
           task[f].pc \in {"attempt", "request", "xet", "http", "check"}
    PROVE  Damaged(task[f]).harm.bytes >= IF task[f].retried THEN 2 ELSE 1
<1>1. task[f] \in Job /\ (task[f].retried => task[f].harm.bytes >= 1)
  BY DEF IInv, Shape, FileInv, Reckoned
<1> QED BY <1>1, DamagedFacts

\* A complete partial is the wrong file.
LEMMA RejectCompleteStep ==
    ASSUME IInv, NEW f \in Files, RejectComplete(f)
    PROVE  Steps(f)
<1>1. /\ Shape /\ FileInv(f) /\ task[f] \in Job /\ task[f].pc = "attempt"
      /\ task[f].harm.stalls = task[f].stalls
      /\ Integrity(f, task[f]) /\ UNCHANGED <<staged, command>>
  BY DEF IInv, Shape, FileInv, Reckoned, RejectComplete, At
<1>2. /\ partial[f] # None /\ partial[f] \in Content
      /\ Len(partial[f]) = Expected(f)
      /\ ~Matches(f, partial[f], partial[f])
  BY <1>1, PrefixIsPartial DEF RejectComplete, Complete
<1>3. ~RightSoFar(f, partial[f])
  BY <1>1, <1>2, WantedFacts DEF Matches
<1>4. task[f].harm.bytes >= IF task[f].retried THEN 2 ELSE 1
  BY <1>1, <1>2, <1>3 DEF FileInv, Reckoned, Accounted
<1>5. /\ partial' = [partial EXCEPT ![f] = partial'[f]]
      /\ partial'[f] = partial[f] \/ partial'[f] = None
  BY <1>1 DEF Integrity, Put, Shape
<1>6. IntegrityError(f)
  <2>1. task[f] \in Job /\ Counted(task[f])
    BY <1>1, <1>4 DEF Counted
  <2> QED BY <1>1, <1>4, <2>1 DEF IntegrityError, Integrity, Placed, Put, Shape
<1> QED BY <1>1, <1>5, <1>6, IntegrityStep

\* The empty file that is not there.
LEMMA MissCompleteStep ==
    ASSUME IInv, NEW f \in Files, MissComplete(f)
    PROVE  Steps(f)
<1>1. /\ Shape /\ FileInv(f) /\ task[f] \in Job /\ None \in MaybeContent
      /\ partial[f] \in MaybeContent
      /\ Becomes(f, Failure(task[f])) /\ Put(partial, f, None)
      /\ UNCHANGED <<disk, rows, covered, staged, command>>
  BY DEF IInv, Shape, MaybeContent, MissComplete
<1>2. Expected(f) = 0
  BY <1>1, PrefixIsPartial, WantedFacts DEF MissComplete, Complete
<1>3. partial' = [partial EXCEPT ![f] = partial'[f]] /\ partial'[f] = None
  BY <1>1 DEF Put, Shape
<1>4. KeepsPartial(f)
  <2>1. ~task[f].resume => task[f].retried
    BY <1>1 DEF FileInv, Reckoned
  <2> QED BY <1>1, <2>1, PrefixIsPartial DEF KeepsPartial, MissComplete
<1> QED BY <1>1, <1>2, <1>3, <1>4, FailingStep

\* The Hub names another commit or size.
LEMMA MetadataMismatchStep ==
    ASSUME IInv, NEW f \in Files, MetadataMismatch(f)
    PROVE  Steps(f)
<1>1. /\ Shape /\ task[f] \in Job /\ task[f].pc = "request"
      /\ task[f].harm.stalls = task[f].stalls
      /\ Integrity(f, Damaged(task[f])) /\ UNCHANGED <<staged, command>>
  BY DEF IInv, Shape, FileInv, Reckoned, MetadataMismatch, At
<1>2. Damaged(task[f]).harm.bytes >= IF task[f].retried THEN 2 ELSE 1
  BY <1>1, DamageCounts
<1>3. /\ partial' = [partial EXCEPT ![f] = partial'[f]]
      /\ partial'[f] = partial[f] \/ partial'[f] = None
  BY <1>1 DEF Integrity, Put, Shape
<1>4. IntegrityError(f)
  <2>1. Damaged(task[f]) \in Job /\ Counted(Damaged(task[f]))
    BY <1>1, <1>2, DamagedFacts DEF Counted
  <2> QED
    BY <1>1, <1>2, DamagedFacts, <2>1
    DEF IntegrityError, Integrity, Placed, Put, Shape
<1> QED BY <1>1, <1>3, <1>4, IntegrityStep

\* What was streamed is the wrong file.
LEMMA RejectStep ==
    ASSUME IInv, NEW f \in Files, Reject(f)
    PROVE  Steps(f)
<1>1. /\ Shape /\ task[f] \in Job /\ task[f].pc = "check"
      /\ task[f].harm.stalls = task[f].stalls
      /\ Integrity(f, task[f]) /\ UNCHANGED <<staged, command>>
      /\ task[f].harm.bytes >= IF task[f].retried THEN 2 ELSE 1
  BY DEF IInv, Shape, FileInv, Reckoned, Reject, At
<1>2. /\ partial' = [partial EXCEPT ![f] = partial'[f]]
      /\ partial'[f] = partial[f] \/ partial'[f] = None
  BY <1>1 DEF Integrity, Put, Shape
<1>3. IntegrityError(f)
  <2>1. task[f] \in Job /\ Counted(task[f])
    BY <1>1 DEF Counted
  <2> QED BY <1>1, <2>1 DEF IntegrityError, Integrity, Placed, Put, Shape
<1> QED BY <1>1, <1>2, <1>3, IntegrityStep

\* More bytes than the file has.
LEMMA OverrunStep ==
    ASSUME IInv, NEW f \in Files, Overrun(f)
    PROVE  Steps(f)
<1>. DEFINE s == Append(partial[f], Corrupt)
<1>1. /\ Shape /\ FileInv(f) /\ task[f] \in Job /\ task[f].pc = "http"
      /\ Break(f, s) /\ UNCHANGED <<staged, command>>
  BY DEF IInv, Shape, Overrun, At
<1>2. partial[f] \in Content /\ Corrupt \in Block
  BY <1>1 DEF FileInv, StreamHashed, Job, Block
<1>3. /\ s \in Content /\ Len(s) = Len(partial[f]) + 1
      /\ Len(partial[f]) \in Nat
  BY <1>1, <1>2, WantedFacts
<1>4. s \in MaybeContent /\ s # None /\ Len(s) > Len(partial[f])
  <2> HIDE DEF s
  <2> QED BY <1>3, NoneIsNoContent DEF MaybeContent
<1> HIDE DEF s
<1>5. /\ partial' = [partial EXCEPT ![f] = partial'[f]]
      /\ partial'[f] = IF task[f].resume THEN s ELSE None
      /\ partial'[f] \in MaybeContent
      /\ Becomes(f, Failure(Broken(task[f])))
      /\ UNCHANGED <<disk, rows, covered>>
  BY <1>1, <1>4 DEF Break, Put, Shape, MaybeContent
<1> QED BY <1>1, <1>4, <1>5, BreakStep

\* The error in which the partial stays.
LEMMA LeftStep ==
    ASSUME IInv, NEW f \in Files, Break(f, partial[f]),
           UNCHANGED <<staged, command>>
    PROVE  Steps(f)
<1>1. Shape /\ partial[f] \in MaybeContent
  BY DEF IInv, Shape
<1>2. /\ partial' = [partial EXCEPT ![f] = partial'[f]]
      /\ partial'[f] = IF task[f].resume THEN partial[f] ELSE None
      /\ partial'[f] \in MaybeContent
      /\ Becomes(f, Failure(Broken(task[f])))
      /\ UNCHANGED <<disk, rows, covered>>
  BY <1>1 DEF Break, Put, Shape, MaybeContent
<1> QED BY <1>2, BreakStep

\* The connection fails.
LEMMA DisconnectStep ==
    ASSUME IInv, NEW f \in Files, Disconnect(f)
    PROVE  Steps(f)
BY LeftStep DEF Disconnect

\* The HTTP read times out.
LEMMA HttpTimeoutStep ==
    ASSUME IInv, NEW f \in Files, HttpTimeout(f)
    PROVE  Steps(f)
BY StallStep DEF HttpTimeout

\* An aborted stream ends, as a stall or as an error.
LEMMA StreamAbortedStep ==
    ASSUME IInv, NEW f \in Files, StreamAborted(f)
    PROVE  Steps(f)
<1>1. /\ partial[f] \in MaybeContent /\ At(f, "xet")
      /\ UNCHANGED <<staged, command>>
  BY DEF IInv, Shape, StreamAborted
<1>2. CASE Stall(f)
  BY <1>1, <1>2, StallStep
<1>3. CASE Break(f, partial[f])
  BY <1>1, <1>3, LeftStep
<1> QED BY <1>2, <1>3 DEF StreamAborted

\* The file on disk is the wrong one and is removed.
LEMMA DropExistingStep ==
    ASSUME IInv, NEW f \in Files, DropExisting(f)
    PROVE  Steps(f)
<1>1. /\ Shape /\ FileInv(f) /\ task[f] \in Job /\ task[f].pc = "begin"
      /\ Placed(f, None) /\ UNCHANGED <<partial, staged, task, command>>
      /\ partial[f] \in MaybeContent
  BY DEF IInv, Shape, DropExisting, At
<1>2. StreamHashed(f)' /\ Reckoned(f)'
  BY <1>1 DEF FileInv, StreamHashed, Reckoned
<1>3. task = [task EXCEPT ![f] = task[f]] /\ partial = [partial EXCEPT ![f] = partial[f]]
  BY <1>1 DEF Shape
<1> QED BY <1>1, <1>2, <1>3, PartialStays, OngoingStep

\* The file has to be fetched.
LEMMA FetchStep ==
    ASSUME IInv, NEW f \in Files, Fetch(f)
    PROVE  Steps(f)
<1>. DEFINE t == [task[f] EXCEPT !.pc = "attempt"]
            foreign == partial[f] # None /\ ~RightSoFar(f, partial[f])
            u == IF foreign THEN Damaged(t) ELSE t
<1>1. /\ Shape /\ FileInv(f) /\ task[f] \in Job /\ task[f].pc = "begin"
      /\ UNCHANGED <<disk, rows, covered, partial, command>>
      /\ staged' = staged \/ Put(staged, f, None)
      /\ Becomes(f, u)
      /\ partial[f] \in MaybeContent
  BY DEF IInv, Shape, Fetch, At, Put
<1>2. /\ task[f].stalls <= StallRetries
      /\ task[f].harm.stalls = task[f].stalls
      /\ ~task[f].retried /\ task[f].resume
  BY <1>1 DEF FileInv, Reckoned
<1>3. /\ t \in Job /\ t.pc = "attempt" /\ t.stalls = task[f].stalls
      /\ t.harm = task[f].harm /\ t.retried = task[f].retried
      /\ t.resume = task[f].resume
  BY <1>1 DEF Job
<1> HIDE DEF t
<1>4. /\ u \in Job /\ u.pc = "attempt" /\ u.stalls = task[f].stalls
      /\ u.harm.stalls = task[f].harm.stalls /\ u.retried = task[f].retried
      /\ u.resume = task[f].resume /\ (foreign => u.harm.bytes >= 1)
  BY <1>3, DamagedFacts
<1> HIDE DEF u
<1>5. task' = [task EXCEPT ![f] = task'[f]] /\ task'[f] = u
  BY <1>1 DEF Becomes, Shape
<1>6. partial' = [partial EXCEPT ![f] = partial'[f]] /\ partial'[f] = partial[f]
  BY <1>1 DEF Shape
<1> QED BY <1>1, <1>2, <1>4, <1>5, <1>6, PartialStays, RetryingStep

\* An attempt takes over the partial file, or starts afresh.
LEMMA ResumeStep ==
    ASSUME IInv, NEW f \in Files, Resume(f)
    PROVE  Steps(f)
<1>. DEFINE t == [task[f] EXCEPT !.pc = "request", !.hashed = Prefix(f),
                                 !.fed = Prefix(f)]
<1>1. /\ Shape /\ FileInv(f) /\ task[f] \in Job /\ task[f].pc = "attempt"
      /\ UNCHANGED <<disk, rows, covered, staged, command>>
      /\ Becomes(f, t) /\ Put(partial, f, Resumable(f))
      /\ Prefix(f) \in Content /\ Resumable(f) \in MaybeContent
  BY PrefixIsPartial DEF IInv, Shape, Resume, At
<1>2. /\ t \in Job /\ t.pc = "request" /\ t.stalls = task[f].stalls
      /\ t.harm = task[f].harm /\ t.retried = task[f].retried
      /\ t.resume = task[f].resume /\ t.hashed = Prefix(f) /\ t.fed = Prefix(f)
  BY <1>1 DEF Job
<1> HIDE DEF t
<1>3. /\ task' = [task EXCEPT ![f] = task'[f]] /\ task'[f] = t
      /\ partial' = [partial EXCEPT ![f] = partial'[f]]
      /\ partial'[f] = Resumable(f)
  BY <1>1 DEF Becomes, Put, Shape
<1>4. Accounted(f, Prefix(f))
  BY <1>1, PrefixIsPartial, WantedFacts DEF FileInv, Reckoned, Accounted
<1>5. StreamHashed(f)'
  BY <1>2, <1>3 DEF StreamHashed
<1>6. Accounted(f, task[f].hashed)'
  BY <1>2, <1>3, <1>1, <1>4, SameWanted DEF Accounted, RightSoFar
<1>7. Reckoned(f)'
  BY <1>1, <1>2, <1>3, <1>6 DEF FileInv, Reckoned
<1>8. KeepsPartial(f)
  <2>1. ~task[f].resume => task[f].retried
    BY <1>1 DEF FileInv, Reckoned
  <2>2. task[f].resume /\ partial[f] # None /\ RightSoFar(f, partial[f]) =>
           partial'[f] = partial[f]
    BY <1>1, <1>3, PrefixIsPartial
  <2>3. partial[f] # None => ~(Len(partial[f]) < Len(partial[f]))
    BY <1>1, WantedFacts DEF Shape, MaybeContent
  <2> QED BY <2>1, <2>2, <2>3 DEF KeepsPartial
<1> QED BY <1>1, <1>2, <1>3, <1>5, <1>7, <1>8, OngoingStep

\* The request is answered, from where it asked or from the start.
LEMMA OpenStep ==
    ASSUME IInv, NEW f \in Files, Open(f)
    PROVE  Steps(f)
<1>1. /\ Shape /\ FileInv(f) /\ task[f] \in Job /\ task[f].pc = "request"
      /\ UNCHANGED <<disk, rows, covered, staged, command>>
      /\ task[f].hashed \in Content /\ <<>> \in Content
      /\ RightSoFar(f, <<>>) /\ At(f, "request")
  BY WantedFacts DEF IInv, Shape, Open, At, Job
<1>2. KeepsPartial(f)
  BY <1>1 DEF KeepsPartial
<1>3. /\ task' = [task EXCEPT ![f] = task'[f]] /\ task'[f] \in Job
      /\ task'[f].pc \in {"xet", "http"} /\ task'[f].stalls = task[f].stalls
      /\ task'[f].harm = task[f].harm /\ task'[f].retried = task[f].retried
      /\ task'[f].resume = task[f].resume
      /\ task'[f].hashed \in {task[f].hashed, <<>>}
      /\ task'[f].fed = task'[f].hashed
      /\ partial' = [partial EXCEPT ![f] = task'[f].hashed]
  <2>1. CASE /\ Put(partial, f, task[f].hashed)
             /\ \E transport \in {"xet", "http"} :
                   Becomes(f, [task[f] EXCEPT !.pc = transport])
    <3>1. PICK transport \in {"xet", "http"} :
            Becomes(f, [task[f] EXCEPT !.pc = transport])
      BY <2>1
    <3>. DEFINE t == [task[f] EXCEPT !.pc = transport]
    <3>2. /\ t \in Job /\ t.pc = transport /\ t.stalls = task[f].stalls
          /\ t.harm = task[f].harm /\ t.retried = task[f].retried
          /\ t.resume = task[f].resume /\ t.hashed = task[f].hashed
          /\ t.fed = task[f].hashed
      BY <1>1 DEF Job, FileInv, StreamHashed
    <3>3. task' = [task EXCEPT ![f] = t]
      BY <3>1 DEF Becomes
    <3> HIDE DEF t
    <3>4. task'[f] = t
      BY <1>1, <3>3 DEF Shape
    <3> QED BY <2>1, <3>2, <3>3, <3>4 DEF Put
  <2>2. CASE /\ Put(partial, f, <<>>)
             /\ Becomes(f, [task[f] EXCEPT !.pc = "http", !.hashed = <<>>,
                                           !.fed = <<>>])
    BY <1>1, <2>2 DEF Put, Becomes, Shape, Job
  <2> QED BY <2>1, <2>2 DEF Open
<1>4. /\ partial' = [partial EXCEPT ![f] = partial'[f]]
      /\ partial'[f] = task'[f].hashed /\ partial'[f] \in MaybeContent
  BY <1>1, <1>3 DEF Shape, MaybeContent
<1>5. StreamHashed(f)'
  BY <1>3, <1>4 DEF StreamHashed
<1>6. Accounted(f, task[f].hashed)'
  BY <1>1, <1>3, SameWanted DEF FileInv, Reckoned, Accounted, RightSoFar
<1>7. Reckoned(f)'
  BY <1>1, <1>3, <1>6 DEF FileInv, Reckoned
<1> QED BY <1>1, <1>2, <1>3, <1>4, <1>5, <1>7, OngoingStep

\* A block arrives.
LEMMA ReceiveStep ==
    ASSUME IInv, NEW f \in Files, Receive(f)
    PROVE  Steps(f)
<1>1. /\ Shape /\ FileInv(f) /\ task[f] \in Job
      /\ task[f].pc \in {"xet", "http"} /\ Len(task[f].fed) < Expected(f)
      /\ UNCHANGED <<disk, rows, covered, staged, command>>
  BY DEF IInv, Shape, Receive, Streaming, At
<1>2. PICK block \in {Version(f), Corrupt} :
        LET t == [task[f] EXCEPT !.hashed = Append(@, block),
                                 !.fed = Append(@, block)]
        IN  /\ Put(partial, f, Append(partial[f], block))
            /\ Becomes(f, IF block = Corrupt THEN Damaged(t) ELSE t)
  BY DEF Receive
<1>. DEFINE old == task[f].hashed
            new == Append(old, block)
            t == [task[f] EXCEPT !.hashed = new, !.fed = new]
            u == IF block = Corrupt THEN Damaged(t) ELSE t
<1>3. /\ task[f].fed = old /\ partial[f] = old /\ old \in Content
      /\ block \in Block /\ new \in Content /\ Len(old) < Expected(f)
      /\ Len(new) = Len(old) + 1 /\ Len(old) \in Nat
  <2>1. /\ task[f].fed = old /\ partial[f] = old /\ old \in Content
    BY <1>1 DEF FileInv, StreamHashed, Job
  <2>2. block \in Block
    BY <1>1, WantedFacts DEF Block
  <2> HIDE DEF old
  <2> QED BY <1>1, <2>1, <2>2, WantedFacts
<1>4. /\ task' = [task EXCEPT ![f] = u]
      /\ partial' = [partial EXCEPT ![f] = new]
  BY <1>2, <1>3 DEF Put, Becomes
<1> HIDE DEF new, old
<1>5. /\ t \in Job /\ t.pc = task[f].pc /\ t.stalls = task[f].stalls
      /\ t.harm = task[f].harm /\ t.retried = task[f].retried
      /\ t.resume = task[f].resume /\ t.hashed = new /\ t.fed = new
  BY <1>1, <1>3 DEF Job
<1> HIDE DEF t
<1>6. /\ u \in Job /\ u.pc = task[f].pc /\ u.stalls = task[f].stalls
      /\ u.harm.stalls = task[f].harm.stalls /\ u.retried = task[f].retried
      /\ u.resume = task[f].resume /\ u.hashed = new /\ u.fed = new
      /\ u.harm.bytes >= task[f].harm.bytes
      /\ block = Corrupt => /\ u.harm.bytes >= 1
                            /\ task[f].harm.bytes >= 1 => u.harm.bytes = 2
  BY <1>1, <1>5, DamagedFacts DEF Job
<1> HIDE DEF u
<1>7. /\ task' = [task EXCEPT ![f] = task'[f]] /\ task'[f] = u
      /\ partial' = [partial EXCEPT ![f] = partial'[f]]
      /\ partial'[f] = new /\ partial'[f] \in MaybeContent
  BY <1>1, <1>3, <1>4 DEF Shape, MaybeContent
<1>8. StreamHashed(f)'
  BY <1>6, <1>7 DEF StreamHashed
<1>9. ~RightSoFar(f, new) => u.harm.bytes >= IF u.retried THEN 2 ELSE 1
  <2>1. Accounted(f, old) /\ (task[f].retried => task[f].harm.bytes >= 1)
    BY <1>1 DEF FileInv, Reckoned, old
  <2>2. task[f].harm.bytes \in 0..2 /\ u.harm.bytes \in 0..2
    BY <1>1, <1>6 DEF Job
  <2>3. CASE block = Corrupt
    BY <1>6, <2>1, <2>2, <2>3
  <2>4. CASE block = Version(f)
    <3>1. RightSoFar(f, old) => RightSoFar(f, new)
      BY <1>1, <1>3, <2>4, WantedFacts DEF new
    <3> QED BY <1>6, <2>1, <2>2, <3>1 DEF Accounted, old
  <2> QED BY <2>3, <2>4
<1>10. Accounted(f, task[f].hashed)'
  BY <1>1, <1>6, <1>7, <1>9, SameWanted DEF Accounted, RightSoFar
<1>11. u.retried => u.harm.bytes >= 1
  BY <1>1, <1>6 DEF FileInv, Reckoned, Job
<1>12. Reckoned(f)'
  BY <1>1, <1>6, <1>7, <1>10, <1>11 DEF FileInv, Reckoned
<1>13. KeepsPartial(f)
  BY <1>3, <1>7, NoneIsNoContent DEF KeepsPartial
<1>14. task'[f].pc \notin {"out", "record", "done"} /\ task'[f] \in Job
  BY <1>1, <1>6, <1>7
<1> QED BY <1>1, <1>7, <1>8, <1>12, <1>13, <1>14, OngoingStep

\* A stream ends, with all bytes or without.
LEMMA EndOfStreamStep ==
    ASSUME IInv, NEW f \in Files, EndOfStream(f)
    PROVE  Steps(f)
<1>1. /\ Shape /\ FileInv(f) /\ task[f] \in Job
      /\ task[f].pc \in {"xet", "http"}
      /\ At(f, "xet") \/ At(f, "http")
      /\ UNCHANGED <<staged, command>>
  BY DEF IInv, Shape, EndOfStream, Streaming, At
<1>2. CASE Stall(f)
  BY <1>1, <1>2, StallStep
<1>3. CASE ~task[f].fired
  <2>. DEFINE t == [task[f] EXCEPT !.pc = "check", !.cut = FALSE]
              short == Len(task[f].hashed) < Expected(f)
              u == IF short THEN Damaged(t) ELSE t
  <2>1. /\ t \in Job /\ t.pc = "check" /\ t.stalls = task[f].stalls
        /\ t.harm = task[f].harm /\ t.retried = task[f].retried
        /\ t.resume = task[f].resume /\ t.hashed = task[f].hashed
    BY <1>1 DEF Job
  <2>2. task' = [task EXCEPT ![f] = u] /\ UNCHANGED <<disk, partial, rows, covered>>
    BY <1>3, <2>1 DEF EndOfStream, Becomes
  <2> HIDE DEF t
  <2>3. /\ u \in Job /\ u.pc = "check" /\ u.stalls = task[f].stalls
        /\ u.harm.stalls = task[f].harm.stalls /\ u.retried = task[f].retried
        /\ u.resume = task[f].resume /\ u.hashed = task[f].hashed
        /\ u.harm.bytes >= task[f].harm.bytes
        /\ short => /\ u.harm.bytes >= 1
                    /\ task[f].harm.bytes >= 1 => u.harm.bytes = 2
    BY <1>1, <2>1, DamagedFacts DEF Job
  <2> HIDE DEF u
  <2>4. /\ task' = [task EXCEPT ![f] = task'[f]] /\ task'[f] = u
        /\ partial' = [partial EXCEPT ![f] = partial'[f]]
        /\ partial'[f] = partial[f] /\ partial'[f] \in MaybeContent
    BY <1>1, <2>2 DEF Shape
  <2>5. StreamHashed(f)'
    BY <1>1, <2>3, <2>4 DEF FileInv, StreamHashed
  <2>6. /\ partial[f] = task[f].hashed /\ task[f].hashed \in Content
        /\ Accounted(f, task[f].hashed)
        /\ task[f].retried => task[f].harm.bytes >= 1
        /\ task[f].harm.bytes \in 0..2 /\ u.harm.bytes \in 0..2
    BY <1>1, <2>3 DEF FileInv, StreamHashed, Reckoned, Job
  <2>7. ~Matches(f, partial[f], task[f].hashed) =>
           u.harm.bytes >= IF u.retried THEN 2 ELSE 1
    <3>1. CASE short
      BY <2>3, <2>6, <3>1
    <3>2. CASE ~short
      <4>1. RightSoFar(f, task[f].hashed) =>
               Matches(f, partial[f], task[f].hashed)
        <5>1. /\ Len(task[f].hashed) \in Nat /\ Expected(f) \in Nat
              /\ RightSoFar(f, task[f].hashed) =>
                    Len(task[f].hashed) <= Expected(f)
          BY <1>1, <2>6, WantedFacts
        <5>2. RightSoFar(f, task[f].hashed) =>
                 Len(task[f].hashed) = Expected(f)
          BY <3>2, <5>1
        <5> QED BY <1>1, <2>6, <5>2, WantedFacts DEF Matches
      <4> QED BY <2>3, <2>6, <4>1 DEF Accounted
    <3> QED BY <3>1, <3>2
  <2>8. Matches(f, partial[f], task[f].hashed)' =
           Matches(f, partial[f], task[f].hashed)
    BY <1>1, <2>3, <2>4, SameWanted DEF Matches
  <2>9. Reckoned(f)'
    <3>1. /\ task[f].stalls <= StallRetries
          /\ task[f].harm.stalls = task[f].stalls
          /\ ~task[f].resume => task[f].retried
      BY <1>1 DEF FileInv, Reckoned
    <3>2. u.retried => u.harm.bytes >= 1
      BY <2>3, <2>6
    <3> QED BY <2>3, <2>4, <2>7, <2>8, <3>1, <3>2 DEF Reckoned
  <2> QED BY <1>1, <2>2, <2>3, <2>4, <2>5, <2>9, PartialStays, OngoingStep
<1> QED BY <1>2, <1>3 DEF EndOfStream

\* The coverage of a verified file is recorded.
LEMMA RecordStep ==
    ASSUME IInv, NEW f \in Files, Record(f)
    PROVE  Steps(f)
<1>. DEFINE t == [task[f] EXCEPT !.pc = "done"]
<1>1. /\ Shape /\ FileInv(f) /\ task[f] \in Job /\ task[f].pc = "record"
      /\ UNCHANGED <<disk, partial, staged, rows, command>>
      /\ task' = [task EXCEPT ![f] = t]
      /\ covered' = [covered EXCEPT ![f] = covered[f] \cup {command.commit}]
      /\ command.commit \in Commits
  BY DEF IInv, Shape, Record, At, Becomes, Put
<1>2. /\ t \in Job /\ t.pc = "done" /\ t.hashed = task[f].hashed
      /\ t.stalls = task[f].stalls /\ t.harm = task[f].harm
      /\ t.retried = task[f].retried /\ t.resume = task[f].resume
  BY <1>1 DEF Job
<1> HIDE DEF t
<1>3. Shape' /\ Frame(f) /\ task'[f] = t /\ covered'[f] # {}
  BY <1>1, <1>2 DEF Shape, Frame
<1>4. StreamHashed(f)' /\ RowHonest(f)' /\ RowCovered(f)' /\ Settled(f)'
  BY <1>1, <1>2, <1>3
  DEF FileInv, StreamHashed, RowHonest, RowCovered, Settled
<1>5. Verifying(f)'
  BY <1>1, <1>2, <1>3, SameWanted DEF FileInv, Verifying
<1>6. Reckoned(f)'
  BY <1>1, <1>2, <1>3 DEF FileInv, Reckoned
<1>7. PlacesRight(f) /\ KeepsPartial(f)
  BY <1>1, PartialStays DEF PlacesRight
<1> QED BY <1>3, <1>4, <1>5, <1>6, <1>7 DEF FileInv, Steps

\* The main thread writes the manifest row of a file.
LEMMA WriteRowStep ==
    ASSUME IInv, NEW f \in Files, WriteRow(f)
    PROVE  Steps(f)
<1>1. /\ Shape /\ FileInv(f) /\ task[f] \in Job /\ task[f].pc = "done"
      /\ UNCHANGED <<disk, partial, staged, covered, command>>
      /\ task' = [task EXCEPT ![f] = NewTask("out")]
      /\ rows' = [rows EXCEPT ![f] = task[f].hashed]
  BY DEF IInv, Shape, WriteRow, At, Becomes, Put
<1>2. /\ disk[f] = Wanted(f) /\ task[f].hashed = Wanted(f) /\ covered[f] # {}
      /\ Wanted(f) \in MaybeContent
  BY <1>1, WantedFacts DEF FileInv, Verifying, RowCovered, MaybeContent
<1>3. NewTask("out") \in Job /\ NewTask("out").pc = "out"
  BY NewTaskFacts
<1>4. /\ Shape' /\ Frame(f) /\ task'[f] = NewTask("out")
      /\ rows'[f] = Wanted(f) /\ disk'[f] = Wanted(f) /\ covered'[f] # {}
  <2>1. rows' \in [Files -> MaybeContent] /\ task' \in [Files -> Job]
    BY <1>1, <1>2, <1>3 DEF Shape
  <2>2. Shape'
    BY <1>1, <2>1 DEF Shape
  <2>3. /\ task'[f] = NewTask("out") /\ rows'[f] = Wanted(f)
        /\ disk'[f] = Wanted(f) /\ covered'[f] # {}
    BY <1>1, <1>2 DEF Shape
  <2>4. Frame(f)
    BY <1>1 DEF Shape, Frame
  <2> QED BY <2>2, <2>3, <2>4
<1>5. StreamHashed(f)' /\ Verifying(f)' /\ RowHonest(f)' /\ RowCovered(f)'
  BY <1>3, <1>4 DEF StreamHashed, Verifying, RowHonest, RowCovered
<1>6. Settled(f)'
  BY <1>1, <1>4, SameWanted DEF Settled
<1>7. Reckoned(f)'
  <2>1. /\ task'[f].pc = "out" /\ task'[f].stalls = 0
        /\ task'[f].harm = Unharmed /\ task'[f].resume = TRUE
        /\ task'[f].retried = FALSE
    BY ZenonT(30), <1>4, NewTaskFacts
  <2> QED BY <2>1, FreshReckoned
<1>8. PlacesRight(f) /\ KeepsPartial(f)
  BY <1>1, PartialStays DEF PlacesRight
<1> QED BY <1>4, <1>5, <1>6, <1>7, <1>8 DEF FileInv, Steps

-----------------------------------------------------------------------------
(***************************************************************************)
(* The steps of the whole process.                                         *)
(***************************************************************************)

\* What every step does.
StepOK == IInv' /\ \A f \in Files : PlacesRight(f) /\ KeepsPartial(f)

\* A step for one file is a step of the process.
LEMMA OneFileStep ==
    ASSUME IInv, Running, NEW f \in Files, Steps(f)
    PROVE  StepOK
<1>1. Shape' /\ Frame(f) /\ FileInv(f)' /\ PlacesRight(f) /\ KeepsPartial(f)
  BY DEF Steps
<1>2. \A g \in Files : FileInv(g)'
  BY <1>1, FrameKeeps DEF IInv
<1>3. Results'
  BY <1>1 DEF Frame, Running, Results
<1>4. ASSUME NEW g \in Files \ {f}
      PROVE  PlacesRight(g) /\ KeepsPartial(g)
  <2>1. disk'[g] = disk[g] /\ partial'[g] = partial[g]
    BY <1>1 DEF Frame
  <2> QED BY <2>1, PartialStays DEF PlacesRight, IInv
<1> QED BY <1>1, <1>2, <1>3, <1>4 DEF IInv, StepOK

\* Where no file changes.
LEMMA FilesStay ==
    ASSUME IInv, UNCHANGED files
    PROVE  \A f \in Files : PlacesRight(f) /\ KeepsPartial(f)
BY PartialStays DEF files, PlacesRight, IInv

\* The watchdog of one stream aborts all of them, and changes nothing else.
LEMMA WatchdogStep ==
    ASSUME IInv, NEW f \in Files, WatchdogFires(f)
    PROVE  StepOK
<1>1. /\ Shape /\ UNCHANGED <<disk, partial, staged, rows, covered, command>>
      /\ task[f].pc = "xet" /\ Running
  BY DEF IInv, WatchdogFires, files, At
<1>2. ASSUME NEW g \in Files
      PROVE  /\ task'[g] \in Job
             /\ task'[g].pc = task[g].pc /\ task'[g].stalls = task[g].stalls
             /\ task'[g].harm = task[g].harm /\ task'[g].retried = task[g].retried
             /\ task'[g].resume = task[g].resume
             /\ task'[g].hashed = task[g].hashed /\ task'[g].fed = task[g].fed
  <2>1. task[g] \in Job
    BY <1>1 DEF Shape
  <2>2. task'[g] = IF At(g, "xet")
                   THEN [task[g] EXCEPT !.cut = TRUE, !.fired = @ \/ g = f]
                   ELSE task[g]
    BY DEF WatchdogFires
  <2>3. CASE At(g, "xet")
    <3>. DEFINE b == task[g].fired \/ g = f
    <3>1. b \in BOOLEAN
      OBVIOUS
    <3>2. task'[g] = [task[g] EXCEPT !.cut = TRUE, !.fired = b]
      BY <2>2, <2>3
    <3> HIDE DEF b
    <3> QED BY <2>1, <3>1, <3>2 DEF Job
  <2>4. CASE ~At(g, "xet")
    BY <2>1, <2>2, <2>4
  <2> QED BY <2>3, <2>4
<1>3. Shape'
  <2>1. task' \in [Files -> Job]
    BY <1>2 DEF WatchdogFires
  <2> QED BY <1>1, <2>1 DEF Shape
<1>4. ASSUME NEW g \in Files
      PROVE  FileInv(g)'
  <2>1. FileInv(g)
    BY DEF IInv
  <2>2. /\ StreamHashed(g)' /\ RowHonest(g)' /\ RowCovered(g)'
    BY <1>1, <1>2, <2>1 DEF FileInv, StreamHashed, RowHonest, RowCovered
  <2>3. Verifying(g)' /\ Settled(g)'
    BY <1>1, <1>2, <2>1, SameWanted DEF FileInv, Verifying, Settled
  <2>4. Reckoned(g)'
    BY <1>1, <1>2, <2>1, SameWanted
    DEF FileInv, Reckoned, Accounted, RightSoFar, Matches, FaultExplains
  <2> QED BY <2>2, <2>3, <2>4 DEF FileInv
<1>5. Results'
  BY <1>1 DEF Running, Results
<1>6. UNCHANGED files
  BY <1>1 DEF files
<1> QED BY <1>3, <1>4, <1>5, <1>6, FilesStay DEF IInv, StepOK

\* Every step of a thread, of the network, and of the loop over results.
LEMMA ThreadStep ==
    ASSUME IInv, NEW f \in Files, Begin(f) \/ FileStep(f) \/ WriteRow(f)
    PROVE  StepOK
<1>1. CASE WatchdogFires(f)
  BY <1>1, WatchdogStep
<1>2. CASE Begin(f)
  BY <1>2, BeginStep, OneFileStep DEF Begin, At
<1>3. CASE KeepExisting(f)
  BY <1>3, KeepExistingStep, OneFileStep DEF KeepExisting, At
<1>4. CASE DropExisting(f)
  BY <1>4, DropExistingStep, OneFileStep DEF DropExisting, At
<1>5. CASE PromoteStaged(f)
  BY <1>5, PromoteStagedStep, OneFileStep DEF PromoteStaged, At
<1>6. CASE Fetch(f)
  BY <1>6, FetchStep, OneFileStep DEF Fetch, At
<1>7. CASE Resume(f)
  BY <1>7, ResumeStep, OneFileStep DEF Resume, At
<1>8. CASE PlaceComplete(f)
  BY <1>8, PlaceCompleteStep, OneFileStep DEF PlaceComplete, At
<1>9. CASE RejectComplete(f)
  BY <1>9, RejectCompleteStep, OneFileStep DEF RejectComplete, At
<1>10. CASE MissComplete(f)
  BY <1>10, MissCompleteStep, OneFileStep DEF MissComplete, At
<1>11. CASE Open(f)
  BY <1>11, OpenStep, OneFileStep DEF Open, At
<1>12. CASE MetadataMismatch(f)
  BY <1>12, MetadataMismatchStep, OneFileStep DEF MetadataMismatch, At
<1>13. CASE Receive(f)
  BY <1>13, ReceiveStep, OneFileStep DEF Receive, Streaming, At
<1>14. CASE Overrun(f)
  BY <1>14, OverrunStep, OneFileStep DEF Overrun, At
<1>15. CASE Disconnect(f)
  BY <1>15, DisconnectStep, OneFileStep DEF Disconnect, Streaming, At
<1>16. CASE HttpTimeout(f)
  BY <1>16, HttpTimeoutStep, OneFileStep DEF HttpTimeout, At
<1>17. CASE StreamAborted(f)
  BY <1>17, StreamAbortedStep, OneFileStep DEF StreamAborted, At
<1>18. CASE EndOfStream(f)
  BY <1>18, EndOfStreamStep, OneFileStep DEF EndOfStream, Streaming, At
<1>19. CASE Place(f)
  BY <1>19, PlaceStep, OneFileStep DEF Place, At
<1>20. CASE Reject(f)
  BY <1>20, RejectStep, OneFileStep DEF Reject, At
<1>21. CASE Record(f)
  BY <1>21, RecordStep, OneFileStep DEF Record, At
<1>22. CASE WriteRow(f)
  BY <1>22, WriteRowStep, OneFileStep DEF WriteRow, At
<1> QED
  BY <1>1, <1>2, <1>3, <1>4, <1>5, <1>6, <1>7, <1>8, <1>9, <1>10, <1>11, <1>12,
     <1>13, <1>14, <1>15, <1>16, <1>17, <1>18, <1>19, <1>20, <1>21, <1>22
  DEF FileStep

\* A command starts: what it takes for verified is there.
LEMMA StartStep ==
    ASSUME IInv, Start
    PROVE  StepOK
<1>1. /\ Shape /\ UNCHANGED <<disk, partial, staged, rows, covered>>
      /\ UNCHANGED files
  BY DEF IInv, Start, files
<1>2. PICK c \in Commits, workers \in WorkerCounts,
           selected \in SUBSET Files \ {{}} :
        /\ command' = [result |-> "running", commit |-> c,
                       selected |-> selected, workers |-> workers]
        /\ task' = [f \in Files |->
                      NewTask(IF f \in selected /\ ~Verified(c, f)
                              THEN "queued" ELSE "out")]
  BY DEF Start
<1>3. ASSUME NEW f \in Files
      PROVE  /\ task'[f] \in Job /\ task'[f].pc \in {"queued", "out"}
             /\ f \in selected /\ ~Verified(c, f) => task'[f].pc = "queued"
             /\ task'[f].resume = TRUE /\ task'[f].retried = FALSE
             /\ task'[f].stalls = 0 /\ task'[f].harm = Unharmed
  <2>1. CASE f \in selected /\ ~Verified(c, f)
    <3>1. task'[f] = NewTask("queued")
      BY <1>2, <2>1
    <3> QED BY <3>1, NewTaskFacts
  <2>2. CASE ~(f \in selected /\ ~Verified(c, f))
    <3>1. task'[f] = NewTask("out")
      BY <1>2, <2>2
    <3> QED BY ZenonT(30), <2>2, <3>1, NewTaskFacts
  <2> QED BY <2>1, <2>2
<1>4. Shape'
  <2>1. task' \in [Files -> Job]
    BY <1>2, <1>3
  <2> QED BY <1>1, <1>2, <2>1 DEF Shape
<1>5. ASSUME NEW f \in Files
      PROVE  FileInv(f)'
  <2>1. FileInv(f)
    BY DEF IInv
  <2>2. StreamHashed(f)' /\ Verifying(f)' /\ RowHonest(f)' /\ RowCovered(f)'
    BY <1>1, <1>3, <2>1
    DEF FileInv, StreamHashed, Verifying, RowHonest, RowCovered
  <2>3. Wanted(f)' = Full(Snapshot[c][f])
    BY <1>2 DEF Wanted, Version
  <2>4. Full(Snapshot[c][f]) # None
    <3>1. Snapshot[c][f] \in Versions
      BY DownloadAssumption DEF DownloadAssumption
    <3> QED BY <3>1, FullIsContent, NoneIsNoContent
  <2>5. Settled(f)'
    BY <1>1, <1>2, <1>3, <2>1, <2>3, <2>4
    DEF FileInv, RowHonest, Settled, Verified
  <2>6. Reckoned(f)'
    BY <1>3, FreshReckoned
  <2> QED BY <2>2, <2>5, <2>6 DEF FileInv
<1>6. Results'
  BY <1>2 DEF Results
<1> QED BY <1>1, <1>4, <1>5, <1>6, FilesStay DEF IInv, StepOK

\* A command ends.
LEMMA EndStep ==
    ASSUME IInv, Succeed \/ Fail
    PROVE  StepOK
<1>1. /\ Shape /\ Running /\ UNCHANGED <<disk, partial, rows, covered, task>>
      /\ None \in MaybeContent
  BY DEF IInv, Succeed, Fail, files, MaybeContent
<1>2. PICK result \in {"ok", "failed"} :
        command' = [command EXCEPT !.result = result]
  BY DEF Succeed, Fail
<1>3. /\ command'.commit = command.commit
      /\ command'.selected = command.selected
      /\ command'.workers = command.workers
      /\ command'.result = result /\ command.result = "running"
  BY <1>1, <1>2 DEF Shape, Running
<1>4. Shape'
  <2>1. staged' \in [Files -> MaybeContent]
    BY <1>1 DEF Shape, Succeed, Fail, files
  <2> QED BY <1>1, <1>2, <2>1 DEF Shape
<1>5. ASSUME NEW f \in Files
      PROVE  FileInv(f)'
  <2>1. FileInv(f)
    BY DEF IInv
  <2>2. StreamHashed(f)' /\ RowHonest(f)' /\ RowCovered(f)'
    BY <1>1, <2>1 DEF FileInv, StreamHashed, RowHonest, RowCovered
  <2>3. Wanted(f)' = Wanted(f) /\ Expected(f)' = Expected(f)
    BY <1>3 DEF Wanted, Expected, Version
  <2>4. Verifying(f)' /\ Settled(f)'
    BY <1>1, <1>3, <2>1, <2>3 DEF FileInv, Verifying, Settled
  <2>5. Reckoned(f)'
    BY <1>1, <2>1, <2>3
    DEF FileInv, Reckoned, Accounted, RightSoFar, Matches, FaultExplains
  <2> QED BY <2>2, <2>4, <2>5 DEF FileInv
<1>6. Results'
  <2>1. WorkerCounts \subseteq Nat
    BY DownloadAssumption DEF DownloadAssumption
  <2> QED BY <1>1, <1>2, <1>3, <2>1 DEF Results, Succeed, Fail, Shape
<1>7. \A f \in Files : PlacesRight(f) /\ KeepsPartial(f)
  BY <1>1, PartialStays DEF PlacesRight
<1> QED BY <1>4, <1>5, <1>6, <1>7 DEF IInv, StepOK

\* A kill forgets the tasks and leaves the files.
LEMMA KilledStep ==
    ASSUME IInv, Killed
    PROVE  StepOK
<1>1. /\ Shape /\ UNCHANGED <<disk, partial, staged, rows, covered>>
      /\ UNCHANGED files
      /\ command' = [command EXCEPT !.result = "killed"]
      /\ task' = [f \in Files |-> NewTask("out")]
  BY DEF IInv, Killed, files
<1>2. Shape'
  BY <1>1, NewTaskFacts DEF Shape
<1>3. command'.result = "killed"
  BY <1>1 DEF Shape
<1>4. ASSUME NEW f \in Files
      PROVE  FileInv(f)'
  <2>1. FileInv(f) /\ task'[f] = NewTask("out")
    BY <1>1 DEF IInv
  <2>2. /\ StreamHashed(f)' /\ Verifying(f)' /\ RowHonest(f)' /\ RowCovered(f)'
        /\ Settled(f)'
    BY <1>1, <1>3, <2>1, NewTaskFacts
    DEF FileInv, StreamHashed, Verifying, RowHonest, RowCovered, Settled
  <2>3. /\ task'[f].pc = "out" /\ task'[f].stalls = 0
        /\ task'[f].harm = Unharmed /\ task'[f].resume = TRUE
        /\ task'[f].retried = FALSE
    BY ZenonT(30), <2>1, NewTaskFacts
  <2>4. Reckoned(f)'
    BY <2>3, FreshReckoned
  <2> QED BY <2>2, <2>4 DEF FileInv
<1>5. Results'
  BY <1>3 DEF Results
<1> QED BY <1>1, <1>2, <1>4, <1>5, FilesStay DEF IInv, StepOK

\* Every step, stuttering included.
LEMMA EveryStep ==
    ASSUME IInv, [Next]_vars
    PROVE  StepOK
<1>1. CASE \E f \in Files : Begin(f) \/ FileStep(f) \/ WriteRow(f)
  BY <1>1, ThreadStep
<1>2. CASE UNCHANGED vars
  <2>1. UNCHANGED files
    BY <1>2 DEF vars, files
  <2>2. Shape' /\ Results'
    BY <1>2 DEF vars, IInv, Shape, Results
  <2>3. ASSUME NEW f \in Files
        PROVE  FileInv(f)'
    BY <1>2
    DEF vars, IInv, FileInv, StreamHashed, Verifying, RowHonest, RowCovered,
        Settled, Reckoned, Accounted, RightSoFar, Matches, FaultExplains,
        Wanted, Expected, Version
  <2> QED BY <2>1, <2>2, <2>3, FilesStay DEF IInv, StepOK
<1> QED BY <1>1, <1>2, StartStep, EndStep, KilledStep DEF Next

\* The invariant holds of what an earlier release may have staged.
LEMMA InitIInv == Init => IInv
<1> SUFFICES ASSUME Init PROVE IInv
  OBVIOUS
<1>1. Contents \subseteq Content
  BY DEF Contents, BoundedSeq, SeqOf, Content, Block
<1>2. Shape
  <2>1. /\ disk \in [Files -> MaybeContent] /\ partial \in [Files -> MaybeContent]
        /\ rows \in [Files -> MaybeContent] /\ covered \in [Files -> SUBSET Commits]
    BY DEF Init, MaybeContent
  <2>2. staged \in [Files -> MaybeContent]
    BY <1>1, DownloadAssumption DEF Init, MaybeContent, DownloadAssumption
  <2>3. task \in [Files -> Job]
    BY NewTaskFacts DEF Init
  <2>4. command \in [result: {"none", "running", "ok", "failed", "killed"},
                     commit: Commits, selected: SUBSET Files,
                     workers: WorkerCounts]
    BY DownloadAssumption DEF Init, DownloadAssumption
  <2> QED BY <2>1, <2>2, <2>3, <2>4 DEF Shape
<1>3. command.result = "none" /\ command.selected = {}
  BY DEF Init
<1>4. ASSUME NEW f \in Files
      PROVE  FileInv(f)
  <2>1. task[f] = NewTask("out") /\ rows[f] = None
    BY DEF Init
  <2>2. /\ StreamHashed(f) /\ Verifying(f) /\ RowHonest(f) /\ RowCovered(f)
        /\ Settled(f)
    BY <1>3, <2>1, NewTaskFacts
    DEF StreamHashed, Verifying, RowHonest, RowCovered, Settled
  <2>3. /\ task[f].pc = "out" /\ task[f].stalls = 0
        /\ task[f].harm = Unharmed /\ task[f].resume = TRUE
        /\ task[f].retried = FALSE
    BY ZenonT(30), <2>1, NewTaskFacts
  <2>4. Reckoned(f)
    BY <2>3, DownloadAssumption DEF DownloadAssumption, Reckoned, Unharmed
  <2> QED BY <2>2, <2>4 DEF FileInv
<1>5. Results
  BY <1>3 DEF Results
<1> QED BY <1>2, <1>4, <1>5 DEF IInv

-----------------------------------------------------------------------------
(***************************************************************************)
(* The theorems.                                                           *)
(***************************************************************************)

\* The invariant holds of every behaviour, whatever the files, the commits, the
\* sizes, the number of threads, the retries and what was left in staging.
THEOREM DownloadInvariant == Spec => []IInv
<1>1. IInv /\ [Next]_vars => IInv'
  BY EveryStep DEF StepOK
<1> QED BY <1>1, InitIInv, PTL DEF Spec

\* A download that reports success leaves every file it was asked for right,
\* with a row that vouches for it, also those it skipped (stream_snapshot).
THEOREM SuccessTheorem == Spec => []SuccessIsComplete
<1>1. IInv => SuccessIsComplete
  BY DEF IInv, Shape, Results, FileInv, Settled, SuccessIsComplete
<1> QED BY <1>1, DownloadInvariant, PTL

\* A file that is not empty fails only for what the network did to it in this
\* command, never for what was left behind alone (stream_file_to_path).
THEOREM FailureTheorem == Spec => []FailsOnlyByFault
<1>1. IInv => FailsOnlyByFault
  BY DEF IInv, FileInv, Reckoned, FailsOnlyByFault, Failed
<1> QED BY <1>1, DownloadInvariant, PTL

\* When a pool of threads has failed, the files that did arrive are recorded
\* (the as_completed loop of stream_snapshot).
THEOREM PoolTheorem == Spec => []FailureKeepsTheRest
<1>1. IInv => FailureKeepsTheRest
  BY DEF IInv, Shape, Results, FileInv, Settled, FailureKeepsTheRest, Failed
<1> QED BY <1>1, DownloadInvariant, PTL

\* A file with a manifest row is in a coverage file (record_torrent_coverage
\* before write_manifest_record).
THEOREM CoverageTheorem == Spec => []RowsAreCovered
<1>1. IInv => RowsAreCovered
  BY DEF IInv, FileInv, RowCovered, RowsAreCovered
<1> QED BY <1>1, DownloadInvariant, PTL

\* Nothing comes into place that is not, block for block, the file of the
\* pinned commit (stream_file_to_path_once: verify, then rename).
THEOREM PlacementTheorem == Spec => PlacedVerified
<1>1. IInv /\ [Next]_vars =>
        [\A f \in Files :
            disk'[f] # disk[f] /\ disk'[f] # None => disk'[f] = Wanted(f)]_vars
  BY EveryStep DEF StepOK, PlacesRight
<1> QED BY <1>1, DownloadInvariant, PTL DEF Spec, PlacedVerified

\* Right bytes that were received are given up only after an integrity error or
\* when the server starts over, never for a stall, a lost connection or a kill.
THEOREM ResumeTheorem == Spec => PartialsKept
<1>1. IInv /\ [Next]_vars =>
        [\A f \in Files :
            /\ Running /\ partial[f] # None /\ RightSoFar(f, partial[f])
            /\ partial'[f] = None \/ Len(partial'[f]) < Len(partial[f])
            => \/ disk'[f] = Wanted(f)
               \/ task[f].retried \/ task'[f].retried
               \/ At(f, "request")]_vars
  BY EveryStep DEF StepOK, KeepsPartial
<1> QED BY <1>1, DownloadInvariant, PTL DEF Spec, PartialsKept

=============================================================================
