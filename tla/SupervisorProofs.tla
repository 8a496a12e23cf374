-------------------------- MODULE SupervisorProofs --------------------------
(***************************************************************************)
(* Proofs about the supervised mirror, for any files, threads, timeout and *)
(* limits.  The argument compares three clocks: the age of an entry, the   *)
(* age of the child, and the time since bytes were written.  They move     *)
(* together and stop at the same cap, so an order between them is kept by  *)
(* time and has to be looked at only where one of them is set back.        *)
(***************************************************************************)
EXTENDS Supervisor, TLAPS

\* A stamp of this child is not older than the child.
StampsOfThisChild ==
    \A f \in Files :
        /\ entry[f] # None /\ entry[f].fresh => entry[f].age <= elapsed
        /\ f \in touched => quiet[f] <= elapsed

\* No entry is older than the last bytes by more than the interval.
StampsFollowBytes ==
    \A f \in Files : entry[f] # None => entry[f].age <= quiet[f] + MinInterval

\* Past the transfers everything is there, and stays there.
ThereWhenVerified ==
    /\ child = "starting" => \A f \in Files : work[f] # "failed"
    /\ child \in {"verifying", "exit 0"} => \A f \in Files : work[f] = "done"
    /\ sup.code = 0 => child = "exit 0"
    /\ sup.code = 0 => sup.step = "over"

\* A count passes the limit only by the verdict that ends the supervision.
LimitKept ==
    /\ sup.step = "kill" => sup.verdict \in Files \cup {NoProgress}
    /\ \A k \in Files \cup {NoProgress} :
          retries[k] > RetryLimit
              => sup.step = "over" \/ (sup.step = "kill" /\ sup.verdict = k)

IInv ==
    /\ TypeOK
    /\ FairChance
    /\ LimitKept
    /\ StampsOfThisChild
    /\ StampsFollowBytes
    /\ ThereWhenVerified

-----------------------------------------------------------------------------

LEMMA SpecialKeys ==
    /\ NoProgress \notin Files /\ None \notin Files /\ None # NoProgress
    /\ None # 0 /\ None # 1 /\ None \notin Entries
  BY SupervisorAssumption

\* A verdict on a file names one that is shown, and a verdict keeps the limit.
LEMMA JudgeEffect ==
    ASSUME NEW shown, DOMAIN shown \subseteq Files,
           \A f \in DOMAIN shown : shown[f] \in Entries,
           \A f \in DOMAIN shown : shown[f].fresh => shown[f].age <= elapsed,
           TypeOK, Judge(shown)
    PROVE  \/ sup' = Watching("sleep") /\ UNCHANGED retries
           \/ \E key \in Files \cup {NoProgress} :
                 /\ retries' = [retries EXCEPT ![key] = @ + 1]
                 /\ sup' = [sup EXCEPT !.step = "kill", !.verdict = key]
                 /\ elapsed >= Timeout
                 /\ key \in Files => key \in DOMAIN shown /\ shown[key].age >= Timeout
  <1>1. PICK key \in Verdicts(shown) :
            IF key = None THEN sup' = Watching("sleep") /\ UNCHANGED retries
            ELSE /\ retries' = [retries EXCEPT ![key] = @ + 1]
                 /\ sup' = [sup EXCEPT !.step = "kill", !.verdict = key]
    BY DEF Judge
  <1>2. CASE Stalled(shown) # {}
    <2>1. key \in Stalled(shown)  BY <1>1, <1>2 DEF Verdicts, Oldest
    <2>2. key \in DOMAIN shown /\ shown[key].fresh /\ shown[key].age >= Timeout
      BY <2>1 DEF Stalled, FreshOf
    <2>3. key \in Files /\ key # None  BY <2>2, SupervisorAssumption
    <2>4. shown[key].age \in Age /\ elapsed \in Age /\ Timeout \in Nat
      BY <2>2, SupervisorAssumption DEF TypeOK, Entries
    <2>5. elapsed >= Timeout  BY <2>2, <2>4 DEF Age
    <2>6. QED  BY <1>1, <2>2, <2>3, <2>5
  <1>3. CASE Stalled(shown) = {}
    <2>1. key = None \/ (key = NoProgress /\ elapsed >= Timeout)
      BY <1>1, <1>3 DEF Verdicts
    <2>2. NoProgress \notin Files  BY SupervisorAssumption
    <2>3. QED  BY <1>1, <2>1, <2>2, SupervisorAssumption
  <1>4. QED  BY <1>2, <1>3

LEMMA Numbers ==
    TypeOK => /\ elapsed \in Nat /\ \A f \in Files : quiet[f] \in Nat
              /\ MinInterval \in Nat /\ Timeout \in Nat /\ Size \in Nat
  <1>1. Age \subseteq Nat  BY SupervisorAssumption DEF Age
  <1>2. TypeOK => elapsed \in Age /\ \A f \in Files : quiet[f] \in Age  BY DEF TypeOK
  <1>3. QED  BY <1>1, <1>2, SupervisorAssumption

LEMMA InitIInv == Init => IInv
  BY SpecialKeys, SupervisorAssumption
  DEF Init, IInv, TypeOK, FairChance, StampsOfThisChild, StampsFollowBytes,
      ThereWhenVerified, LimitKept, Watching, Age

LEMMA Later_ ==
    /\ \A n \in Age : Later(n) \in Age
    /\ \A n, m \in Age : n <= m => Later(n) <= Later(m)
    /\ \A n, m \in Age : n <= m + MinInterval => Later(n) <= Later(m) + MinInterval
    /\ \A n \in Age : n >= Timeout => Later(n) >= Timeout
  BY SupervisorAssumption DEF Age, Later

\* A report is a stamp of now and leaves the other entries or drops them.
LEMMA ReportEffect ==
    ASSUME NEW f \in Files, IInv, Emit(f)
    PROVE  /\ entry' \in [Files -> Entries \cup {None}]
           /\ \A g \in Files : entry'[g] # None =>
                 \/ entry[g] # None /\ entry'[g] = entry[g]
                 \/ g = f /\ entry'[g] = Stamp
           /\ entry'[f] # None
           /\ entry'[f].age = 0 \/ entry'[f].age <= MinInterval
  <1>1. Stamp \in Entries /\ Stamp.age = 0
    BY SupervisorAssumption DEF Stamp, Entries, Age
  <1>2. entry \in [Files -> Entries \cup {None}]  BY DEF IInv, TypeOK
  <1>3. CASE Report(f)
    <2>1. \A g \in Files :
              entry'[g] = IF g = f THEN Stamp
                          ELSE IF work[g] \in {"active", "failed"} THEN entry[g] ELSE None
      BY <1>3 DEF Report
    <2>2. entry' \in [Files -> Entries \cup {None}]
      BY <1>1, <1>2, <1>3, <2>1 DEF Report
    <2>3. entry'[f] = Stamp  BY <2>1
    <2>4. Stamp # None  BY <1>1, SupervisorAssumption
    <2>5. QED  BY <1>1, <2>1, <2>2, <2>3, <2>4
  <1>4. CASE ~MustEmit(f) /\ UNCHANGED entry
    <2>1. entry[f] # None /\ entry[f] \in Entries /\ ~(entry[f].age >= MinInterval)
      BY <1>2, <1>4 DEF MustEmit
    <2>2. entry[f].age \in Nat /\ MinInterval \in Nat
      BY <2>1, SupervisorAssumption DEF Entries, Age
    <2>3. entry[f].age <= MinInterval  BY <2>1, <2>2
    <2>4. QED  BY <1>2, <1>4, <2>1, <2>3
  <1>5. QED  BY <1>3, <1>4 DEF Emit

\* Steps of the child that leave its transfers alone.
LEMMA QuietSteps ==
    IInv /\ (Begin \/ Transferred \/ Verify \/ GiveUp) => IInv'
  <1> SUFFICES ASSUME IInv, Begin \/ Transferred \/ Verify \/ GiveUp  PROVE IInv'
    OBVIOUS
  <1>1. UNCHANGED <<sup, retries, elapsed, work, entry, bytes, quiet, touched, beats>>
    BY DEF Begin, Transferred, Verify, GiveUp
  <1>2. TypeOK'
    <2>1. child' \in {"starting", "transferring", "verifying", "exit 0", "exit 1", "killed"}
      BY DEF Begin, Transferred, Verify, GiveUp
    <2>2. QED  BY <1>1, <2>1 DEF IInv, TypeOK
  <1>3. FairChance' /\ LimitKept' /\ StampsOfThisChild' /\ StampsFollowBytes'
    BY <1>1 DEF IInv, FairChance, LimitKept, StampsOfThisChild, StampsFollowBytes
  <1>4. ThereWhenVerified'
    <2>1. CASE Begin
      BY <1>1, <2>1, SupervisorAssumption
      DEF IInv, TypeOK, ThereWhenVerified, Begin, Handled
    <2>2. CASE Transferred
      BY <1>1, <2>2 DEF IInv, ThereWhenVerified, Transferred
    <2>3. CASE Verify
      BY <1>1, <2>3 DEF IInv, ThereWhenVerified, Verify
    <2>4. CASE GiveUp
      BY <1>1, <2>4 DEF IInv, ThereWhenVerified, GiveUp, Running
    <2>5. QED  BY <2>1, <2>2, <2>3, <2>4
  <1>5. QED  BY <1>2, <1>3, <1>4 DEF IInv

\* What holds of the stamps after a report.
LEMMA StampsAfterEmit ==
    ASSUME NEW f \in Files, IInv, Emit(f)
    PROVE  \A g \in Files : entry'[g] # None =>
              /\ entry'[g].fresh => entry'[g].age <= elapsed
              /\ entry'[g].age <= quiet[g] + MinInterval
  <1> SUFFICES ASSUME NEW g \in Files, entry'[g] # None
               PROVE  /\ entry'[g].fresh => entry'[g].age <= elapsed
                      /\ entry'[g].age <= quiet[g] + MinInterval
    OBVIOUS
  <1>1. quiet[g] \in Nat /\ elapsed \in Nat /\ MinInterval \in Nat
    BY Numbers DEF IInv
  <1>2. CASE entry[g] # None /\ entry'[g] = entry[g]
    BY <1>2 DEF IInv, StampsOfThisChild, StampsFollowBytes
  <1>3. CASE entry'[g] = Stamp
    <2>1. entry'[g].age = 0  BY <1>3 DEF Stamp
    <2>2. QED  BY <1>1, <2>1
  <1>4. QED  BY <1>2, <1>3, ReportEffect

LEMMA TrackStep ==
    ASSUME NEW f \in Files, IInv, Track(f)  PROVE IInv'
  <1>1. Emit(f)  BY DEF Track, Emit
  <1>2. /\ entry' \in [Files -> Entries \cup {None}]
        /\ \A g \in Files : entry'[g] # None =>
              \/ entry[g] # None /\ entry'[g] = entry[g]
              \/ g = f /\ entry'[g] = Stamp
    BY <1>1, ReportEffect
  <1>3. UNCHANGED <<sup, retries, elapsed, child, bytes, quiet, touched, beats>>
    BY DEF Track
  <1>4. TypeOK'
    BY <1>2, <1>3 DEF Track, IInv, TypeOK
  <1>5. FairChance' /\ LimitKept'  BY <1>3 DEF IInv, FairChance, LimitKept
  <1>6. StampsOfThisChild' /\ StampsFollowBytes'
    <2>1. \A g \in Files : entry'[g] # None =>
              /\ entry'[g].fresh => entry'[g].age <= elapsed
              /\ entry'[g].age <= quiet[g] + MinInterval
      BY <1>1, StampsAfterEmit
    <2>2. QED  BY <1>3, <2>1 DEF IInv, StampsOfThisChild, StampsFollowBytes
  <1>7. ThereWhenVerified'
    BY <1>3 DEF Track, IInv, ThereWhenVerified
  <1>8. QED  BY <1>4, <1>5, <1>6, <1>7 DEF IInv

LEMMA BeatStep ==
    ASSUME NEW f \in Files, IInv, Beat(f)  PROVE IInv'
  <1>1. Emit(f)  BY DEF Beat
  <1>2. /\ entry' \in [Files -> Entries \cup {None}]
        /\ \A g \in Files : entry'[g] # None =>
              \/ entry[g] # None /\ entry'[g] = entry[g]
              \/ g = f /\ entry'[g] = Stamp
    BY <1>1, ReportEffect
  <1>3. UNCHANGED <<sup, retries, elapsed, child, work, quiet, touched>>
    BY DEF Beat
  <1>4. TypeOK'
    <2>1. bytes' \in [Files -> 0..Size]
      BY SupervisorAssumption DEF Beat, IInv, TypeOK
    <2>2. beats' \in [Files -> 0..MaxBeats]
      BY SupervisorAssumption DEF Beat, IInv, TypeOK
    <2>3. QED  BY <1>2, <1>3, <2>1, <2>2 DEF IInv, TypeOK
  <1>5. FairChance' /\ LimitKept'  BY <1>3 DEF IInv, FairChance, LimitKept
  <1>6. StampsOfThisChild' /\ StampsFollowBytes'
    <2>1. \A g \in Files : entry'[g] # None =>
              /\ entry'[g].fresh => entry'[g].age <= elapsed
              /\ entry'[g].age <= quiet[g] + MinInterval
      BY <1>1, StampsAfterEmit
    <2>2. QED  BY <1>3, <2>1 DEF IInv, StampsOfThisChild, StampsFollowBytes
  <1>7. ThereWhenVerified'
    BY <1>3 DEF IInv, ThereWhenVerified
  <1>8. QED  BY <1>4, <1>5, <1>6, <1>7 DEF IInv

LEMMA ReceiveStep ==
    ASSUME NEW f \in Files, IInv, Receive(f)  PROVE IInv'
  <1>1. Emit(f)  BY DEF Receive
  <1>2. /\ entry' \in [Files -> Entries \cup {None}]
        /\ \A g \in Files : entry'[g] # None =>
              \/ entry[g] # None /\ entry'[g] = entry[g]
              \/ g = f /\ entry'[g] = Stamp
        /\ entry'[f] # None
        /\ entry'[f].age = 0 \/ entry'[f].age <= MinInterval
    BY <1>1, ReportEffect
  <1>3. UNCHANGED <<sup, retries, elapsed, child, work, beats>>
    BY DEF Receive
  <1>4. /\ quiet' \in [Files -> Age] /\ quiet'[f] = 0
        /\ \A g \in Files : g # f => quiet'[g] = quiet[g]
    BY SupervisorAssumption DEF Receive, IInv, TypeOK, Age
  <1>5. TypeOK'
    <2>1. bytes' \in [Files -> 0..Size]
      BY SupervisorAssumption DEF Receive, IInv, TypeOK
    <2>2. touched' \in SUBSET Files  BY DEF Receive, IInv, TypeOK
    <2>3. QED  BY <1>2, <1>3, <1>4, <2>1, <2>2 DEF IInv, TypeOK
  <1>6. FairChance' /\ LimitKept'  BY <1>3 DEF IInv, FairChance, LimitKept
  <1>7. StampsOfThisChild'
    <2> SUFFICES ASSUME NEW g \in Files
                 PROVE  /\ entry'[g] # None /\ entry'[g].fresh => entry'[g].age <= elapsed'
                        /\ g \in touched' => quiet'[g] <= elapsed'
      BY DEF StampsOfThisChild
    <2>1. entry'[g] # None /\ entry'[g].fresh => entry'[g].age <= elapsed'
      BY <1>1, <1>3, StampsAfterEmit
    <2>2. CASE g = f
      <3>1. elapsed \in Nat  BY Numbers DEF IInv
      <3>2. quiet'[g] <= elapsed'  BY <1>3, <1>4, <2>2, <3>1
      <3>3. QED  BY <2>1, <3>2
    <2>3. CASE g # f
      <3>1. g \in touched' => g \in touched  BY <2>3 DEF Receive
      <3>2. QED  BY <1>3, <1>4, <2>1, <2>3, <3>1 DEF IInv, StampsOfThisChild
    <2>4. QED  BY <2>2, <2>3
  <1>8. StampsFollowBytes'
    <2> SUFFICES ASSUME NEW g \in Files, entry'[g] # None
                 PROVE  entry'[g].age <= quiet'[g] + MinInterval
      BY DEF StampsFollowBytes
    <2>1. CASE g = f
      BY <1>2, <1>4, <2>1, SupervisorAssumption
    <2>2. CASE g # f
      BY <1>2, <1>4, <2>2 DEF IInv, StampsFollowBytes
    <2>3. QED  BY <2>1, <2>2
  <1>9. ThereWhenVerified'  BY <1>3 DEF IInv, ThereWhenVerified
  <1>10. QED  BY <1>5, <1>6, <1>7, <1>8, <1>9 DEF IInv

LEMMA FinishStep ==
    ASSUME NEW f \in Files, IInv, Finish(f)  PROVE IInv'
  <1>1. UNCHANGED <<sup, retries, elapsed, child, bytes, quiet, touched, beats>>
    BY DEF Finish
  <1>2. /\ entry' \in [Files -> Entries \cup {None}]
        /\ \A g \in Files : entry'[g] # None => entry'[g] = entry[g]
    BY DEF Finish, IInv, TypeOK
  <1>3. TypeOK'  BY <1>1, <1>2 DEF Finish, IInv, TypeOK
  <1>4. FairChance' /\ LimitKept' /\ StampsOfThisChild' /\ StampsFollowBytes'
    BY <1>1, <1>2
    DEF IInv, FairChance, LimitKept, StampsOfThisChild, StampsFollowBytes
  <1>5. ThereWhenVerified'
    BY <1>1 DEF Finish, IInv, TypeOK, ThereWhenVerified
  <1>6. QED  BY <1>3, <1>4, <1>5 DEF IInv

LEMMA FailStep ==
    ASSUME NEW f \in Files, IInv, Fail(f)  PROVE IInv'
  <1>1. UNCHANGED <<sup, retries, elapsed, child, entry, bytes, quiet, touched, beats>>
    BY DEF Fail
  <1>2. TypeOK'  BY <1>1 DEF Fail, IInv, TypeOK
  <1>3. FairChance' /\ LimitKept' /\ StampsOfThisChild' /\ StampsFollowBytes'
    BY <1>1 DEF IInv, FairChance, LimitKept, StampsOfThisChild, StampsFollowBytes
  <1>4. ThereWhenVerified'
    BY <1>1 DEF Fail, IInv, TypeOK, ThereWhenVerified
  <1>5. QED  BY <1>2, <1>3, <1>4 DEF IInv

\* Every clock moves by the same amount up to the same cap.
LEMMA TickStep == IInv /\ Tick => IInv'
  <1> SUFFICES ASSUME IInv, Tick  PROVE IInv'
    OBVIOUS
  <1>1. UNCHANGED <<retries, child, work, bytes, touched, beats>>  BY DEF Tick
  <1>2. /\ elapsed' = Later(elapsed) /\ elapsed \in Age
        /\ quiet \in [Files -> Age] /\ entry \in [Files -> Entries \cup {None}]
        /\ \A f \in Files : quiet'[f] = Later(quiet[f]) /\ quiet[f] \in Age
    BY DEF Tick, IInv, TypeOK
  <1>3. \A f \in Files :
            \/ entry[f] = None /\ entry'[f] = None
            \/ /\ entry[f] \in Entries /\ entry'[f] \in Entries
               /\ entry'[f].age = Later(entry[f].age)
               /\ entry'[f].fresh = entry[f].fresh
    <2> SUFFICES ASSUME NEW f \in Files, entry[f] # None
                 PROVE  /\ entry[f] \in Entries /\ entry'[f] \in Entries
                        /\ entry'[f].age = Later(entry[f].age)
                        /\ entry'[f].fresh = entry[f].fresh
      BY DEF Tick
    <2>1. entry[f] \in Entries  BY <1>2
    <2>2. entry'[f] = [entry[f] EXCEPT !.age = Later(@)]  BY DEF Tick
    <2>3. Later(entry[f].age) \in Age  BY <2>1, Later_ DEF Entries
    <2>4. QED  BY <2>1, <2>2, <2>3 DEF Entries
  <1>4. TypeOK'
    <2>1. elapsed' \in Age  BY <1>2, Later_
    <2>2. quiet' \in [Files -> Age]  BY <1>2, Later_ DEF Tick
    <2>3. entry' \in [Files -> Entries \cup {None}]  BY <1>3 DEF Tick
    <2>4. sup' \in [step : {"poll", "look", "read", "scan", "sleep", "kill", "over"},
                    verdict : Files \cup {NoProgress, None}, code : {0, 1, None}]
      BY DEF Tick, Watching, IInv, TypeOK
    <2>5. QED  BY <1>1, <2>1, <2>2, <2>3, <2>4 DEF IInv, TypeOK
  <1>5. FairChance' /\ LimitKept'
    <2>1. /\ sup'.step = "kill" => sup.step = "kill"
          /\ sup.step = "kill" => sup' = sup
          /\ sup.step # "over"
      BY DEF Tick, Watching
    <2>2. FairChance'  BY <1>2, <2>1, Later_ DEF IInv, FairChance
    <2>3. LimitKept'  BY <1>1, <2>1 DEF IInv, LimitKept
    <2>4. QED  BY <2>2, <2>3
  <1>6. StampsOfThisChild'
    <2> SUFFICES ASSUME NEW f \in Files
                 PROVE  /\ entry'[f] # None /\ entry'[f].fresh => entry'[f].age <= elapsed'
                        /\ f \in touched' => quiet'[f] <= elapsed'
      BY DEF StampsOfThisChild
    <2>1. entry[f] \in Entries => entry[f].age \in Age  BY DEF Entries
    <2>2. entry'[f] # None /\ entry'[f].fresh => entry'[f].age <= elapsed'
      <3> SUFFICES ASSUME entry'[f] # None, entry'[f].fresh
                   PROVE  entry'[f].age <= elapsed'
        OBVIOUS
      <3>1. /\ entry[f] \in Entries /\ entry[f].fresh
            /\ entry'[f].age = Later(entry[f].age)
        BY <1>3
      <3>2. entry[f].age <= elapsed
        BY <3>1, SpecialKeys DEF IInv, StampsOfThisChild
      <3>3. QED  BY <1>2, <2>1, <3>1, <3>2, Later_
    <2>3. f \in touched' => quiet'[f] <= elapsed'
      BY <1>1, <1>2, Later_ DEF IInv, StampsOfThisChild
    <2>4. QED  BY <2>2, <2>3
  <1>7. StampsFollowBytes'
    <2> SUFFICES ASSUME NEW f \in Files, entry'[f] # None
                 PROVE  entry'[f].age <= quiet'[f] + MinInterval
      BY DEF StampsFollowBytes
    <2>1. /\ entry[f] \in Entries /\ entry[f] # None /\ entry[f].age \in Age
          /\ entry'[f].age = Later(entry[f].age)
      BY <1>3, SpecialKeys DEF Entries
    <2>2. entry[f].age <= quiet[f] + MinInterval
      BY <2>1 DEF IInv, StampsFollowBytes
    <2>3. QED  BY <1>2, <1>3, <2>1, <2>2, Later_
  <1>8. ThereWhenVerified'
    <2>1. sup.code = 0 => sup.step = "over"  BY DEF IInv, ThereWhenVerified
    <2>2. sup'.code = 0 => sup.code = 0
      BY SpecialKeys DEF Tick, Watching
    <2>3. sup.code # 0  BY <2>1 DEF Tick
    <2>4. QED  BY <1>1, <2>2, <2>3 DEF IInv, ThereWhenVerified
  <1>9. QED  BY <1>4, <1>5, <1>6, <1>7, <1>8 DEF IInv

\* A judgement changes the verdict and its count and nothing else.
LEMMA JudgeStep ==
    ASSUME NEW shown, DOMAIN shown \subseteq Files,
           \A f \in DOMAIN shown : shown[f] \in Entries,
           \A f \in DOMAIN shown : shown[f].fresh => shown[f].age <= elapsed,
           IInv, sup.step \in {"read", "scan"}, Judge(shown), UNCHANGED <<elapsed, transfer>>
    PROVE  IInv'
  <1>1. UNCHANGED <<elapsed, child, work, entry, bytes, quiet, touched, beats>>
    BY DEF transfer
  <1>2. /\ TypeOK /\ RetryLimit \in Nat
        /\ retries \in [Files \cup {NoProgress} -> 0..(RetryLimit + 1)]
        /\ \A k \in Files \cup {NoProgress} : retries[k] <= RetryLimit
    <2>1. /\ TypeOK /\ RetryLimit \in Nat
          /\ retries \in [Files \cup {NoProgress} -> 0..(RetryLimit + 1)]
      BY SupervisorAssumption DEF IInv, TypeOK
    <2>2. \A k \in Files \cup {NoProgress} : ~(retries[k] > RetryLimit)
      BY DEF IInv, LimitKept
    <2>3. QED  BY <2>1, <2>2
  <1>3. StampsOfThisChild' /\ StampsFollowBytes'
    BY <1>1 DEF IInv, StampsOfThisChild, StampsFollowBytes
  <1>4. CASE sup' = Watching("sleep") /\ UNCHANGED retries
    <2>1. TypeOK'  BY <1>1, <1>4 DEF IInv, TypeOK, Watching
    <2>2. FairChance' /\ LimitKept'
      BY <1>2, <1>4 DEF FairChance, LimitKept, Watching
    <2>3. ThereWhenVerified'
      BY <1>1, <1>4, SpecialKeys DEF IInv, ThereWhenVerified, Watching
    <2>4. QED  BY <1>3, <2>1, <2>2, <2>3 DEF IInv
  <1>5. CASE \E key \in Files \cup {NoProgress} :
                /\ retries' = [retries EXCEPT ![key] = @ + 1]
                /\ sup' = [sup EXCEPT !.step = "kill", !.verdict = key]
                /\ elapsed >= Timeout
    <2>1. PICK key \in Files \cup {NoProgress} :
                /\ retries' = [retries EXCEPT ![key] = @ + 1]
                /\ sup' = [sup EXCEPT !.step = "kill", !.verdict = key]
                /\ elapsed >= Timeout
      BY <1>5
    <2>2. /\ retries' \in [Files \cup {NoProgress} -> 0..(RetryLimit + 1)]
          /\ \A k \in Files \cup {NoProgress} : k # key => retries'[k] = retries[k]
      BY <1>2, <2>1
    <2>3. /\ sup' \in [step : {"poll", "look", "read", "scan", "sleep", "kill", "over"},
                       verdict : Files \cup {NoProgress, None}, code : {0, 1, None}]
          /\ sup'.step = "kill" /\ sup'.verdict = key /\ sup'.code = sup.code
      BY <1>2, <2>1 DEF TypeOK
    <2>4. TypeOK'  BY <1>1, <1>2, <2>2, <2>3 DEF TypeOK
    <2>5. FairChance'  BY <1>1, <2>1 DEF FairChance
    <2>6. LimitKept'  BY <1>2, <2>2, <2>3 DEF LimitKept
    <2>7. ThereWhenVerified'  BY <1>1, <2>3 DEF IInv, ThereWhenVerified
    <2>8. QED  BY <1>3, <2>4, <2>5, <2>6, <2>7 DEF IInv
  <1>6. QED  BY <1>2, <1>4, <1>5, JudgeEffect

LEMMA PollStep == IInv /\ (Poll \/ Look) => IInv'
  <1> SUFFICES ASSUME IInv, Poll \/ Look  PROVE IInv'
    OBVIOUS
  <1>1. UNCHANGED <<retries, elapsed, child, work, entry, bytes, quiet, touched, beats>>
    BY DEF Poll, Look, transfer
  <1>2. /\ sup' \in [step : {"poll", "look", "read", "scan", "sleep", "kill", "over"},
                     verdict : Files \cup {NoProgress, None}, code : {0, 1, None}]
        /\ sup.step # "kill" /\ sup'.step # "kill" /\ sup.step # "over"
        /\ sup'.code = 0 => child = "exit 0" /\ sup'.step = "over"
    <2>1. CASE Poll
      <3>1. sup.step = "poll"  BY <2>1 DEF Poll
      <3>2. \/ sup' = [step |-> "look", verdict |-> None, code |-> None]
            \/ child # "exit 0" /\ sup' = [step |-> "over", verdict |-> None, code |-> 1]
            \/ child = "exit 0" /\ sup' = [step |-> "over", verdict |-> None, code |-> 0]
        BY <2>1, Zenon DEF Poll, Watching
      <3>3. CASE sup' = [step |-> "look", verdict |-> None, code |-> None]
        BY <3>1, <3>3, SpecialKeys
      <3>4. CASE child # "exit 0" /\ sup' = [step |-> "over", verdict |-> None, code |-> 1]
        <4>1. sup'.code = 1 /\ sup'.step = "over"  BY <3>4
        <4>2. sup'.code # 0  BY <4>1
        <4>3. sup' \in [step : {"poll", "look", "read", "scan", "sleep", "kill", "over"},
                        verdict : Files \cup {NoProgress, None}, code : {0, 1, None}]
          BY <3>4
        <4>4. QED  BY <3>1, <4>1, <4>2, <4>3
      <3>5. CASE child = "exit 0" /\ sup' = [step |-> "over", verdict |-> None, code |-> 0]
        BY <3>1, <3>5
      <3>6. QED  BY <3>2, <3>3, <3>4, <3>5
    <2>2. CASE Look
      <3>1. sup' = Watching("scan") \/ sup' = Watching("read")  BY <2>2 DEF Look
      <3>2. QED  BY <2>2, <3>1, SpecialKeys DEF Look, Watching
    <2>3. QED  BY <2>1, <2>2
  <1>3. TypeOK'  BY <1>1, <1>2 DEF IInv, TypeOK
  <1>4. FairChance' /\ StampsOfThisChild' /\ StampsFollowBytes'
    BY <1>1, <1>2 DEF IInv, FairChance, StampsOfThisChild, StampsFollowBytes
  <1>5. LimitKept'  BY <1>1, <1>2 DEF IInv, LimitKept
  <1>6. ThereWhenVerified'  BY <1>1, <1>2 DEF IInv, ThereWhenVerified
  <1>7. QED  BY <1>3, <1>4, <1>5, <1>6 DEF IInv

\* A supervisor that ends with a traceback changes nothing else.
LEMMA TracebackStep == IInv /\ Traceback => IInv'
  <1> SUFFICES ASSUME IInv, Traceback  PROVE IInv'
    OBVIOUS
  <1>1. /\ UNCHANGED <<retries, elapsed, child, work, entry, bytes, quiet, touched, beats>>
        /\ sup' = [step |-> "over", verdict |-> None, code |-> None]
    BY DEF Traceback, transfer
  <1>2. TypeOK'  BY <1>1 DEF IInv, TypeOK
  <1>3. FairChance' /\ LimitKept' /\ StampsOfThisChild' /\ StampsFollowBytes'
    BY <1>1 DEF IInv, FairChance, LimitKept, StampsOfThisChild, StampsFollowBytes
  <1>4. ThereWhenVerified'
    BY <1>1, SpecialKeys DEF IInv, ThereWhenVerified
  <1>5. QED  BY <1>2, <1>3, <1>4 DEF IInv

LEMMA ReadStep == IInv /\ Read => IInv'
  <1> SUFFICES ASSUME IInv, Read  PROVE IInv'
    OBVIOUS
  <1>1. CASE Reported = {}
    BY <1>1, TracebackStep DEF Read
  <1>2. CASE Reported # {}
    <2> DEFINE shown == [f \in Reported |-> entry[f]]
    <2>1. /\ DOMAIN shown \subseteq Files
          /\ \A f \in DOMAIN shown : shown[f] \in Entries
          /\ \A f \in DOMAIN shown : shown[f].fresh => shown[f].age <= elapsed
      BY DEF Reported, IInv, TypeOK, StampsOfThisChild
    <2>2. Judge(shown) /\ UNCHANGED <<elapsed, transfer>> /\ sup.step = "read"
      BY <1>2 DEF Read
    <2> HIDE DEF shown
    <2>3. QED  BY <2>1, <2>2, JudgeStep
  <1>3. QED  BY <1>1, <1>2

LEMMA ScanStep == IInv /\ Scan => IInv'
  <1> SUFFICES ASSUME IInv, Scan  PROVE IInv'
    OBVIOUS
  <1> DEFINE shown == [f \in Partials |-> [age |-> quiet[f], fresh |-> f \in touched]]
  <1>1. \A f \in Files : quiet[f] \in Age  BY DEF IInv, TypeOK
  <1>2. DOMAIN shown \subseteq Files  BY DEF Partials
  <1>3. \A f \in DOMAIN shown : shown[f] \in Entries
    BY <1>1, <1>2 DEF Entries
  <1>4. \A f \in DOMAIN shown : shown[f].fresh => shown[f].age <= elapsed
    BY <1>2 DEF IInv, StampsOfThisChild
  <1>5. \/ Traceback
        \/ Judge(shown) /\ UNCHANGED <<elapsed, transfer>> /\ sup.step = "scan"
    BY DEF Scan
  <1> HIDE DEF shown
  <1>6. QED  BY <1>2, <1>3, <1>4, <1>5, JudgeStep, TracebackStep

LEMMA KillStep == IInv /\ Kill => IInv'
  <1> SUFFICES ASSUME IInv, Kill  PROVE IInv'
    OBVIOUS
  <1>1. CASE Quit /\ sup.step = "kill"
    <2>1. /\ UNCHANGED <<retries, elapsed, work, entry, bytes, quiet, touched, beats>>
          /\ child' = "killed"
      BY <1>1 DEF Quit
    <2>2. /\ sup' \in [step : {"poll", "look", "read", "scan", "sleep", "kill", "over"},
                       verdict : Files \cup {NoProgress, None}, code : {0, 1, None}]
          /\ sup'.step = "over" /\ sup'.code = 1
      BY <1>1 DEF Quit, IInv, TypeOK
    <2>3. TypeOK'  BY <2>1, <2>2 DEF IInv, TypeOK
    <2>4. FairChance' /\ LimitKept'  BY <2>2 DEF FairChance, LimitKept
    <2>5. StampsOfThisChild' /\ StampsFollowBytes'
      BY <2>1 DEF IInv, StampsOfThisChild, StampsFollowBytes
    <2>6. ThereWhenVerified'  BY <2>1, <2>2 DEF ThereWhenVerified
    <2>7. QED  BY <2>3, <2>4, <2>5, <2>6 DEF IInv
  <1>2. CASE /\ Spawn /\ sup.step = "kill"
             /\ retries[sup.verdict] <= RetryLimit
    <2>1. /\ UNCHANGED <<retries, bytes, quiet>>
          /\ sup' = Watching("poll") /\ elapsed' = 0 /\ child' = "starting"
          /\ touched' = {} /\ beats' = [f \in Files |-> 0]
          /\ work' = [f \in Files |-> Restarted(f)]
      BY <1>2 DEF Spawn
    <2>2. \A f \in Files :
              \/ entry[f] = None /\ entry'[f] = None
              \/ /\ entry[f] \in Entries /\ entry[f] # None /\ entry'[f] \in Entries
                 /\ entry'[f].age = entry[f].age /\ entry'[f].fresh = FALSE
      <3> SUFFICES ASSUME NEW f \in Files, entry[f] # None
                   PROVE  /\ entry[f] \in Entries /\ entry'[f] \in Entries
                          /\ entry'[f].age = entry[f].age /\ entry'[f].fresh = FALSE
        BY <1>2 DEF Spawn
      <3>1. entry[f] \in Entries  BY DEF IInv, TypeOK
      <3>2. entry'[f] = [entry[f] EXCEPT !.fresh = FALSE]  BY <1>2 DEF Spawn
      <3>3. QED  BY <3>1, <3>2 DEF Entries
    <2>3. TypeOK'
      <3>1. entry' \in [Files -> Entries \cup {None}]
        <4>1. \A f \in Files : entry'[f] \in Entries \cup {None}  BY <2>2
        <4>2. QED  BY <1>2, <4>1 DEF Spawn
      <3>2. elapsed' \in Age /\ beats' \in [Files -> 0..MaxBeats]
        BY <2>1, SupervisorAssumption DEF Age
      <3>3. work' \in [Files -> {"todo", "active", "failed", "done"}]
        BY <2>1 DEF Restarted
      <3>4. QED  BY <2>1, <3>1, <3>2, <3>3 DEF IInv, TypeOK, Watching
    <2>4. FairChance'  BY <2>1 DEF FairChance, Watching
    <2>5. LimitKept'
      <3>0. sup.verdict \in Files \cup {NoProgress}
        BY <1>2 DEF IInv, LimitKept
      <3>k. retries \in [Files \cup {NoProgress} -> 0..(RetryLimit + 1)]
        BY DEF IInv, TypeOK
      <3>1. retries[sup.verdict] \in Nat
        BY <3>0, <3>k, SupervisorAssumption
      <3>2. ~(retries[sup.verdict] > RetryLimit)
        BY <1>2, <3>1, SupervisorAssumption
      <3>3. QED  BY <1>2, <2>1, <3>2 DEF IInv, LimitKept, Watching
    <2>6. StampsOfThisChild'  BY <2>1, <2>2 DEF StampsOfThisChild
    <2>7. StampsFollowBytes'  BY <2>1, <2>2 DEF IInv, StampsFollowBytes
    <2>8. ThereWhenVerified'
      BY <2>1, SpecialKeys DEF ThereWhenVerified, Restarted, Watching
    <2>9. QED  BY <2>3, <2>4, <2>5, <2>6, <2>7, <2>8 DEF IInv
  <1>3. QED  BY <1>1, <1>2, TracebackStep DEF Kill

LEMMA StepIInv == IInv /\ [Next]_vars => IInv'
  <1> SUFFICES ASSUME IInv, [Next]_vars  PROVE IInv'
    OBVIOUS
  <1>1. CASE Next
    <2>1. CASE Supervise
      BY <2>1, PollStep, ReadStep, ScanStep, KillStep DEF Supervise
    <2>2. CASE Child
      BY <2>2, QuietSteps, TrackStep, BeatStep, ReceiveStep, FinishStep, FailStep
      DEF Child
    <2>3. CASE Tick  BY <2>3, TickStep
    <2>4. QED  BY <1>1, <2>1, <2>2, <2>3 DEF Next
  <1>2. CASE UNCHANGED vars
    BY <1>2
    DEF vars, IInv, TypeOK, FairChance, LimitKept, StampsOfThisChild, StampsFollowBytes,
        ThereWhenVerified
  <1>3. QED  BY <1>1, <1>2

LEMMA Inductive == Spec => []IInv
  BY InitIInv, StepIInv, PTL DEF Spec

\* The state has the types that are stated of it.
THEOREM SupervisorTypes == Spec => []TypeOK
  <1>1. IInv => TypeOK  BY DEF IInv
  <1>2. QED  BY <1>1, Inductive, PTL

\* No child is judged by what another child left behind: none is killed before
\* it had the whole timeout.
THEOREM EveryChildHasItsTime == Spec => []FairChance
  <1>1. IInv => FairChance  BY DEF IInv
  <1>2. QED  BY <1>1, Inductive, PTL

\* Exit code 0 stands for a mirror that has every file.
THEOREM ZeroIsEarned == Spec => []ZeroMeansMirrored
  <1>1. IInv => ZeroMeansMirrored
    BY DEF IInv, ThereWhenVerified, ZeroMeansMirrored
  <1>2. QED  BY <1>1, Inductive, PTL

\* What is held against a file is its own silence.
LEMMA BlameStep ==
    ASSUME IInv, [Next]_vars, NEW f \in Files,
           sup.step # "kill", sup'.step = "kill", sup'.verdict = f
    PROVE  quiet[f] + MinInterval >= Timeout
  <1>1. f # NoProgress /\ f # None  BY SpecialKeys
  <1>2. Read \/ Scan
    <2>1. Next  BY DEF vars
    <2>2. sup' # sup  OBVIOUS
    <2>3. Child => UNCHANGED sup
      BY DEF Child, Begin, Transferred, Verify, GiveUp, Track, Beat, Receive, Finish, Fail
    <2>4. ~Kill /\ ~Tick  BY DEF Kill, Tick, Watching
    <2>5. ~Poll /\ ~Look
      <3>1. Poll => sup' = [step |-> "look", verdict |-> None, code |-> None]
                    \/ sup'.step = "over"
        <4>1. ASSUME Poll, ~Running  PROVE sup'.step = "over"
          BY <4>1, Zenon DEF Poll
        <4>2. QED  BY <4>1 DEF Poll, Watching
      <3>2. Look => sup'.step \in {"scan", "read"}  BY DEF Look, Watching
      <3>3. QED  BY <3>1, <3>2
    <2>6. QED  BY <2>1, <2>2, <2>3, <2>4, <2>5 DEF Next, Supervise
  <1>t. ~Traceback  BY DEF Traceback
  <1>3. quiet[f] \in Nat /\ MinInterval \in Nat /\ Timeout \in Nat
    BY Numbers DEF IInv
  <1>4. ASSUME NEW shown, DOMAIN shown \subseteq Files,
               \A g \in DOMAIN shown : shown[g] \in Entries,
               \A g \in DOMAIN shown : shown[g].fresh => shown[g].age <= elapsed,
               Judge(shown)
        PROVE  f \in DOMAIN shown /\ shown[f].age >= Timeout
    <2>1. sup' # Watching("sleep")  BY DEF Watching
    <2>2. PICK key \in Files \cup {NoProgress} :
              /\ sup' = [sup EXCEPT !.step = "kill", !.verdict = key]
              /\ key \in Files => key \in DOMAIN shown /\ shown[key].age >= Timeout
      BY <1>4, <2>1, JudgeEffect DEF IInv
    <2>3. key = f  BY <2>2 DEF IInv, TypeOK
    <2>4. QED  BY <2>2, <2>3
  <1>5. CASE Read
    <2> DEFINE shown == [g \in Reported |-> entry[g]]
    <2>1. /\ DOMAIN shown \subseteq Files
          /\ \A g \in DOMAIN shown : shown[g] \in Entries
          /\ \A g \in DOMAIN shown : shown[g].fresh => shown[g].age <= elapsed
      BY DEF Reported, IInv, TypeOK, StampsOfThisChild
    <2>2. Judge(shown)  BY <1>5, <1>t DEF Read
    <2>3. f \in DOMAIN shown => shown[f] = entry[f] /\ entry[f] # None
      BY DEF Reported
    <2> HIDE DEF shown
    <2>4. entry[f] # None /\ entry[f].age >= Timeout /\ entry[f] \in Entries
      BY <1>4, <2>1, <2>2, <2>3
    <2>5. entry[f].age <= quiet[f] + MinInterval
      BY <2>4 DEF IInv, StampsFollowBytes
    <2>6. entry[f].age \in Nat  BY <1>3, <2>4 DEF Entries, Age
    <2>7. QED  BY <1>3, <2>4, <2>5, <2>6
  <1>6. CASE Scan
    <2> DEFINE shown == [g \in Partials |-> [age |-> quiet[g], fresh |-> g \in touched]]
    <2>1. DOMAIN shown \subseteq Files  BY DEF Partials
    <2>2. \A g \in DOMAIN shown : shown[g] \in Entries
      <3>1. \A g \in Files : quiet[g] \in Age  BY DEF IInv, TypeOK
      <3>2. QED  BY <2>1, <3>1 DEF Entries
    <2>3. \A g \in DOMAIN shown : shown[g].fresh => shown[g].age <= elapsed
      BY <2>1 DEF IInv, StampsOfThisChild
    <2>4. Judge(shown)  BY <1>6, <1>t DEF Scan
    <2>5. f \in DOMAIN shown => shown[f].age = quiet[f]  OBVIOUS
    <2> HIDE DEF shown
    <2>6. quiet[f] >= Timeout  BY <1>4, <2>1, <2>2, <2>3, <2>4, <2>5
    <2>7. QED  BY <1>3, <2>6
  <1>7. QED  BY <1>2, <1>5, <1>6

\* A restart that names a file is due to the silence of that file.
THEOREM BlameIsEarned == Spec => BlamedFileIsQuiet
  <1>1. IInv /\ [Next]_vars
            => [\A f \in Files :
                    sup.step # "kill" /\ sup'.step = "kill" /\ sup'.verdict = f
                        => quiet[f] + MinInterval >= Timeout]_vars
    BY BlameStep
  <1>2. QED  BY <1>1, Inductive, PTL DEF Spec, BlamedFileIsQuiet

=============================================================================
