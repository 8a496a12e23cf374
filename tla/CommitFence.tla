----------------------------- MODULE CommitFence -----------------------------
(***************************************************************************)
(* What a publication promises about an archive: from the moment the fence *)
(* is set until the publication is retired, the canonical path holds the   *)
(* commit that was published.  Commands, the seeder, locks, records and    *)
(* failures are all below this level.                                      *)
(***************************************************************************)
CONSTANTS Commits, NoCommit

VARIABLES
    fence,   \* the published commit, or NoCommit
    commit   \* the commit the canonical path holds

fencevars == <<fence, commit>>

Init == fence = NoCommit /\ commit \in Commits

\* What is published is what the path holds.
Publish == fence = NoCommit /\ fence' = commit /\ UNCHANGED commit

Retire == fence # NoCommit /\ fence' = NoCommit /\ UNCHANGED commit

\* Only an archive without a publication moves to another commit.
Update == fence = NoCommit /\ commit' \in Commits /\ UNCHANGED fence

Next == Publish \/ Retire \/ Update

Spec == Init /\ [][Next]_fencevars

=============================================================================
