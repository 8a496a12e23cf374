SPECIFICATION Spec
CONSTANTS
  c1 = c1
  c2 = c2
  kept = kept
  gone = gone
  new = new
  v1 = v1
  v2 = v2
  Commits = {c1, c2}
  NoCommit = NoCommit
  Paths = {kept, gone, new}
  Versions = {v1, v2}
  Absent = Absent
  Torn = Torn
  Edited = Edited
  Rotten = Rotten
  Snapshot <- MCSnapshot
  MaxCommands = 4
  MaxFaults = 1
CHECK_DEADLOCK FALSE
INVARIANTS CleanEarned ManifestHonest TransfersCure PlanFollowsRepair
PROPERTY MutationAnnounced
