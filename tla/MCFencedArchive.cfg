SPECIFICATION Spec
CONSTANTS
  c1 = c1
  c2 = c2
  p1 = p1
  p2 = p2
  Commits = {c1, c2}
  NoCommit = NoCommit
  Clis = {p1, p2}
  Seeder = Seeder
  NoProc = NoProc
  Operations = {"publish", "create", "publish-external", "stop", "retire", "repair", "mirror", "verify", "show"}
  MaxCommands = 4
  Touches = TRUE
SYMMETRY MCSymmetry
INVARIANTS TypeOK LockOwned PublishedCommitPinned FenceBacked
PROPERTIES FenceReleasedByRetirement AttachesOnlyPublished KeepsPromise
CHECK_DEADLOCK FALSE
