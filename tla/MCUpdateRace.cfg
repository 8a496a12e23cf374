SPECIFICATION Spec
CONSTANTS
  c1 = c1
  c2 = c2
  p1 = p1
  p2 = p2
  Commits = {c1, c2}
  NoCommit = NoCommit
  Clis = {p1, p2}
  Seeder = Seeder
  NoProc = NoProc
  Operations = {"publish", "verify", "update"}
  MaxCommands = 3
  Touches = FALSE
INVARIANT PublishedCommitPinned
CHECK_DEADLOCK FALSE
