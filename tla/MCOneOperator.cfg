SPECIFICATION FairSpec
CONSTANTS
  c1 = c1
  c2 = c2
  p1 = p1
  Commits = {c1, c2}
  NoCommit = NoCommit
  Clis = {p1}
  Seeder = Seeder
  NoProc = NoProc
  Operations = {"publish", "create", "stop", "retire", "repair", "update", "mirror", "verify"}
  MaxCommands = 4
  Touches = FALSE
INVARIANTS AttachmentReported DetachedUnlessMissed SeedIntentSurvives
PROPERTIES StopDetaches SeedAttaches
CHECK_DEADLOCK FALSE
