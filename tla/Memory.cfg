SPECIFICATION Spec
CONSTANTS
  a = a
  b = b
  c = c
  r1 = r1
  r2 = r2
  project = project
  sub = sub
  kept = kept
  gone = gone
  Targets = {a, b, c}
  Roots = {project, sub}
  Under <- UnderRoot
  Nothing = Nothing
  Topics = {"old", "new", "bare"}
  Sessions = {kept, gone}
  NoSession = NoSession
  Archived = {kept}
  Limit = 1
  Threshold = 2
  Runs = {r1, r2}
  NotesCap = 3
  Scripts <- All
INVARIANTS
  NoRepeats
  ProbationEarned
  OneStepPerWindow
PROPERTIES
  NeverLost
  Admitted
CHECK_DEADLOCK FALSE
