\* Direct messaging, the garbage of checkpoints, bursts of errors, the registry of daemons.
SPECIFICATION MCSpec
CONSTANTS
  name = name
  h1 = h1
  h2 = h2
  r1 = r1
  r2 = r2
  s1 = s1
  old = old
  gone = gone
  space = space
  sweep = sweep
  look = look
  agent = agent
  mine = mine
  other = other
  d1 = d1
  d2 = d2
  d3 = d3
  ps = ps
  NoHandler = NoHandler
  Names = {name}
  Handlers = {h1, h2}
  Requests = {r1, r2}
  Sends = {s1}
  To <- MCTo
  Spaces = {space}
  Keys = {old, gone}
  Jobs = {sweep, look}
  Op <- MCOp
  Cutoff = 1
  MaxTime = 1
  Undated = Undated
  None = None
  Named = {agent}
  Unknown = Unknown
  Window = 2
  Threshold <- MCThreshold
  UpTimes <- MCUpTimes
  LastTime = 7
  MaxEvents = 4
  Projects = {mine, other}
  Daemons = {d1, d2, d3}
  Listers = {ps}
  Project <- MCProject
  Keeper = d1
  Free = Free
INVARIANTS
  PendingMatchesCallers
  BurstWarnedOnce
PROPERTIES
  RequestsReturn
  ImplementsRpc
  OldOrSavedSince
  DeadAreCleared
\* The clocks stop at their bounds and processes come to an end.
CHECK_DEADLOCK FALSE
