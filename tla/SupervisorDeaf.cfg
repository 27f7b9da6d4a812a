\* AGENT.md:10-11, refuted by a restart that fails.
SPECIFICATION SupSpec
CONSTANTS
  app = app
  u1 = u1
  h1 = h1
  h2 = h2
  r1 = r1
  r2 = r2
  None = None
  Agents <- MCAgents
  DependsOn <- MCDependsOn
  Mode <- MCMode
  Registers <- MCRegisters
  Hooked <- MCHooked
  Calls <- TwoCalls
  Target <- TwoTarget
  Subs <- TwoSubs
  Stops <- TwoHeals
  StopOrder <- TwoOrder
  Then <- TwoThen
  Faults <- ImportOnly
  Heals <- TwoHeals
  MaxRestarts = 2
  Window = 1
  MaxTime = 0
INVARIANTS
  FailureIsAnswered
\* Every client may have got its answer and the clock its bound.
CHECK_DEADLOCK FALSE
