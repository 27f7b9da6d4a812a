\* Failures, the restart budget and a moving clock.
SPECIFICATION SupSpec
CONSTANTS
  app = app
  u1 = u1
  h1 = h1
  h2 = h2
  r1 = r1
  r2 = r2
  None = None
  Agents <- MCAgents
  DependsOn <- MCDependsOn
  Mode <- MCMode
  Registers <- MCRegisters
  Hooked <- MCHooked
  Calls <- TwoCalls
  Target <- TwoTarget
  Subs <- TwoSubs
  Stops <- TwoHeals
  StopOrder <- TwoOrder
  Then <- TwoThen
  Faults <- SlowFaults
  Heals <- TwoHeals
  MaxRestarts = 1
  Window = 1
  MaxTime = 2
INVARIANTS
  RestartBudget
  FirstFailureSeen
PROPERTIES
  GiveUpIsEarned
\* Every client may have got its answer and the clock its bound.
CHECK_DEADLOCK FALSE
