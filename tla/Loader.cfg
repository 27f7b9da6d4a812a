\* A start, and a restart or a cascading stop of the same agent, whose dependencies
\* crash, time out and fail to import.
SPECIFICATION MCSpec
CONSTANTS
  app = app
  dep = dep
  lib = lib
  one = one
  tool = tool
  util = util
  svc = svc
  u1 = u1
  u1d = u1d
  u1x = u1x
  r1 = r1
  r1d = r1d
  r1x = r1x
  k1 = k1
  k2 = k2
  k3 = k3
  v1 = v1
  v2 = v2
  v3 = v3
  s1 = s1
  s2 = s2
  s3 = s3
  None = None
  Agents <- MCAgents
  DependsOn <- MCDependsOn
  Mode <- MCMode
  Registers <- MCRegisters
  Hooked <- MCHooked
  Calls <- MCCalls
  Target <- MCTarget
  Subs <- MCSubs
  Stops <- MCStops
  StopOrder <- MCStopOrder
  Then <- MCThen
  Faults <- MCFaults
INVARIANTS
  IInv
  Idempotent
  DependenciesFirst
  LiveIsTracked
  ReadyIsReachable
PROPERTIES
  CallsEnd
