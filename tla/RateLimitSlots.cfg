\* Two accounts in turn, each with one slot and two calls per window; callers time out, two may be cancelled.
SPECIFICATION Spec
CONSTANTS
  x = x
  y = y
  anon = anon
  w1 = w1
  w2 = w2
  w3 = w3
  w4 = w4
  None = None
  Callers <- LaneCallers
  Agents <- MCAgents
  Anon = anon
  AgentOf <- LaneAgent
  Lane <- LaneLane
  Hint <- LaneHint
  Timeout <- ShortTimeout
  Cancellable <- Killable
  Rank <- MCRank
  Weight <- MCWeight
  NumAccounts = 2
  MaxConcurrent = 1
  Rpm = 2
  Strategy = "round_robin"
  Window = 1
  Costs <- MCCosts
  MaxTime = 1
INVARIANTS
  RpmKept
PROPERTIES
  ImplementsPermits
