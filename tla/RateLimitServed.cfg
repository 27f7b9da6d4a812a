\* One slot; two callers alike run out of time and take each other's waiter along, a third
\* of their agent and one of another have all the time there is.
SPECIFICATION QueueSpec
CONSTANTS
  x = x
  y = y
  anon = anon
  w1 = w1
  w2 = w2
  w3 = w3
  w4 = w4
  None = None
  Callers <- LaneCallers
  Agents <- MCAgents
  Anon = anon
  AgentOf <- QueueAgent
  Lane <- QueueLane
  Hint <- QueueHint
  Timeout <- QueueTimeout
  Cancellable <- Nobody
  Rank <- MCRank
  Weight <- MCWeight
  NumAccounts = 1
  MaxConcurrent = 1
  Rpm = None
  Strategy = "least_load"
  Window = 1
  Costs <- MCCosts
  MaxTime = 1
INVARIANTS
  NoOvertaking
PROPERTIES
  Served
