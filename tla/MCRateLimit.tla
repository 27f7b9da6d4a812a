----------------------------- MODULE MCRateLimit ------------------------------
\* Instances of RateLimit.
EXTENDS RateLimit, TLC

CONSTANTS x, y, anon,       \* agents
          w1, w2, w3, w4    \* callers

MCAgents == {x, y, anon}
MCRank == [a \in MCAgents |-> CASE a = x -> 1 [] a = y -> 2 [] a = anon -> 0]
MCWeight == [a \in MCAgents |-> IF a = x THEN 2 ELSE 1]

\* Two callers of x that are alike, one of y, one retry of y.
LaneCallers == {w1, w2, w3, w4}
LaneAgent == [w \in LaneCallers |-> IF w \in {w1, w2} THEN x ELSE y]
LaneLane == [w \in LaneCallers |-> IF w = w4 THEN "retry" ELSE "normal"]
LaneHint == [w \in LaneCallers |-> 0]

Killable == {w2, w4}
\* Everybody runs out of time.
ShortTimeout == [w \in LaneCallers |-> 1]

\* One caller of y and three of x: two alike, which run out of time, and a third with
\* another hint, which has all the time there is.
QueueAgent == [w \in LaneCallers |-> IF w = w4 THEN y ELSE x]
QueueLane == [w \in LaneCallers |-> "normal"]
QueueHint == [w \in LaneCallers |-> IF w = w3 THEN 1 ELSE 0]
QueueTimeout == [w \in LaneCallers |-> IF w \in {w1, w2} THEN 1 ELSE 9]

\* w1 and w2 differ in nothing: w1 is the name of the one that comes first.
QueueNext == Next /\ (pc'[w2] # "idle" => pc[w1] # "idle")
QueueSpec == Init /\ [][QueueNext]_vars /\ Fairness

Nobody == {}
MCCosts == {3}
=============================================================================
