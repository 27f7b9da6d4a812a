----------------------------- MODULE MCSupervisor -----------------------------
\* Instances of Supervisor: one agent, started by a client.
EXTENDS Supervisor, TLC

CONSTANTS app,
          u1,           \* the client's call
          h1, h2,       \* heals
          r1, r2        \* the calls of their restarts

MCAgents == {app}
MCDependsOn == [a \in MCAgents |-> {}]
MCMode == [a \in MCAgents |-> "persistent"]
MCRegisters == {app}
MCHooked == {}

\* The client starts the agent once; the supervisor may restart it twice.
TwoHeals == {h1, h2}
TwoCalls == {u1, r1, r2}
TwoTarget == [c \in TwoCalls |-> app]
TwoSubs == [c \in TwoCalls |-> {}]
TwoOrder == [s \in TwoHeals |-> <<app>>]
TwoThen == [s \in TwoHeals |-> IF s = h1 THEN r1 ELSE r2]

ImportOnly == [a \in MCAgents |-> {"import"}]
SlowFaults == [a \in MCAgents |-> {"timeout", "import"}]
=============================================================================
