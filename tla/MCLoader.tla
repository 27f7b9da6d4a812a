------------------------------- MODULE MCLoader -------------------------------
\* An instance of Loader: `app`, which is stopped and restarted, depends on `dep`,
\* which only crashes and registers no handler, and on `lib`, which has no code; `svc`
\* neither crashes nor is late.  Scripts say which clients there are in a behaviour.
EXTENDS Loader, TLC

CONSTANTS app, dep, lib, one, tool, util, svc,
          u1, u1d, u1x,   \* a client's call for app, those it gathers for dep and lib
          r1, r1d, r1x,   \* the second half of a restart of app
          k1, k2, k3,     \* calls for a skill, a one-shot agent, one without a task
          v1, v2, v3,     \* two calls for svc, the second half of its restart
          s1, s2, s3      \* a stop, a restart, a restart of svc

MCAgents == {app, dep, lib, one, tool, util, svc}
MCDependsOn == [a \in MCAgents |-> IF a = app THEN {dep, lib} ELSE {}]
MCMode == [a \in MCAgents |-> CASE a = lib -> "inert" [] a = tool -> "skill"
                                [] a = one -> "oneshot" [] a = util -> "sync"
                                [] OTHER -> "persistent"]
MCRegisters == {app, util, svc}
MCHooked == {app}
MCFaults == [a \in MCAgents |-> CASE a = app -> {"timeout", "import"}
                                  [] a = one -> {"crash", "timeout", "import"}
                                  [] a = svc -> {"import"}
                                  [] OTHER -> {"crash", "import"}]

\* Where StoppedIsDead fails: every agent may be late.
LateFaults == [a \in MCAgents |-> {"timeout"}]

MCCalls == {u1, u1d, u1x, r1, r1d, r1x, k1, k2, k3, v1, v2, v3}
MCTarget == [c \in MCCalls |-> CASE c \in {u1, r1} -> app [] c \in {u1d, r1d} -> dep
                                 [] c \in {u1x, r1x} -> lib
                                 [] c = k1 -> tool [] c = k2 -> one [] c = k3 -> util
                                 [] OTHER -> svc]
MCSubs == [c \in MCCalls |-> CASE c = u1 -> {u1d, u1x} [] c = r1 -> {r1d, r1x}
                               [] OTHER -> {}]
MCStops == {s1, s2, s3}
MCStopOrder == [s \in MCStops |-> CASE s = s1 -> <<app, lib>> [] s = s2 -> <<app>>
                                         [] s = s3 -> <<svc>>]
MCThen == [s \in MCStops |-> CASE s = s1 -> None [] s = s2 -> r1 [] s = s3 -> v3]

\* A client starts app while another restarts it, or stops lib and, with it, app; two
\* start svc while a third restarts it.
VARIABLE script

Scripts == {{u1, s2}, {u1, s1}, {k1}, {k2}, {k3}, {v1, v2, s3}}
Begun == {c \in RootCalls : call[c] # "idle"} \cup {s \in Stops : stop[s] # "idle"}

MCInit == Init /\ script \in Scripts
MCNext == Next /\ Begun' \subseteq script /\ UNCHANGED script
MCSpec == MCInit /\ [][MCNext]_<<loaderVars, script>> /\ LoaderFairness
=============================================================================
