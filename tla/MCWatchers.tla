------------------------------ MODULE MCWatchers ------------------------------
(***************************************************************************)
(* Instances of the bus and of the agents that watch the others:           *)
(* recovery_agent over its store, resource_guardian, runtime_monitor.      *)
(* They share no state; each behaviour is one of them.                     *)
(***************************************************************************)
EXTENDS BusDirect, Recovery, Guardian, Registry, TLC

CONSTANTS name, h1, h2,        \* an agent and its handlers
          r1, r2, s1,          \* two requests to it and a send
          old, gone,           \* keys
          space,               \* a namespace
          sweep, look,         \* requests to recovery_agent
          agent,               \* the agent that errs
          mine, other,         \* projects
          d1, d2, d3,          \* daemons
          ps                   \* an invocation of `yuxu ps`

VARIABLE part

MCTo == [m \in {r1, r2, s1} |-> name]
MCOp == (sweep :> "gc") @@ (look :> "status")
MCThreshold == ("error" :> 3) @@ ("throttled" :> 2)
MCProject == (d1 :> mine) @@ (d2 :> other) @@ (d3 :> other)
MCUpTimes == {0, 3}

MCInit == /\ Init /\ RecoveryInit /\ GuardianInit /\ RegistryInit
          /\ part \in {"bus", "recovery", "guardian", "registry"}
          /\ part # "recovery" => disk = [s \in Slots |-> None]
          /\ part # "guardian" => uptime = 0

MCNext ==
    /\ UNCHANGED part
    /\ \/ part = "bus" /\ Next /\ UNCHANGED <<recoveryVars, guardianVars, registryVars>>
       \/ part = "recovery" /\ RecoveryNext /\ UNCHANGED <<vars, guardianVars, registryVars>>
       \/ part = "guardian" /\ GuardianNext /\ UNCHANGED <<vars, recoveryVars, registryVars>>
       \/ part = "registry" /\ RegistryNext /\ UNCHANGED <<vars, recoveryVars, guardianVars>>

MCVars == <<vars, recoveryVars, guardianVars, registryVars, part>>

MCSpec == /\ MCInit /\ [][MCNext]_MCVars
          /\ \/ part = "bus" /\ Fairness
             \/ part = "registry" /\ RegistryFairness
             \/ part \in {"recovery", "guardian"}
=============================================================================
