-------------------------------- MODULE Loader --------------------------------
(***************************************************************************)
(* Agent lifecycle: Loader.ensure_running, stop and restart                *)
(* (core/loader.py) over the status board of the bus (core/bus.py).        *)
(*                                                                         *)
(* Every invocation of ensure_running is a member of Calls; Subs gives the *)
(* invocations it makes for the dependencies of its agent, and the start() *)
(* an invocation runs is named by the invocation itself, so that inst[c]   *)
(* is the life of the coroutine that call c created.  Members of Stops are *)
(* invocations of stop; one with a continuation Then[s] is a restart.      *)
(*                                                                         *)
(* A step is what the event loop runs between two suspensions; an          *)
(* operation that is about to run is taken to be suspended.                *)
(***************************************************************************)
EXTENDS Naturals, Sequences

CONSTANTS Agents,
          DependsOn,  \* depends_on of every agent
          Mode,       \* what starting the agent amounts to
          Registers,  \* agents whose start registers a handler on the bus
          Hooked,     \* agents whose module has a stop(ctx) function
          Calls,      \* invocations of ensure_running
          Target,     \* the agent a call is for
          Subs,       \* the calls it gathers, one for each dependency
          Stops,      \* invocations of stop and restart
          StopOrder,  \* the agents they stop, dependents first
          Then,       \* the call a restart goes on with
          None,       \* no call
          Faults      \* what each agent may do wrong in this instance

ASSUME LoaderAssumption ==
    /\ DependsOn \in [Agents -> SUBSET Agents]
    /\ Mode \in [Agents -> {"persistent", "oneshot", "sync", "inert", "skill"}]
    /\ Registers \subseteq Agents
    /\ Hooked \subseteq Agents
    /\ Target \in [Calls -> Agents]
    /\ Subs \in [Calls -> SUBSET Calls]
    /\ \A c \in Calls : \A d, e \in Subs[c] : Target[d] = Target[e] => d = e
    /\ \A c, d \in Calls : c # d => Subs[c] \cap Subs[d] = {}
    /\ \A s, t \in Stops : Then[s] = Then[t] /\ Then[s] # None => s = t
    /\ \A s \in Stops : \A c \in Calls : Then[s] \notin Subs[c]
    /\ \A c \in Calls : {Target[d] : d \in Subs[c]} = DependsOn[Target[c]]
    /\ StopOrder \in [Stops -> Seq(Agents)]
    /\ \A s \in Stops : StopOrder[s] # <<>>
    /\ Then \in [Stops -> Calls \cup {None}]
    /\ None \notin Calls
    /\ Faults \in [Agents -> SUBSET {"crash", "timeout", "import"}]

VARIABLES status,   \* Bus._status
          lock,     \* Loader._locks: which call is inside `async with lock`
          call,     \* where each invocation of ensure_running is
          got,      \* the status it returned
          woken,    \* calls whose wait_for_service event was set
          inst,     \* the start() coroutine each call created
          tasks,    \* Loader.tasks
          loaded,   \* Loader.modules
          handler,  \* Bus._handlers: which instance's handler is registered
          stop,     \* where each invocation of stop is
          at,       \* the agent of StopOrder it is at
          changes   \* undelivered _meta.state_change {state: failed} per agent

loaderVars == <<status, lock, call, got, woken, inst, tasks, loaded, handler,
                stop, at, changes>>

States == {"unloaded", "loading", "ready", "running", "failed", "stopped"}
Up     == {"ready", "running"}
Waking == {"ready", "running", "failed", "stopped"}   \* the states that set the event

\* The calls that nothing but a client makes.
RootCalls == {c \in Calls : /\ \A d \in Calls : c \notin Subs[d]
                            /\ \A s \in Stops : Then[s] # c}

\* Inside the lock of its agent.
Inside == {"deps", "wait", "oneshot", "logging", "failing"}

TypeOK == /\ status \in [Agents -> States]
          /\ lock \in [Agents -> Calls \cup {None}]
          /\ call \in [Calls -> Inside \cup {"idle", "lock", "done", "raised"}]
          /\ got \in [Calls -> States]
          /\ woken \subseteq Calls
          /\ inst \in [Calls -> {"none", "booting", "attached", "serving",
                                 "returned", "crashed", "buried", "cancelled"}]
          /\ tasks \in [Agents -> Calls \cup {None}]
          /\ loaded \subseteq Agents
          /\ handler \in [Agents -> Calls \cup {None}]
          /\ stop \in [Stops -> {"idle", "enter", "hook", "join", "ending", "done"}]
          /\ at \in [Stops -> Nat]
          /\ \A s \in Stops : at[s] \in 1..Len(StopOrder[s])
          /\ changes \in [Agents -> Nat]

Init == /\ status = [a \in Agents |-> "unloaded"]
        /\ lock = [a \in Agents |-> None]
        /\ call = [c \in Calls |-> "idle"]
        /\ got = [c \in Calls |-> "unloaded"]
        /\ woken = {}
        /\ inst = [c \in Calls |-> "none"]
        /\ tasks = [a \in Agents |-> None]
        /\ loaded = {}
        /\ handler = [a \in Agents |-> None]
        /\ stop = [s \in Stops |-> "idle"]
        /\ at = [s \in Stops |-> 1]
        /\ changes = [a \in Agents |-> 0]

-----------------------------------------------------------------------------
(***************************************************************************)
(* Bus.publish_status: the board, the event that wait_for_service waits    *)
(* on, and the notification of the subscribers of _meta.state_change.      *)
(***************************************************************************)
PublishStatus(a, state) ==
    /\ status' = [status EXCEPT ![a] = state]
    /\ woken' = IF state \in Waking
                THEN woken \cup {c \in Calls : call[c] = "wait" /\ Target[c] = a}
                ELSE woken
    /\ changes' = IF state = "failed" THEN [changes EXCEPT ![a] = @ + 1] ELSE changes

-----------------------------------------------------------------------------
(* ensure_running and _start *)

Begin(c) == /\ call[c] = "idle"
            /\ call' = [call EXCEPT ![c] = "lock"]
            /\ UNCHANGED <<status, lock, got, woken, inst, tasks, loaded, handler,
                           stop, at, changes>>

\* _start up to its first suspension.  The caller holds the lock; starting a
\* skill never suspends and so returns at once.  A start() that is a plain function
\* has run by then, and so has a module that has none.
Start(c) ==
    LET a == Target[c] IN
    \/ /\ Mode[a] = "persistent"
       /\ lock' = [lock EXCEPT ![a] = c]
       /\ call' = [call EXCEPT ![c] = "wait"]
       /\ inst' = [inst EXCEPT ![c] = "booting"]
       /\ tasks' = [tasks EXCEPT ![a] = c]
       /\ loaded' = loaded \cup {a}
       /\ PublishStatus(a, "loading")
       /\ UNCHANGED <<got, handler>>
    \/ /\ Mode[a] = "oneshot"
       /\ lock' = [lock EXCEPT ![a] = c]
       /\ call' = [call EXCEPT ![c] = "oneshot"]
       /\ inst' = [inst EXCEPT ![c] = "booting"]
       /\ loaded' = loaded \cup {a}
       /\ PublishStatus(a, "loading")
       /\ UNCHANGED <<got, tasks, handler>>
    \/ /\ Mode[a] = "sync"
       /\ lock' = [lock EXCEPT ![a] = c]
       /\ call' = [call EXCEPT ![c] = "logging"]
       /\ handler' = IF a \in Registers THEN [handler EXCEPT ![a] = c] ELSE handler
       /\ loaded' = loaded \cup {a}
       /\ PublishStatus(a, "ready")
       /\ UNCHANGED <<got, inst, tasks>>
    \/ /\ Mode[a] = "inert"
       /\ lock' = [lock EXCEPT ![a] = c]
       /\ call' = [call EXCEPT ![c] = "logging"]
       /\ PublishStatus(a, "ready")
       /\ UNCHANGED <<got, inst, tasks, loaded, handler>>
    \/ /\ Mode[a] = "skill"
       /\ lock' = [lock EXCEPT ![a] = None]
       /\ call' = [call EXCEPT ![c] = "done"]
       /\ got' = [got EXCEPT ![c] = "ready"]
       /\ handler' = [handler EXCEPT ![a] = c]
       /\ loaded' = loaded \cup {a}
       /\ PublishStatus(a, "ready")
       /\ UNCHANGED <<inst, tasks>>
    \/ /\ "import" \in Faults[a]
       /\ Mode[a] # "inert"
       /\ lock' = [lock EXCEPT ![a] = c]
       /\ call' = [call EXCEPT ![c] = "failing"]
       /\ PublishStatus(a, "failed")
       /\ UNCHANGED <<got, inst, tasks, loaded, handler>>

\* Fault: the status is not looked at again once the lock is granted.
AcquireBlindly(c) ==
    LET a == Target[c] IN
    /\ call[c] = "lock"
    /\ lock[a] = None
    /\ UNCHANGED <<stop, at>>
    /\ \/ /\ Subs[c] # {}
          /\ lock' = [lock EXCEPT ![a] = c]
          /\ call' = [d \in Calls |-> IF d = c THEN "deps"
                                      ELSE IF d \in Subs[c] THEN "lock" ELSE call[d]]
          /\ UNCHANGED <<status, got, woken, inst, tasks, loaded, handler, changes>>
       \/ /\ Subs[c] = {}
          /\ Start(c)

\* The lock is granted: an agent that is up is left alone, otherwise its
\* dependencies are gathered, under the lock.
Acquire(c) ==
    LET a == Target[c] IN
    /\ call[c] = "lock"
    /\ lock[a] = None
    /\ UNCHANGED <<stop, at>>
    /\ \/ /\ status[a] \in Up
          /\ call' = [call EXCEPT ![c] = "done"]
          /\ got' = [got EXCEPT ![c] = status[a]]
          /\ UNCHANGED <<status, lock, woken, inst, tasks, loaded, handler, changes>>
       \/ /\ status[a] \notin Up
          /\ Subs[c] # {}
          /\ lock' = [lock EXCEPT ![a] = c]
          /\ call' = [d \in Calls |-> IF d = c THEN "deps"
                                      ELSE IF d \in Subs[c] THEN "lock" ELSE call[d]]
          /\ UNCHANGED <<status, got, woken, inst, tasks, loaded, handler, changes>>
       \/ /\ status[a] \notin Up
          /\ Subs[c] = {}
          /\ Start(c)

\* Fault: the dependencies are started but not awaited.
DepsLaunched(c) == /\ call[c] = "deps"
                   /\ \A d \in Subs[c] : call[d] # "raised"
                   /\ Start(c)
                   /\ UNCHANGED <<stop, at>>

DepsReady(c) == /\ call[c] = "deps"
                /\ \A d \in Subs[c] : call[d] = "done"
                /\ Start(c)
                /\ UNCHANGED <<stop, at>>

\* Fault: a failing dependency leaves the lock held.
DepsFailedHolding(c) == /\ call[c] = "deps"
                        /\ \E d \in Subs[c] : call[d] = "raised"
                        /\ call' = [call EXCEPT ![c] = "raised"]
                        /\ UNCHANGED <<status, lock, got, woken, inst, tasks, loaded,
                                       handler, stop, at, changes>>

\* gather raises the first failure; the other calls run on.  The exception
\* leaves ensure_running before _start, so nothing is published for the agent.
DepsFailed(c) == /\ call[c] = "deps"
                 /\ \E d \in Subs[c] : call[d] = "raised"
                 /\ call' = [call EXCEPT ![c] = "raised"]
                 /\ lock' = [lock EXCEPT ![Target[c]] = None]
                 /\ UNCHANGED <<status, got, woken, inst, tasks, loaded, handler,
                                stop, at, changes>>

\* wait_for_service returns or raises by the status it finds when it wakes.
Wake(c) == /\ call[c] = "wait"
           /\ c \in woken
           /\ IF status[Target[c]] \in Up
              THEN /\ call' = [call EXCEPT ![c] = "logging"]
                   /\ UNCHANGED <<status, woken, changes>>
              ELSE /\ call' = [call EXCEPT ![c] = "failing"]
                   /\ PublishStatus(Target[c], "failed")
           /\ UNCHANGED <<lock, got, inst, tasks, loaded, handler, stop, at>>

\* Fault: the timeout is swallowed and the wait begins again.
TimeoutSwallowed(c) == /\ "timeout" \in Faults[Target[c]]
                       /\ call[c] = "wait"
                       /\ c \notin woken
                       /\ UNCHANGED loaderVars

\* ready_timeout: the coroutine is neither cancelled nor forgotten.
ReadyTimeout(c) == /\ "timeout" \in Faults[Target[c]]
                   /\ call[c] = "wait"
                   /\ c \notin woken
                   /\ call' = [call EXCEPT ![c] = "failing"]
                   /\ PublishStatus(Target[c], "failed")
                   /\ UNCHANGED <<lock, got, inst, tasks, loaded, handler, stop, at>>

\* The lifecycle line is written; the lock is released.
Return(c) == /\ call[c] = "logging"
             /\ call' = [call EXCEPT ![c] = "done"]
             /\ got' = [got EXCEPT ![c] = status[Target[c]]]
             /\ lock' = [lock EXCEPT ![Target[c]] = None]
             /\ UNCHANGED <<status, woken, inst, tasks, loaded, handler, stop, at,
                            changes>>

\* The session end is written; the exception propagates out of the lock.
Raise(c) == /\ call[c] = "failing"
            /\ call' = [call EXCEPT ![c] = "raised"]
            /\ lock' = [lock EXCEPT ![Target[c]] = None]
            /\ UNCHANGED <<status, got, woken, inst, tasks, loaded, handler, stop, at,
                           changes>>

-----------------------------------------------------------------------------
(* The agents' own code: start(ctx) as a task, or awaited by a one-shot call *)

Starting(c) == inst[c] \in {"booting", "attached"}
Live(c)     == Starting(c) \/ inst[c] = "serving"

\* start registers the agent's handler, and may then await what its agent needs
\* (gateway its adapters, scheduler its loops) before it is ready.
Attach(c) == /\ inst[c] = "booting"
             /\ Target[c] \in Registers
             /\ inst' = [inst EXCEPT ![c] = "attached"]
             /\ handler' = [handler EXCEPT ![Target[c]] = c]
             /\ UNCHANGED <<status, lock, call, got, woken, tasks, loaded, stop, at,
                            changes>>

\* start calls ctx.ready(), with no handler if it registers none (dashboard).
Ready(c) == /\ inst[c] = IF Target[c] \in Registers THEN "attached" ELSE "booting"
            /\ inst' = [inst EXCEPT ![c] = "serving"]
            /\ PublishStatus(Target[c], "ready")
            /\ UNCHANGED <<lock, call, got, tasks, loaded, handler, stop, at>>

\* start of a persistent agent returns: the task is done, nothing is published.
\* One that returns without ctx.ready() runs into its ready_timeout.
TaskReturns(c) == /\ \/ inst[c] = "serving"
                     \/ Starting(c) /\ "timeout" \in Faults[Target[c]]
                  /\ Mode[Target[c]] = "persistent"
                  /\ inst' = [inst EXCEPT ![c] = "returned"]
                  /\ UNCHANGED <<status, lock, call, got, woken, tasks, loaded,
                                 handler, stop, at, changes>>

TaskCrashes(c) == /\ "crash" \in Faults[Target[c]]
                  /\ Live(c)
                  /\ Mode[Target[c]] = "persistent"
                  /\ inst' = [inst EXCEPT ![c] = "crashed"]
                  /\ UNCHANGED <<status, lock, call, got, woken, tasks, loaded,
                                 handler, stop, at, changes>>

\* _on_task_done's task: it publishes for the agent, whichever instance of it
\* crashed.
HandleTaskCrash(c) == /\ inst[c] = "crashed"
                      /\ inst' = [inst EXCEPT ![c] = "buried"]
                      /\ PublishStatus(Target[c], "failed")
                      /\ UNCHANGED <<lock, call, got, tasks, loaded, handler, stop, at>>

\* A one-shot start returns to the call that awaits it.
OneShotReturns(c) ==
    LET a == Target[c] IN
    /\ call[c] = "oneshot"
    /\ call' = [call EXCEPT ![c] = "logging"]
    /\ inst' = [inst EXCEPT ![c] = "returned"]
    /\ IF status[a] \in Up \cup {"stopped"}
       THEN UNCHANGED <<status, woken, changes>>
       ELSE PublishStatus(a, "ready")
    /\ UNCHANGED <<lock, got, tasks, loaded, handler, stop, at>>

\* It raises, or is cancelled by wait_for at the ready_timeout.
OneShotFails(c) == /\ call[c] = "oneshot"
                   /\ \/ /\ "crash" \in Faults[Target[c]]
                         /\ inst' = [inst EXCEPT ![c] = "buried"]
                      \/ /\ "timeout" \in Faults[Target[c]]
                         /\ inst' = [inst EXCEPT ![c] = "cancelled"]
                   /\ call' = [call EXCEPT ![c] = "failing"]
                   /\ PublishStatus(Target[c], "failed")
                   /\ UNCHANGED <<lock, got, tasks, loaded, handler, stop, at>>

-----------------------------------------------------------------------------
(* stop and restart: no step of theirs takes the agent's lock *)

Stopping(s) == StopOrder[s][at[s]]

StopBegins(s) == /\ stop[s] = "idle"
                 /\ stop' = [stop EXCEPT ![s] = "enter"]
                 /\ UNCHANGED <<status, lock, call, got, woken, inst, tasks, loaded,
                                handler, at, changes>>

CallHook(s) == /\ stop[s] = "enter"
               /\ Stopping(s) \in loaded \cap Hooked
               /\ stop' = [stop EXCEPT ![s] = "hook"]
               /\ UNCHANGED <<status, lock, call, got, woken, inst, tasks, loaded,
                              handler, at, changes>>

\* Fault: the handler is unregistered before the task is over.
DetachUnregistering(s) ==
    LET a == Stopping(s)
        t == tasks[a]
    IN /\ \/ stop[s] = "hook"
          \/ stop[s] = "enter" /\ a \notin loaded \cap Hooked
       /\ tasks' = [tasks EXCEPT ![a] = None]
       /\ handler' = [handler EXCEPT ![a] = None]
       /\ IF t # None /\ Live(t)
          THEN /\ inst' = [inst EXCEPT ![t] = "cancelled"]
               /\ stop' = [stop EXCEPT ![s] = "join"]
               /\ UNCHANGED <<status, woken, changes>>
          ELSE /\ stop' = [stop EXCEPT ![s] = "ending"]
               /\ PublishStatus(a, "stopped")
               /\ UNCHANGED inst
       /\ UNCHANGED <<lock, call, got, loaded, at>>

\* The hook returned, raised or ran out of its ten seconds, or there is none:
\* the agent's task is popped and, if it still runs, cancelled and awaited;
\* otherwise stop goes on to MarkStopped without a suspension.
Detach(s) ==
    LET a == Stopping(s)
        t == tasks[a]
    IN /\ \/ stop[s] = "hook"
          \/ stop[s] = "enter" /\ a \notin loaded \cap Hooked
       /\ tasks' = [tasks EXCEPT ![a] = None]
       /\ IF t # None /\ Live(t)
          THEN /\ inst' = [inst EXCEPT ![t] = "cancelled"]
               /\ stop' = [stop EXCEPT ![s] = "join"]
               /\ UNCHANGED <<status, woken, handler, changes>>
          ELSE /\ handler' = [handler EXCEPT ![a] = None]
               /\ stop' = [stop EXCEPT ![s] = "ending"]
               /\ PublishStatus(a, "stopped")
               /\ UNCHANGED inst
       /\ UNCHANGED <<lock, call, got, loaded, at>>

\* The cancelled task is over: unregister, publish, write the session end.
MarkStopped(s) ==
    LET a == Stopping(s)
    IN /\ stop[s] = "join"
       /\ handler' = [handler EXCEPT ![a] = None]
       /\ stop' = [stop EXCEPT ![s] = "ending"]
       /\ PublishStatus(a, "stopped")
       /\ UNCHANGED <<lock, call, got, inst, tasks, loaded, at>>

\* On to the next agent of a cascade, or to the second half of a restart.
StopEnds(s) ==
    /\ stop[s] = "ending"
    /\ IF at[s] < Len(StopOrder[s])
       THEN /\ at' = [at EXCEPT ![s] = @ + 1]
            /\ stop' = [stop EXCEPT ![s] = "enter"]
            /\ UNCHANGED call
       ELSE /\ stop' = [stop EXCEPT ![s] = "done"]
            /\ call' = IF Then[s] = None THEN call ELSE [call EXCEPT ![Then[s]] = "lock"]
            /\ UNCHANGED at
    /\ UNCHANGED <<status, lock, got, woken, inst, tasks, loaded, handler, changes>>

-----------------------------------------------------------------------------
\* A client of the loader: boot, the command line, project_manager, harness.
ClientCalls(c) == c \in RootCalls /\ Begin(c)

\* The notification task of a subscriber of _meta.state_change runs; here
\* nobody acts on it (module Supervisor does).
Delivered(a) == /\ changes[a] > 0
                /\ changes' = [changes EXCEPT ![a] = @ - 1]
                /\ UNCHANGED <<status, lock, call, got, woken, inst, tasks, loaded,
                               handler, stop, at>>

CallStep(c) == \/ Acquire(c) \/ DepsReady(c) \/ DepsFailed(c) \/ Wake(c)
               \/ ReadyTimeout(c) \/ Return(c) \/ Raise(c)

InstStep(c) == \/ Attach(c) \/ Ready(c) \/ TaskReturns(c) \/ TaskCrashes(c)
               \/ HandleTaskCrash(c) \/ OneShotReturns(c) \/ OneShotFails(c)

StopStep(s) == CallHook(s) \/ Detach(s) \/ MarkStopped(s) \/ StopEnds(s)

LoaderStep == \/ \E c \in Calls : CallStep(c) \/ InstStep(c)
              \/ \E s \in Stops : StopStep(s)

\* Nobody waits for an answer.
Finished == /\ \A c \in Calls : call[c] \in {"idle", "done", "raised"}
            /\ \A s \in Stops : stop[s] \in {"idle", "done"}
            /\ UNCHANGED loaderVars

Next == \/ LoaderStep
        \/ \E c \in Calls : ClientCalls(c)
        \/ \E s \in Stops : StopBegins(s)
        \/ \E a \in Agents : Delivered(a)
        \/ Finished

Spec == Init /\ [][Next]_loaderVars

(***************************************************************************)
(* The event loop runs what is runnable; that the holder of a lock leaves  *)
(* it, and each call enters once, is enough for those that wait for it;    *)
(* wait_for has a timer.  start need not ever return; it becomes ready or  *)
(* crashes where nothing says that it may be late.                         *)
(***************************************************************************)
LoaderFairness ==
    /\ \A c \in Calls :
          /\ WF_loaderVars(Acquire(c))
          /\ WF_loaderVars(DepsReady(c) \/ DepsFailed(c) \/ Wake(c) \/ ReadyTimeout(c)
                             \/ Return(c) \/ Raise(c))
          /\ WF_loaderVars(HandleTaskCrash(c))
          /\ WF_loaderVars(OneShotReturns(c) \/ OneShotFails(c))
          /\ \/ "timeout" \in Faults[Target[c]]
             \/ WF_loaderVars(Starting(c) /\ (Attach(c) \/ Ready(c) \/ TaskCrashes(c)))
    /\ \A s \in Stops : WF_loaderVars(StopStep(s))

FairSpec == Spec /\ LoaderFairness

-----------------------------------------------------------------------------
\* The lock discipline of ensure_running: a call is past `async with lock`
\* exactly while it owns the lock of its agent, through every early return,
\* failing dependency, timeout and crash.
LockDiscipline ==
    \A c \in Calls : call[c] \in Inside <=> lock[Target[c]] = c

\* A call's dependencies are not started before it, nor the second half of a
\* restart before the first is over.
Fresh == /\ \A c \in Calls : call[c] \in {"idle", "lock"}
                              => \A d \in Subs[c] : call[d] = "idle"
         /\ \A s \in Stops : Then[s] # None /\ stop[s] # "done"
                              => call[Then[s]] = "idle"

\* The inductive invariant behind the lock discipline.
IInv == TypeOK /\ LockDiscipline /\ Fresh

\* Instances that run, or whose crash the loader has yet to hear of.
Unsettled(c) == Live(c) \/ inst[c] = "crashed"

Unstopped(a) == \A s \in Stops : \A i \in DOMAIN StopOrder[s] : StopOrder[s][i] # a

StoppedOnce(a) == \A s, t \in Stops :
    \A i \in DOMAIN StopOrder[s], j \in DOMAIN StopOrder[t] :
        StopOrder[s][i] = a /\ StopOrder[t][j] = a => s = t /\ i = j

\* Agents whose starts do not run into their ready_timeout, which are stopped or
\* restarted once at most and, if they are, do not crash.  Each part is needed: a
\* start that was given up, a stop that overtook another, or a crash of which the
\* loader hears after the stop, publishes over the status of a newer instance.
Steady == {a \in Agents : /\ "timeout" \notin Faults[a]
                          /\ StoppedOnce(a)
                          /\ "crash" \in Faults[a] => Unstopped(a)}
SteadyCalls == {c \in Calls : Target[c] \in Steady}

\* Why start() runs once at a time: an unsettled instance is the only one of its
\* agent; either its call is still inside or the board says that the agent is up,
\* and a call that gathers dependencies found none.
OneInv ==
    /\ \A c, d \in SteadyCalls :
          Unsettled(c) /\ Unsettled(d) /\ Target[c] = Target[d] => c = d
    /\ \A c \in SteadyCalls : Unsettled(c) =>
          \/ call[c] = "oneshot"
          \/ call[c] = "wait" /\ (c \in woken => status[Target[c]] \in Up)
          \/ call[c] \in {"logging", "done"} /\ status[Target[c]] \in Up
    /\ \A c, d \in SteadyCalls :
          call[c] = "deps" /\ Target[c] = Target[d] => ~Unsettled(d)
    /\ \A c \in SteadyCalls \cap woken : call[c] \notin {"idle", "lock", "deps"}
    /\ \A c \in SteadyCalls :
          call[c] = "oneshot" => Live(c) /\ Mode[Target[c]] = "oneshot"

\* ensure_running is idempotent: however many callers there are and whatever becomes
\* of other agents, at most one start() of a steady agent is alive.
Idempotent ==
    \A c, d \in SteadyCalls : Live(c) /\ Live(d) /\ Target[c] = Target[d] => c = d

\* A live task of a steady persistent agent is the one in Loader.tasks, the only one
\* that stop can cancel, whatever calls and a stop or restart of it overlap.
LiveIsTracked ==
    \A c \in SteadyCalls :
        Live(c) /\ Mode[Target[c]] = "persistent" => tasks[Target[c]] = c

\* A steady agent whose start registers a handler can be sent to whenever it is
\* published as ready: whatever calls, crashes and a stop or restart fall between its
\* registration and ctx.ready(), the status board and the handler table agree.
ReadyIsReachable ==
    \A a \in Steady :
        /\ \/ Mode[a] = "skill"
           \/ a \in Registers /\ Mode[a] \in {"persistent", "sync"}
        /\ status[a] = "ready"
        => handler[a] # None

\* start() of an agent runs only while each of its dependencies is up, or after it
\* was up and crashed: the dependencies are looked at once, when they have all been
\* gathered.  One that is stopped meanwhile, or itself late, is not looked at again.
DependenciesFirst ==
    \A c \in Calls : Starting(c) =>
        \A b \in DependsOn[Target[c]] \cap Steady : Unstopped(b) =>
            \/ status[b] \in Up
            \/ \E d \in Calls : Target[d] = b /\ inst[d] \in {"crashed", "buried"}

\* Every call of ensure_running and every stop ends, although a call waits for its
\* dependencies while it holds its own agent's lock, and a stop pops the tasks that
\* calls wait for: the time comes when none is under way.
CallsEnd == <>[](/\ \A c \in Calls : call[c] \in {"idle", "done", "raised"}
                 /\ \A s \in Stops : stop[s] \in {"idle", "done"})

-----------------------------------------------------------------------------
(* What docs/CORE_INTERFACE.md says, and TLC refutes: neither holds of agents *)
(* that are not steady.                                                      *)

\* Line 127, "ensure_running is idempotent": however often an agent is asked for, one
\* start() of it is alive, whether or not the agent is steady.
OneInstance ==
    \A c, d \in Calls : Live(c) /\ Live(d) /\ Target[c] = Target[d] => c = d

\* Line 130, stop "cancels its task": no start() of a persistent agent is alive once
\* the agent is published as stopped.
StoppedIsDead ==
    \A c \in Calls : status[Target[c]] = "stopped" /\ Mode[Target[c]] = "persistent"
                      => ~Live(c)

=============================================================================
