------------------------------ MODULE Supervisor ------------------------------
(***************************************************************************)
(* The watchdog of bundled/project_supervisor on top of the loader: it     *)
(* subscribes to _meta.state_change and restarts failed persistent agents, *)
(* at most MaxRestarts times within Window.                                *)
(*                                                                         *)
(* A heal is one run of _attempt_restart, made by a _schedule_restart task *)
(* or by scan_and_heal; Heals names the restarts among Stops that heals    *)
(* make.  The supervisor's own start is the pair Install, Scan.            *)
(***************************************************************************)
EXTENDS Loader, FiniteSets

CONSTANTS Heals,        \* the restarts the supervisor may make
          MaxRestarts,  \* max_restarts
          Window,       \* window_sec
          MaxTime       \* bound: the clock stops there

HealOf(h) == StopOrder[h][1]

ASSUME SupervisorAssumption ==
    /\ Heals \subseteq Stops
    /\ \A h \in Heals : /\ Len(StopOrder[h]) = 1
                        /\ Then[h] # None
                        /\ Target[Then[h]] = HealOf(h)
                        /\ Mode[HealOf(h)] = "persistent"
    /\ MaxRestarts \in Nat /\ Window \in Nat /\ MaxTime \in Nat

VARIABLES watching,  \* install() has run
          scan,      \* the agents scan_and_heal has not looked at yet
          heal,      \* where each heal is
          inFlight,  \* _in_flight
          restarts,  \* _restarts: times of recent attempts
          giveups,   \* _give_ups, per agent
          now,       \* time.monotonic()
          attempts   \* history: every attempt since the last reset

supVars == <<watching, scan, heal, inFlight, restarts, giveups, now, attempts>>
allVars == <<loaderVars, supVars>>

Watched == {a \in Agents : Mode[a] = "persistent"}

\* The heals of an agent that are somewhere in the given states.
HealsAt(a, where) == {h \in Heals : HealOf(h) = a /\ heal[h] \in where}

SupInit == /\ Init
           /\ watching = FALSE
           /\ scan = {}
           /\ heal = [h \in Heals |-> "free"]
           /\ inFlight = {}
           /\ restarts = [a \in Agents |-> <<>>]
           /\ giveups = [a \in Agents |-> 0]
           /\ now = 0
           /\ attempts = [a \in Agents |-> <<>>]

-----------------------------------------------------------------------------
\* Fault: the window is never slid.
PruneNothing(times) == times

\* _prune: attempts are popped from the left while they are older than the
\* window.
Prune(times) ==
    LET n == CHOOSE k \in 0..Len(times) :
               /\ \A j \in 1..k : times[j] + Window < now
               /\ k < Len(times) => times[k + 1] + Window >= now
    IN SubSeq(times, n + 1, Len(times))

\* Fault: the supervisor subscribes only after it has scanned the board.
InstallDeaf == /\ ~watching
               /\ changes = [a \in Agents |-> 0]
               /\ watching' = TRUE
               /\ scan' = {}
               /\ UNCHANGED <<loaderVars, heal, inFlight, restarts, giveups, now,
                              attempts>>

\* start: subscribe, then look at every persistent agent.  A notification
\* published before the subscription is for nobody (Unheard).
Install == /\ ~watching
           /\ changes = [a \in Agents |-> 0]
           /\ watching' = TRUE
           /\ scan' = Watched
           /\ UNCHANGED <<loaderVars, heal, inFlight, restarts, giveups, now, attempts>>

Unheard(a) == ~watching /\ Delivered(a) /\ UNCHANGED supVars

\* _on_state_change for a `failed` event: dropped while a restart of the agent
\* is in flight, otherwise a _schedule_restart task is created.
OnStateChange(a) ==
    /\ watching
    /\ Delivered(a)
    /\ \/ /\ a \in inFlight \/ a \notin Watched
          /\ UNCHANGED heal
       \/ /\ a \notin inFlight
          /\ \E h \in HealsAt(a, {"free"}) : heal' = [heal EXCEPT ![h] = "scheduled"]
    /\ UNCHANGED <<watching, scan, inFlight, restarts, giveups, now, attempts>>

\* The task runs up to its sleep: only here is the agent put in flight.
ScheduleRestart(h) == /\ heal[h] = "scheduled"
                      /\ heal' = [heal EXCEPT ![h] = "delay"]
                      /\ inFlight' = inFlight \cup {HealOf(h)}
                      /\ UNCHANGED <<loaderVars, watching, scan, restarts, giveups, now,
                                     attempts>>

\* Fault: one attempt too many.
TryRestartOnceMore(h, busy) ==
    LET a == HealOf(h)
        recent == Prune(restarts[a])
    IN /\ Len(recent) <= MaxRestarts
       /\ restarts' = [restarts EXCEPT ![a] = Append(recent, now)]
       /\ attempts' = [attempts EXCEPT ![a] = Append(@, now)]
       /\ heal' = [heal EXCEPT ![h] = busy]
       /\ StopBegins(h)
       /\ UNCHANGED giveups

\* _attempt_restart within the budget, up to its first suspension: the status
\* of the agent is not looked at.
TryRestart(h, busy) ==
    LET a == HealOf(h)
        recent == Prune(restarts[a])
    IN /\ Len(recent) < MaxRestarts
       /\ restarts' = [restarts EXCEPT ![a] = Append(recent, now)]
       /\ attempts' = [attempts EXCEPT ![a] = Append(@, now)]
       /\ heal' = [heal EXCEPT ![h] = busy]
       /\ StopBegins(h)
       /\ UNCHANGED giveups

\* _attempt_restart beyond the budget: no restart, a giveup event.
GiveUp(h) ==
    LET a == HealOf(h)
        recent == Prune(restarts[a])
    IN /\ Len(recent) >= MaxRestarts
       /\ restarts' = [restarts EXCEPT ![a] = recent]
       /\ giveups' = [giveups EXCEPT ![a] = @ + 1]
       /\ heal' = [heal EXCEPT ![h] = "over"]
       /\ UNCHANGED <<loaderVars, attempts>>

\* The delay is over.  Giving up does not suspend, so the task also ends.
Attempt(h) == /\ heal[h] = "delay"
              /\ \/ TryRestart(h, "restarting") /\ UNCHANGED inFlight
                 \/ GiveUp(h) /\ inFlight' = inFlight \ {HealOf(h)}
              /\ UNCHANGED <<watching, scan, now>>

\* restart returned or raised (both are reported and nothing else), and the
\* task discards the agent, even if another task has put it in flight too.
Restarted(h) == /\ stop[h] = "done"
                /\ call[Then[h]] \in {"done", "raised"}

AttemptEnds(h) == /\ heal[h] = "restarting"
                  /\ Restarted(h)
                  /\ heal' = [heal EXCEPT ![h] = "over"]
                  /\ inFlight' = inFlight \ {HealOf(h)}
                  /\ UNCHANGED <<loaderVars, watching, scan, restarts, giveups, now,
                                 attempts>>

\* scan_and_heal looks at the next agent, in no particular order; a failed one
\* is restarted at once, without a delay and without being put in flight.
Scan(a) ==
    /\ a \in scan
    /\ \A h \in Heals : heal[h] # "scanning"
    /\ scan' = scan \ {a}
    /\ \/ /\ status[a] # "failed"
          /\ UNCHANGED <<loaderVars, heal, restarts, giveups, attempts>>
       \/ /\ status[a] = "failed"
          /\ \E h \in HealsAt(a, {"free"}) : TryRestart(h, "scanning") \/ GiveUp(h)
    /\ UNCHANGED <<watching, inFlight, now>>

ScanHealed(h) == /\ heal[h] = "scanning"
                 /\ Restarted(h)
                 /\ heal' = [heal EXCEPT ![h] = "over"]
                 /\ UNCHANGED <<loaderVars, watching, scan, inFlight, restarts, giveups,
                                now, attempts>>

-----------------------------------------------------------------------------
\* The operations `report` and `reset`.
Report == /\ watching
          /\ restarts' = [a \in Agents |-> Prune(restarts[a])]
          /\ UNCHANGED <<loaderVars, watching, scan, heal, inFlight, giveups, now,
                         attempts>>

Reset == /\ watching
         /\ restarts' = [a \in Agents |-> <<>>]
         /\ giveups' = [a \in Agents |-> 0]
         /\ attempts' = [a \in Agents |-> <<>>]
         /\ UNCHANGED <<loaderVars, watching, scan, heal, inFlight, now>>

Tick == /\ now < MaxTime
        /\ now' = now + 1
        /\ UNCHANGED <<loaderVars, watching, scan, heal, inFlight, restarts, giveups,
                       attempts>>

HealStep(h) == ScheduleRestart(h) \/ Attempt(h) \/ AttemptEnds(h) \/ ScanHealed(h)

SupNext == \/ LoaderStep /\ UNCHANGED supVars
           \/ \E c \in Calls : ClientCalls(c) /\ UNCHANGED supVars
           \/ \E s \in Stops \ Heals : StopBegins(s) /\ UNCHANGED supVars
           \/ \E a \in Agents : Unheard(a) \/ OnStateChange(a) \/ Scan(a)
           \/ \E h \in Heals : HealStep(h)
           \/ Install \/ Report \/ Reset \/ Tick

SupSpec == SupInit /\ [][SupNext]_allVars

-----------------------------------------------------------------------------
\* The sliding window: of any MaxRestarts + 1 restarts in a row, the first and
\* the last are more than Window apart, whoever asked for them (the scan, one
\* task or two of them) and whenever the window was pruned.
RestartBudget ==
    \A a \in Agents : \A i \in 1..Len(attempts[a]) :
        i + MaxRestarts <= Len(attempts[a])
            => attempts[a][i + MaxRestarts] - attempts[a][i] > Window

\* The supervisor gives up on an agent only when the budget of the current
\* window was really spent.
GiveUpIsEarned ==
    [][\A a \in Agents : giveups'[a] > giveups[a] =>
          LET recent == {i \in DOMAIN attempts[a] : attempts[a][i] + Window >= now}
          IN Cardinality(recent) >= MaxRestarts]_allVars

\* No failure falls between the subscription and the scan: a watched agent that
\* failed and that no heal has got to yet is still to be scanned, or notified
\* of, or scheduled.
FirstFailureSeen ==
    \A a \in Watched :
        /\ watching
        /\ status[a] = "failed"
        /\ HealsAt(a, {"restarting", "scanning", "over"}) = {}
        => a \in scan \/ changes[a] > 0 \/ HealsAt(a, {"scheduled", "delay"}) # {}

-----------------------------------------------------------------------------
(* What bundled/project_supervisor/AGENT.md says, refuted by a run. *)

\* Lines 10-11: a persistent agent that enters `failed` is restarted, unless
\* the budget is spent (line 17).
FailureIsAnswered ==
    \A a \in Watched :
        watching /\ status[a] = "failed" =>
            \/ a \in scan
            \/ changes[a] > 0
            \/ giveups[a] > 0
            \/ HealsAt(a, {"scheduled", "delay", "restarting", "scanning"}) # {}
=============================================================================
