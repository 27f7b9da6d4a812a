------------------------------ MODULE Scheduler ------------------------------
(***************************************************************************)
(* scheduler over minimax_budget: each schedule sleeps, wakes, is skipped  *)
(* by the throttle or by a reservation, or sends its event to its target,  *)
(* which makes one request to the model.  Cap events of the budget raise   *)
(* the throttle for a time (TTL); nothing lowers it but the next look at   *)
(* it after that time.                                                     *)
(***************************************************************************)
EXTENDS Budget

CONSTANTS
    Schedules,
    Entry,          \* what schedules.yaml says of each: see Valid
    Scripts         \* what a behaviour exercises: see Init

Priorities == {"critical", "normal", "nice_to_have"}

\* An entry: the agent it sends to, its triggers ("none": not given), its priority.
ASSUME SchedulerAssumption ==
    /\ Entry \in [Schedules -> [target : Agents \cup {None}, interval : {"none", "bad", "zero", "ok"},
                               daily : {"none", "bad", "ok"}, priority : Priorities \cup {"bad"}]]
    /\ \A s \in Scripts :
        /\ s.runs \subseteq Schedules /\ s.gate \in BOOLEAN      \* schedules; SCHEDULER_RESERVATION_CHECK
        /\ s.polls \subseteq Refreshers /\ s.calls \subseteq Agents
        /\ s.costs \subseteq Costs /\ s.ops \subseteq {"reset", "override", "restart", "reload"}

VARIABLES
    script,
    throttle,   \* _throttle_level; past: its time (_throttle_until) has come
    stage,      \* stage[s]: where the loop of a schedule is
    skipped,    \* schedules whose last tick the throttle skipped
    left,       \* operator's acts to come, each at most once (bound)
    inflight,   \* requests of a target that wait for the vendor
    standing,   \* history: levels of the cap events, or the override, whose time is not up
    posted      \* history: alerts that reached their subscribers in this life of the budget

svars == <<script, throttle, stage, skipped, left, inflight, standing, posted>>
vars == <<bvars, svars>>

Rank == [normal |-> 0, soft |-> 1, hard |-> 2]
Normal == [level |-> "normal", past |-> FALSE]

\* _validate: an entry that is not valid is dropped, its loop never starts.
Valid(e) ==
    /\ e.target # None /\ e.priority \in Priorities
    /\ \/ e.interval = "ok" /\ e.daily = "none"
       \/ e.interval = "none" /\ e.daily = "ok"

Started == [s \in Schedules |-> IF s \in script.runs /\ Valid(Entry[s]) THEN "sleeping" ELSE "off"]

Init ==
    /\ InitBudget
    /\ script \in Scripts
    /\ throttle = Normal
    /\ stage = Started
    /\ skipped = {} /\ left = script.ops
    /\ inflight = [a \in Agents |-> 0]
    /\ standing = {} /\ posted = <<>>

-----------------------------------------------------------------------------
\* Fault: nothing ends it.
NeverPast == throttle

\* _current_throttle_level: looking at the throttle is what ends it.
Current == IF throttle.level # "normal" /\ throttle.past THEN Normal ELSE throttle

Look ==
    /\ throttle' = Current
    /\ UNCHANGED standing

ShouldFire(priority, level) ==
    \/ level = "normal"
    \/ level = "soft" /\ priority \in {"critical", "normal"}
    \/ priority = "critical"

Goes(s, where) == stage' = [stage EXCEPT ![s] = where]

\* bus.send to the target, which asks the model once; one that is busy queues.
Send(s) ==
    /\ skipped' = skipped \ {s}
    /\ inflight' = [inflight EXCEPT ![Entry[s].target] = IF @ < 1 THEN @ + 1 ELSE @]
    /\ Goes(s, "sleeping")

\* _fire up to the reservation check.
Tick(s) ==
    /\ stage[s] = "sleeping"
    /\ Look
    /\ \/ /\ ~ShouldFire(Entry[s].priority, Current.level)
          /\ skipped' = skipped \cup {s}
          /\ UNCHANGED <<inflight, stage>>
       \/ /\ ShouldFire(Entry[s].priority, Current.level) /\ script.gate
          /\ Goes(s, "asking")
          /\ UNCHANGED <<inflight, skipped>>
       \/ /\ ShouldFire(Entry[s].priority, Current.level) /\ ~script.gate
          /\ Send(s)
    /\ UNCHANGED <<bvars, script, left, posted>>

\* minimax_budget answers can_serve, or (not running, over 2 s) does not,
\* which lets the schedule through.
Judge(s) ==
    /\ stage[s] = "asking"
    /\ Looked
    /\ Goes(s, IF CanServe(Entry[s].target) THEN "allowed" ELSE "denied")
    /\ UNCHANGED <<vendor, asked, snapshot, alerted, posts, usage, total, pending, calls>>
    /\ UNCHANGED <<script, throttle, skipped, left, inflight, standing, posted>>

NoAnswer(s) ==
    /\ stage[s] = "asking"
    /\ Goes(s, "allowed")
    /\ UNCHANGED <<bvars, script, throttle, skipped, left, inflight, standing, posted>>

Resume(s) ==
    /\ \/ stage[s] = "allowed" /\ Send(s)
       \/ stage[s] = "denied" /\ skipped' = skipped \ {s} /\ Goes(s, "sleeping") /\ UNCHANGED inflight
    /\ UNCHANGED <<bvars, script, throttle, left, standing, posted>>

\* Fault: the newest event says the level.
RaisedAlways(level) == level

\* _on_cap_event: the level rises or stays, and its time starts again.
Raised(level) == IF Rank[level] > Rank[throttle.level] THEN level ELSE throttle.level

CapEvent ==
    /\ posts # <<>>
    /\ LET post == Head(posts)
       IN  /\ throttle' = [level |-> Raised(post.level), past |-> FALSE]
           /\ standing' = standing \cup {post.level}
           /\ posted' = Append(posted, post)
    /\ posts' = Tail(posts)
    /\ UNCHANGED <<vendor, asked, snapshot, alerted, counted, localEnd, usage, total, pending, calls>>
    /\ UNCHANGED <<script, stage, skipped, left, inflight>>

\* THROTTLE_TTL_SEC after the last cap event.
TtlPasses ==
    /\ throttle.level # "normal" /\ ~throttle.past
    /\ throttle' = [throttle EXCEPT !.past = TRUE]
    /\ standing' = {}
    /\ UNCHANGED <<bvars, script, stage, skipped, left, inflight, posted>>

\* The op override_throttle sets level and time at once.
Override(level) ==
    /\ "override" \in left /\ left' = left \ {"override"}
    /\ throttle' = [level |-> level, past |-> FALSE]
    /\ standing' = {level} \ {"normal"}
    /\ UNCHANGED <<bvars, script, stage, skipped, inflight, posted>>

\* The op status looks at the throttle too.
Status ==
    /\ script.runs # {} /\ Look
    /\ UNCHANGED <<bvars, script, stage, skipped, left, inflight, posted>>

\* stop_all cancels every loop, start_all starts them anew: a throttle is forgotten.
Reload ==
    /\ "reload" \in left /\ left' = left \ {"reload"}
    /\ throttle' = Normal /\ standing' = {}
    /\ stage' = Started /\ skipped' = {}
    /\ UNCHANGED <<bvars, script, inflight, posted>>

-----------------------------------------------------------------------------
\* A request of a target reaches the vendor, with an answer and its usage, or
\* fails (429 when the interval is used up, or the network); agents ask on their own
\* account too.
Answered(a, tokens) ==
    /\ inflight[a] > 0 /\ Served(a, tokens)
    /\ inflight' = [inflight EXCEPT ![a] = @ - 1]
    /\ UNCHANGED <<script, throttle, stage, skipped, left, standing, posted>>

Refused(a) ==
    /\ inflight[a] > 0
    /\ inflight' = [inflight EXCEPT ![a] = @ - 1]
    /\ UNCHANGED <<bvars, script, throttle, stage, skipped, left, standing, posted>>

OwnCall(a, tokens) ==
    /\ a \in script.calls /\ Served(a, tokens)
    /\ UNCHANGED svars

Reset == \E who \in Agents \cup {None} : "reset" \in script.ops /\ ResetLocal(who) /\ UNCHANGED svars

Restart ==
    /\ "restart" \in left /\ left' = left \ {"restart"}
    /\ posts = <<>> /\ RestartBudget
    /\ posted' = <<>>
    /\ UNCHANGED <<script, throttle, stage, skipped, inflight, standing>>

Polled(r) == r \in script.polls /\ (Fetch(r) \/ FetchFails(r) \/ Refreshed(r)) /\ UNCHANGED svars
World ==
    /\ script.polls # {}
    /\ \/ UsedElsewhere
       \/ ~script.gate /\ IntervalEnds
       \/ script.gate /\ LocalIntervalEnds
    /\ UNCHANGED svars
Heard(e) == Completed(e) /\ UNCHANGED svars
Hour(a) == HourPasses(a) /\ script.polls = {} /\ UNCHANGED svars

Next ==
    \/ \E s \in Schedules : Tick(s) \/ Judge(s) \/ NoAnswer(s) \/ Resume(s)
    \/ CapEvent \/ TtlPasses \/ Status \/ Reload \/ Reset \/ Restart \/ World
    \/ \E level \in DOMAIN Rank : Override(level)
    \/ \E r \in Refreshers : Polled(r)
    \/ \E a \in Agents : Refused(a) \/ Hour(a) \/ \E t \in script.costs : Answered(a, t) \/ OwnCall(a, t)
    \/ \E e \in pending : Heard(e)

Spec == Init /\ [][Next]_vars

\* Loops wake up, tasks run and time passes; an interval of the vendor lasts
\* longer than the throttle.
FairSpec ==
    /\ Spec
    /\ \A s \in Schedules : WF_vars(Tick(s)) /\ WF_vars(Judge(s)) /\ WF_vars(Resume(s))
    /\ WF_vars(CapEvent) /\ WF_vars(TtlPasses)
    /\ \A a \in Agents : WF_vars(Refused(a)) /\ WF_vars(\E t \in script.costs : Answered(a, t))

-----------------------------------------------------------------------------
\* Two refreshes at once, answers out of order, intervals ending in between: each
\* alert of an interval reaches the subscribers at most once, and no soft
\* one after the hard one of its interval (_maybe_alert).
AlertOrder ==
    \A i, j \in 1..Len(posted) :
        i < j /\ posted[i].window = posted[j].window
            => posted[i].level = "soft" /\ posted[j].level = "hard"

\* The throttle is at least as strict as each cap event whose time, which every cap
\* event renews, is not up, in whatever order soft and hard ones come; an operator's
\* override takes their place and a reload ends them (_on_cap_event).
CapHolds == \A level \in standing : Rank[Current.level] >= Rank[level]

\* And it is no stricter than they are: a level falls when its time is up.  Does not
\* hold: an event renews a level whose time is up and at which nobody has looked.
FallsInTime == Current.level \in standing \cup {"normal"}

\* A schedule whose target has not used its own floor since the local interval
\* ended is never held back by the reservations of others, although the
\* counters of the last interval may still be there (can_serve).
FloorNotDenied ==
    [][\A s \in Schedules :
        stage[s] = "asking" /\ stage'[s] = "denied"
            => \/ Reserve[Entry[s].target] = 0
               \/ ~localEnd /\ counted[Entry[s].target] >= Reserve[Entry[s].target]]_vars

\* A skipped schedule does not stay skipped: once the cap events cease the
\* throttle ends, without anybody's help (_current_throttle_level).
SkippedFires ==
    \A s \in Schedules : s \in skipped ~> s \notin skipped

=============================================================================
