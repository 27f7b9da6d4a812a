------------------------------- MODULE Budget -------------------------------
(***************************************************************************)
(* minimax_budget: what the vendor says of the account (polled, so always  *)
(* of the past), what the agents are known to have used (from the          *)
(* completion events of llm_service), the alerts on crossing 80% and 95%   *)
(* of an interval, the reservations (can_serve) and the cost estimate.     *)
(*                                                                         *)
(* One account with one limited model; the weekly block has sets and       *)
(* topics of its own and the same code.  Fractions are counts out of Cap:  *)
(* 80% is SoftAt, 95% is HardAt.                                           *)
(***************************************************************************)
EXTENDS Integers, Sequences, FiniteSets, FiniteSetsExt

CONSTANTS
    Agents,
    Reserve,        \* MINIMAX_RESERVATIONS: requests per interval, 0 if none
    Cap, SoftAt, HardAt,
    Costs,          \* tokens a request may report (0: no usage in the answer)
    MaxWindow,      \* intervals of the vendor
    MaxCalls,       \* completions a behaviour counts
    None

Refreshers == {"poll", "op"}

ASSUME BudgetAssumption ==
    /\ Reserve \in [Agents -> Nat]
    /\ {Cap, SoftAt, HardAt, MaxWindow, MaxCalls} \subseteq Nat
    /\ 0 < SoftAt /\ SoftAt <= HardAt /\ HardAt <= Cap
    /\ Costs \subseteq Nat

VARIABLES
    vendor,     \* the account at the vendor: interval, requests used in it
    asked,      \* asked[r]: the answer a refresh waits for or holds
    snapshot,   \* _snapshots: the last one processed, None before the first
    alerted,    \* _alerted_interval_soft, _alerted_interval_hard: intervals
    posts,      \* alerts whose publishing task has not run
    counted,    \* _interval_requests
    localEnd,   \* the local interval (monotonic clock) is over
    usage,      \* _local: lifetime and last-hour numbers of each agent
    total,      \* _global_calls, _global_tokens
    pending,    \* completion events on their way: agent and tokens
    calls       \* completions so far (bound)

bvars == <<vendor, asked, snapshot, alerted, posts, counted, localEnd, usage, total, pending, calls>>

NoUsage == [requests |-> 0, tokens |-> 0, window |-> <<>>]
NoCalls == [calls |-> 0, tokens |-> 0]

InitBudget ==
    /\ vendor = [window |-> 0, used |-> 0]
    /\ asked = [r \in Refreshers |-> None]
    /\ snapshot = None
    /\ alerted = [soft |-> {}, hard |-> {}]
    /\ posts = <<>>
    /\ counted = [a \in Agents |-> 0]
    /\ localEnd = FALSE
    /\ usage = [a \in Agents |-> NoUsage]
    /\ total = NoCalls
    /\ pending = {} /\ calls = 0

-----------------------------------------------------------------------------
\* refresh: by the poll loop and by the op, so two may be under way; the
\* vendor answers with what holds then, or the fetch fails and the old
\* snapshot stays.
Fetch(r) ==
    /\ asked[r] = None
    /\ asked' = [asked EXCEPT ![r] = vendor]
    /\ UNCHANGED <<vendor, snapshot, alerted, posts, counted, localEnd, usage, total, pending, calls>>

FetchFails(r) ==
    /\ asked[r] # None
    /\ asked' = [asked EXCEPT ![r] = None]
    /\ UNCHANGED <<vendor, snapshot, alerted, posts, counted, localEnd, usage, total, pending, calls>>

\* _maybe_alert: which alert a fraction calls for, given those of this interval.
Alert(seen) ==
    IF seen.used >= HardAt /\ seen.window \notin alerted.hard THEN "hard"
    ELSE IF seen.used >= SoftAt /\ seen.window \notin alerted.soft THEN "soft" ELSE "none"

\* Fault: a hard alert does not stand for the soft one.
HardAlone(seen) ==
    [soft |-> alerted.soft \cup (IF Alert(seen) = "soft" THEN {seen.window} ELSE {}),
     hard |-> alerted.hard \cup (IF Alert(seen) = "hard" THEN {seen.window} ELSE {})]

\* Either alert stands for the soft one of its interval from then on.
Remembered(seen) ==
    LET level == Alert(seen)
    IN  [soft |-> alerted.soft \cup (IF level = "none" THEN {} ELSE {seen.window}),
         hard |-> alerted.hard \cup (IF level = "hard" THEN {seen.window} ELSE {})]

Refreshed(r) ==
    LET seen == asked[r]
    IN  /\ seen # None
        /\ alerted' = Remembered(seen)
        /\ posts' = IF Alert(seen) = "none" THEN posts
                    ELSE Append(posts, [level |-> Alert(seen), window |-> seen.window])
        /\ snapshot' = seen
        /\ asked' = [asked EXCEPT ![r] = None]
        /\ UNCHANGED <<vendor, counted, localEnd, usage, total, pending, calls>>

-----------------------------------------------------------------------------
\* Reservations: the interval counters are cleared by whoever looks first
\* after the end of the local interval.
Rolled == IF localEnd THEN [a \in Agents |-> 0] ELSE counted

Unused(a, c) == IF c[a] < Reserve[a] THEN Reserve[a] - c[a] ELSE 0

\* Fault: the counters of the last interval are taken for those of this one.
CanServeUnrolled(a) ==
    \/ \A b \in Agents : Reserve[b] = 0
    \/ snapshot = None
    \/ Unused(a, counted) > 0
    \/ Cap - snapshot.used > MapThenSumSet(LAMBDA b : Unused(b, counted), Agents \ {a})

CanServe(a) ==
    \/ \A b \in Agents : Reserve[b] = 0
    \/ snapshot = None
    \/ Unused(a, Rolled) > 0
    \/ Cap - snapshot.used > MapThenSumSet(LAMBDA b : Unused(b, Rolled), Agents \ {a})

\* The op can_serve leaves the counters rolled.
Looked == counted' = Rolled /\ localEnd' = FALSE

\* _on_llm_completed: the numbers of the agent, the global ones, then the
\* interval counter, after a roll if one is due.
Completed(e) ==
    /\ e \in pending
    /\ usage' = [usage EXCEPT ![e.agent] =
                    [requests |-> @.requests + 1, tokens |-> @.tokens + e.tokens,
                     window |-> Append(@.window, e.tokens)]]
    /\ total' = [calls |-> total.calls + 1, tokens |-> total.tokens + e.tokens]
    /\ counted' = [Rolled EXCEPT ![e.agent] = @ + 1]
    /\ localEnd' = FALSE
    /\ pending' = pending \ {e}
    /\ UNCHANGED <<vendor, asked, snapshot, alerted, posts, calls>>

\* _prune_window: a call of more than an hour ago leaves the window.
HourPasses(a) ==
    /\ usage[a].window # <<>>
    /\ usage' = [usage EXCEPT ![a].window = Tail(@)]
    /\ UNCHANGED <<vendor, asked, snapshot, alerted, posts, counted, localEnd, total, pending, calls>>

ResetOne(a) ==
    /\ usage' = [usage EXCEPT ![a] = NoUsage]
    /\ UNCHANGED total

ResetAll ==
    /\ usage' = [a \in Agents |-> NoUsage]
    /\ total' = NoCalls

ResetLocal(who) ==
    /\ IF who = None THEN ResetAll ELSE ResetOne(who)
    /\ UNCHANGED <<vendor, asked, snapshot, alerted, posts, counted, localEnd, pending, calls>>

\* The agent is stopped and started again: everything it knew is gone, the
\* answers it waited for too; publishing tasks already created still run.
RestartBudget ==
    /\ asked' = [r \in Refreshers |-> None]
    /\ snapshot' = None
    /\ alerted' = [soft |-> {}, hard |-> {}]
    /\ counted' = [a \in Agents |-> 0]
    /\ localEnd' = FALSE
    /\ usage' = [a \in Agents |-> NoUsage]
    /\ total' = NoCalls
    /\ UNCHANGED <<vendor, posts, pending, calls>>

-----------------------------------------------------------------------------
\* The world: the account is used by yuxu's requests and by others, its
\* interval ends; the local interval ends at another time.
Served(a, tokens) ==
    /\ calls < MaxCalls /\ vendor.used < Cap
    /\ vendor' = [vendor EXCEPT !.used = @ + 1]
    /\ calls' = calls + 1
    /\ pending' = pending \cup {[agent |-> a, tokens |-> tokens, id |-> calls + 1]}
    /\ UNCHANGED <<asked, snapshot, alerted, posts, counted, localEnd, usage, total>>

UsedElsewhere ==
    /\ vendor.used < Cap
    /\ vendor' = [vendor EXCEPT !.used = @ + 1]
    /\ UNCHANGED <<asked, snapshot, alerted, posts, counted, localEnd, usage, total, pending, calls>>

IntervalEnds ==
    /\ vendor.window < MaxWindow
    /\ vendor' = [window |-> vendor.window + 1, used |-> 0]
    /\ UNCHANGED <<asked, snapshot, alerted, posts, counted, localEnd, usage, total, pending, calls>>

LocalIntervalEnds ==
    /\ ~localEnd /\ localEnd' = TRUE
    /\ UNCHANGED <<vendor, asked, snapshot, alerted, posts, counted, usage, total, pending, calls>>

-----------------------------------------------------------------------------
=============================================================================
