------------------------------ MODULE RateLimit -------------------------------
(***************************************************************************)
(* One pool of bundled/rate_limit_service: the context manager acquire(),  *)
(* its two waiting lanes, the credits of weighted admission, and the       *)
(* accounts with their concurrency and per-minute limits.                  *)
(*                                                                         *)
(* A caller is one `async with pool.acquire(...)`.  The lock of pool.cond  *)
(* is `mutex`: before Python 3.12 asyncio.wait_for runs cond.wait() in a   *)
(* task of its own, which takes and gives back the lock one turn of the    *)
(* event loop away from the caller's own steps.                            *)
(***************************************************************************)
EXTENDS Integers, Sequences, FiniteSets

CONSTANTS Callers,
          Agents,         \* the agent names callers give, "_anon" among them
          Anon,           \* "_anon"
          AgentOf, Lane, Hint,   \* agent, priority and cost_hint of a caller
          Timeout,        \* timeout of a caller, in ticks
          Cancellable,    \* callers whose task may be cancelled
          Rank,           \* the order of agent names
          Weight,         \* _weight_of
          NumAccounts,    \* accounts are numbered in the order of the config
          MaxConcurrent, Rpm,    \* limits per account, or None
          Strategy,
          Window,         \* RPM_WINDOW_SEC, in ticks
          Costs,          \* values actual_cost may be set to
          None,
          MaxTime         \* bound: the clock stops there

Accounts == 1..NumAccounts

ASSUME RateLimitAssumption ==
    /\ IsFiniteSet(Callers)
    /\ Anon \in Agents
    /\ AgentOf \in [Callers -> Agents]
    /\ Lane \in [Callers -> {"normal", "retry"}]
    /\ Timeout \in [Callers -> Nat]
    /\ Rank \in [Agents -> Nat]
    /\ \A a, b \in Agents : Rank[a] = Rank[b] => a = b
    /\ Weight \in [Agents -> Nat \ {0}]
    /\ NumAccounts \in Nat \ {0}
    /\ MaxConcurrent \in Nat \cup {None}
    /\ Rpm \in Nat \cup {None}
    /\ Strategy \in {"least_load", "round_robin"}
    /\ Window \in Nat /\ MaxTime \in Nat
    /\ Costs \subseteq Nat
    /\ None \notin Int /\ None \notin Callers

VARIABLES pc,        \* where a caller is in acquire()
          deadline,  \* when it gives up
          mutex,     \* who holds the lock of pool.cond
          retry,     \* retry_waiters
          weighted,  \* weighted_waiters
          credits,   \* credits, 0 for an agent not yet in the dictionary
          conc,      \* concurrent of an account
          calls,     \* call_times of an account
          account,   \* the account a caller was admitted to
          cursor,    \* rr_cursor, modulo the number of accounts
          now,       \* time.monotonic()
          admitted,  \* history: every admission to an account
          ahead      \* history: who of its agent and lane waited when a caller queued

vars == <<pc, deadline, mutex, retry, weighted, credits, conc, calls, account, cursor,
          now, admitted, ahead>>

TypeOK == /\ pc \in [Callers -> {"idle", "entering", "parking", "waiting", "holding",
                                 "releasing", "done", "timedout", "cancelled", "leaked"}]
          /\ deadline \in [Callers -> Nat]
          /\ mutex \in Callers \cup {None}
          /\ retry \in Seq(Callers)
          /\ weighted \in Seq(Callers)
          /\ credits \in [Agents -> Int]
          /\ conc \in [Accounts -> Int]
          /\ calls \in [Accounts -> Seq(Nat)]
          /\ account \in [Callers -> Accounts \cup {None}]
          /\ cursor \in 0..(NumAccounts - 1)
          /\ now \in Nat
          /\ admitted \in [Accounts -> Seq(Nat)]
          /\ ahead \in [Callers -> SUBSET Callers]

Init == /\ pc = [w \in Callers |-> "idle"]
        /\ deadline = [w \in Callers |-> 0]
        /\ mutex = None
        /\ retry = <<>>
        /\ weighted = <<>>
        /\ credits = [a \in Agents |-> 0]
        /\ conc = [i \in Accounts |-> 0]
        /\ calls = [i \in Accounts |-> <<>>]
        /\ account = [w \in Callers |-> None]
        /\ cursor = 0
        /\ now = 0
        /\ admitted = [i \in Accounts |-> <<>>]
        /\ ahead = [w \in Callers |-> {}]

\* Where a caller is while it waits for its turn.
Waiting == {"parking", "waiting"}

\* Callers one lane serves in turn.
Alike(v, w) == AgentOf[v] = AgentOf[w] /\ Lane[v] = Lane[w]

Members(q) == {q[i] : i \in DOMAIN q}

-----------------------------------------------------------------------------
(* The lanes *)

\* Waiters are dataclasses: they are equal when their fields are.
Equal(v, w) == Alike(v, w) /\ Hint[v] = Hint[w]

\* _dequeue: deque.remove takes out the first waiter that is equal to w.
Dequeue(q, w) ==
    IF \E i \in DOMAIN q : Equal(q[i], w)
    THEN LET k == CHOOSE i \in DOMAIN q :
                     Equal(q[i], w) /\ \A j \in DOMAIN q : Equal(q[j], w) => i <= j
         IN [i \in 1..(Len(q) - 1) |-> IF i < k THEN q[i] ELSE q[i + 1]]
    ELSE q

WaitingAgents(q) == {AgentOf[v] : v \in Members(q)}

\* The credits after a look at the weighted lane.
Refilled(q) ==
    IF \A a \in WaitingAgents(q) : credits[a] <= 0
    THEN [a \in Agents |-> IF a \in WaitingAgents(q) THEN credits[a] + Weight[a]
                                                     ELSE credits[a]]
    ELSE credits

\* The agent with the highest credit, the last by name among equals.
IsBest(a, q, cr) == /\ a \in WaitingAgents(q)
                    /\ \A b \in WaitingAgents(q) :
                          cr[b] < cr[a] \/ (cr[b] = cr[a] /\ Rank[b] <= Rank[a])

\* Fault: any waiter of the best agent may go.
MyTurnAnyOrder(w, rq, wq, cr) ==
    IF Lane[w] = "retry"
    THEN rq # <<>> /\ rq[1] = w
    ELSE /\ rq = <<>>
         /\ w \in Members(wq)
         /\ IsBest(AgentOf[w], wq, cr)

\* _is_my_turn.
MyTurn(w, rq, wq, cr) ==
    IF Lane[w] = "retry"
    THEN rq # <<>> /\ rq[1] = w
    ELSE /\ rq = <<>>
         /\ \E i \in DOMAIN wq :
               /\ wq[i] = w
               /\ IsBest(AgentOf[w], wq, cr)
               /\ \A j \in 1..(i - 1) : AgentOf[wq[j]] # AgentOf[w]

-----------------------------------------------------------------------------
(* The accounts *)

\* _pick_account.
Picked == IF Strategy = "round_robin"
          THEN cursor + 1
          ELSE CHOOSE i \in Accounts :
                  \A j \in Accounts : conc[i] < conc[j] \/ (conc[i] = conc[j] /\ i <= j)

\* Fault: the oldest call is forgotten although it is just one window old.
PruneEarly(times) == IF times # <<>> /\ times[1] + Window <= now THEN Tail(times) ELSE times

\* _prune: calls are popped from the left while they are older than the window.
Prune(times) ==
    LET n == CHOOSE k \in 0..Len(times) :
               /\ \A j \in 1..k : times[j] + Window < now
               /\ k < Len(times) => times[k + 1] + Window >= now
    IN SubSeq(times, n + 1, Len(times))

\* Fault: the limit itself is let in once more.
EligibleOneMore(i) == /\ MaxConcurrent # None => conc[i] <= MaxConcurrent
                      /\ Rpm # None => Len(Prune(calls[i])) < Rpm

\* _eligible.
Eligible(i) == /\ MaxConcurrent # None => conc[i] < MaxConcurrent
               /\ Rpm # None => Len(Prune(calls[i])) < Rpm

-----------------------------------------------------------------------------
(* acquire *)

\* acquire is called: the deadline is set; the lock may have to be waited for.
Arrive(w) == /\ pc[w] = "idle"
             /\ pc' = [pc EXCEPT ![w] = "entering"]
             /\ deadline' = [deadline EXCEPT ![w] = now + Timeout[w]]
             /\ UNCHANGED <<mutex, retry, weighted, credits, conc, calls, account, cursor,
                            now, admitted, ahead>>

\* A picked account that is eligible: the slot is taken.
Admit(w, rq, wq) ==
    LET i == Picked IN
    /\ pc' = [pc EXCEPT ![w] = "holding"]
    /\ account' = [account EXCEPT ![w] = i]
    /\ conc' = [conc EXCEPT ![i] = @ + 1]
    /\ calls' = [calls EXCEPT ![i] = Append(Prune(@), now)]
    /\ admitted' = [admitted EXCEPT ![i] = Append(@, now)]
    /\ retry' = Dequeue(rq, w)
    /\ weighted' = Dequeue(wq, w)
    /\ mutex' = None

\* Time is up.  The waiter is dequeued before the raise and, by the handler of
\* BaseException, once more.
GiveUp(w, rq, wq) == /\ pc' = [pc EXCEPT ![w] = "timedout"]
                     /\ retry' = Dequeue(Dequeue(rq, w), w)
                     /\ weighted' = Dequeue(Dequeue(wq, w), w)
                     /\ mutex' = None
                     /\ UNCHANGED <<account, conc, admitted>>

\* The wait begins; the lock is kept until cond.wait() gets to run (Park).
KeepWaiting(w, rq, wq) == /\ pc' = [pc EXCEPT ![w] = "parking"]
                          /\ retry' = rq
                          /\ weighted' = wq
                          /\ mutex' = w
                          /\ UNCHANGED <<account, conc, admitted>>

\* One round of the loop, with the lanes as it finds them.
Look(w, rq, wq) ==
    LET cr == IF Lane[w] = "normal" /\ rq = <<>> /\ wq # <<>> THEN Refilled(wq) ELSE credits
        turn == MyTurn(w, rq, wq, cr)
        pruned == [calls EXCEPT ![Picked] = Prune(@)]
    IN /\ credits' = cr
       /\ cursor' = IF turn /\ Strategy = "round_robin" THEN (cursor + 1) % NumAccounts
                                                        ELSE cursor
       /\ \/ /\ turn /\ Eligible(Picked)
             /\ Admit(w, rq, wq)
          \/ /\ ~(turn /\ Eligible(Picked))
             /\ calls' = IF turn THEN pruned ELSE calls
             /\ IF now >= deadline[w] THEN GiveUp(w, rq, wq) ELSE KeepWaiting(w, rq, wq)
       /\ UNCHANGED <<deadline, now>>

\* The lock is free: the waiter is queued and looks for the first time.
Enter(w) == /\ pc[w] = "entering"
            /\ mutex = None
            /\ ahead' = [ahead EXCEPT ![w] = {v \in Callers : Alike(v, w) /\ pc[v] \in Waiting}]
            /\ IF Lane[w] = "retry" THEN Look(w, Append(retry, w), weighted)
                                    ELSE Look(w, retry, Append(weighted, w))

\* cond.wait() runs and gives the lock back.
Park(w) == /\ pc[w] = "parking"
           /\ pc' = [pc EXCEPT ![w] = "waiting"]
           /\ mutex' = None
           /\ UNCHANGED <<deadline, retry, weighted, credits, conc, calls, account,
                          cursor, now, admitted, ahead>>

\* Notified or timed out, cond.wait() takes the lock again.
Grant(w) == /\ pc[w] = "waiting"
            /\ mutex = None
            /\ mutex' = w
            /\ UNCHANGED <<pc, deadline, retry, weighted, credits, conc, calls, account,
                           cursor, now, admitted, ahead>>

Recheck(w) == /\ pc[w] = "waiting"
              /\ mutex = w
              /\ Look(w, retry, weighted)
              /\ UNCHANGED ahead

\* Cancelled while it waits for the lock: it was not queued yet.
CancelEntering(w) == /\ w \in Cancellable
                     /\ pc[w] = "entering"
                     /\ pc' = [pc EXCEPT ![w] = "cancelled"]
                     /\ UNCHANGED <<deadline, mutex, retry, weighted, credits, conc,
                                    calls, account, cursor, now, admitted, ahead>>

\* Cancelled while it waits for its turn.
CancelWaiting(w) == /\ w \in Cancellable
                    /\ pc[w] \in Waiting
                    /\ mutex \in {None, w}
                    /\ pc' = [pc EXCEPT ![w] = "cancelled"]
                    /\ retry' = Dequeue(retry, w)
                    /\ weighted' = Dequeue(weighted, w)
                    /\ mutex' = None
                    /\ UNCHANGED <<deadline, credits, conc, calls, account, cursor, now,
                                   admitted, ahead>>

-----------------------------------------------------------------------------
(* The end of the body of `async with acquire(...)` *)

\* The lock is taken by another waiter's wait: the release has to wait.
HangOnLock(w) == /\ pc[w] = "holding"
                 /\ mutex # None
                 /\ pc' = [pc EXCEPT ![w] = "releasing"]
                 /\ UNCHANGED <<deadline, mutex, retry, weighted, credits, conc, calls,
                                account, cursor, now, admitted, ahead>>

\* Fault: the slot is given back only by a call that reports its cost.
ReleaseIfPaid(w) ==
    /\ pc[w] \in {"holding", "releasing"}
    /\ mutex = None
    /\ pc' = [pc EXCEPT ![w] = "done"]
    /\ \E cost \in Costs \cup {None} :
          IF cost # None
          THEN /\ credits' = [credits EXCEPT ![AgentOf[w]] = @ - cost]
               /\ conc' = [conc EXCEPT ![account[w]] = @ - 1]
          ELSE UNCHANGED <<credits, conc>>
    /\ UNCHANGED <<deadline, mutex, retry, weighted, calls, account, cursor, now, admitted, ahead>>

\* The slot is given back and, if the call set actual_cost, the agent's credit
\* is debited, whatever its lane.
Release(w) ==
    /\ pc[w] \in {"holding", "releasing"}
    /\ mutex = None
    /\ pc' = [pc EXCEPT ![w] = "done"]
    /\ conc' = [conc EXCEPT ![account[w]] = @ - 1]
    /\ \E cost \in Costs \cup {None} :
          credits' = IF cost # None /\ AgentOf[w] # Anon
                     THEN [credits EXCEPT ![AgentOf[w]] = @ - cost]
                     ELSE credits
    /\ UNCHANGED <<deadline, mutex, retry, weighted, calls, account, cursor, now, admitted, ahead>>

\* Cancelled while the release waits for the lock: the slot is never given back.
CancelRelease(w) == /\ w \in Cancellable
                    /\ pc[w] = "releasing"
                    /\ pc' = [pc EXCEPT ![w] = "leaked"]
                    /\ UNCHANGED <<deadline, mutex, retry, weighted, credits, conc,
                                   calls, account, cursor, now, admitted, ahead>>

\* The operation `status` prunes every account.
Snapshot == /\ calls' = [i \in Accounts |-> Prune(calls[i])]
            /\ UNCHANGED <<pc, deadline, mutex, retry, weighted, credits, conc, account,
                           cursor, now, admitted, ahead>>

Tick == /\ now < MaxTime
        /\ now' = now + 1
        /\ UNCHANGED <<pc, deadline, mutex, retry, weighted, credits, conc, calls, account,
                       cursor, admitted, ahead>>

CallerStep(w) == \/ Arrive(w) \/ Enter(w) \/ Park(w) \/ Grant(w) \/ Recheck(w)
                 \/ CancelEntering(w) \/ CancelWaiting(w)
                 \/ HangOnLock(w) \/ Release(w) \/ CancelRelease(w)

Next == (\E w \in Callers : CallerStep(w)) \/ Snapshot \/ Tick

Spec == Init /\ [][Next]_vars

\* A task that can run runs; a waiter polls, and a task that waits for the lock
\* gets it in its turn; bodies end.  Nobody need call or be cancelled.
Fairness == /\ \A w \in Callers : /\ SF_vars(Enter(w) \/ Grant(w) \/ Release(w))
                                  /\ WF_vars(Park(w) \/ Recheck(w))
            /\ WF_vars(Tick)

-----------------------------------------------------------------------------
Occupying == {"holding", "releasing", "leaked"}
Occupants(i) == {w \in Callers : pc[w] \in Occupying /\ account[w] = i}

\* `concurrent` counts the callers inside the body, and those whose release was
\* cancelled, whatever order bodies end, are cancelled and are admitted in.
SlotsAccounted == \A i \in Accounts : conc[i] = Cardinality(Occupants(i))

\* No account ever has more callers inside than max_concurrent.
WithinLimit == MaxConcurrent # None =>
    \A i \in Accounts : Cardinality(Occupants(i)) <= MaxConcurrent

\* The inductive invariant behind both.
IInv == /\ TypeOK
        /\ \A w \in Callers : pc[w] \in Occupying => account[w] \in Accounts
        /\ SlotsAccounted
        /\ WithinLimit

\* rpm: of any Rpm + 1 admissions in a row to one account, the first and the
\* last are more than a window apart, although call_times is pruned only when
\* somebody looks.
RpmKept == Rpm # None =>
    \A i \in Accounts : \A k \in DOMAIN admitted[i] :
        k + Rpm <= Len(admitted[i]) => admitted[i][k + Rpm] - admitted[i][k] > Window

\* Why rpm is kept: call_times are the last admissions, and those that were
\* pruned from it are out of the window for good.
WindowInv ==
    \A i \in Accounts :
        LET old == Len(admitted[i]) - Len(calls[i]) IN
        /\ old >= 0
        /\ \A k \in DOMAIN calls[i] : calls[i][k] = admitted[i][old + k]
        /\ \A k \in 1..old : admitted[i][k] + Window < now

\* Weighted admission never lets an agent save up: however long it was away or
\* others were in debt, an agent has at most the credit of one refill.
CreditCapped == \A a \in Agents : credits[a] <= Weight[a]

\* No account counts more than the callers inside it: a slot is given back at
\* the latest when its caller has left the body, whatever became of its task.  Does not
\* hold: CancelRelease (handler.py:252).
SlotsReturned == \A i \in Accounts :
    conc[i] = Cardinality({w \in Callers : pc[w] \in {"holding", "releasing"} /\ account[w] = i})

Gone == {"timedout", "cancelled"}

\* A caller that waits while one that queued after it in its lane is let in.
Overtaken(v, w) == /\ v \in ahead[w]
                   /\ pc[v] \in Waiting
                   /\ pc[w] \in Occupying \cup {"done"}

\* Within an agent, callers are admitted in the order they came in.
FifoWithinAgent == \A v, w \in Callers : ~Overtaken(v, w)

\* A caller is overtaken within its agent and lane only if another that is equal
\* to it field by field gave up or was cancelled, and took its waiter along:
\* whatever else times out, is cancelled, has credit or debt, the lane keeps its
\* order.
NoOvertaking ==
    \A v, w \in Callers : Overtaken(v, w) =>
        \E u \in Callers \ {v} : Equal(u, v) /\ pc[u] \in Gone

\* Why: a lane is in the order of arrival, those in it wait, or have left and
\* taken the waiter of another, and a caller that waits outside it is one whose
\* waiter was taken.
InOrder(q) == \A i, j \in DOMAIN q : q[i] \in ahead[q[j]] => i < j
InLane(v) == v \in Members(IF Lane[v] = "retry" THEN retry ELSE weighted)
LaneInv ==
    /\ \A q \in {retry, weighted} :
          /\ InOrder(q)
          /\ \A i, j \in DOMAIN q : q[i] = q[j] => i = j
          /\ \A v \in Members(q) : pc[v] \in Waiting \cup Gone
    /\ \A v \in Members(retry) : Lane[v] = "retry"
    /\ \A v \in Members(weighted) : Lane[v] = "normal"
    /\ \A w \in Callers : \A v \in ahead[w] :
          Alike(v, w) /\ v # w /\ pc[v] \notin {"idle", "entering"}
    /\ \A w \in Callers : pc[w] \in {"idle", "entering"} => ahead[w] = {}
    /\ \A v \in Callers : pc[v] \in Waiting /\ ~InLane(v) =>
          \E u \in Callers \ {v} : Equal(u, v) /\ pc[u] \in Gone

\* A caller with all the time of the world is served: the lanes, the credits and
\* the debts, and the timeouts of others, leave it out for ever no more than
\* they let it overtake.
Served == \A w \in Callers : pc[w] = "entering" /\ Timeout[w] > MaxTime ~> pc[w] = "done"

\* The pool implements the abstract permits.
stage == [w \in Callers |->
            CASE pc[w] \in {"idle", "entering"} \cup Waiting -> "asking"
              [] pc[w] \in {"holding", "releasing"} -> "granted"
              [] OTHER -> "over"]
permit == [w \in Callers |-> IF pc[w] \in Occupying THEN account[w] ELSE None]

P == INSTANCE Permits WITH Limit <- MaxConcurrent

\* Every step of a pool grants, refuses or returns a permit, or changes nothing
\* a caller can see.
ImplementsPermits == P!Spec

=============================================================================
