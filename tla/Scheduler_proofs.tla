--------------------------- MODULE Scheduler_proofs ---------------------------
(***************************************************************************)
(* Proofs about the scheduler over the budget, for every set of agents,    *)
(* schedules, reservations and thresholds: alerts are posted once and in   *)
(* order, the throttle never falls below a cap event, and a reservation    *)
(* never holds back the agent it is made for.                              *)
(***************************************************************************)
EXTENDS Scheduler, SequenceTheorems, TLAPS

Levels == {"soft", "hard"}
AlertPosts == [level : Levels, window : Nat]
Account == [window : Nat, used : Nat]

\* Types of what the proofs below speak of.
TypeOK ==
    /\ script \in Scripts
    /\ vendor \in Account
    /\ asked \in [Refreshers -> Account \cup {None}]
    /\ alerted \in [soft : SUBSET Nat, hard : SUBSET Nat]
    /\ posts \in Seq(AlertPosts) /\ posted \in Seq(AlertPosts)
    /\ counted \in [Agents -> Nat] /\ localEnd \in BOOLEAN
    /\ \A e \in pending : e.agent \in Agents
    /\ stage \in [Schedules -> {"off", "sleeping", "asking", "allowed", "denied"}]
    /\ \A s \in Schedules : stage[s] # "off" => Valid(Entry[s])
    /\ throttle \in [level : DOMAIN Rank, past : BOOLEAN]
    /\ standing \subseteq DOMAIN Rank

-----------------------------------------------------------------------------
(* Types *)

LEMMA InitTypeOK == Init => TypeOK
<1> SUFFICES ASSUME Init PROVE TypeOK
  OBVIOUS
<1>1. /\ vendor \in Account /\ asked \in [Refreshers -> Account \cup {None}]
      /\ alerted \in [soft : SUBSET Nat, hard : SUBSET Nat]
      /\ counted \in [Agents -> Nat] /\ localEnd \in BOOLEAN /\ pending = {}
      /\ posts = <<>> /\ posted = <<>>
  BY DEF Init, InitBudget, Account
<1>2. posts \in Seq(AlertPosts) /\ posted \in Seq(AlertPosts)
  BY <1>1, EmptySeq
<1>3. /\ stage \in [Schedules -> {"off", "sleeping", "asking", "allowed", "denied"}]
      /\ \A s \in Schedules : stage[s] # "off" => Valid(Entry[s])
  BY DEF Init, Started
<1>4. throttle \in [level : DOMAIN Rank, past : BOOLEAN] /\ standing \subseteq DOMAIN Rank /\ script \in Scripts
  BY DEF Init, Normal, Rank
<1> QED
  BY <1>1, <1>2, <1>3, <1>4 DEF TypeOK

LEMMA RolledType == TypeOK => Rolled \in [Agents -> Nat]
BY DEF TypeOK, Rolled

LEMMA LookType == TypeOK /\ Look => /\ throttle' \in [level : DOMAIN Rank, past : BOOLEAN]
                                    /\ standing' \subseteq DOMAIN Rank
BY DEF TypeOK, Look, Current, Normal, Rank

\* A valid entry names an agent.
LEMMA ValidTarget ==
  ASSUME NEW s \in Schedules, Valid(Entry[s])
  PROVE  Entry[s].target \in Agents
BY SchedulerAssumption DEF Valid

\* The alert that a refresh posts, if any.
LEMMA RefreshedShape ==
  ASSUME TypeOK, NEW r \in Refreshers, Refreshed(r)
  PROVE  \E w \in Nat, level \in Levels \cup {"none"} :
            /\ level = "hard" => w \notin alerted.hard
            /\ level = "soft" => w \notin alerted.soft
            /\ posts' = IF level = "none" THEN posts ELSE Append(posts, [level |-> level, window |-> w])
            /\ alerted' = [soft |-> alerted.soft \cup (IF level = "none" THEN {} ELSE {w}),
                           hard |-> alerted.hard \cup (IF level = "hard" THEN {w} ELSE {})]
<1> DEFINE seen == asked[r]
<1>1. seen.window \in Nat
  BY DEF Refreshed, TypeOK, Account
<1>2. /\ Alert(seen) \in Levels \cup {"none"}
      /\ Alert(seen) = "hard" => seen.window \notin alerted.hard
      /\ Alert(seen) = "soft" => seen.window \notin alerted.soft
  BY DEF Alert, Levels
<1>3. /\ alerted' = Remembered(seen)
      /\ posts' = IF Alert(seen) = "none" THEN posts
                  ELSE Append(posts, [level |-> Alert(seen), window |-> seen.window])
  BY DEF Refreshed
<1> QED
  BY <1>1, <1>2, <1>3 DEF Remembered

LEMMA NextTypeOK == TypeOK /\ [Next]_vars => TypeOK'
<1> SUFFICES ASSUME TypeOK, [Next]_vars PROVE TypeOK'
  OBVIOUS
<1> USE DEF svars, bvars
<1>1. ASSUME NEW s \in Schedules, Tick(s) PROVE TypeOK'
  BY <1>1, LookType DEF TypeOK, Tick, Goes, Send
<1>2. ASSUME NEW s \in Schedules, Judge(s) PROVE TypeOK'
  <2>1. counted' \in [Agents -> Nat] /\ localEnd' \in BOOLEAN
    BY <1>2, RolledType DEF Judge, Looked
  <2>2. \E l \in {"allowed", "denied"} : stage' = [stage EXCEPT ![s] = l]
    BY <1>2 DEF Judge, Goes
  <2>3. /\ stage' \in [Schedules -> {"off", "sleeping", "asking", "allowed", "denied"}]
        /\ \A t \in Schedules : stage'[t] # "off" => Valid(Entry[t])
    BY <1>2, <2>2 DEF TypeOK, Judge
  <2> QED
    BY <1>2, <2>1, <2>3 DEF TypeOK, Judge
<1>3. ASSUME NEW s \in Schedules, NoAnswer(s) \/ Resume(s) PROVE TypeOK'
  BY <1>3 DEF TypeOK, NoAnswer, Resume, Send, Goes
<1>4. CASE CapEvent
  <2>1. posts # <<>> /\ posts \in Seq(AlertPosts) /\ posted \in Seq(AlertPosts)
    BY <1>4 DEF CapEvent, TypeOK
  <2>2. Head(posts) \in AlertPosts /\ Tail(posts) \in Seq(AlertPosts)
    BY <2>1, HeadTailProperties
  <2>3. posts' \in Seq(AlertPosts) /\ posted' \in Seq(AlertPosts)
    BY <1>4, <2>1, <2>2, AppendProperties DEF CapEvent
  <2>4. throttle' \in [level : DOMAIN Rank, past : BOOLEAN] /\ standing' \subseteq DOMAIN Rank
    BY <1>4, <2>2 DEF CapEvent, TypeOK, Raised, Rank, AlertPosts, Levels
  <2> QED
    BY <1>4, <2>3, <2>4 DEF CapEvent, TypeOK
<1>5. CASE TtlPasses \/ Status
  BY <1>5, LookType DEF TypeOK, TtlPasses, Status
<1>6. CASE Reload
  BY <1>6 DEF TypeOK, Reload, Normal, Rank, Started
<1>7. CASE Reset
  BY <1>7 DEF TypeOK, Reset, ResetLocal
<1>8. CASE Restart
  <2>1. <<>> \in Seq(AlertPosts)
    BY EmptySeq
  <2> QED
    BY <1>8, <2>1 DEF TypeOK, Restart, RestartBudget
<1>9. CASE World
  <2>1. vendor.window \in Nat /\ vendor.used \in Nat /\ vendor = [window |-> vendor.window, used |-> vendor.used]
    BY DEF TypeOK, Account
  <2>2. CASE UsedElsewhere
    <3>1. vendor' \in Account
      BY <2>1, <2>2 DEF UsedElsewhere, Account
    <3> QED
      BY <1>9, <2>2, <3>1 DEF TypeOK, World, UsedElsewhere
  <2>3. CASE IntervalEnds
    <3>1. vendor' \in Account
      BY <2>1, <2>3 DEF IntervalEnds, Account
    <3> QED
      BY <1>9, <2>3, <3>1 DEF TypeOK, World, IntervalEnds
  <2>4. CASE LocalIntervalEnds
    BY <1>9, <2>4 DEF TypeOK, World, LocalIntervalEnds
  <2> QED
    BY <1>9, <2>2, <2>3, <2>4 DEF World
<1>10. ASSUME NEW level \in DOMAIN Rank, Override(level) PROVE TypeOK'
  BY <1>10 DEF TypeOK, Override
<1>11. ASSUME NEW r \in Refreshers, Polled(r) PROVE TypeOK'
  <2>1. CASE Fetch(r) \/ FetchFails(r)
    BY <1>11, <2>1 DEF TypeOK, Polled, Fetch, FetchFails
  <2>2. CASE Refreshed(r)
    <3>1. PICK w \in Nat, level \in Levels \cup {"none"} :
            /\ posts' = IF level = "none" THEN posts ELSE Append(posts, [level |-> level, window |-> w])
            /\ alerted' = [soft |-> alerted.soft \cup (IF level = "none" THEN {} ELSE {w}),
                           hard |-> alerted.hard \cup (IF level = "hard" THEN {w} ELSE {})]
      BY <2>2, RefreshedShape
    <3>2. alerted' \in [soft : SUBSET Nat, hard : SUBSET Nat]
      BY <3>1 DEF TypeOK
    <3>3. posts' \in Seq(AlertPosts)
      <4>1. CASE level = "none"
        BY <3>1, <4>1 DEF TypeOK
      <4>2. CASE level # "none"
        <5>1. [level |-> level, window |-> w] \in AlertPosts /\ posts \in Seq(AlertPosts)
          BY <4>2 DEF AlertPosts, TypeOK
        <5> QED
          BY <3>1, <4>2, <5>1, AppendProperties
      <4> QED
        BY <4>1, <4>2
    <3> QED
      BY <1>11, <2>2, <3>2, <3>3 DEF TypeOK, Polled, Refreshed
  <2> QED
    BY <1>11, <2>1, <2>2 DEF Polled
<1>12. ASSUME NEW a \in Agents, Refused(a) \/ Hour(a) PROVE TypeOK'
  BY <1>12 DEF TypeOK, Refused, Hour, HourPasses
<1>13. ASSUME NEW a \in Agents, NEW t, Answered(a, t) \/ OwnCall(a, t) PROVE TypeOK'
  <2>1. Served(a, t) /\ UNCHANGED <<script, throttle, stage, standing, posted>>
    BY <1>13 DEF Answered, OwnCall
  <2>2. vendor.window \in Nat /\ vendor.used \in Nat /\ vendor = [window |-> vendor.window, used |-> vendor.used]
    BY DEF TypeOK, Account
  <2>3. vendor' \in Account
    BY <2>1, <2>2 DEF Served, Account
  <2>4. \A e \in pending' : e.agent \in Agents
    BY <2>1 DEF Served, TypeOK
  <2> QED
    BY <2>1, <2>3, <2>4 DEF TypeOK, Served
<1>14. ASSUME NEW e \in pending, Heard(e) PROVE TypeOK'
  <2>1. e.agent \in Agents /\ Rolled \in [Agents -> Nat]
    BY RolledType DEF TypeOK
  <2>2. counted' = [Rolled EXCEPT ![e.agent] = @ + 1]
    BY <1>14 DEF Heard, Completed
  <2>3. counted' \in [Agents -> Nat]
    BY <2>1, <2>2
  <2>4. pending' \subseteq pending /\ localEnd' = FALSE
    BY <1>14 DEF Heard, Completed
  <2> QED
    BY <1>14, <2>3, <2>4 DEF TypeOK, Heard, Completed
<1>15. CASE UNCHANGED vars
  BY <1>15 DEF TypeOK, vars
<1> QED
  BY <1>1, <1>2, <1>3, <1>4, <1>5, <1>6, <1>7, <1>8, <1>9, <1>10, <1>11, <1>12, <1>13, <1>14, <1>15
  DEF Next

-----------------------------------------------------------------------------
(* The throttle *)

\* The level is that of the throttle, and it falls at a look: by then no cap event
\* has time left.
Holding == \A level \in standing : Rank[throttle.level] >= Rank[level]
CapInv == /\ TypeOK
          /\ Holding
          /\ throttle.past => standing = {}

HoldsOn == Holding' /\ (throttle'.past => standing' = {})

LEMMA LookKeepsCap == CapInv /\ Look => HoldsOn
BY DEF CapInv, Holding, HoldsOn, TypeOK, Look, Current, Normal, Rank

\* A cap event raises the level to its own or leaves a higher one.
LEMMA RaisedSuffices ==
  ASSUME TypeOK, NEW level \in Levels
  PROVE  /\ Rank[Raised(level)] >= Rank[level]
         /\ Rank[Raised(level)] >= Rank[throttle.level]
BY DEF TypeOK, Raised, Rank, Levels

LEMMA NextCapInv == CapInv /\ [Next]_vars => CapInv'
<1> SUFFICES ASSUME CapInv, [Next]_vars PROVE HoldsOn
  BY NextTypeOK DEF CapInv, HoldsOn
<1>1. ASSUME UNCHANGED <<throttle, standing>> PROVE HoldsOn
  BY <1>1 DEF CapInv, Holding, HoldsOn
<1>2. ASSUME NEW s \in Schedules, Tick(s) PROVE HoldsOn
  BY <1>2, LookKeepsCap DEF Tick
<1>3. CASE CapEvent
  <2>1. posts # <<>> /\ posts \in Seq(AlertPosts)
    BY <1>3 DEF CapEvent, CapInv, TypeOK
  <2>2. Head(posts).level \in Levels
    <3>1. Head(posts) \in AlertPosts
      BY <2>1, HeadTailProperties
    <3> QED
      BY <3>1 DEF AlertPosts
  <2> DEFINE new == Raised(Head(posts).level)
  <2>3. /\ throttle'.level = new /\ ~throttle'.past
        /\ standing' = standing \cup {Head(posts).level}
    BY <1>3 DEF CapEvent
  <2>4. Rank[new] >= Rank[Head(posts).level] /\ Rank[new] >= Rank[throttle.level]
    BY <2>2, RaisedSuffices DEF CapInv
  <2>5. new \in DOMAIN Rank /\ throttle.level \in DOMAIN Rank /\ standing \subseteq DOMAIN Rank
    BY <2>2 DEF CapInv, TypeOK, Raised, Levels, Rank
  <2> HIDE DEF new
  <2>6. \A level \in DOMAIN Rank : Rank[level] \in Nat
    BY DEF Rank
  <2>7. ASSUME NEW level \in standing PROVE Rank[new] >= Rank[level]
    BY <2>4, <2>5, <2>6, <2>7 DEF CapInv, Holding
  <2> QED
    BY <2>3, <2>4, <2>7 DEF HoldsOn, Holding
<1>4. CASE Status
  BY <1>4, LookKeepsCap DEF Status
<1>5. CASE TtlPasses
  BY <1>5 DEF TtlPasses, HoldsOn, Holding
<1>6. CASE Reload
  BY <1>6 DEF Reload, Normal, HoldsOn, Holding
<1>7. ASSUME NEW level \in DOMAIN Rank, Override(level) PROVE HoldsOn
  BY <1>7 DEF Override, Rank, HoldsOn, Holding
<1>8. CASE Reset \/ Restart \/ World
  BY <1>1, <1>8 DEF Reset, Restart, World, svars
<1>9. ASSUME NEW s \in Schedules, Judge(s) \/ NoAnswer(s) \/ Resume(s)
      PROVE  UNCHANGED <<throttle, standing>>
  BY <1>9 DEF Judge, NoAnswer, Resume
<1>10. ASSUME NEW r \in Refreshers, Polled(r) PROVE UNCHANGED <<throttle, standing>>
  BY <1>10 DEF Polled, svars
<1>11. ASSUME NEW a \in Agents, Refused(a) \/ Hour(a) PROVE UNCHANGED <<throttle, standing>>
  BY <1>11 DEF Refused, Hour, svars
<1>12. ASSUME NEW a \in Agents, NEW t, Answered(a, t) \/ OwnCall(a, t)
       PROVE  UNCHANGED <<throttle, standing>>
  BY <1>12 DEF Answered, OwnCall, svars
<1>13. ASSUME NEW e, Heard(e) PROVE UNCHANGED <<throttle, standing>>
  BY <1>13 DEF Heard, svars
<1>14. CASE UNCHANGED vars
  BY <1>1, <1>14 DEF vars, svars
<1> QED
  BY <1>1, <1>2, <1>3, <1>4, <1>5, <1>6, <1>7, <1>8, <1>9, <1>10, <1>11, <1>12, <1>13, <1>14 DEF Next

\* Whatever cap events come in whatever order, and whoever looks when, the throttle is at
\* least as strict as each of them until its time is up or an operator steps in.
THEOREM ThrottleHolds == Spec => []CapHolds
<1>1. Init => CapInv
  BY InitTypeOK DEF Init, Normal, CapInv, Holding
<1>2. CapInv => CapHolds
  BY DEF CapInv, Holding, CapHolds, Current
<1> QED
  BY <1>1, <1>2, NextCapInv, PTL DEF Spec

-----------------------------------------------------------------------------
(* Reservations *)

\* A denied agent has used its floor, by counters that CanServe takes as rolled.
LEMMA DeniedHasUsed ==
  ASSUME TypeOK, NEW a \in Agents, ~CanServe(a)
  PROVE  Reserve[a] = 0 \/ (~localEnd /\ counted[a] >= Reserve[a])
<1>1. ~(Unused(a, Rolled) > 0)
  BY DEF CanServe
<1>2. Reserve[a] \in Nat
  BY BudgetAssumption
<1>3. Rolled \in [Agents -> Nat]
  BY RolledType
<1>4. Rolled[a] >= Reserve[a]
  BY <1>1, <1>2, <1>3 DEF Unused
<1>5. CASE localEnd
  BY <1>2, <1>4, <1>5 DEF Rolled
<1>6. CASE ~localEnd
  BY <1>4, <1>6 DEF Rolled
<1> QED
  BY <1>5, <1>6

\* No schedule is held back while its target has part of its floor left.
THEOREM FloorServes == Spec => FloorNotDenied
<1> DEFINE Denial(s) == stage[s] = "asking" /\ stage'[s] = "denied"
           Spent(s) == \/ Reserve[Entry[s].target] = 0
                       \/ ~localEnd /\ counted[Entry[s].target] >= Reserve[Entry[s].target]
<1>1. ASSUME TypeOK, [Next]_vars, NEW s \in Schedules, Denial(s) PROVE Spent(s)
  <2>1. stage \in [Schedules -> {"off", "sleeping", "asking", "allowed", "denied"}]
    BY <1>1 DEF TypeOK
  <2>2. Entry[s].target \in Agents
    BY <1>1, ValidTarget DEF TypeOK
  <2>3. ASSUME Judge(s) PROVE Spent(s)
    <3>1. ~CanServe(Entry[s].target)
      BY <1>1, <2>1, <2>3 DEF Judge, Goes
    <3> QED
      BY <1>1, <2>2, <3>1, DeniedHasUsed
  <2>4. ASSUME NEW t \in Schedules, Tick(t) \/ NoAnswer(t) \/ Resume(t) \/ (Judge(t) /\ t # s) PROVE FALSE
    BY <1>1, <2>1, <2>4 DEF Tick, NoAnswer, Resume, Judge, Goes, Send
  <2>5. ~Reload
    BY <1>1 DEF Reload, Started
  <2>6. stage' # stage
    BY <1>1
  <2>7. ~(CapEvent \/ TtlPasses \/ Status \/ Reset \/ Restart \/ World \/ UNCHANGED vars)
    BY <2>6 DEF CapEvent, TtlPasses, Status, Reset, Restart, World, svars, vars
  <2>8. ASSUME NEW level, Override(level) PROVE FALSE
    BY <2>6, <2>8 DEF Override
  <2>9. ASSUME NEW r, Polled(r) PROVE FALSE
    BY <2>6, <2>9 DEF Polled, svars
  <2>10. ASSUME NEW a, Refused(a) \/ Hour(a) PROVE FALSE
    BY <2>6, <2>10 DEF Refused, Hour, svars
  <2>11. ASSUME NEW a, NEW t, Answered(a, t) \/ OwnCall(a, t) PROVE FALSE
    BY <2>6, <2>11 DEF Answered, OwnCall, svars
  <2>12. ASSUME NEW e, Heard(e) PROVE FALSE
    BY <2>6, <2>12 DEF Heard, svars
  <2> QED
    BY <1>1, <2>3, <2>4, <2>5, <2>7, <2>8, <2>9, <2>10, <2>11, <2>12 DEF Next
<1>2. TypeOK /\ [Next]_vars => [\A s \in Schedules : Denial(s) => Spent(s)]_vars
  BY <1>1
<1> QED
  BY <1>2, InitTypeOK, NextTypeOK, PTL DEF Spec, FloorNotDenied

-----------------------------------------------------------------------------
(* Alerts *)

\* The alerts of this life of the budget in the order of their making: those that
\* have reached the subscribers, then those whose publishing task has not run.
Made == posted \o posts

Ordered(s) ==
    \A i, j \in 1..Len(s) :
        i < j /\ s[i].window = s[j].window => s[i].level = "soft" /\ s[j].level = "hard"

Covered(s, marks) ==
    \A i \in 1..Len(s) :
        /\ s[i].window \in marks.soft
        /\ s[i].level = "hard" => s[i].window \in marks.hard

\* What has been made is remembered: an alert that is not in the marks is new.
AlertInv == TypeOK /\ Ordered(Made) /\ Covered(Made, alerted)

LEMMA DeliveryKeepsMade ==
  ASSUME NEW S, NEW s \in Seq(S), NEW t \in Seq(S), t # <<>>
  PROVE  Append(s, Head(t)) \o Tail(t) = s \o t
<1>1. /\ Len(t) \in Nat /\ Len(t) > 0 /\ Len(s) \in Nat
  BY EmptySeq, LenProperties
<1>2. /\ Head(t) = t[1] /\ Tail(t) \in Seq(S) /\ Len(Tail(t)) = Len(t) - 1
      /\ \A i \in 1..Len(Tail(t)) : Tail(t)[i] = t[i + 1]
  BY HeadTailProperties
<1>3. Head(t) \in S
  BY HeadTailProperties
<1>4. /\ Append(s, Head(t)) \in Seq(S) /\ Len(Append(s, Head(t))) = Len(s) + 1
      /\ \A i \in 1..Len(s) : Append(s, Head(t))[i] = s[i]
      /\ Append(s, Head(t))[Len(s) + 1] = t[1]
  BY <1>2, <1>3, AppendProperties
<1> DEFINE u == Append(s, Head(t))  v == Tail(t)
<1>5. /\ u \o v \in Seq(S) /\ Len(u \o v) = Len(u) + Len(v)
      /\ \A i \in 1..(Len(u) + Len(v)) : (u \o v)[i] = IF i <= Len(u) THEN u[i] ELSE v[i - Len(u)]
  BY <1>2, <1>4, ConcatProperties
<1>6. /\ s \o t \in Seq(S) /\ Len(s \o t) = Len(s) + Len(t)
      /\ \A i \in 1..(Len(s) + Len(t)) : (s \o t)[i] = IF i <= Len(s) THEN s[i] ELSE t[i - Len(s)]
  BY ConcatProperties
<1> HIDE DEF u, v
<1>7. Len(u) = Len(s) + 1 /\ Len(v) = Len(t) - 1
  BY <1>2, <1>4 DEF u, v
<1>8. Len(u \o v) = Len(s \o t)
  BY <1>1, <1>5, <1>6, <1>7
<1>9. ASSUME NEW i \in 1..Len(u \o v) PROVE (u \o v)[i] = (s \o t)[i]
  <2>1. i \in Nat /\ i >= 1 /\ i <= Len(s) + Len(t)
    BY <1>1, <1>6, <1>8, <1>9
  <2>2. CASE i <= Len(s)
    <3>1. u[i] = s[i]
      BY <1>1, <1>4, <2>1, <2>2 DEF u
    <3> QED
      BY <1>1, <1>5, <1>6, <1>7, <2>1, <2>2, <3>1
  <2>3. CASE i = Len(s) + 1
    <3>1. u[i] = t[1]
      BY <1>4, <2>3 DEF u
    <3> QED
      BY <1>1, <1>5, <1>6, <1>7, <2>1, <2>3, <3>1
  <2>4. CASE i > Len(s) + 1
    <3>1. i - Len(u) \in 1..Len(v) /\ (i - Len(u)) + 1 = i - Len(s)
      BY <1>1, <1>7, <2>1, <2>4
    <3>2. v[i - Len(u)] = t[i - Len(s)]
      BY <1>2, <3>1 DEF v
    <3> QED
      BY <1>1, <1>5, <1>6, <1>7, <2>1, <2>4, <3>2
  <2> QED
    BY <1>1, <2>1, <2>2, <2>3, <2>4
<1>10. u \o v = s \o t
  BY <1>5, <1>6, <1>8, <1>9, SeqEqual
<1> QED
  BY <1>10 DEF u, v

LEMMA PostingExtendsMade ==
  ASSUME NEW S, NEW s \in Seq(S), NEW t \in Seq(S), NEW e \in S
  PROVE  s \o Append(t, e) = Append(s \o t, e)
<1>1. <<e>> \in Seq(S)
  OBVIOUS
<1>2. Append(t, e) = t \o <<e>> /\ Append(s \o t, e) = (s \o t) \o <<e>>
  BY AppendIsConcat, ConcatProperties
<1> QED
  BY <1>1, <1>2, ConcatAssociative

\* An alert that the marks do not know may come next.
LEMMA OrderedAppend ==
  ASSUME NEW s \in Seq(AlertPosts), NEW e \in AlertPosts,
         NEW marks \in [soft : SUBSET Nat, hard : SUBSET Nat],
         Ordered(s), Covered(s, marks),
         e.level = "hard" => e.window \notin marks.hard,
         e.level = "soft" => e.window \notin marks.soft
  PROVE  /\ Ordered(Append(s, e))
         /\ Covered(Append(s, e), [soft |-> marks.soft \cup {e.window},
                                   hard |-> marks.hard \cup (IF e.level = "hard" THEN {e.window} ELSE {})])
<1>1. /\ Len(s) \in Nat /\ Len(Append(s, e)) = Len(s) + 1
      /\ \A i \in 1..Len(s) : Append(s, e)[i] = s[i]
      /\ Append(s, e)[Len(s) + 1] = e
  BY AppendProperties, LenProperties
<1>2. \A i \in 1..Len(s) : s[i] \in AlertPosts
  BY ElementOfSeq
<1>3. e.level \in Levels
  BY DEF AlertPosts
<1> DEFINE u == Append(s, e)
<1> HIDE DEF u
<1>4. ASSUME NEW i \in 1..Len(u), NEW j \in 1..Len(u), i < j, u[i].window = u[j].window
      PROVE  u[i].level = "soft" /\ u[j].level = "hard"
  <2>1. i \in 1..Len(s) /\ u[i] = s[i]
    BY <1>1, <1>4 DEF u
  <2>2. CASE j \in 1..Len(s)
    BY <1>1, <1>4, <2>1, <2>2 DEF u, Ordered
  <2>3. CASE j = Len(s) + 1
    <3>1. u[j] = e
      BY <1>1, <2>3 DEF u
    <3>2. s[i].window \in marks.soft /\ (s[i].level = "hard" => s[i].window \in marks.hard)
      BY <2>1 DEF Covered
    <3>3. e.level = "hard" /\ s[i].level # "hard"
      BY <1>3, <1>4, <2>1, <3>1, <3>2 DEF Levels
    <3>4. s[i].level \in Levels
      BY <1>2, <2>1 DEF AlertPosts
    <3> QED
      BY <2>1, <3>1, <3>3, <3>4 DEF Levels
  <2> QED
    BY <1>1, <1>4, <2>2, <2>3 DEF u
<1>5. Ordered(u)
  BY <1>4 DEF Ordered
<1>6. ASSUME NEW i \in 1..Len(u)
      PROVE  /\ u[i].window \in marks.soft \cup {e.window}
             /\ u[i].level = "hard"
                  => u[i].window \in marks.hard \cup (IF e.level = "hard" THEN {e.window} ELSE {})
  <2>1. CASE i \in 1..Len(s)
    <3>1. u[i] = s[i]
      BY <1>1, <2>1 DEF u
    <3> QED
      BY <2>1, <3>1 DEF Covered
  <2>2. CASE i = Len(s) + 1
    BY <1>1, <2>2 DEF u
  <2> QED
    BY <1>1, <1>6, <2>1, <2>2 DEF u
<1> QED
  BY <1>5, <1>6 DEF Covered, u

LEMMA NextAlertInv == AlertInv /\ [Next]_vars => AlertInv'
<1> SUFFICES ASSUME AlertInv, [Next]_vars PROVE Ordered(Made)' /\ Covered(Made, alerted)'
  BY NextTypeOK DEF AlertInv
<1> DEFINE Kept == Ordered(Made)' /\ Covered(Made, alerted)'
<1>a. posts \in Seq(AlertPosts) /\ posted \in Seq(AlertPosts) /\ Made \in Seq(AlertPosts)
  <2>1. posts \in Seq(AlertPosts) /\ posted \in Seq(AlertPosts)
    BY DEF AlertInv, TypeOK
  <2> QED
    BY <2>1, ConcatProperties DEF Made
<1>1. ASSUME UNCHANGED <<posts, posted, alerted>> PROVE Kept
  BY <1>1 DEF AlertInv, Made, Ordered, Covered
<1>2. CASE CapEvent
  <2>1. posts # <<>> /\ posted' = Append(posted, Head(posts)) /\ posts' = Tail(posts) /\ alerted' = alerted
    BY <1>2 DEF CapEvent
  <2>2. Made' = Made
    BY <1>a, <2>1, DeliveryKeepsMade DEF Made
  <2> QED
    BY <2>1, <2>2 DEF AlertInv, Ordered, Covered
<1>3. CASE Restart
  <2>1. posts' = <<>> /\ posted' = <<>>
    BY <1>3 DEF Restart, RestartBudget
  <2>2. Len(Made') = 0
    BY <2>1, EmptySeq, ConcatEmptySeq, ConcatProperties DEF Made
  <2> QED
    BY <2>2 DEF Ordered, Covered
<1>4. ASSUME NEW r \in Refreshers, Polled(r) PROVE Kept
  <2>1. posted' = posted
    BY <1>4 DEF Polled, svars
  <2>2. ASSUME Fetch(r) \/ FetchFails(r) PROVE Kept
    BY <1>1, <2>1, <2>2 DEF Fetch, FetchFails
  <2>3. ASSUME Refreshed(r) PROVE Kept
    <3>1. PICK w \in Nat, level \in Levels \cup {"none"} :
            /\ level = "hard" => w \notin alerted.hard
            /\ level = "soft" => w \notin alerted.soft
            /\ posts' = IF level = "none" THEN posts ELSE Append(posts, [level |-> level, window |-> w])
            /\ alerted' = [soft |-> alerted.soft \cup (IF level = "none" THEN {} ELSE {w}),
                           hard |-> alerted.hard \cup (IF level = "hard" THEN {w} ELSE {})]
      BY <2>3, RefreshedShape DEF AlertInv
    <3>2. alerted \in [soft : SUBSET Nat, hard : SUBSET Nat]
      BY DEF AlertInv, TypeOK
    <3>3. ASSUME level = "none" PROVE Kept
      <4>1. alerted' = alerted /\ posts' = posts
        BY <3>1, <3>2, <3>3
      <4> QED
        BY <1>1, <2>1, <4>1
    <3>4. ASSUME level # "none" PROVE Kept
      <4> DEFINE e == [level |-> level, window |-> w]
      <4>1. e \in AlertPosts /\ e.level = level /\ e.window = w
        BY <3>4 DEF AlertPosts
      <4>2. posts' = Append(posts, e)
        BY <3>1, <3>4
      <4>3. alerted' = [soft |-> alerted.soft \cup {e.window},
                        hard |-> alerted.hard \cup (IF e.level = "hard" THEN {e.window} ELSE {})]
        BY <3>1, <3>4
      <4> HIDE DEF e
      <4>4. Made' = Append(Made, e)
        BY <1>a, <2>1, <4>1, <4>2, PostingExtendsMade DEF Made
      <4>5. Ordered(Append(Made, e)) /\ Covered(Append(Made, e), alerted')
        <5>1. Ordered(Made) /\ Covered(Made, alerted)
          BY DEF AlertInv
        <5> QED
          BY <1>a, <3>1, <3>2, <4>1, <4>3, <5>1, OrderedAppend
      <4> QED
        BY <4>4, <4>5 DEF Ordered, Covered
    <3> QED
      BY <3>3, <3>4
  <2> QED
    BY <1>4, <2>2, <2>3 DEF Polled
<1>5. CASE World \/ Reset \/ TtlPasses \/ Status \/ Reload
  BY <1>1, <1>5 DEF World, UsedElsewhere, IntervalEnds, LocalIntervalEnds, Reset, ResetLocal,
                    TtlPasses, Status, Reload, svars, bvars
<1>6. ASSUME NEW s, Tick(s) \/ Judge(s) \/ NoAnswer(s) \/ Resume(s) PROVE UNCHANGED <<posts, posted, alerted>>
  BY <1>6 DEF Tick, Judge, NoAnswer, Resume, bvars
<1>7. ASSUME NEW level, Override(level) PROVE UNCHANGED <<posts, posted, alerted>>
  BY <1>7 DEF Override, bvars
<1>8. ASSUME NEW a, Refused(a) \/ Hour(a) PROVE UNCHANGED <<posts, posted, alerted>>
  BY <1>8 DEF Refused, Hour, HourPasses, bvars, svars
<1>9. ASSUME NEW a, NEW t, Answered(a, t) \/ OwnCall(a, t) PROVE UNCHANGED <<posts, posted, alerted>>
  BY <1>9 DEF Answered, OwnCall, Served, svars
<1>10. ASSUME NEW e, Heard(e) PROVE UNCHANGED <<posts, posted, alerted>>
  BY <1>10 DEF Heard, Completed, svars
<1>11. CASE UNCHANGED vars
  BY <1>1, <1>11 DEF vars, svars, bvars
<1> QED
  BY <1>1, <1>2, <1>3, <1>4, <1>5, <1>6, <1>7, <1>8, <1>9, <1>10, <1>11 DEF Next

\* Each alert of an interval reaches the subscribers at most once and the soft one
\* never after the hard one, however refreshes overlap.
THEOREM AlertsInOrder == Spec => []AlertOrder
<1>1. Init => AlertInv
  <2> SUFFICES ASSUME Init PROVE Ordered(Made) /\ Covered(Made, alerted)
    BY InitTypeOK DEF AlertInv
  <2>1. posts = <<>> /\ posted = <<>>
    BY DEF Init, InitBudget
  <2>2. Len(Made) = 0
    BY <2>1, EmptySeq, ConcatEmptySeq, ConcatProperties DEF Made
  <2> QED
    BY <2>2 DEF Ordered, Covered
<1>2. AlertInv => AlertOrder
  <2> SUFFICES ASSUME AlertInv, NEW i \in 1..Len(posted), NEW j \in 1..Len(posted),
                      i < j, posted[i].window = posted[j].window
               PROVE  posted[i].level = "soft" /\ posted[j].level = "hard"
    BY DEF AlertOrder
  <2>1. posted \in Seq(AlertPosts) /\ posts \in Seq(AlertPosts)
    BY DEF AlertInv, TypeOK
  <2>2. Len(posted) \in Nat /\ Len(posts) \in Nat
    BY <2>1, LenProperties
  <2>3. /\ Len(Made) = Len(posted) + Len(posts)
        /\ \A k \in 1..(Len(posted) + Len(posts)) :
              Made[k] = IF k <= Len(posted) THEN posted[k] ELSE posts[k - Len(posted)]
    BY <2>1, ConcatProperties DEF Made
  <2>4. i \in 1..Len(Made) /\ j \in 1..Len(Made) /\ Made[i] = posted[i] /\ Made[j] = posted[j]
    BY <2>2, <2>3
  <2> QED
    BY <2>4 DEF AlertInv, Ordered
<1> QED
  BY <1>1, <1>2, NextAlertInv, PTL DEF Spec
===============================================================================
