-------------------------- MODULE Watchers_proofs --------------------------
(***************************************************************************)
(* Proofs about the bus and the agents that watch it.  Direct messaging,   *)
(* for every set of agents, handlers and messages: the inductive           *)
(* invariant, the reply table, what an outcome is worth, single            *)
(* settlement, and that the bus implements module Rpc.  resource_guardian, *)
(* for every window and every thresholds: a burst is warned of, and once.  *)
(* recovery_agent, for every store: what a gc may delete.                  *)
(***************************************************************************)
EXTENDS BusDirect, Guardian, Recovery, SequenceTheorems, FiniteSetTheorems, WellFoundedInduction, TLAPS

LEMMA InitInvariant == Init => IInv
BY BusAssumption DEF Init, IInv, TypeOK, Progress, PendingMatchesCallers, Settled,
    Messages

LEMMA RegisterInvariant ==
  ASSUME IInv, NEW n \in Names, NEW h \in Handlers \cup {NoHandler},
         handlers' = [handlers EXCEPT ![n] = h],
         UNCHANGED <<pending, fut, task, ran, caller>>
  PROVE  IInv'
BY DEF IInv, TypeOK, Progress, PendingMatchesCallers, Settled, Messages, Told

LEMMA SendInvariant ==
  ASSUME IInv, NEW m \in Sends, Send(m)
  PROVE  IInv'
BY BusAssumption
   DEF IInv, TypeOK, Progress, PendingMatchesCallers, Settled, Messages, Send, Told

LEMMA RequestInvariant ==
  ASSUME IInv, NEW r \in Requests, Request(r)
  PROVE  IInv'
BY BusAssumption
   DEF IInv, TypeOK, Progress, PendingMatchesCallers, Settled, Messages, Request, Told

LEMMA GiveUpInvariant ==
  ASSUME IInv, NEW r \in Requests, GiveUp(r)
  PROVE  IInv'
BY DEF IInv, TypeOK, Progress, PendingMatchesCallers, Settled, Messages, GiveUp, Told

LEMMA ResumeInvariant ==
  ASSUME IInv, NEW r \in Requests, Resume(r)
  PROVE  IInv'
BY DEF IInv, TypeOK, Progress, PendingMatchesCallers, Settled, Messages, Resume, Told

LEMMA DispatchMissingInvariant ==
  ASSUME IInv, NEW m \in Messages, DispatchMissing(m)
  PROVE  IInv'
BY BusAssumption
   DEF IInv, TypeOK, Progress, PendingMatchesCallers, Settled, Messages,
       DispatchMissing, Settle, Told

LEMMA DispatchCallInvariant ==
  ASSUME IInv, NEW m \in Messages, DispatchCall(m)
  PROVE  IInv'
BY BusAssumption
   DEF IInv, TypeOK, Progress, PendingMatchesCallers, Settled, Messages,
       DispatchCall, Told

LEMMA HandlerEndsInvariant ==
  ASSUME IInv, NEW m \in Messages, NEW value \in Ends,
         HandlerEnds(m, value)
  PROVE  IInv'
BY BusAssumption
   DEF IInv, TypeOK, Progress, PendingMatchesCallers, Settled, Messages,
       HandlerEnds, Ends, Settle, Told

LEMMA StepInvariant == IInv /\ [Next]_vars => IInv'
<1> SUFFICES ASSUME IInv, [Next]_vars PROVE IInv'
  OBVIOUS
<1>1. ASSUME NEW n \in Names, NEW h \in Handlers, Register(n, h) PROVE IInv'
  BY <1>1, RegisterInvariant DEF Register
<1>2. ASSUME NEW n \in Names, Unregister(n) PROVE IInv'
  BY <1>2, RegisterInvariant DEF Unregister
<1>3. CASE UNCHANGED vars
  BY <1>3
     DEF IInv, TypeOK, Progress, PendingMatchesCallers, Settled, Messages, Told, vars
<1> QED
  BY <1>1, <1>2, <1>3, SendInvariant, RequestInvariant, GiveUpInvariant,
     ResumeInvariant, DispatchMissingInvariant, DispatchCallInvariant,
     HandlerEndsInvariant
     DEF Next

\* The inductive invariant holds throughout every behaviour of the bus.
THEOREM Invariant == Spec => []IInv
BY InitInvariant, StepInvariant, PTL DEF Spec

\* Bus._pending holds exactly the requests whose callers still wait: no entry
\* leaks after a timeout and no reply is dropped while somebody waits for it.
THEOREM NoLeakedReplySlot == Spec => []PendingMatchesCallers
<1>1. IInv => PendingMatchesCallers
  BY DEF IInv
<1> QED
  BY <1>1, Invariant, PTL

\* A result or an error comes only from the end of the caller's own handler run, and
\* nothing is left to run for a request that came back with LookupError.
THEOREM OutcomesAreEarned == Spec => []OutcomeIsEarned
<1>1. IInv => OutcomeIsEarned
  BY DEF IInv, Progress, OutcomeIsEarned, TypeOK, Settled, Told
<1> QED
  BY <1>1, Invariant, PTL

\* Whoever settles a request's future first wins; nobody overwrites it.
THEOREM FirstSettlementWins == Spec => SettledOnce
<1>1. IInv /\ [Next]_vars
        => [\A r \in Requests : fut[r] \in Settled => fut'[r] = fut[r]]_vars
  <2> SUFFICES ASSUME IInv, Next, NEW r \in Requests, fut[r] \in Settled
               PROVE  fut'[r] = fut[r]
    BY DEF vars
  <2>1. fut[r] # "open" /\ fut[r] # "none" /\ caller[r] # "idle"
    BY DEF IInv, Progress, Settled
  <2> QED
    BY <2>1 DEF IInv, TypeOK, Next, Register, Unregister, Send, Request, GiveUp, Resume,
                DispatchMissing, DispatchCall, HandlerEnds, Ends, Settle
<1> QED
  BY <1>1, Invariant, PTL DEF Spec, SettledOnce

-----------------------------------------------------------------------------
LEMMA InitRefinement == Init => Abstract!Init
BY DEF Init, Abstract!Init, Messages

LEMMA StepRefinement == IInv /\ [Next]_vars => [Abstract!Next]_Abstract!vars
<1> DEFINE Served == {r \in Requests : task[r] = "done" /\ ran[r] # NoHandler}
<1> SUFFICES ASSUME IInv, [Next]_vars
             PROVE  [Abstract!Next]_<<caller, Served>>
  BY DEF Abstract!vars
<1>1. ASSUME NEW r \in Requests, Request(r) PROVE Abstract!Ask(r)
  BY <1>1 DEF Request, Abstract!Ask, IInv, Progress, TypeOK, Messages
<1>2. ASSUME NEW r \in Requests, Resume(r)
      PROVE  \E o \in Abstract!Outcomes : Abstract!Tell(r, o)
  <2>1. /\ Told(fut[r]) \in Abstract!Outcomes
        /\ Told(fut[r]) \in Abstract!Answers => r \in Served
    BY <1>2 DEF Resume, Told, Settled, Abstract!Outcomes, Abstract!Answers, IInv, Progress
  <2> QED
    BY <1>2, <2>1 DEF Resume, Abstract!Tell
<1>3. ASSUME NEW r \in Requests, NEW value \in Ends, HandlerEnds(r, value)
      PROVE  Abstract!Serve(r)
  <2>1. caller[r] \in {"waiting", "gaveup"} /\ r \notin Served
    BY <1>3 DEF HandlerEnds, Ends, IInv, Progress, TypeOK, Messages, Told, Settled
  <2>2. Served' = Served \cup {r}
    BY <1>3 DEF HandlerEnds, Ends, IInv, Progress, TypeOK, Messages
  <2> QED
    BY <1>3, <2>1, <2>2 DEF HandlerEnds, Abstract!Serve
<1>4. ASSUME NEW m \in Messages, DispatchMissing(m) \/ DispatchCall(m)
      PROVE  UNCHANGED <<caller, Served>>
  BY <1>4 DEF DispatchMissing, DispatchCall, IInv, Progress, TypeOK, Messages
<1>5. ASSUME NEW m \in Sends, Send(m) \/ \E v \in Ends : HandlerEnds(m, v)
      PROVE  UNCHANGED <<caller, Served>>
  BY <1>5, BusAssumption DEF Send, HandlerEnds, IInv, TypeOK, Messages
<1>6. ASSUME NEW r \in Requests, GiveUp(r) PROVE UNCHANGED <<caller, Served>>
  BY <1>6 DEF GiveUp
<1>7. ASSUME NEW n \in Names, Unregister(n) \/ \E h \in Handlers : Register(n, h)
      PROVE  UNCHANGED <<caller, Served>>
  BY <1>7 DEF Register, Unregister
<1>8. CASE UNCHANGED vars
  BY <1>8 DEF vars
<1> QED
  BY <1>1, <1>2, <1>3, <1>4, <1>5, <1>6, <1>7, <1>8 DEF Next, Abstract!Next, Messages

\* Every behaviour of the bus is, seen through its callers, one of module Rpc.
THEOREM BusImplementsRpc == Spec => ImplementsRpc
BY InitRefinement, StepRefinement, Invariant, PTL
   DEF Spec, ImplementsRpc, Abstract!Spec
-----------------------------------------------------------------------------
(* resource_guardian: what is left of the events after any pruning is enough to count *)
(* a window, and the last warning is the one that bars the next.                      *)

\* What is known of one pair.  Dropped is what was pruned of the events heard.
Dropped(p, k) ==
    /\ events[p] = SubSeq(heard[p], k + 1, Len(heard[p]))
    /\ \A i \in 1..k : heard[p][i] < uptime - Window

\* The events in the window that ends with the last one, and a warning in it.
Burst(p) ==
    heard[p] # <<>> /\ Last(heard[p]) > Window =>
        LET since == Last(heard[p]) - Window IN
        Cardinality({i \in DOMAIN heard[p] : heard[p][i] >= since}) >= Threshold[p[1]]
           => \E w \in Range(warned[p]) : w >= since

Watched(p) ==
    /\ heard[p] \in Seq(Nat) /\ warned[p] \in Seq(Nat)
    /\ \A i \in 1..Len(heard[p]) : heard[p][i] <= uptime
    /\ \A i, j \in 1..Len(heard[p]) : i <= j => heard[p][i] <= heard[p][j]
    /\ \E k \in 0..Len(heard[p]) : Dropped(p, k)
    /\ lastWarn[p] = IF warned[p] = <<>> THEN 0 ELSE Last(warned[p])
    /\ \A i \in 1..Len(warned[p]) - 1 : warned[p][i + 1] - warned[p][i] > Window
    /\ Burst(p)

GuardianInv ==
    /\ uptime \in Nat
    /\ events = [p \in Pairs |-> events[p]]
    /\ heard = [p \in Pairs |-> heard[p]]
    /\ warned = [p \in Pairs |-> warned[p]]
    /\ lastWarn = [p \in Pairs |-> lastWarn[p]]
    /\ \A p \in Pairs : Watched(p)

\* Some numbers have a least one.
LEMMA LeastNat ==
  ASSUME NEW T \in SUBSET Nat, T # {}
  PROVE  \E x \in T : \A y \in T : x <= y
<1>1. PICK x \in T : \A y \in T : ~(<<y, x>> \in OpToRel(<, Nat))
  BY NatLessThanWellFounded, WFMin
<1>2. \A y \in T : ~(y < x)
  BY <1>1 DEF OpToRel
<1> QED
  BY <1>2

\* The elements of a suffix.
LEMMA SuffixOf ==
  ASSUME NEW s \in Seq(Nat), NEW k \in 0..Len(s)
  PROVE  LET r == SubSeq(s, k + 1, Len(s)) IN
         r \in Seq(Nat) /\ Len(r) = Len(s) - k /\ \A j \in 1..Len(r) : r[j] = s[k + j]
<1> DEFINE r == SubSeq(s, k + 1, Len(s))
<1>1. k + 1 \in Int /\ Len(s) \in Int /\ \A i \in (k + 1)..Len(s) : s[i] \in Nat
  OBVIOUS
<1>2. /\ r \in Seq(Nat)
      /\ Len(r) = IF k + 1 <= Len(s) THEN Len(s) - (k + 1) + 1 ELSE 0
      /\ \A j \in 1..(Len(s) - (k + 1) + 1) : r[j] = s[(k + 1) + j - 1]
  BY <1>1, SubSeqProperties
<1> HIDE DEF r
<1>3. Len(r) = Len(s) - k /\ Len(s) - (k + 1) + 1 = Len(r)
  BY <1>2
<1>4. \A j \in 1..Len(r) : (k + 1) + j - 1 = k + j
  BY <1>3
<1>5. r \in Seq(Nat) /\ Len(r) = Len(s) - k /\ \A j \in 1..Len(r) : r[j] = s[k + j]
  BY <1>2, <1>3, <1>4
<1> QED
  BY <1>5 DEF r

\* A suffix of a suffix.
LEMMA SuffixTwice ==
  ASSUME NEW s \in Seq(Nat), NEW k \in 0..Len(s), NEW n \in 0..Len(s) - k
  PROVE  LET r == SubSeq(s, k + 1, Len(s)) IN
         SubSeq(r, n + 1, Len(r)) = SubSeq(s, (k + n) + 1, Len(s))
<1> DEFINE r == SubSeq(s, k + 1, Len(s))
           u == SubSeq(r, n + 1, Len(r))
           v == SubSeq(s, (k + n) + 1, Len(s))
<1>0. Len(s) \in Nat /\ k + n \in 0..Len(s)
  OBVIOUS
<1>1. r \in Seq(Nat) /\ Len(r) = Len(s) - k /\ \A j \in 1..Len(r) : r[j] = s[k + j]
  BY SuffixOf
<1>2. v \in Seq(Nat) /\ Len(v) = Len(s) - (k + n) /\ \A j \in 1..Len(v) : v[j] = s[(k + n) + j]
  BY <1>0, SuffixOf
<1> HIDE DEF r
<1>3. n \in 0..Len(r)
  BY <1>0, <1>1
<1>4. u \in Seq(Nat) /\ Len(u) = Len(r) - n /\ \A j \in 1..Len(u) : u[j] = r[n + j]
  BY <1>1, <1>3, SuffixOf
<1> HIDE DEF u, v
<1>5. Len(u) = Len(v)
  BY <1>0, <1>1, <1>2, <1>4
<1>6. ASSUME NEW j \in 1..Len(u) PROVE u[j] = v[j]
  <2>1. n + j \in 1..Len(r) /\ k + (n + j) = (k + n) + j
    BY <1>0, <1>1, <1>3, <1>4
  <2> QED
    BY <1>1, <1>2, <1>4, <1>5, <2>1
<1>7. u = v
  BY <1>2, <1>4, <1>5, <1>6, SeqEqual
<1> QED
  BY <1>7 DEF u, v, r

\* _prune pops a prefix, all of it too old, and stops at the first time that is not.
LEMMA PrunedStops ==
  ASSUME NEW s \in Seq(Nat), uptime \in Nat
  PROVE  \E n \in 0..Len(s) :
            /\ Pruned(s) = SubSeq(s, n + 1, Len(s))
            /\ \A i \in 1..n : s[i] < uptime - Window
            /\ n < Len(s) => s[n + 1] >= uptime - Window
<1> DEFINE Stop(n) == /\ \A i \in 1..n : s[i] < uptime - Window
                      /\ n < Len(s) => s[n + 1] >= uptime - Window
           Young == {i \in 1..Len(s) : s[i] >= uptime - Window}
<1>1. \A i \in 1..Len(s) : s[i] < uptime - Window \/ s[i] >= uptime - Window
  BY GuardianAssumption
<1>2. \E n \in 0..Len(s) : Stop(n)
  <2>1. CASE Young = {}
    <3>1. \A i \in 1..Len(s) : s[i] < uptime - Window
      BY <1>1, <2>1
    <3> QED
      BY <3>1
  <2>2. CASE Young # {}
    <3>1. Young \in SUBSET Nat
      OBVIOUS
    <3> HIDE DEF Young
    <3>2. PICK x \in Young : \A y \in Young : x <= y
      BY <2>2, <3>1, LeastNat
    <3> USE DEF Young
    <3>3. x - 1 \in 0..Len(s) /\ (x - 1) + 1 = x
      BY <3>2
    <3>4. \A i \in 1..(x - 1) : i \in 1..Len(s) /\ i \notin Young
      BY <3>2
    <3>5. \A i \in 1..(x - 1) : s[i] < uptime - Window
      BY <1>1, <3>4
    <3> QED
      BY <3>2, <3>3, <3>5
  <2> QED
    BY <2>1, <2>2
<1> DEFINE n == CHOOSE m \in 0..Len(s) : Stop(m)
<1>3. n \in 0..Len(s) /\ Stop(n)
  BY <1>2
<1>4. Pruned(s) = SubSeq(s, n + 1, Len(s))
  BY DEF Pruned
<1> HIDE DEF n
<1> QED
  BY <1>3, <1>4

\* What is left after _prune is the events in the window, and those only.
LEMMA PrunedKept ==
  ASSUME NEW s \in Seq(Nat), NEW k \in 0..Len(s), uptime \in Nat,
         \A i, j \in 1..Len(s) : i <= j => s[i] <= s[j],
         \A i \in 1..k : s[i] < uptime - Window
  PROVE  \E m \in 0..Len(s) :
            /\ Pruned(SubSeq(s, k + 1, Len(s))) = SubSeq(s, m + 1, Len(s))
            /\ \A i \in 1..m : s[i] < uptime - Window
            /\ \A i \in (m + 1)..Len(s) : s[i] >= uptime - Window
<1> DEFINE r == SubSeq(s, k + 1, Len(s))
<1>1. Len(s) \in Nat /\ Window \in Nat /\ \A i \in 1..Len(s) : s[i] \in Nat
  BY GuardianAssumption
<1>2. r \in Seq(Nat) /\ Len(r) = Len(s) - k /\ \A j \in 1..Len(r) : r[j] = s[k + j]
  BY SuffixOf
<1>3. PICK n \in 0..Len(r) :
         /\ Pruned(r) = SubSeq(r, n + 1, Len(r))
         /\ \A i \in 1..n : r[i] < uptime - Window
         /\ n < Len(r) => r[n + 1] >= uptime - Window
  BY <1>2, PrunedStops
<1>4. SubSeq(r, n + 1, Len(r)) = SubSeq(s, (k + n) + 1, Len(s))
  BY <1>2, SuffixTwice
<1> HIDE DEF r
<1>5. k + n \in 0..Len(s)
  BY <1>1, <1>2
<1>6. ASSUME NEW i \in 1..(k + n), ~(i \in 1..k) PROVE s[i] < uptime - Window
  <2>1. i - k \in 1..n /\ i - k \in 1..Len(r) /\ k + (i - k) = i
    BY <1>1, <1>2, <1>6
  <2> QED
    BY <1>2, <1>3, <2>1
<1>7. ASSUME NEW i \in ((k + n) + 1)..Len(s) PROVE s[i] >= uptime - Window
  <2>1. n < Len(r) /\ n + 1 \in 1..Len(r) /\ k + (n + 1) = (k + n) + 1
    BY <1>1, <1>2, <1>7
  <2>2. r[n + 1] = s[k + (n + 1)] /\ r[n + 1] >= uptime - Window
    BY <1>2, <1>3, <2>1
  <2>3. (k + n) + 1 \in 1..Len(s) /\ i \in 1..Len(s) /\ (k + n) + 1 <= i
    BY <1>1, <1>5, <1>7
  <2>4. s[(k + n) + 1] <= s[i]
    BY <2>3
  <2> QED
    BY <1>1, <2>1, <2>2, <2>3, <2>4, SMTT(30)
<1> QED
  BY <1>3, <1>4, <1>5, <1>6, <1>7 DEF r

\* What is left is as many as the events in the window.
LEMMA PrunedCounts ==
  ASSUME NEW s \in Seq(Nat), NEW m \in 0..Len(s), NEW c \in Int,
         \A i \in 1..m : s[i] < c, \A i \in (m + 1)..Len(s) : s[i] >= c
  PROVE  Len(SubSeq(s, m + 1, Len(s))) = Cardinality({i \in DOMAIN s : s[i] >= c})
<1>1. Len(SubSeq(s, m + 1, Len(s))) = Len(s) - m
  BY SuffixOf
<1>2. DOMAIN s = 1..Len(s) /\ Len(s) \in Nat /\ \A i \in 1..Len(s) : s[i] \in Nat
  OBVIOUS
<1>3. {i \in DOMAIN s : s[i] >= c} = (m + 1)..Len(s)
  BY <1>2
<1>4. Cardinality((m + 1)..Len(s)) = Len(s) - m
  <2>1. m + 1 \in Int /\ Len(s) \in Int
    BY <1>2
  <2>2. Cardinality((m + 1)..Len(s)) = IF m + 1 > Len(s) THEN 0 ELSE Len(s) - (m + 1) + 1
    BY <2>1, FS_Interval
  <2> QED
    BY <1>2, <2>2
<1> QED
  BY <1>1, <1>3, <1>4

LEMMA GuardianStart == GuardianInit => GuardianInv
<1> SUFFICES ASSUME GuardianInit, NEW p \in Pairs PROVE Watched(p)
  BY GuardianAssumption DEF GuardianInit, GuardianInv, Never
<1>1. heard[p] = <<>> /\ warned[p] = <<>> /\ events[p] = <<>> /\ lastWarn[p] = 0 /\ uptime \in Nat
  BY GuardianAssumption DEF GuardianInit, Never
<1>2. Dropped(p, 0) /\ 0 \in 0..Len(heard[p])
  BY <1>1 DEF Dropped
<1> QED
  BY <1>1, <1>2 DEF Watched, Burst

\* A time at the end of the times before it.
LEMMA Appended ==
  ASSUME NEW q \in Seq(Nat), NEW x \in Nat, NEW w, w = Append(q, x)
  PROVE  /\ w \in Seq(Nat) /\ w # <<>> /\ Len(q) \in Nat /\ Len(w) = Len(q) + 1
         /\ w[Len(w)] = x /\ Last(w) = x /\ x \in Range(w)
         /\ \A i \in 1..Len(q) : w[i] = q[i]
<1>1. /\ w \in Seq(Nat) /\ w # <<>> /\ Len(q) \in Nat /\ Len(w) = Len(q) + 1
      /\ w[Len(w)] = x /\ \A i \in 1..Len(q) : w[i] = q[i]
  OBVIOUS
<1>2. Last(w) = x
  BY <1>1 DEF Last
<1>3. Len(w) \in DOMAIN w
  BY <1>1
<1>4. x \in Range(w)
  BY <1>1, <1>3 DEF Range
<1> QED
  BY <1>1, <1>2, <1>4

\* An event of a pair.
LEMMA RecordWatched ==
  ASSUME GuardianInv, NEW p \in Pairs, Record(p)
  PROVE  Watched(p)'
<1> DEFINE s == Append(heard[p], uptime)
           recent == Pruned(Append(events[p], uptime))
           warns == Len(recent) >= Threshold[p[1]] /\ uptime - lastWarn[p] > Window
<1>1. /\ uptime \in Nat /\ uptime' = uptime /\ Window \in Nat /\ Threshold[p[1]] \in Nat
      /\ heard[p] \in Seq(Nat) /\ warned[p] \in Seq(Nat) /\ Watched(p)
  BY GuardianAssumption DEF GuardianInv, Watched, Record, Pairs
<1>2. heard'[p] = s /\ events'[p] = recent
  BY DEF GuardianInv, Record
<1>3. /\ warns => warned'[p] = Append(warned[p], uptime) /\ lastWarn'[p] = uptime
      /\ ~warns => warned'[p] = warned[p] /\ lastWarn'[p] = lastWarn[p]
  BY DEF GuardianInv, Record
<1>4. PICK k \in 0..Len(heard[p]) : Dropped(p, k)
  BY <1>1 DEF Watched
<1>5. /\ s \in Seq(Nat) /\ Len(s) = Len(heard[p]) + 1 /\ s # <<>> /\ s[Len(s)] = uptime
      /\ \A i \in 1..Len(heard[p]) : s[i] = heard[p][i]
  <2>1. heard[p] \in Seq(Nat) /\ uptime \in Nat /\ s = Append(heard[p], uptime)
    BY <1>1
  <2> HIDE DEF s
  <2> QED
    BY <2>1, Appended
<1>6. /\ \A i, j \in 1..Len(s) : i <= j => s[i] <= s[j]
      /\ \A i \in 1..Len(s) : s[i] <= uptime
  <2>1. \A i \in 1..Len(s) : i \in 1..Len(heard[p]) \/ i = Len(s)
    BY <1>1, <1>5
  <2>2. \A i, j \in 1..Len(heard[p]) : i <= j => s[i] <= s[j]
    BY <1>1, <1>5 DEF Watched
  <2>3. \A i \in 1..Len(s) : s[i] <= uptime
    BY <1>1, <1>5, <2>1 DEF Watched
  <2>4. \A i, j \in 1..Len(s) : i <= j /\ j \in 1..Len(heard[p]) => i \in 1..Len(heard[p])
    BY <1>1, <1>5
  <2> HIDE DEF s
  <2> QED
    BY <1>5, <2>1, <2>2, <2>3, <2>4
<1>7. Append(events[p], uptime) = SubSeq(s, k + 1, Len(s))
  <2> DEFINE e == Append(events[p], uptime)
             v == SubSeq(s, k + 1, Len(s))
  <2>1. events[p] \in Seq(Nat) /\ Len(events[p]) = Len(heard[p]) - k
        /\ \A j \in 1..Len(events[p]) : events[p][j] = heard[p][k + j]
    BY <1>1, <1>4, SuffixOf DEF Dropped
  <2>2. v \in Seq(Nat) /\ Len(v) = Len(s) - k /\ \A j \in 1..Len(v) : v[j] = s[k + j]
    <3>1. s \in Seq(Nat) /\ k \in 0..Len(s)
      BY <1>1, <1>4, <1>5
    <3> HIDE DEF s
    <3> QED
      BY <3>1, SuffixOf
  <2>3. e \in Seq(Nat) /\ Len(e) = Len(events[p]) + 1 /\ e[Len(e)] = uptime
        /\ \A j \in 1..Len(events[p]) : e[j] = events[p][j]
    BY <1>1, <2>1
  <2> HIDE DEF e, v, s
  <2>4. Len(e) = Len(v) /\ Len(heard[p]) \in Nat
    BY <1>1, <1>4, <1>5, <2>1, <2>2, <2>3, SMTT(30)
  <2>5. ASSUME NEW j \in 1..Len(e) PROVE e[j] = v[j]
    <3>1. CASE j = Len(e)
      <4>1. k + j = Len(s)
        BY <1>4, <1>5, <2>1, <2>3, <2>4, <3>1, SMTT(30)
      <4> QED
        BY <1>5, <2>2, <2>3, <2>4, <3>1, <4>1
    <3>2. CASE j # Len(e)
      <4>1. j \in 1..Len(events[p]) /\ k + j \in 1..Len(heard[p])
        <5>1. /\ Len(events[p]) \in Nat /\ Len(heard[p]) \in Nat /\ Len(e) \in Nat
              /\ Len(events[p]) = Len(heard[p]) - k /\ Len(e) = Len(events[p]) + 1
          BY <2>1, <2>3, <2>4
        <5> QED
          BY <3>2, <5>1
      <4> QED
        BY <1>5, <2>1, <2>2, <2>3, <2>4, <4>1
    <3> QED
      BY <3>1, <3>2
  <2>6. e = v
    BY <2>2, <2>3, <2>4, <2>5, SeqEqual
  <2> QED
    BY <2>6 DEF e, v
<1>8. \A i \in 1..k : s[i] < uptime - Window
  BY <1>1, <1>4, <1>5 DEF Dropped
<1> HIDE DEF s, recent
<1>9. PICK m \in 0..Len(s) :
         /\ recent = SubSeq(s, m + 1, Len(s))
         /\ \A i \in 1..m : s[i] < uptime - Window
         /\ \A i \in (m + 1)..Len(s) : s[i] >= uptime - Window
  <2>1. k \in 0..Len(s)
    BY <1>1, <1>4, <1>5
  <2> QED
    BY <1>1, <1>5, <1>6, <1>7, <1>8, <2>1, PrunedKept DEF recent
<1>10. Len(recent) = Cardinality({i \in DOMAIN s : s[i] >= uptime - Window})
  <2>1. uptime - Window \in Int
    BY <1>1
  <2> QED
    BY <1>5, <1>9, <2>1, PrunedCounts
<1>11. \E i \in 0..Len(s) : Dropped(p, i)'
  BY <1>1, <1>2, <1>9 DEF Dropped
<1>12. lastWarn'[p] = IF warned'[p] = <<>> THEN 0 ELSE Last(warned'[p])
  <2>1. Append(warned[p], uptime) # <<>> /\ Last(Append(warned[p], uptime)) = uptime
    <3>1. warned[p] \in Seq(Nat) /\ uptime \in Nat
      BY <1>1
    <3> QED
      BY <3>1, Appended
  <2> HIDE DEF warns
  <2> QED
    BY <1>1, <1>3, <2>1 DEF Watched
<1>13. warned'[p] \in Seq(Nat) /\ \A i \in 1..Len(warned'[p]) - 1 : warned'[p][i + 1] - warned'[p][i] > Window
  <2>1. CASE warns
    <3> DEFINE w == Append(warned[p], uptime)
    <3>1. w \in Seq(Nat) /\ Len(w) = Len(warned[p]) + 1 /\ w[Len(w)] = uptime
          /\ Len(warned[p]) \in Nat /\ \A i \in 1..Len(warned[p]) : w[i] = warned[p][i]
      <4>1. warned[p] \in Seq(Nat) /\ uptime \in Nat /\ w = Append(warned[p], uptime)
        BY <1>1
      <4> HIDE DEF w
      <4> QED
        BY <4>1, Appended
    <3>2. warned'[p] = w
      BY <1>3, <2>1
    <3> HIDE DEF w
    <3>3. ASSUME NEW i \in 1..Len(w) - 1 PROVE w[i + 1] - w[i] > Window
      <4>1. CASE i = Len(warned[p])
        <5>1. warned[p] # <<>> /\ lastWarn[p] = warned[p][i]
          BY <1>1, <4>1, <3>3, <3>1 DEF Watched, Last
        <5>2. Len(warned[p]) \in Nat /\ Len(w) = Len(warned[p]) + 1
          BY <1>1, <3>1
        <5>3. i \in 1..Len(warned[p])
          BY <4>1, <5>2
        <5>4. warned[p] \in Seq(Nat)
          BY <1>1
        <5>5. Len(warned[p]) \in Nat /\ i \in 1..Len(warned[p]) /\ warned[p][i] \in Nat
          BY <5>2, <5>3, <5>4
        <5>6. w[i + 1] = uptime /\ w[i] = warned[p][i]
          BY <3>1, <4>1, <5>5
        <5> QED
          BY <1>1, <2>1, <5>1, <5>5, <5>6
      <4>2. CASE i # Len(warned[p])
        <5>1. Len(warned[p]) \in Nat /\ Len(w) = Len(warned[p]) + 1
          BY <3>1
        <5>2. i \in 1..Len(warned[p]) - 1 /\ i \in 1..Len(warned[p]) /\ i + 1 \in 1..Len(warned[p])
          BY <3>3, <4>2, <5>1
        <5> QED
          BY <1>1, <3>1, <5>2 DEF Watched
      <4> QED
        BY <4>1, <4>2
    <3> QED
      BY <3>1, <3>2, <3>3
  <2>2. CASE ~warns
    BY <1>1, <1>3, <2>2 DEF Watched
  <2> QED
    BY <2>1, <2>2
<1>14. Burst(p)'
  <2> SUFFICES ASSUME uptime > Window,
                      Cardinality({i \in DOMAIN s : s[i] >= uptime - Window}) >= Threshold[p[1]]
               PROVE  \E w \in Range(warned'[p]) : w >= uptime - Window
    BY <1>1, <1>2, <1>5 DEF Burst, Last
  <2>1. CASE warns
    <3>1. warned'[p] = Append(warned[p], uptime)
      BY <1>3, <2>1
    <3>2. uptime \in Range(warned'[p])
      <4>1. warned[p] \in Seq(Nat) /\ uptime \in Nat
        BY <1>1
      <4> QED
        BY <3>1, <4>1, Appended
    <3> QED
      BY <1>1, <3>2
  <2>2. CASE ~warns
    <3>1. ~(uptime - lastWarn[p] > Window)
      BY <1>10, <2>2
    <3>2. warned[p] # <<>> /\ lastWarn[p] = Last(warned[p])
      BY <1>1, <3>1 DEF Watched
    <3>3. Last(warned[p]) \in Range(warned[p]) /\ Last(warned[p]) \in Nat
      BY <1>1, <3>2 DEF Last, Range
    <3>4. lastWarn[p] >= uptime - Window
      BY <1>1, <3>1, <3>2, <3>3
    <3> QED
      BY <1>3, <2>2, <3>2, <3>3, <3>4
  <2> QED
    BY <2>1, <2>2
<1> QED
  BY <1>1, <1>2, <1>5, <1>6, <1>11, <1>12, <1>13, <1>14 DEF Watched

\* What a step does not touch of a pair, and time does not undo.
LEMMA WatchedStays ==
  ASSUME GuardianInv, NEW p \in Pairs, uptime' \in Nat, uptime' >= uptime,
         events'[p] = events[p], heard'[p] = heard[p], warned'[p] = warned[p], lastWarn'[p] = lastWarn[p]
  PROVE  Watched(p)'
<1>1. /\ uptime \in Nat /\ Window \in Nat /\ Watched(p)
      /\ heard[p] \in Seq(Nat) /\ \A i \in 1..Len(heard[p]) : heard[p][i] <= uptime
  BY GuardianAssumption DEF GuardianInv, Watched
<1>2. \A i \in 1..Len(heard[p]) : heard[p][i] \in Nat
  BY <1>1
<1>3. \A i \in 1..Len(heard[p]) : heard[p][i] <= uptime'
  BY <1>1, <1>2
<1>4. PICK k \in 0..Len(heard[p]) : Dropped(p, k)
  BY <1>1 DEF Watched
<1>5. Dropped(p, k)'
  <2>1. \A i \in 1..k : i \in 1..Len(heard[p])
    BY <1>1
  <2>2. ASSUME NEW i \in 1..k PROVE heard[p][i] < uptime' - Window
    <3>1. heard[p][i] \in Nat /\ heard[p][i] < uptime - Window
      BY <1>2, <1>4, <2>1 DEF Dropped
    <3> QED
      BY <1>1, <3>1, SMTT(30)
  <2> QED
    BY <1>4, <2>2 DEF Dropped
<1>6. Burst(p)'
  BY <1>1 DEF Watched, Burst
<1> QED
  BY <1>1, <1>3, <1>4, <1>5, <1>6 DEF Watched

LEMMA RecordKeeps ==
  ASSUME GuardianInv, NEW p \in Pairs, Record(p)
  PROVE  GuardianInv'
<1>1. ASSUME NEW q \in Pairs PROVE Watched(q)'
  <2>1. CASE q = p
    BY <2>1, RecordWatched
  <2>2. CASE q # p
    <3>1. events'[q] = events[q] /\ heard'[q] = heard[q] /\ warned'[q] = warned[q] /\ lastWarn'[q] = lastWarn[q]
      BY <2>2 DEF GuardianInv, Record
    <3>2. uptime' \in Nat /\ uptime' >= uptime
      BY DEF GuardianInv, Record
    <3> QED
      BY <3>1, <3>2, WatchedStays
  <2> QED
    BY <2>1, <2>2
<1>2. /\ uptime' \in Nat
      /\ events' = [q \in Pairs |-> events'[q]] /\ heard' = [q \in Pairs |-> heard'[q]]
  BY DEF GuardianInv, Record
<1>3. warned' = [q \in Pairs |-> warned'[q]] /\ lastWarn' = [q \in Pairs |-> lastWarn'[q]]
  BY DEF GuardianInv, Record
<1> QED
  BY <1>1, <1>2, <1>3 DEF GuardianInv

\* A report prunes what time has made too old, and nothing else.
LEMMA ReportKeeps == GuardianInv /\ Report => GuardianInv'
<1> SUFFICES ASSUME GuardianInv, Report, NEW p \in Pairs PROVE Watched(p)'
  BY DEF GuardianInv, Report
<1>1. /\ uptime \in Nat /\ uptime' = uptime /\ Watched(p) /\ heard[p] \in Seq(Nat)
      /\ events'[p] = Pruned(events[p])
      /\ heard'[p] = heard[p] /\ warned'[p] = warned[p] /\ lastWarn'[p] = lastWarn[p]
  BY DEF GuardianInv, Report, Watched
<1>2. PICK k \in 0..Len(heard[p]) : Dropped(p, k)
  BY <1>1 DEF Watched
<1>3. \A i, j \in 1..Len(heard[p]) : i <= j => heard[p][i] <= heard[p][j]
  BY <1>1 DEF Watched
<1>4. \A i \in 1..k : heard[p][i] < uptime - Window
  BY <1>2 DEF Dropped
<1>5. PICK m \in 0..Len(heard[p]) :
         /\ Pruned(SubSeq(heard[p], k + 1, Len(heard[p]))) = SubSeq(heard[p], m + 1, Len(heard[p]))
         /\ \A i \in 1..m : heard[p][i] < uptime - Window
  BY <1>1, <1>3, <1>4, PrunedKept
<1>6. Dropped(p, m)'
  BY <1>1, <1>2, <1>5 DEF Dropped
<1>7. Burst(p)'
  BY <1>1 DEF Watched, Burst
<1> QED
  BY <1>1, <1>6, <1>7 DEF Watched

LEMMA ResetKeeps == GuardianInv /\ Reset => GuardianInv'
<1> SUFFICES ASSUME GuardianInv, Reset, NEW p \in Pairs PROVE Watched(p)'
  BY DEF GuardianInv, Reset, Never
<1>1. heard'[p] = <<>> /\ warned'[p] = <<>> /\ events'[p] = <<>> /\ lastWarn'[p] = 0
  BY DEF Reset, Never
<1>2. Dropped(p, 0)' /\ 0 \in 0..Len(heard'[p])
  BY <1>1 DEF Dropped
<1> QED
  BY <1>1, <1>2 DEF Watched, Burst

LEMMA GuardianStep == GuardianInv /\ [GuardianNext]_guardianVars => GuardianInv'
<1> SUFFICES ASSUME GuardianInv, [GuardianNext]_guardianVars PROVE GuardianInv'
  OBVIOUS
<1>1. ASSUME NEW a \in Named \cup {Unknown}, OnError(a) \/ OnThrottle(a) PROVE GuardianInv'
  <2>1. <<"error", a>> \in Pairs /\ <<"throttled", a>> \in Pairs
    BY DEF Pairs, Kinds
  <2> QED
    BY <1>1, <2>1, RecordKeeps DEF OnError, OnThrottle
<1>2. CASE UpLonger
  <2>1. uptime' \in Nat /\ uptime' >= uptime
    BY <1>2 DEF UpLonger, GuardianInv
  <2>2. \A p \in Pairs : Watched(p)'
    BY <1>2, <2>1, WatchedStays DEF UpLonger
  <2> QED
    BY <1>2, <2>1, <2>2 DEF UpLonger, GuardianInv
<1>3. CASE UNCHANGED guardianVars
  <2>1. uptime' \in Nat /\ uptime' >= uptime
    BY <1>3 DEF guardianVars, GuardianInv
  <2>2. \A p \in Pairs : Watched(p)'
    BY <1>3, <2>1, WatchedStays DEF guardianVars
  <2> QED
    BY <1>3, <2>1, <2>2 DEF guardianVars, GuardianInv
<1> QED
  BY <1>1, <1>2, <1>3, ReportKeeps, ResetKeeps DEF GuardianNext

\* Whenever the threshold is reached within a window there has been a warning in that
\* window, and two warnings are more than a window apart, however often the counts are
\* reported, and so pruned, in between.
THEOREM BurstsAreWarned == GuardianSpec => []BurstWarnedOnce
<1>1. GuardianInv => BurstWarnedOnce
  BY DEF GuardianInv, Watched, Burst, BurstWarnedOnce
<1> QED
  BY <1>1, GuardianStart, GuardianStep, PTL DEF GuardianSpec

-----------------------------------------------------------------------------
(* recovery_agent: what a gc goes by was old when it was listed, and has not become   *)
(* any younger.                                                                       *)

RequestRecord(r) ==
    r \in [at : {r.at}, now : {r.now}, spaces : {r.spaces}, space : {r.space}, keys : {r.keys},
           known : {r.known}, seen : {r.seen}, victims : {r.victims}, swept : {r.swept}]

\* What a scan lists of a slot: when it was saved, or that it does not tell.
Listed(seen) == \A s \in DOMAIN seen : seen[s] \in Nat \cup {Undated}

\* Every one of these records told its age, and was old enough.
Doomed(victims) ==
    \A s \in DOMAIN victims : victims[s] \in Nat /\ victims[s] # Undated /\ clock - victims[s] >= Cutoff

\* A request: what it still has to ask for is in the store's name space.
Going(r) ==
    /\ RequestRecord(r)
    /\ r.spaces \subseteq Spaces /\ \A k \in r.keys : <<r.space, k>> \in Slots
    /\ Listed(r.seen)
    /\ r.at \in {"spaces", "list"} => r.now \in 0..clock
    /\ r.at = "delete" => Doomed(r.victims)

RecoveryInv ==
    /\ clock \in Nat /\ dirs \subseteq Spaces
    /\ disk = [s \in Slots |-> disk[s]] /\ \A s \in Slots : disk[s] \in Nat \cup {None, Undated}
    /\ Listed(inventory.seen)
    /\ inventory.known # {} => scannedAt \in 0..clock
    /\ job = [j \in Jobs |-> job[j]] /\ \A j \in Jobs : Going(job[j])

LEMMA RecoveryStart == RecoveryInit => RecoveryInv
<1> SUFFICES ASSUME RecoveryInit PROVE RecoveryInv
  OBVIOUS
<1>1. Going(Idle)
  BY DEF Going, RequestRecord, Idle, Listed
<1>2. (\A s \in Slots : disk[s] \in Nat \cup {None, Undated}) /\ disk = [s \in Slots |-> disk[s]]
  BY DEF RecoveryInit
<1>3. Listed(inventory.seen) /\ inventory.known = {}
  BY DEF RecoveryInit, Listed
<1>4. dirs \subseteq Spaces
  BY DEF RecoveryInit, Slots
<1> HIDE DEF Idle
<1> QED
  BY <1>1, <1>2, <1>3, <1>4 DEF RecoveryInit, RecoveryInv

\* The victims of an inventory, at any time since it was begun.
LEMMA VictimsDoomed ==
  ASSUME NEW inv, NEW since \in Nat, clock \in Nat, since <= clock, Listed(inv.seen)
  PROVE  Doomed(Victims(inv, since))
<1>1. ASSUME NEW s \in DOMAIN Victims(inv, since)
      PROVE  /\ Victims(inv, since)[s] = inv.seen[s] /\ inv.seen[s] \in Nat
             /\ inv.seen[s] # Undated /\ since - inv.seen[s] >= Cutoff
  BY <1>1 DEF Victims, Restrict, Listed
<1> QED
  BY <1>1, RecoveryAssumption DEF Doomed

\* A step of one request, in which no time passes.
LEMMA OneRequest ==
  ASSUME RecoveryInv, NEW j \in Jobs, NEW r, job' = [job EXCEPT ![j] = r], Going(r),
         UNCHANGED <<clock, dirs>>,
         disk' = disk \/ \E s \in Slots : disk' = [disk EXCEPT ![s] = None],
         UNCHANGED <<inventory, scannedAt>> \/ (Listed(inventory'.seen) /\ scannedAt' \in 0..clock)
  PROVE  RecoveryInv'
<1>1. job' = [k \in Jobs |-> job'[k]] /\ \A k \in Jobs : job'[k] = r \/ job'[k] = job[k]
  BY DEF RecoveryInv
<1>2. disk' = [s \in Slots |-> disk'[s]] /\ \A s \in Slots : disk'[s] \in Nat \cup {None, Undated}
  BY DEF RecoveryInv
<1>3. clock' \in Nat /\ Listed(inventory.seen)' /\ (inventory'.known # {} => scannedAt' \in 0..clock')
  BY DEF RecoveryInv, Listed
<1>4. ASSUME NEW k \in Jobs PROVE Going(job[k])'
  <2>1. Going(job'[k])
    BY <1>1 DEF RecoveryInv
  <2> QED
    BY <2>1 DEF Going, RequestRecord, Listed, Doomed
<1> QED
  BY <1>1, <1>2, <1>3, <1>4 DEF RecoveryInv

\* A request that starts a scan.
LEMMA ScanStarts ==
  ASSUME RecoveryInv, NEW r, Going(r)
  PROVE  Going(Scanning(r)) /\ Going([Scanning(r) EXCEPT !.swept = TRUE])
<1>1. RequestRecord(r) /\ clock \in 0..clock /\ Listed(<<>>)
  BY DEF RecoveryInv, Going, Listed
<1> DEFINE s == Scanning(r)
<1>2. s = [r EXCEPT !.at = "spaces", !.now = clock, !.known = {}, !.seen = <<>>]
  BY DEF Scanning
<1>3. /\ RequestRecord(s) /\ s.at = "spaces" /\ s.now = clock /\ s.seen = <<>>
      /\ s.spaces = r.spaces /\ s.space = r.space /\ s.keys = r.keys
  BY <1>1, <1>2 DEF RequestRecord
<1> HIDE DEF s
<1> DEFINE u == [s EXCEPT !.swept = TRUE]
<1>4. /\ RequestRecord(u) /\ u.at = "spaces" /\ u.now = clock /\ u.seen = <<>>
      /\ u.spaces = r.spaces /\ u.space = r.space /\ u.keys = r.keys
  BY <1>3 DEF RequestRecord
<1> HIDE DEF u
<1>5. Going(s) /\ Going(u)
  BY <1>1, <1>3, <1>4 DEF Going
<1> QED
  BY <1>5 DEF s, u

LEMMA ServeKeeps ==
  ASSUME RecoveryInv, NEW j \in Jobs, Serve(j)
  PROVE  RecoveryInv'
<1> DEFINE r == IF Op[j] = "status" /\ scannedAt # None
                THEN [job[j] EXCEPT !.at = "done"]
                ELSE IF Op[j] = "gc" /\ inventory.known # {}
                THEN [job[j] EXCEPT !.at = "delete", !.victims = Victims(inventory, scannedAt)]
                ELSE Scanning(job[j])
<1>1. job' = [job EXCEPT ![j] = r]
  BY DEF Serve
<1>2. Going(job[j]) /\ clock \in Nat
  BY DEF RecoveryInv
<1>3. Going(r)
  <2>1. CASE Op[j] = "status" /\ scannedAt # None
    <3>1. r = [job[j] EXCEPT !.at = "done"]
      BY <2>1
    <3> QED
      BY <1>2, <3>1 DEF Going, RequestRecord
  <2>2. CASE ~(Op[j] = "status" /\ scannedAt # None) /\ Op[j] = "gc" /\ inventory.known # {}
    <3> DEFINE v == Victims(inventory, scannedAt)
    <3>1. Doomed(v)
      BY <1>2, <2>2, VictimsDoomed DEF RecoveryInv
    <3> HIDE DEF v
    <3>2. r = [job[j] EXCEPT !.at = "delete", !.victims = v]
      BY <2>2 DEF v
    <3> QED
      BY <1>2, <3>1, <3>2 DEF Going, RequestRecord
  <2>3. CASE ~(Op[j] = "status" /\ scannedAt # None) /\ ~(Op[j] = "gc" /\ inventory.known # {})
    <3>1. r = Scanning(job[j])
      BY <2>3
    <3> QED
      BY <1>2, <3>1, ScanStarts
  <2> QED
    BY <2>1, <2>2, <2>3
<1> HIDE DEF r
<1> QED
  BY <1>1, <1>3, OneRequest DEF Serve

LEMMA ListsKeep ==
  ASSUME RecoveryInv, NEW j \in Jobs, ListSpaces(j) \/ ListKeys(j)
  PROVE  RecoveryInv'
<1>1. Going(job[j]) /\ dirs \subseteq Spaces
  BY DEF RecoveryInv
<1>2. CASE ListSpaces(j)
  <2> DEFINE r == [job[j] EXCEPT !.at = "list", !.spaces = dirs]
  <2>1. job' = [job EXCEPT ![j] = r]
    BY <1>2 DEF ListSpaces, RecoveryInv
  <2>2. Going(r)
    BY <1>1, <1>2 DEF Going, RequestRecord, ListSpaces
  <2> HIDE DEF r
  <2> QED
    BY <1>2, <2>1, <2>2, OneRequest DEF ListSpaces
<1>3. CASE ListKeys(j)
  <2>1. PICK n \in job[j].spaces :
          job' = [job EXCEPT ![j].space = n, ![j].spaces = @ \ {n}, ![j].known = @ \cup {n},
                             ![j].keys = {k \in Keys : disk[<<n, k>>] # None}]
    BY <1>3 DEF ListKeys
  <2> DEFINE keys == {k \in Keys : disk[<<n, k>>] # None}
             r == [job[j] EXCEPT !.space = n, !.spaces = @ \ {n}, !.known = @ \cup {n}, !.keys = keys]
  <2>2. job' = [job EXCEPT ![j] = r]
    BY <2>1 DEF RecoveryInv
  <2>3. n \in Spaces /\ \A k \in keys : <<n, k>> \in Slots
    BY <1>1 DEF Going, Slots
  <2> HIDE DEF keys
  <2>4. Going(r)
    BY <1>1, <1>3, <2>3 DEF Going, RequestRecord, ListKeys
  <2> HIDE DEF r
  <2> QED
    BY <1>3, <2>2, <2>4, OneRequest DEF ListKeys
<1> QED
  BY <1>2, <1>3

LEMMA LoadKeeps ==
  ASSUME RecoveryInv, NEW j \in Jobs, Load(j)
  PROVE  RecoveryInv'
<1> DEFINE seen == job[j].seen
           S(k) == <<job[j].space, k>>
           More(k) == IF disk[S(k)] = None THEN seen
                      ELSE [t \in DOMAIN seen \cup {S(k)} |-> IF t = S(k) THEN disk[S(k)] ELSE seen[t]]
           r(k) == [job[j] EXCEPT !.keys = @ \ {k}, !.seen = More(k)]
<1>1. PICK k \in job[j].keys : job' = [job EXCEPT ![j] = r(k)]
  BY ZenonT(40) DEF Load, RecoveryInv
<1>2. Going(job[j]) /\ S(k) \in Slots
  BY DEF RecoveryInv, Going
<1>3. Listed(More(k))
  BY <1>2 DEF Going, Listed, RecoveryInv
<1> HIDE DEF S, More
<1>4. Going(r(k))
  BY <1>2, <1>3 DEF Going, RequestRecord, Load
<1> HIDE DEF r
<1> QED
  BY <1>1, <1>4, OneRequest DEF Load

\* A request that starts or ends has nothing to do.
LEMMA IdleGoes ==
  RequestRecord(Idle) /\ Idle.spaces = {} /\ Idle.keys = {} /\ Idle.seen = <<>> /\ Listed(<<>>)
BY DEF RequestRecord, Idle, Listed

\* A complete inventory, and what a gc that waited for it goes by.
LEMMA EndScanKeeps ==
  ASSUME RecoveryInv, NEW j \in Jobs, EndScan(j)
  PROVE  RecoveryInv'
<1>1. /\ Going(job[j]) /\ clock \in Nat /\ job[j].at = "list"
      /\ inventory' = [known |-> job[j].known, seen |-> job[j].seen] /\ scannedAt' = job[j].now
  BY DEF RecoveryInv, EndScan
<1> DEFINE v == Victims(inventory', scannedAt')
           r == IF Op[j] = "gc" /\ ~job[j].swept
                THEN [Idle EXCEPT !.at = "delete", !.victims = v] ELSE [Idle EXCEPT !.at = "done"]
<1>2. job' = [job EXCEPT ![j] = r]
  BY DEF EndScan, RecoveryInv
<1>3. Listed(inventory'.seen) /\ scannedAt' \in 0..clock
  BY <1>1 DEF Going
<1>4. Doomed(v)
  <2>1. \A inv, since : since \in Nat /\ since <= clock /\ Listed(inv.seen) => Doomed(Victims(inv, since))
    BY <1>1, VictimsDoomed
  <2>2. scannedAt' \in Nat /\ scannedAt' <= clock
    BY <1>1, <1>3
  <2> QED
    BY <1>3, <2>1, <2>2
<1> HIDE DEF v
<1>5. Going(r)
  <2>1. CASE Op[j] = "gc" /\ ~job[j].swept
    BY <1>4, <2>1, IdleGoes DEF Going, RequestRecord
  <2>2. CASE ~(Op[j] = "gc" /\ ~job[j].swept)
    BY <2>2, IdleGoes DEF Going, RequestRecord
  <2> QED
    BY <2>1, <2>2
<1> HIDE DEF r
<1> QED
  BY <1>2, <1>3, <1>5, OneRequest DEF EndScan

LEMMA DeletesKeep ==
  ASSUME RecoveryInv, NEW j \in Jobs, Refresh(j) \/ StoreFails(j) \/ \E s \in Slots : Discard(j, s)
  PROVE  RecoveryInv'
<1>1. Going(job[j])
  BY DEF RecoveryInv
<1>2. CASE Refresh(j)
  <2> DEFINE r == [Scanning(job[j]) EXCEPT !.swept = TRUE]
  <2>1. job' = [job EXCEPT ![j] = r]
    BY <1>2 DEF Refresh, RecoveryInv
  <2>2. Going(r)
    BY <1>1, ScanStarts
  <2> HIDE DEF r
  <2> QED
    BY <1>2, <2>1, <2>2, OneRequest DEF Refresh
<1>3. CASE StoreFails(j)
  <2> DEFINE r == [Idle EXCEPT !.at = "raised"]
  <2>1. job' = [job EXCEPT ![j] = r]
    BY <1>3 DEF StoreFails
  <2>2. Going(r)
    BY IdleGoes DEF Going, RequestRecord
  <2> HIDE DEF r
  <2> QED
    BY <1>3, <2>1, <2>2, OneRequest DEF StoreFails
<1>4. ASSUME NEW s \in Slots, Discard(j, s) PROVE RecoveryInv'
  <2> DEFINE v == Restrict(job[j].victims, DOMAIN job[j].victims \ {s})
             r == [job[j] EXCEPT !.victims = v]
  <2>1. job' = [job EXCEPT ![j] = r]
    BY <1>4 DEF Discard, RecoveryInv
  <2>2. job[j].at = "delete" => Doomed(v)
    BY <1>1 DEF Going, Doomed, Restrict
  <2> HIDE DEF v
  <2>3. Going(r)
    BY <1>1, <1>4, <2>2 DEF Going, RequestRecord, Discard
  <2> HIDE DEF r
  <2> QED
    BY <1>4, <2>1, <2>3, OneRequest DEF Discard
<1> QED
  BY <1>2, <1>3, <1>4

\* What the others do with the store, and the passing of time.
LEMMA StoreKeeps ==
  ASSUME RecoveryInv, TimePasses \/ UNCHANGED recoveryVars \/ \E s \in Slots : Save(s) \/ Delete(s)
  PROVE  RecoveryInv'
<1>1. /\ UNCHANGED <<inventory, scannedAt, job>> /\ clock' \in Nat /\ clock' >= clock /\ clock \in Nat
      /\ dirs' \subseteq Spaces
  BY DEF RecoveryInv, TimePasses, Save, Delete, recoveryVars, Slots
<1>2. disk' = [s \in Slots |-> disk'[s]] /\ \A s \in Slots : disk'[s] \in Nat \cup {None, Undated}
  BY DEF RecoveryInv, TimePasses, Save, Delete, recoveryVars
<1>3. ASSUME NEW j \in Jobs PROVE Going(job[j])'
  <2>1. Going(job[j])
    BY DEF RecoveryInv
  <2>2. Doomed(job[j].victims) => Doomed(job[j].victims)'
    BY <1>1, RecoveryAssumption DEF Doomed
  <2>3. job[j].now \in 0..clock => job[j].now \in 0..clock'
    BY <1>1
  <2> QED
    BY <1>1, <2>1, <2>2, <2>3 DEF Going, RequestRecord, Listed
<1>4. scannedAt \in 0..clock => scannedAt \in 0..clock'
  BY <1>1
<1> QED
  BY <1>1, <1>2, <1>3, <1>4 DEF RecoveryInv, Listed

LEMMA RecoveryStep == RecoveryInv /\ [RecoveryNext]_recoveryVars => RecoveryInv'
BY StoreKeeps, ServeKeeps, ListsKeep, LoadKeeps, EndScanKeeps, DeletesKeep DEF RecoveryNext

\* What a gc deletes is as old as it says and tells its age, unless something was saved
\* over the record that was listed.
LEMMA DiscardsOld ==
  ASSUME RecoveryInv, NEW j \in Jobs, NEW s \in Slots, Discard(j, s)
  PROVE  (disk[s] # Undated /\ clock - disk[s] >= Cutoff) \/ disk[s] # job[j].victims[s]
BY DEF RecoveryInv, Going, Discard, Doomed

\* However old an inventory is and whatever scans replaced it, a gc takes a young
\* checkpoint only where one was saved over the record it had listed.
THEOREM OnlyOldOrSavedSince == RecoverySpec => OldOrSavedSince
<1>1. RecoveryInv /\ [RecoveryNext]_recoveryVars =>
        [\A j \in Jobs, s \in Slots :
            Discard(j, s) /\ disk[s] # None =>
               \/ disk[s] # Undated /\ clock - disk[s] >= Cutoff
               \/ disk[s] # job[j].victims[s]]_recoveryVars
  BY DiscardsOld
<1> QED
  BY <1>1, RecoveryStart, RecoveryStep, PTL DEF RecoverySpec, OldOrSavedSince
=============================================================================
