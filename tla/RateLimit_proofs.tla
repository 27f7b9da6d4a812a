--------------------------- MODULE RateLimit_proofs ---------------------------
(***************************************************************************)
(* Proofs about a rate-limit pool, for every number of callers, agents and *)
(* accounts and every setting of the limits: no account exceeds its        *)
(* concurrency limit, `concurrent` counts the callers inside, no agent     *)
(* saves up credit, the sliding window is kept, the pool implements module *)
(* Permits, and a caller is overtaken within its lane only if one equal to *)
(* it left and took its waiter along.                                      *)
(***************************************************************************)
EXTENDS RateLimit, FiniteSetTheorems, SequenceTheorems, WellFoundedInduction, TLAPS

\* A non-empty set of naturals has a least member.
LEMMA LeastNat ==
  ASSUME NEW T \in SUBSET Nat, T # {}
  PROVE  \E x \in T : \A y \in T : x <= y
<1>1. PICK x \in T : \A y \in T : ~(<<y, x>> \in OpToRel(<, Nat))
  BY NatLessThanWellFounded, WFMin
<1>2. \A y \in T : ~(y < x)
  BY <1>1 DEF OpToRel
<1> QED
  BY <1>2

\* The lanes stay sequences of callers, whatever a dequeue takes out.
LEMMA DequeueType ==
  ASSUME NEW q \in Seq(Callers), NEW w \in Callers
  PROVE  Dequeue(q, w) \in Seq(Callers)
<1>1. CASE ~ \E i \in DOMAIN q : Equal(q[i], w)
  BY <1>1 DEF Dequeue
<1>2. CASE \E i \in DOMAIN q : Equal(q[i], w)
  <2> DEFINE k == CHOOSE i \in DOMAIN q :
                     Equal(q[i], w) /\ \A j \in DOMAIN q : Equal(q[j], w) => i <= j
             r == [i \in 1..(Len(q) - 1) |-> IF i < k THEN q[i] ELSE q[i + 1]]
  <2>1. Dequeue(q, w) = r
    BY <1>2 DEF Dequeue
  <2>2. Len(q) \in Nat /\ Len(q) >= 1
    BY <1>2
  <2>3. \A i \in 1..(Len(q) - 1) : q[i] \in Callers /\ q[i + 1] \in Callers
    BY <2>2
  <2> HIDE DEF k
  <2>4. r \in [1..(Len(q) - 1) -> Callers]
    BY <2>3
  <2> QED
    BY <2>1, <2>2, <2>4
<1> QED
  BY <1>1, <1>2

\* What _prune returns: a suffix, without a call still in the window lost.
LEMMA PruneProperties ==
  ASSUME NEW s \in Seq(Nat), now \in Nat
  PROVE  /\ Prune(s) \in Seq(Nat)
         /\ \E n \in 0..Len(s) :
               /\ Prune(s) = SubSeq(s, n + 1, Len(s))
               /\ \A j \in 1..n : s[j] + Window < now
<1> DEFINE Old(k) == /\ \A j \in 1..k : s[j] + Window < now
                     /\ k < Len(s) => s[k + 1] + Window >= now
           Recent == {j \in 1..Len(s) : s[j] + Window >= now}
<1>1. \A j \in 1..Len(s) : s[j] + Window < now \/ s[j] + Window >= now
  BY RateLimitAssumption
<1>2. \E k \in 0..Len(s) : Old(k)
  <2>1. CASE Recent = {}
    <3>1. \A j \in 1..Len(s) : s[j] + Window < now
      BY <2>1, <1>1
    <3> QED
      BY <3>1
  <2>2. CASE Recent # {}
    <3> HIDE DEF Recent
    <3>0. Recent \in SUBSET Nat
      BY DEF Recent
    <3>1. PICK x \in Recent : \A y \in Recent : x <= y
      BY <2>2, <3>0, LeastNat
    <3> USE DEF Recent
    <3>2. x - 1 \in 0..Len(s) /\ (x - 1) + 1 = x
      BY <3>1
    <3>3. \A j \in 1..(x - 1) : s[j] + Window < now
      BY <3>1, <1>1
    <3> QED
      BY <3>1, <3>2, <3>3
  <2> QED
    BY <2>1, <2>2
<1> DEFINE n == CHOOSE k \in 0..Len(s) : Old(k)
<1>3. n \in 0..Len(s) /\ Old(n)
  BY <1>2
<1>4. Prune(s) = SubSeq(s, n + 1, Len(s))
  BY DEF Prune
<1> HIDE DEF n
<1>5. SubSeq(s, n + 1, Len(s)) \in Seq(Nat)
  BY <1>3, SubSeqProperties
<1> QED
  BY <1>3, <1>4, <1>5

\* Both strategies pick an account.
LEMMA PickedType ==
  ASSUME conc \in [Accounts -> Nat], cursor \in 0..(NumAccounts - 1)
  PROVE  Picked \in Accounts
<1>1. CASE Strategy = "round_robin"
  BY <1>1, RateLimitAssumption DEF Picked, Accounts
<1>2. CASE Strategy # "round_robin"
  <2> DEFINE Loads == {conc[i] : i \in Accounts}
             Least(m) == {i \in Accounts : conc[i] = m}
  <2>1. Loads \in SUBSET Nat /\ Loads # {}
    BY RateLimitAssumption DEF Accounts
  <2>2. PICK m \in Loads : \A n \in Loads : m <= n
    <3> HIDE DEF Loads
    <3> QED
      BY <2>1, LeastNat
  <2>3. Least(m) \in SUBSET Nat /\ Least(m) # {}
    BY <2>2 DEF Accounts
  <2>4. PICK i \in Least(m) : \A j \in Least(m) : i <= j
    <3> HIDE DEF Least
    <3> QED
      BY <2>3, LeastNat
  <2>5. i \in Accounts /\ \A j \in Accounts : conc[i] < conc[j] \/ (conc[i] = conc[j] /\ i <= j)
    <3>1. ASSUME NEW j \in Accounts
          PROVE  conc[i] < conc[j] \/ (conc[i] = conc[j] /\ i <= j)
      <4>1. conc[i] <= conc[j] /\ conc[i] = m /\ conc[i] \in Nat /\ conc[j] \in Nat
        BY <2>2, <2>4
      <4>2. conc[j] = conc[i] => i <= j
        BY <2>4, <4>1
      <4> QED
        BY <4>1, <4>2
    <3> QED
      BY <3>1
  <2> QED
    BY <1>2, <2>5 DEF Picked
<1> QED
  BY <1>1, <1>2

-----------------------------------------------------------------------------
\* What the proofs below use of a round of the loop: nothing changes hands, or
\* w is admitted to the picked account.
LEMMA LookShape ==
  ASSUME IInv, NEW w \in Callers, pc[w] \in {"entering", "waiting"},
         NEW rq \in Seq(Callers), NEW wq \in Seq(Callers), Look(w, rq, wq),
         ahead' \in [Callers -> SUBSET Callers]
  PROVE  /\ TypeOK'
         /\ UNCHANGED <<now, deadline>>
         /\ credits' = credits \/ credits' = Refilled(wq)
         /\ \/ /\ Eligible(Picked)
               /\ Picked \in Accounts
               /\ pc' = [pc EXCEPT ![w] = "holding"]
               /\ account' = [account EXCEPT ![w] = Picked]
               /\ conc' = [conc EXCEPT ![Picked] = @ + 1]
               /\ calls' = [calls EXCEPT ![Picked] = Append(Prune(@), now)]
               /\ admitted' = [admitted EXCEPT ![Picked] = Append(@, now)]
            \/ /\ \E s \in {"timedout", "parking"} : pc' = [pc EXCEPT ![w] = s]
               /\ UNCHANGED <<account, conc, admitted>>
               /\ \/ calls' = calls
                  \/ /\ Picked \in Accounts
                     /\ calls' = [calls EXCEPT ![Picked] = Prune(@)]
<1> USE DEF IInv
<1>1. conc \in [Accounts -> Nat]
  <2>1. \A i \in Accounts : Cardinality(Occupants(i)) \in Nat
    BY RateLimitAssumption, FS_Subset, FS_CardinalityType DEF Occupants
  <2> QED
    BY <2>1 DEF SlotsAccounted, TypeOK
<1>2. Picked \in Accounts
  BY <1>1, PickedType DEF TypeOK
<1>3. Prune(calls[Picked]) \in Seq(Nat)
  BY <1>2, PruneProperties DEF TypeOK
<1>4. /\ Dequeue(rq, w) \in Seq(Callers)
      /\ Dequeue(wq, w) \in Seq(Callers)
      /\ Dequeue(Dequeue(rq, w), w) \in Seq(Callers)
      /\ Dequeue(Dequeue(wq, w), w) \in Seq(Callers)
  BY DequeueType
<1>5. Refilled(wq) \in [Agents -> Int]
  <2>3. \A a \in Agents : Weight[a] \in Int
    BY RateLimitAssumption
  <2>4. credits \in [Agents -> Int]
    BY DEF TypeOK
  <2> HIDE DEF IInv
  <2>1. credits \in [Agents -> Int] /\ \A a \in Agents : Weight[a] \in Int
    BY <2>3, <2>4
  <2>2. \A a \in Agents : credits[a] + Weight[a] \in Int
    BY <2>1
  <2> QED
    BY <2>1, <2>2 DEF Refilled
<1>6. /\ credits' = credits \/ credits' = Refilled(wq)
      /\ credits' \in [Agents -> Int]
  BY <1>5 DEF Look, TypeOK
<1>7. /\ UNCHANGED <<now, deadline>>
      /\ cursor' \in 0..(NumAccounts - 1)
  BY RateLimitAssumption DEF Look, TypeOK
<1>8. \/ Eligible(Picked) /\ Admit(w, rq, wq)
      \/ /\ GiveUp(w, rq, wq) \/ KeepWaiting(w, rq, wq)
         /\ calls' = calls \/ calls' = [calls EXCEPT ![Picked] = Prune(@)]
  BY DEF Look
<1> HIDE DEF IInv
<1>9. CASE Eligible(Picked) /\ Admit(w, rq, wq)
  <2>1. Append(Prune(calls[Picked]), now) \in Seq(Nat)
    BY <1>3 DEF IInv, TypeOK
  <2>2. Append(admitted[Picked], now) \in Seq(Nat)
    BY <1>2 DEF IInv, TypeOK
  <2>3. TypeOK'
    <3>1. calls' \in [Accounts -> Seq(Nat)] /\ admitted' \in [Accounts -> Seq(Nat)]
      <4> DEFINE i == Picked
                 p == Append(Prune(calls[i]), now)
                 q == Append(admitted[i], now)
      <4>1. calls' = [calls EXCEPT ![i] = p] /\ admitted' = [admitted EXCEPT ![i] = q]
        BY <1>9 DEF Admit
      <4>2. i \in Accounts /\ p \in Seq(Nat) /\ q \in Seq(Nat)
        BY <1>2, <2>1, <2>2
      <4>3. calls \in [Accounts -> Seq(Nat)] /\ admitted \in [Accounts -> Seq(Nat)]
        BY DEF IInv, TypeOK
      <4> HIDE DEF i, p, q
      <4> QED
        BY <4>1, <4>2, <4>3
    <3>2. conc' \in [Accounts -> Int]
      BY <1>9, <1>2 DEF IInv, TypeOK, Admit
    <3>3. /\ pc' \in [Callers -> {"idle", "entering", "parking", "waiting", "holding",
                                  "releasing", "done", "timedout", "cancelled", "leaked"}]
          /\ account' \in [Callers -> Accounts \cup {None}]
      BY <1>9, <1>2 DEF IInv, TypeOK, Admit
    <3>4. mutex' \in Callers \cup {None} /\ retry' \in Seq(Callers) /\ weighted' \in Seq(Callers)
      BY <1>9, <1>4 DEF Admit
    <3>5. now' \in Nat /\ deadline' \in [Callers -> Nat]
      BY <1>7 DEF IInv, TypeOK
    <3> QED
      BY <1>6, <1>7, <3>1, <3>2, <3>3, <3>4, <3>5 DEF TypeOK
  <2> QED
    BY <1>2, <1>6, <1>7, <1>9, <2>3 DEF Admit
<1>10. CASE /\ GiveUp(w, rq, wq) \/ KeepWaiting(w, rq, wq)
            /\ calls' = calls \/ calls' = [calls EXCEPT ![Picked] = Prune(@)]
  <2>1. calls' \in [Accounts -> Seq(Nat)]
    BY <1>10, <1>2, <1>3 DEF IInv, TypeOK
  <2>3. /\ pc' \in [Callers -> {"idle", "entering", "parking", "waiting", "holding",
                                "releasing", "done", "timedout", "cancelled", "leaked"}]
        /\ UNCHANGED <<account, conc, admitted>>
    BY <1>10 DEF IInv, TypeOK, GiveUp, KeepWaiting
  <2>4. mutex' \in Callers \cup {None} /\ retry' \in Seq(Callers) /\ weighted' \in Seq(Callers)
    BY <1>10, <1>4 DEF GiveUp, KeepWaiting
  <2>2. TypeOK'
    BY <1>6, <1>7, <2>1, <2>3, <2>4 DEF IInv, TypeOK
  <2> QED
    BY <1>2, <1>6, <1>7, <1>10, <2>2 DEF GiveUp, KeepWaiting
<1> QED
  BY <1>8, <1>9, <1>10

-----------------------------------------------------------------------------
(* The concurrency limit *)

LEMMA OccupantsFinite ==
  \A i : IsFiniteSet(Occupants(i)) /\ Cardinality(Occupants(i)) \in Nat
BY RateLimitAssumption, FS_Subset, FS_CardinalityType DEF Occupants

\* A step that moves nobody into or out of a slot.
LEMMA SlotsUntouched ==
  ASSUME IInv, TypeOK', UNCHANGED <<conc, account>>,
         \A v \in Callers : pc'[v] \in Occupying <=> pc[v] \in Occupying
  PROVE  IInv'
<1>1. \A i \in Accounts : Occupants(i)' = Occupants(i)
  BY DEF Occupants
<1> QED
  BY <1>1 DEF IInv, SlotsAccounted, WithinLimit

\* The account of an admission has one occupant more, and had room for it.
LEMMA AdmitInvariant ==
  ASSUME IInv, TypeOK', NEW w \in Callers, pc[w] \notin Occupying,
         NEW i \in Accounts, Eligible(i),
         pc' = [pc EXCEPT ![w] = "holding"],
         account' = [account EXCEPT ![w] = i],
         conc' = [conc EXCEPT ![i] = @ + 1]
  PROVE  IInv'
<1>0. \A v \in Callers : /\ pc'[v] = IF v = w THEN "holding" ELSE pc[v]
                         /\ account'[v] = IF v = w THEN i ELSE account[v]
  BY DEF IInv, TypeOK
<1>1. Occupants(i)' = Occupants(i) \cup {w} /\ w \notin Occupants(i)
  <2>1. w \notin Occupants(i)
    BY DEF Occupants
  <2>2. \A v \in Callers : v \in Occupants(i)' <=> v = w \/ v \in Occupants(i)
    BY <1>0 DEF Occupants, Occupying
  <2>3. Occupants(i) \subseteq Callers /\ Occupants(i)' \subseteq Callers
    BY DEF Occupants
  <2> QED
    BY <2>1, <2>2, <2>3
<1>2. \A j \in Accounts \ {i} : Occupants(j)' = Occupants(j)
  BY <1>0 DEF Occupants, Occupying
<1>3. Cardinality(Occupants(i))' = Cardinality(Occupants(i)) + 1
  BY <1>1, OccupantsFinite, FS_AddElement
<1>4. SlotsAccounted'
  BY <1>2, <1>3 DEF IInv, SlotsAccounted, TypeOK
<1>5. WithinLimit'
  <2>1. SUFFICES ASSUME MaxConcurrent # None, NEW j \in Accounts
                 PROVE  Cardinality(Occupants(j))' <= MaxConcurrent
    BY DEF WithinLimit
  <2>2. CASE j = i
    BY <2>1, <2>2, <1>3, OccupantsFinite, RateLimitAssumption
       DEF Eligible, IInv, SlotsAccounted
  <2>3. CASE j # i
    BY <2>1, <2>3, <1>2 DEF IInv, WithinLimit
  <2> QED
    BY <2>2, <2>3
<1>6. \A v \in Callers : pc'[v] \in Occupying => account'[v] \in Accounts
  BY DEF IInv, TypeOK, Occupying
<1> QED
  BY <1>4, <1>5, <1>6 DEF IInv

LEMMA LookInvariant ==
  ASSUME IInv, NEW w \in Callers, pc[w] \in {"entering", "waiting"},
         NEW rq \in Seq(Callers), NEW wq \in Seq(Callers), Look(w, rq, wq),
         ahead' \in [Callers -> SUBSET Callers]
  PROVE  IInv'
<1>1. pc[w] \notin Occupying
  BY DEF Occupying
<1>2. TypeOK'
  BY LookShape
<1>3. CASE /\ Eligible(Picked)
           /\ Picked \in Accounts
           /\ pc' = [pc EXCEPT ![w] = "holding"]
           /\ account' = [account EXCEPT ![w] = Picked]
           /\ conc' = [conc EXCEPT ![Picked] = @ + 1]
  BY <1>1, <1>2, <1>3, AdmitInvariant
<1>4. CASE /\ \E s \in {"timedout", "parking"} : pc' = [pc EXCEPT ![w] = s]
           /\ UNCHANGED <<account, conc>>
  <2>1. \A v \in Callers : pc'[v] \in Occupying <=> pc[v] \in Occupying
    BY <1>1, <1>4 DEF Occupying, IInv, TypeOK
  <2> QED
    BY <1>2, <1>4, <2>1, SlotsUntouched
<1> QED
  BY <1>3, <1>4, LookShape

\* Both callers of Look queue a caller or leave the lanes as they are.
LEMMA EnterLooks ==
  ASSUME IInv, NEW w \in Callers, Enter(w) \/ Recheck(w)
  PROVE  /\ pc[w] \in {"entering", "waiting"}
         /\ ahead' \in [Callers -> SUBSET Callers]
         /\ \E rq, wq \in Seq(Callers) : Look(w, rq, wq)
<1>1. retry \in Seq(Callers) /\ weighted \in Seq(Callers)
  BY DEF IInv, TypeOK
<1>2. Append(retry, w) \in Seq(Callers) /\ Append(weighted, w) \in Seq(Callers)
  BY <1>1
<1>3. ahead' \in [Callers -> SUBSET Callers]
  BY DEF Enter, Recheck, IInv, TypeOK
<1> QED
  BY <1>1, <1>2, <1>3 DEF Enter, Recheck

LEMMA ReleaseInvariant ==
  ASSUME IInv, NEW w \in Callers, Release(w)
  PROVE  IInv'
<1> PICK i \in Accounts : i = account[w]
  BY DEF Release, Occupying, IInv
<1>1. w \in Occupants(i)
  BY DEF Release, Occupants, Occupying
<1>2. Occupants(i)' = Occupants(i) \ {w}
  BY DEF Release, Occupants, Occupying, IInv, TypeOK
<1>3. \A j \in Accounts \ {i} : Occupants(j)' = Occupants(j)
  BY DEF Release, Occupants, Occupying, IInv, TypeOK
<1>4. Cardinality(Occupants(i))' = Cardinality(Occupants(i)) - 1
  BY <1>1, <1>2, OccupantsFinite, FS_RemoveElement
<1>5. TypeOK'
  <2>1. credits' \in [Agents -> Int]
    <3>1. PICK cost \in Costs \cup {None} :
             credits' = IF cost # None /\ AgentOf[w] # Anon
                        THEN [credits EXCEPT ![AgentOf[w]] = @ - cost]
                        ELSE credits
      BY DEF Release
    <3>2. /\ credits \in [Agents -> Int] /\ AgentOf[w] \in Agents
          /\ cost # None => cost \in Nat
      BY RateLimitAssumption DEF IInv, TypeOK
    <3>3. cost # None => credits[AgentOf[w]] - cost \in Int
      BY <3>2
    <3> QED
      BY <3>1, <3>2, <3>3
  <2>2. conc' \in [Accounts -> Int]
    BY <1>1 DEF Release, IInv, TypeOK
  <2>3. /\ pc' = [pc EXCEPT ![w] = "done"]
        /\ UNCHANGED <<deadline, mutex, retry, weighted, calls, account, cursor, now,
                       admitted, ahead>>
    BY DEF Release
  <2> QED
    BY <2>1, <2>2, <2>3 DEF IInv, TypeOK
<1>6. SlotsAccounted'
  <2>1. conc' = [conc EXCEPT ![i] = @ - 1]
    BY DEF Release
  <2> QED
    <3>1. SUFFICES ASSUME NEW j \in Accounts
                   PROVE  conc'[j] = Cardinality(Occupants(j)')
      BY DEF SlotsAccounted
    <3>2. conc[j] = Cardinality(Occupants(j)) /\ conc \in [Accounts -> Int]
      BY DEF IInv, SlotsAccounted, TypeOK
    <3>3. CASE j = i
      BY <3>2, <3>3, <2>1, <1>4
    <3>4. CASE j # i
      BY <3>2, <3>4, <2>1, <1>3
    <3> QED
      BY <3>3, <3>4
<1>7. WithinLimit'
  <2>1. SUFFICES ASSUME MaxConcurrent # None, NEW j \in Accounts
                 PROVE  Cardinality(Occupants(j)') <= MaxConcurrent
    BY DEF WithinLimit
  <2>2. Cardinality(Occupants(j)) <= MaxConcurrent /\ MaxConcurrent \in Nat
    BY <2>1, RateLimitAssumption DEF IInv, WithinLimit
  <2>3. CASE j = i
    BY <2>2, <2>3, <1>4, OccupantsFinite
  <2>4. CASE j # i
    BY <2>2, <2>4, <1>3
  <2> QED
    BY <2>3, <2>4
<1>8. \A v \in Callers : pc'[v] \in Occupying => account'[v] \in Accounts
  BY DEF Release, IInv, TypeOK, Occupying
<1> QED
  BY <1>5, <1>6, <1>7, <1>8 DEF IInv

LEMMA SnapshotType ==
  ASSUME IInv, Snapshot
  PROVE  TypeOK'
<1>1. \A i \in Accounts : Prune(calls[i]) \in Seq(Nat)
  BY PruneProperties DEF IInv, TypeOK
<1>2. calls' \in [Accounts -> Seq(Nat)]
  BY <1>1 DEF Snapshot
<1> QED
  BY <1>2 DEF Snapshot, IInv, TypeOK

LEMMA StepInvariant == IInv /\ [Next]_vars => IInv'
<1> SUFFICES ASSUME IInv, [Next]_vars PROVE IInv'
  OBVIOUS
<1> DEFINE Still == \A v \in Callers : pc'[v] \in Occupying <=> pc[v] \in Occupying
<1>1. ASSUME NEW w \in Callers, Enter(w) \/ Recheck(w) PROVE IInv'
  BY <1>1, EnterLooks, LookInvariant
<1>2. ASSUME NEW w \in Callers,
             Arrive(w) \/ Park(w) \/ Grant(w) \/ CancelEntering(w) \/ HangOnLock(w)
               \/ CancelRelease(w)
      PROVE  IInv'
  <2>1. TypeOK'
    <3>1. /\ \E s \in {"entering", "waiting", "cancelled", "releasing", "leaked", pc[w]} :
                pc' = [pc EXCEPT ![w] = s]
          /\ deadline' = deadline \/ deadline' = [deadline EXCEPT ![w] = now + Timeout[w]]
          /\ mutex' \in {mutex, None, w}
          /\ UNCHANGED <<retry, weighted, credits, conc, calls, account, cursor, now,
                         admitted, ahead>>
      <4>1. CASE Arrive(w)
        BY <4>1 DEF Arrive
      <4>2. CASE Park(w)
        BY <4>2 DEF Park
      <4>3. CASE Grant(w)
        <5>1. pc' = [pc EXCEPT ![w] = pc[w]]
          BY <4>3 DEF Grant, IInv, TypeOK
        <5> QED
          BY <4>3, <5>1 DEF Grant
      <4>4. CASE CancelEntering(w)
        BY <4>4 DEF CancelEntering
      <4>5. CASE HangOnLock(w)
        BY <4>5 DEF HangOnLock
      <4>6. CASE CancelRelease(w)
        BY <4>6 DEF CancelRelease
      <4> QED
        BY <1>2, <4>1, <4>2, <4>3, <4>4, <4>5, <4>6
    <3>2. now + Timeout[w] \in Nat
      <4>1. Timeout[w] \in Nat
        BY RateLimitAssumption
      <4>2. now \in Nat
        BY DEF IInv, TypeOK
      <4> QED
        BY <4>1, <4>2
    <3>3. pc[w] \in {"idle", "entering", "parking", "waiting", "holding", "releasing",
                     "done", "timedout", "cancelled", "leaked"}
      BY DEF IInv, TypeOK
    <3> QED
      BY <3>1, <3>2, <3>3 DEF IInv, TypeOK
  <2>2. UNCHANGED <<conc, account>> /\ Still
    BY <1>2 DEF Arrive, Park, Grant, CancelEntering, HangOnLock, CancelRelease, IInv,
                TypeOK, Occupying
  <2> QED
    BY <2>1, <2>2, SlotsUntouched
<1>3. ASSUME NEW w \in Callers, CancelWaiting(w) PROVE IInv'
  <2>1. Dequeue(retry, w) \in Seq(Callers) /\ Dequeue(weighted, w) \in Seq(Callers)
    BY DequeueType DEF IInv, TypeOK
  <2>2. TypeOK'
    BY <1>3, <2>1 DEF CancelWaiting, IInv, TypeOK
  <2>3. UNCHANGED <<conc, account>> /\ Still
    BY <1>3 DEF CancelWaiting, IInv, TypeOK, Occupying, Waiting
  <2> QED
    BY <2>2, <2>3, SlotsUntouched
<1>4. CASE Snapshot
  <2>1. UNCHANGED <<conc, account>> /\ Still
    BY <1>4 DEF Snapshot
  <2> QED
    BY <1>4, <2>1, SnapshotType, SlotsUntouched
<1>5. CASE Tick
  <2>1. TypeOK' /\ UNCHANGED <<conc, account>> /\ Still
    BY <1>5 DEF Tick, IInv, TypeOK
  <2> QED
    BY <2>1, SlotsUntouched
<1>6. CASE UNCHANGED vars
  <2>1. TypeOK' /\ UNCHANGED <<conc, account>> /\ Still
    BY <1>6 DEF vars, IInv, TypeOK
  <2> QED
    BY <2>1, SlotsUntouched
<1> QED
  BY <1>1, <1>2, <1>3, <1>4, <1>5, <1>6, ReleaseInvariant DEF Next, CallerStep

LEMMA InitInvariant == Init => IInv
<1> SUFFICES ASSUME Init PROVE IInv
  OBVIOUS
<1>1. TypeOK
  <2>1. <<>> \in Seq(Callers) /\ <<>> \in Seq(Nat) /\ 0 \in 0..(NumAccounts - 1)
    BY RateLimitAssumption
  <2>2. /\ pc \in [Callers -> {"idle", "entering", "parking", "waiting", "holding",
                               "releasing", "done", "timedout", "cancelled", "leaked"}]
        /\ deadline \in [Callers -> Nat] /\ credits \in [Agents -> Int]
        /\ conc \in [Accounts -> Int] /\ account \in [Callers -> Accounts \cup {None}]
    BY DEF Init
  <2>3. calls \in [Accounts -> Seq(Nat)] /\ admitted \in [Accounts -> Seq(Nat)]
    BY <2>1 DEF Init
  <2> QED
    BY <2>1, <2>2, <2>3 DEF Init, TypeOK
<1>2. \A i \in Accounts : Occupants(i) = {}
  BY DEF Init, Occupants, Occupying
<1>3. SlotsAccounted
  BY <1>2, FS_EmptySet DEF Init, SlotsAccounted
<1>4. WithinLimit
  <2>1. MaxConcurrent # None => 0 <= MaxConcurrent
    BY RateLimitAssumption
  <2>2. \A i \in Accounts : Cardinality(Occupants(i)) = 0
    BY <1>2, FS_EmptySet
  <2> QED
    BY <2>1, <2>2 DEF WithinLimit
<1>5. \A w \in Callers : pc[w] \notin Occupying
  BY DEF Init, Occupying
<1> QED
  BY <1>1, <1>3, <1>4, <1>5 DEF IInv

\* The inductive invariant holds throughout: in particular `concurrent` counts
\* the callers inside, and those whose release was cancelled.
THEOREM Invariant == Spec => []IInv
BY InitInvariant, StepInvariant, PTL DEF Spec

\* No account has more callers inside than max_concurrent.
THEOREM ConcurrencyLimited == Spec => []WithinLimit
<1>1. IInv => WithinLimit
  BY DEF IInv
<1> QED
  BY <1>1, Invariant, PTL

-----------------------------------------------------------------------------
(* Credit *)

LEMMA RefilledCapped ==
  ASSUME TypeOK, CreditCapped, NEW q
  PROVE  \A a \in Agents : Refilled(q)[a] <= Weight[a]
<1>1. /\ credits \in [Agents -> Int]
      /\ \A a \in Agents : credits[a] <= Weight[a] /\ Weight[a] \in Nat
  BY RateLimitAssumption DEF TypeOK, CreditCapped
<1>2. CASE \A a \in WaitingAgents(q) : credits[a] <= 0
  <2>1. SUFFICES ASSUME NEW a \in Agents PROVE Refilled(q)[a] <= Weight[a]
    OBVIOUS
  <2>2. Refilled(q)[a] = IF a \in WaitingAgents(q) THEN credits[a] + Weight[a] ELSE credits[a]
    BY <1>2 DEF Refilled
  <2>3. a \in WaitingAgents(q) => credits[a] <= 0
    BY <1>2
  <2> QED
    BY <1>1, <2>2, <2>3
<1>3. CASE ~ \A a \in WaitingAgents(q) : credits[a] <= 0
  BY <1>1, <1>3 DEF Refilled
<1> QED
  BY <1>2, <1>3

LEMMA CreditStep == IInv /\ CreditCapped /\ [Next]_vars => CreditCapped'
<1> SUFFICES ASSUME IInv, CreditCapped, [Next]_vars PROVE CreditCapped'
  OBVIOUS
<1>1. ASSUME NEW w \in Callers, Enter(w) \/ Recheck(w) PROVE CreditCapped'
  <2>1. pc[w] \in {"entering", "waiting"} /\ ahead' \in [Callers -> SUBSET Callers]
    BY <1>1, EnterLooks
  <2>2. PICK rq \in Seq(Callers), wq \in Seq(Callers) : Look(w, rq, wq)
    BY <1>1, EnterLooks
  <2>3. credits' = credits \/ credits' = Refilled(wq)
    BY <2>1, <2>2, LookShape
  <2> QED
    BY <2>3, RefilledCapped DEF CreditCapped, IInv
<1>2. ASSUME NEW w \in Callers, Release(w) PROVE CreditCapped'
  <2>1. PICK cost \in Costs \cup {None} :
           credits' = IF cost # None /\ AgentOf[w] # Anon
                      THEN [credits EXCEPT ![AgentOf[w]] = @ - cost]
                      ELSE credits
    BY <1>2 DEF Release
  <2>2. /\ credits \in [Agents -> Int] /\ AgentOf[w] \in Agents
        /\ cost # None => cost \in Nat
        /\ \A a \in Agents : credits[a] <= Weight[a] /\ Weight[a] \in Nat
    BY RateLimitAssumption DEF IInv, TypeOK, CreditCapped
  <2>3. cost # None => credits[AgentOf[w]] - cost <= Weight[AgentOf[w]]
    BY <2>2
  <2>4. \A a \in Agents : credits'[a] <= Weight[a]
    BY <2>1, <2>2, <2>3
  <2> QED
    BY <2>4 DEF CreditCapped
<1>3. CASE UNCHANGED credits
  BY <1>3 DEF CreditCapped
<1> QED
  BY <1>1, <1>2, <1>3
     DEF Next, CallerStep, Arrive, Park, Grant, CancelEntering, CancelWaiting, HangOnLock,
         CancelRelease, Snapshot, Tick, vars

\* No agent ever has more credit than one refill gives it.
THEOREM NobodySavesUp == Spec => []CreditCapped
<1>1. Init => CreditCapped
  BY RateLimitAssumption DEF Init, CreditCapped
<1> QED
  BY <1>1, CreditStep, Invariant, PTL DEF Spec

-----------------------------------------------------------------------------
(* The sliding window *)

WindowOf(i) ==
  LET old == Len(admitted[i]) - Len(calls[i]) IN
  /\ old >= 0
  /\ \A k \in DOMAIN calls[i] : calls[i][k] = admitted[i][old + k]
  /\ \A k \in 1..old : admitted[i][k] + Window < now

RpmOf(i) == \A k \in DOMAIN admitted[i] :
  k + Rpm <= Len(admitted[i]) => admitted[i][k + Rpm] - admitted[i][k] > Window

\* Pruning keeps the suffix property.
LEMMA PruneWindow ==
  ASSUME TypeOK, NEW i \in Accounts, WindowOf(i)
  PROVE  LET s == Prune(calls[i])
             old == Len(admitted[i]) - Len(s)
         IN /\ s \in Seq(Nat)
            /\ old >= 0
            /\ \A k \in 1..Len(s) : s[k] = admitted[i][old + k]
            /\ \A k \in 1..old : admitted[i][k] + Window < now
<1> DEFINE c == calls[i]
           a == admitted[i]
           s == Prune(c)
<1>1. c \in Seq(Nat) /\ a \in Seq(Nat) /\ now \in Nat /\ Window \in Nat
  BY RateLimitAssumption DEF TypeOK
<1>2. PICK n \in 0..Len(c) : /\ s = SubSeq(c, n + 1, Len(c))
                             /\ \A j \in 1..n : c[j] + Window < now
  BY <1>1, PruneProperties
<1>3. s \in Seq(Nat)
  BY <1>1, PruneProperties
<1> DEFINE old == Len(a) - Len(c)
<1>4. /\ old \in Nat
      /\ \A k \in 1..Len(c) : c[k] = a[old + k]
      /\ \A k \in 1..old : a[k] + Window < now
  <2>1. /\ old >= 0
        /\ \A k \in DOMAIN c : c[k] = a[old + k]
        /\ \A k \in 1..old : a[k] + Window < now
    BY DEF WindowOf
  <2>2. Len(a) \in Nat /\ Len(c) \in Nat /\ DOMAIN c = 1..Len(c)
    BY <1>1
  <2> HIDE DEF c, a
  <2> QED
    BY <2>1, <2>2
<1> HIDE DEF c, a, s
<1>5. Len(s) = Len(c) - n /\ \A k \in 1..Len(s) : s[k] = c[n + k]
  BY <1>1, <1>2
<1>6. Len(a) - Len(s) = old + n
  BY <1>1, <1>5
<1>7. \A k \in 1..Len(s) : s[k] = a[(old + n) + k]
  <2>1. SUFFICES ASSUME NEW k \in 1..Len(s) PROVE s[k] = a[(old + n) + k]
    OBVIOUS
  <2>2. n + k \in 1..Len(c) /\ old + (n + k) = (old + n) + k
    BY <1>1, <1>4, <1>5
  <2> QED
    BY <1>4, <1>5, <2>2
<1>8. \A k \in 1..(old + n) : a[k] + Window < now
  <2>1. SUFFICES ASSUME NEW k \in 1..(old + n), k > old PROVE a[k] + Window < now
    BY <1>1, <1>4
  <2>2. k - old \in 1..n /\ k - old \in 1..Len(c) /\ old + (k - old) = k
    BY <1>1, <1>4, <2>1
  <2> QED
    BY <1>2, <1>4, <2>2
<1>9. /\ s \in Seq(Nat)
      /\ Len(a) - Len(s) >= 0
      /\ \A k \in 1..Len(s) : s[k] = a[(Len(a) - Len(s)) + k]
      /\ \A k \in 1..(Len(a) - Len(s)) : a[k] + Window < now
  <2>1. old + n >= 0
    BY <1>4
  <2> HIDE DEF old
  <2> QED
    BY <1>3, <1>6, <1>7, <1>8, <2>1
<1> QED
  BY <1>9 DEF c, a, s

\* An eligible account has fewer than Rpm calls in the window: whatever is Rpm
\* admissions back has left it.
LEMMA AdmitWindow ==
  ASSUME TypeOK, NEW i \in Accounts, WindowOf(i), Rpm # None => RpmOf(i), Eligible(i),
         calls' = [calls EXCEPT ![i] = Append(Prune(@), now)],
         admitted' = [admitted EXCEPT ![i] = Append(@, now)],
         now' = now
  PROVE  WindowOf(i)' /\ (Rpm # None => RpmOf(i)')
<1> DEFINE a == admitted[i]
           s == Prune(calls[i])
           old == Len(a) - Len(s)
<1>1. a \in Seq(Nat) /\ now \in Nat /\ Window \in Nat
  BY RateLimitAssumption DEF TypeOK
<1>2. /\ s \in Seq(Nat)
      /\ old >= 0
      /\ \A k \in 1..Len(s) : s[k] = a[old + k]
      /\ \A k \in 1..old : a[k] + Window < now
  BY PruneWindow
<1>3. calls'[i] = Append(s, now) /\ admitted'[i] = Append(a, now)
  BY DEF TypeOK
<1>4. Rpm # None => Rpm \in Nat /\ Len(s) < Rpm
  BY RateLimitAssumption DEF Eligible
<1>5. Rpm # None => \A k \in 1..Len(a) : k + Rpm <= Len(a) => a[k + Rpm] - a[k] > Window
  BY <1>1 DEF RpmOf
<1> HIDE DEF a, s
<1>6. /\ Len(Append(a, now)) = Len(a) + 1 /\ Append(a, now) \in Seq(Nat)
      /\ Len(Append(s, now)) = Len(s) + 1 /\ Append(s, now) \in Seq(Nat)
      /\ \A k \in 1..Len(a) : Append(a, now)[k] = a[k]
      /\ \A k \in 1..Len(s) : Append(s, now)[k] = s[k]
      /\ Append(a, now)[Len(a) + 1] = now /\ Append(s, now)[Len(s) + 1] = now
  BY <1>1, <1>2, AppendProperties
<1>7. Len(a) \in Nat /\ Len(s) \in Nat /\ Len(a) = old + Len(s) /\ old \in Nat
  BY <1>1, <1>2
<1> DEFINE A == Append(a, now)
           S == Append(s, now)
<1> HIDE DEF old, A, S
<1>8. WindowOf(i)'
  <2>1. Len(A) - Len(S) = old
    BY <1>6, <1>7 DEF A, S
  <2>2. \A k \in DOMAIN S : S[k] = A[old + k]
    <3>1. SUFFICES ASSUME NEW k \in 1..(Len(s) + 1) PROVE S[k] = A[old + k]
      BY <1>6 DEF S
    <3>2. CASE k <= Len(s)
      <4>1. k \in 1..Len(s) /\ old + k \in 1..Len(a)
        BY <1>7, <3>2
      <4> QED
        BY <1>2, <1>6, <4>1 DEF A, S
    <3>3. CASE k = Len(s) + 1
      <4>1. old + k = Len(a) + 1
        BY <1>7, <3>3
      <4> QED
        BY <1>6, <3>3, <4>1 DEF A, S
    <3> QED
      BY <1>7, <3>2, <3>3
  <2>3. \A k \in 1..old : A[k] + Window < now
    <3>1. \A k \in 1..old : k \in 1..Len(a)
      BY <1>7
    <3> QED
      BY <1>2, <1>6, <3>1 DEF A
  <2>4. calls'[i] = S /\ admitted'[i] = A
    BY <1>3 DEF A, S
  <2>5. Len(admitted'[i]) - Len(calls'[i]) = old
    BY <2>1, <2>4
  <2>6. /\ Len(admitted'[i]) - Len(calls'[i]) >= 0
        /\ \A k \in DOMAIN calls'[i] :
              calls'[i][k] = admitted'[i][(Len(admitted'[i]) - Len(calls'[i])) + k]
        /\ \A k \in 1..(Len(admitted'[i]) - Len(calls'[i])) :
              admitted'[i][k] + Window < now'
    <3>1. old >= 0
      BY <1>7
    <3> QED
      BY <3>1, <2>2, <2>3, <2>4, <2>5
  <2> QED
    BY <2>6 DEF WindowOf
<1>9. ASSUME Rpm # None PROVE RpmOf(i)'
  <2>1. SUFFICES ASSUME NEW k \in 1..(Len(a) + 1), k + Rpm <= Len(a) + 1
                 PROVE  A[k + Rpm] - A[k] > Window
    <3>1. admitted'[i] = A /\ Len(A) = Len(a) + 1 /\ DOMAIN A = 1..(Len(a) + 1)
      BY <1>3, <1>6 DEF A
    <3> QED
      BY <3>1 DEF RpmOf
  <2>2. Rpm \in Nat /\ Len(s) < Rpm
    BY <1>4, <1>9
  <2>3. CASE k + Rpm <= Len(a)
    <3>1. k \in 1..Len(a) /\ k + Rpm \in 1..Len(a)
      BY <1>7, <2>2, <2>3
    <3>2. A[k] = a[k] /\ A[k + Rpm] = a[k + Rpm]
      BY <1>6, <3>1 DEF A
    <3> QED
      BY <1>5, <1>9, <2>3, <3>1, <3>2
  <2>4. CASE k + Rpm = Len(a) + 1
    <3>1. k \in 1..old /\ k \in 1..Len(a)
      BY <1>7, <2>2, <2>4
    <3>2. a[k] + Window < now /\ a[k] \in Nat
      BY <1>1, <1>2, <3>1
    <3>3. A[k + Rpm] = now /\ A[k] = a[k]
      BY <1>6, <2>4, <3>1 DEF A
    <3> QED
      BY <1>1, <3>2, <3>3
  <2> QED
    BY <1>7, <2>1, <2>2, <2>3, <2>4
<1> QED
  BY <1>8, <1>9

\* Pruning alone changes nothing that matters.
LEMMA PruneOnlyWindow ==
  ASSUME TypeOK, NEW i \in Accounts, WindowOf(i),
         calls'[i] = calls[i] \/ calls'[i] = Prune(calls[i]),
         admitted' = admitted, now' \in {now, now + 1}
  PROVE  WindowOf(i)'
<1>1. /\ admitted[i] \in Seq(Nat) /\ calls[i] \in Seq(Nat)
      /\ now \in Nat /\ now' \in Nat /\ now <= now' /\ Window \in Nat
  BY RateLimitAssumption DEF TypeOK
<1> DEFINE c == calls'[i]
           a == admitted[i]
           old == Len(a) - Len(c)
<1>2. /\ c \in Seq(Nat)
      /\ old >= 0
      /\ \A k \in 1..Len(c) : c[k] = a[old + k]
      /\ \A k \in 1..old : a[k] + Window < now
  <2>1. CASE c = Prune(calls[i])
    <3>1. LET s == Prune(calls[i])
          IN /\ s \in Seq(Nat)
             /\ Len(a) - Len(s) >= 0
             /\ \A k \in 1..Len(s) : s[k] = a[(Len(a) - Len(s)) + k]
             /\ \A k \in 1..(Len(a) - Len(s)) : a[k] + Window < now
      BY PruneWindow
    <3> HIDE DEF c
    <3> QED
      BY <2>1, <3>1
  <2>2. CASE c = calls[i]
    <3>1. /\ Len(a) - Len(calls[i]) >= 0
          /\ \A k \in 1..Len(calls[i]) : calls[i][k] = a[(Len(a) - Len(calls[i])) + k]
          /\ \A k \in 1..(Len(a) - Len(calls[i])) : a[k] + Window < now
      <4>1. DOMAIN calls[i] = 1..Len(calls[i])
        BY <1>1
      <4> QED
        BY <4>1 DEF WindowOf
    <3> HIDE DEF c
    <3> QED
      BY <1>1, <2>2, <3>1
  <2> QED
    BY <2>1, <2>2
<1>3. \A k \in 1..old : a[k] + Window < now'
  <2>1. SUFFICES ASSUME NEW k \in 1..old PROVE a[k] + Window < now'
    OBVIOUS
  <2>2. a[k] \in Nat
    <3>1. Len(a) \in Nat /\ Len(c) \in Nat
      BY <1>1, <1>2
    <3>2. k \in 1..Len(a)
      BY <3>1
    <3> QED
      BY <1>1, <3>2
  <2>3. a[k] + Window < now
    BY <1>2
  <2> HIDE DEF a
  <2> QED
    BY <1>1, <2>2, <2>3
<1>4. DOMAIN c = 1..Len(c)
  BY <1>2
<1> QED
  BY <1>2, <1>3, <1>4 DEF WindowOf

LEMMA WindowStep ==
  IInv /\ WindowInv /\ RpmKept /\ [Next]_vars => WindowInv' /\ RpmKept'
<1> SUFFICES ASSUME IInv, WindowInv, RpmKept, [Next]_vars, NEW i \in Accounts
             PROVE  WindowOf(i)' /\ (Rpm # None => RpmOf(i)')
  BY DEF WindowInv, WindowOf, RpmKept, RpmOf
<1>1. TypeOK /\ WindowOf(i) /\ (Rpm # None => RpmOf(i))
  BY DEF IInv, WindowInv, WindowOf, RpmKept, RpmOf
<1>2. ASSUME admitted' = admitted,
             now' \in {now, now + 1},
             calls'[i] = calls[i] \/ calls'[i] = Prune(calls[i])
      PROVE  WindowOf(i)' /\ (Rpm # None => RpmOf(i)')
  BY <1>1, <1>2, PruneOnlyWindow DEF RpmOf
<1>3. ASSUME NEW w \in Callers, Enter(w) \/ Recheck(w)
      PROVE  WindowOf(i)' /\ (Rpm # None => RpmOf(i)')
  <2>1. pc[w] \in {"entering", "waiting"} /\ ahead' \in [Callers -> SUBSET Callers]
    BY <1>3, EnterLooks
  <2>2. PICK rq \in Seq(Callers), wq \in Seq(Callers) : Look(w, rq, wq)
    BY <1>3, EnterLooks
  <2>3. now' = now
    BY <2>1, <2>2, LookShape
  <2>4. CASE /\ Eligible(Picked)
             /\ Picked \in Accounts
             /\ calls' = [calls EXCEPT ![Picked] = Append(Prune(@), now)]
             /\ admitted' = [admitted EXCEPT ![Picked] = Append(@, now)]
    <3>1. CASE i = Picked
      BY <1>1, <2>3, <2>4, <3>1, AdmitWindow
    <3>2. CASE i # Picked
      <4>1. calls'[i] = calls[i] /\ admitted'[i] = admitted[i]
        BY <1>1, <2>4, <3>2 DEF TypeOK
      <4> QED
        BY <1>1, <2>3, <4>1 DEF WindowOf, RpmOf
    <3> QED
      BY <3>1, <3>2
  <2>5. CASE /\ admitted' = admitted
             /\ \/ calls' = calls
                \/ /\ Picked \in Accounts
                   /\ calls' = [calls EXCEPT ![Picked] = Prune(@)]
    <3>1. calls'[i] = calls[i] \/ calls'[i] = Prune(calls[i])
      BY <1>1, <2>5 DEF TypeOK
    <3> QED
      BY <1>2, <2>3, <2>5, <3>1
  <2> QED
    BY <2>1, <2>2, <2>4, <2>5, LookShape
<1>4. CASE Snapshot
  BY <1>2, <1>4 DEF Snapshot
<1>5. CASE Tick
  BY <1>2, <1>5 DEF Tick
<1>6. CASE UNCHANGED <<calls, admitted, now>>
  BY <1>2, <1>6
<1> QED
  BY <1>3, <1>4, <1>5, <1>6
     DEF Next, CallerStep, Arrive, Park, Grant, CancelEntering, CancelWaiting, HangOnLock,
         Release, CancelRelease, vars

\* Of any Rpm + 1 admissions in a row to one account, the first and the last
\* are more than a window apart.
THEOREM RateLimited == Spec => []RpmKept
<1>1. Init => WindowInv /\ RpmKept
  BY RateLimitAssumption DEF Init, WindowInv, RpmKept
<1>2. Spec => [](WindowInv /\ RpmKept)
  BY <1>1, WindowStep, Invariant, PTL DEF Spec
<1> QED
  BY <1>2, PTL

-----------------------------------------------------------------------------
(* Refinement *)

LEMMA InitPermits == Init => P!Init
BY DEF Init, P!Init, stage, permit, Occupying

\* The instance counts as the pool does.
LEMMA SameCardinality == \A S : P!Cardinality(S) = Cardinality(S)
BY DEF P!Cardinality, Cardinality

\* Who has a permit is who occupies a slot.
LEMMA OutIsOccupants ==
  ASSUME IInv, NEW i \in Accounts
  PROVE  P!Out(i) = Occupants(i)
BY RateLimitAssumption DEF P!Out, permit, Occupants, Accounts, IInv

\* A step in which no caller moves to another stage is a stutter.
LEMMA SameStage ==
  ASSUME UNCHANGED account,
         \A v \in Callers :
            \/ pc'[v] = pc[v]
            \/ {pc[v], pc'[v]} \subseteq {"idle", "entering"} \cup Waiting
            \/ {pc[v], pc'[v]} \subseteq {"holding", "releasing"}
  PROVE  UNCHANGED <<stage, permit>>
BY DEF stage, permit, Waiting, Occupying

\* A caller that ends without keeping an account has no permit.
LEMMA StageOver ==
  ASSUME TypeOK, NEW w \in Callers, UNCHANGED account,
         NEW s \in {"done", "timedout", "cancelled", "leaked"},
         pc' = [pc EXCEPT ![w] = s]
  PROVE  /\ stage' = [stage EXCEPT ![w] = "over"]
         /\ s # "leaked" => permit' = [permit EXCEPT ![w] = None]
BY DEF stage, permit, TypeOK, Waiting, Occupying

\* An admitted caller has a permit of its account.
LEMMA StageGranted ==
  ASSUME TypeOK, NEW w \in Callers, NEW i \in Accounts,
         pc' = [pc EXCEPT ![w] = "holding"],
         account' = [account EXCEPT ![w] = i]
  PROVE  /\ stage' = [stage EXCEPT ![w] = "granted"]
         /\ permit' = [permit EXCEPT ![w] = i]
BY DEF stage, permit, TypeOK, Waiting, Occupying

LEMMA StepPermits == IInv /\ [Next]_vars => [P!Next]_P!vars
<1> SUFFICES ASSUME IInv, [Next]_vars PROVE [P!Next]_<<stage, permit>>
  BY DEF P!vars
<1>0. TypeOK
  BY DEF IInv
<1>1. ASSUME NEW w \in Callers, Enter(w) \/ Recheck(w)
      PROVE  [P!Next]_<<stage, permit>>
  <2>1. /\ pc[w] \in {"entering", "waiting"} /\ ahead' \in [Callers -> SUBSET Callers]
        /\ stage[w] = "asking" /\ permit[w] = None
    BY <1>1, EnterLooks DEF stage, permit, Waiting, Occupying
  <2>2. PICK rq \in Seq(Callers), wq \in Seq(Callers) : Look(w, rq, wq)
    BY <1>1, EnterLooks
  <2>3. CASE /\ Eligible(Picked)
             /\ Picked \in Accounts
             /\ pc' = [pc EXCEPT ![w] = "holding"]
             /\ account' = [account EXCEPT ![w] = Picked]
    <3> PICK i \in Accounts : i = Picked
      BY <2>3
    <3>1. stage' = [stage EXCEPT ![w] = "granted"] /\ permit' = [permit EXCEPT ![w] = i]
      BY <1>0, <2>3, StageGranted
    <3>2. MaxConcurrent # None => P!Cardinality(P!Out(i)) < MaxConcurrent
      <4>1. MaxConcurrent # None => Cardinality(Occupants(i)) < MaxConcurrent
        BY <2>3 DEF Eligible, IInv, SlotsAccounted
      <4>2. P!Out(i) = Occupants(i)
        BY OutIsOccupants
      <4> QED
        BY <4>1, <4>2, SameCardinality
    <3>3. P!Grant(w)
      BY <2>1, <3>1, <3>2 DEF P!Grant
    <3> QED
      BY <3>3 DEF P!Next
  <2>4. CASE pc' = [pc EXCEPT ![w] = "timedout"] /\ UNCHANGED account
    <3>1. stage' = [stage EXCEPT ![w] = "over"] /\ permit' = [permit EXCEPT ![w] = None]
      BY <1>0, <2>4, StageOver
    <3>2. P!TurnAway(w)
      BY <2>1, <3>1 DEF P!TurnAway, permit
    <3> QED
      BY <3>2 DEF P!Next
  <2>5. CASE pc' = [pc EXCEPT ![w] = "parking"] /\ UNCHANGED account
    BY <1>0, <2>1, <2>5, SameStage DEF Waiting, TypeOK
  <2> QED
    BY <2>1, <2>2, <2>3, <2>4, <2>5, LookShape
<1>2. ASSUME NEW w \in Callers, CancelEntering(w) \/ CancelWaiting(w)
      PROVE  P!TurnAway(w)
  <2>1. /\ stage[w] = "asking" /\ permit[w] = None
        /\ pc' = [pc EXCEPT ![w] = "cancelled"] /\ UNCHANGED account
    BY <1>2 DEF CancelEntering, CancelWaiting, stage, permit, Waiting, Occupying
  <2>2. stage' = [stage EXCEPT ![w] = "over"] /\ permit' = [permit EXCEPT ![w] = None]
    BY <1>0, <2>1, StageOver
  <2> QED
    BY <2>1, <2>2 DEF P!TurnAway, permit
<1>3. ASSUME NEW w \in Callers, Release(w) PROVE P!GiveBack(w)
  <2>1. stage[w] = "granted" /\ pc' = [pc EXCEPT ![w] = "done"] /\ UNCHANGED account
    BY <1>3 DEF Release, stage, Waiting
  <2>2. stage' = [stage EXCEPT ![w] = "over"] /\ permit' = [permit EXCEPT ![w] = None]
    BY <1>0, <2>1, StageOver
  <2> QED
    BY <2>1, <2>2 DEF P!GiveBack
<1>4. ASSUME NEW w \in Callers, CancelRelease(w) PROVE P!GiveBack(w)
  <2>1. /\ stage[w] = "granted" /\ permit[w] = account[w]
        /\ pc' = [pc EXCEPT ![w] = "leaked"] /\ UNCHANGED account
    BY <1>4 DEF CancelRelease, stage, permit, Waiting, Occupying
  <2>2. stage' = [stage EXCEPT ![w] = "over"]
    BY <1>0, <2>1, StageOver
  <2>3. UNCHANGED permit
    BY <1>0, <1>4, <2>1 DEF CancelRelease, permit, Occupying, TypeOK
  <2> QED
    BY <2>1, <2>2, <2>3 DEF P!GiveBack
<1>5. ASSUME NEW w \in Callers, Arrive(w) \/ Park(w) \/ Grant(w) \/ HangOnLock(w)
      PROVE  UNCHANGED <<stage, permit>>
  BY <1>0, <1>5, SameStage DEF Arrive, Park, Grant, HangOnLock, Waiting, TypeOK
<1>6. CASE Snapshot \/ Tick \/ UNCHANGED vars
  BY <1>6, SameStage DEF Snapshot, Tick, vars
<1> QED
  BY <1>1, <1>2, <1>3, <1>4, <1>5, <1>6 DEF Next, CallerStep, P!Next

\* Every behaviour of a pool is, seen through its callers, one of Permits.
THEOREM PoolImplementsPermits == Spec => ImplementsPermits
BY InitPermits, StepPermits, Invariant, PTL DEF Spec, ImplementsPermits, P!Spec

-----------------------------------------------------------------------------
(* The lanes *)

\* What deque.remove leaves: the lane without its first waiter equal to w.
LEMMA DequeueShape ==
  ASSUME NEW q \in Seq(Callers), NEW w \in Callers
  PROVE  \/ /\ Dequeue(q, w) = q
            /\ \A i \in 1..Len(q) : ~Equal(q[i], w)
         \/ \E k \in 1..Len(q) :
               /\ Equal(q[k], w)
               /\ \A j \in 1..(k - 1) : ~Equal(q[j], w)
               /\ Len(Dequeue(q, w)) = Len(q) - 1
               /\ \A i \in 1..(Len(q) - 1) :
                     Dequeue(q, w)[i] = IF i < k THEN q[i] ELSE q[i + 1]
<1>0. Len(q) \in Nat /\ DOMAIN q = 1..Len(q)
  OBVIOUS
<1>1. CASE ~ \E i \in DOMAIN q : Equal(q[i], w)
  BY <1>0, <1>1 DEF Dequeue
<1>2. CASE \E i \in DOMAIN q : Equal(q[i], w)
  <2> DEFINE Same == {i \in 1..Len(q) : Equal(q[i], w)}
             First(i) == Equal(q[i], w) /\ \A j \in DOMAIN q : Equal(q[j], w) => i <= j
             k == CHOOSE i \in DOMAIN q : First(i)
             r == [i \in 1..(Len(q) - 1) |-> IF i < k THEN q[i] ELSE q[i + 1]]
  <2>1. \E i \in DOMAIN q : First(i)
    <3>1. Same \in SUBSET Nat /\ Same # {}
      BY <1>0, <1>2
    <3>2. \E x \in Same : \A y \in Same : x <= y
      <4> HIDE DEF Same
      <4> QED
        BY <3>1, LeastNat
    <3> QED
      BY <1>0, <3>2
  <2>2. k \in DOMAIN q /\ First(k)
    BY <2>1
  <2>3. Dequeue(q, w) = r
    BY <1>2 DEF Dequeue
  <2> HIDE DEF k
  <2>4. Len(r) = Len(q) - 1
    <3>1. Len(q) - 1 \in Nat /\ DOMAIN r = 1..(Len(q) - 1)
      BY <1>0, <2>2
    <3>2. \A i \in 1..(Len(q) - 1) : q[i] \in Callers /\ q[i + 1] \in Callers
      BY <1>0
    <3>3. r \in [1..(Len(q) - 1) -> Callers]
      BY <3>2
    <3>4. r \in Seq(Callers)
      BY <3>1, <3>3
    <3> HIDE DEF r
    <3> QED
      BY <3>1, <3>4, LenProperties
  <2>5. \A j \in 1..(k - 1) : ~Equal(q[j], w)
    <3>1. SUFFICES ASSUME NEW j \in 1..(k - 1) PROVE ~Equal(q[j], w)
      OBVIOUS
    <3>2. j \in DOMAIN q /\ ~(k <= j)
      BY <1>0, <2>2
    <3> QED
      BY <2>2, <3>2
  <2> QED
    BY <1>0, <2>2, <2>3, <2>4, <2>5
<1> QED
  BY <1>1, <1>2

\* A lane in the order of arrival, without a waiter twice.
Ordered(a, q) == /\ \A i, j \in 1..Len(q) : q[i] \in a[q[j]] => i < j
                 /\ \A i, j \in 1..Len(q) : q[i] = q[j] => i = j

\* p is q after w, or one equal to it, was taken out.
Thinned(p, q, w) == /\ Members(p) \subseteq Members(q)
                    /\ \A v \in Members(q) \ Members(p) : Equal(v, w)

LEMMA DequeueThins ==
  ASSUME NEW q \in Seq(Callers), NEW w \in Callers
  PROVE  /\ Thinned(Dequeue(q, w), q, w)
         /\ \A a : Ordered(a, q) => Ordered(a, Dequeue(q, w))
<1> DEFINE p == Dequeue(q, w)
<1>0. /\ Len(q) \in Nat /\ DOMAIN q = 1..Len(q)
      /\ p \in Seq(Callers) /\ DOMAIN p = 1..Len(p)
  BY DequeueType
<1>1. CASE p = q
  BY <1>1 DEF Thinned
<1>2. ASSUME NEW k \in 1..Len(q), Equal(q[k], w), Len(p) = Len(q) - 1,
             \A i \in 1..(Len(q) - 1) : p[i] = IF i < k THEN q[i] ELSE q[i + 1]
      PROVE  Thinned(p, q, w) /\ \A a : Ordered(a, q) => Ordered(a, p)
  <2> DEFINE e(i) == IF i < k THEN i ELSE i + 1
  <2> HIDE DEF p
  <2>1. \A i \in 1..Len(p) : e(i) \in 1..Len(q) /\ p[i] = q[e(i)]
    BY <1>0, <1>2
  <2>2. \A i \in 1..Len(q) : i # k => \E j \in 1..Len(p) : p[j] = q[i]
    <3>1. SUFFICES ASSUME NEW i \in 1..Len(q), i # k
                   PROVE  \E j \in 1..Len(p) : p[j] = q[i]
      OBVIOUS
    <3>2. CASE i < k
      BY <1>0, <1>2, <3>2
    <3>3. CASE i > k
      <4>1. i - 1 \in 1..Len(p) /\ ~(i - 1 < k) /\ (i - 1) + 1 = i
        BY <1>0, <1>2, <3>3
      <4> QED
        BY <1>2, <4>1
    <3> QED
      BY <1>0, <3>1, <3>2, <3>3
  <2>3. Thinned(p, q, w)
    <3>1. Members(p) \subseteq Members(q)
      <4> HIDE DEF e
      <4> QED
        BY <1>0, <2>1 DEF Members
    <3>2. \A v \in Members(q) \ Members(p) : Equal(v, w)
      <4>1. ASSUME NEW i \in 1..Len(q), q[i] \notin Members(p) PROVE Equal(q[i], w)
        <5>1. i = k
          BY <1>0, <2>2, <4>1 DEF Members
        <5> QED
          BY <1>2, <5>1
      <4> QED
        BY <1>0, <4>1 DEF Members
    <3> QED
      BY <3>1, <3>2 DEF Thinned
  <2>4. ASSUME NEW a, Ordered(a, q) PROVE Ordered(a, p)
    <3>1. ASSUME NEW i \in 1..Len(p), NEW j \in 1..Len(p)
          PROVE  /\ p[i] \in a[p[j]] => i < j
                 /\ p[i] = p[j] => i = j
      <4>1. /\ e(i) \in 1..Len(q) /\ e(j) \in 1..Len(q)
            /\ p[i] = q[e(i)] /\ p[j] = q[e(j)]
        BY <2>1
      <4>2. (e(i) < e(j) => i < j) /\ (e(i) = e(j) => i = j)
        BY <1>0
      <4> HIDE DEF e
      <4> QED
        BY <2>4, <4>1, <4>2 DEF Ordered
    <3> QED
      BY <3>1 DEF Ordered
  <2> QED
    BY <2>3, <2>4
<1> QED
  BY <1>1, <1>2, DequeueShape

\* A waiter that is the first equal to itself is the one taken out.
LEMMA DequeueSelf ==
  ASSUME NEW q \in Seq(Callers), NEW w \in Callers, NEW a, Ordered(a, q),
         NEW k \in 1..Len(q), q[k] = w, \A j \in 1..(k - 1) : ~Equal(q[j], w)
  PROVE  Members(Dequeue(q, w)) = Members(q) \ {w}
<1> DEFINE p == Dequeue(q, w)
<1>a. p \in Seq(Callers)
  BY DequeueType
<1>0. /\ Len(q) \in Nat /\ DOMAIN q = 1..Len(q)
      /\ p \in Seq(Callers) /\ Len(p) \in Nat /\ DOMAIN p = 1..Len(p)
  <2> HIDE DEF p
  <2> QED
    BY <1>a
<1>1. Equal(w, w)
  BY DEF Equal, Alike
<1>2. PICK m \in 1..Len(q) :
         /\ Equal(q[m], w)
         /\ \A j \in 1..(m - 1) : ~Equal(q[j], w)
         /\ Len(p) = Len(q) - 1
         /\ \A i \in 1..(Len(q) - 1) : p[i] = IF i < m THEN q[i] ELSE q[i + 1]
  BY <1>1, DequeueShape
<1>3. m = k
  <2>1. ~(m < k) /\ ~(k < m)
    BY <1>1, <1>2
  <2> QED
    BY <2>1
<1> HIDE DEF p
<1>4. \A i \in 1..Len(q) : i # k => \E j \in 1..Len(p) : p[j] = q[i]
  <2>1. SUFFICES ASSUME NEW i \in 1..Len(q), i # k
                 PROVE  \E j \in 1..Len(p) : p[j] = q[i]
    OBVIOUS
  <2>2. CASE i < k
    BY <1>0, <1>2, <1>3, <2>2
  <2>3. CASE i > k
    <3>1. i - 1 \in 1..Len(p) /\ ~(i - 1 < k) /\ (i - 1) + 1 = i
      BY <1>0, <1>2, <2>3
    <3> QED
      BY <1>2, <1>3, <3>1
  <2> QED
    BY <1>0, <2>1, <2>2, <2>3
<1>5. \A i \in 1..Len(p) : \E j \in 1..Len(q) : j # k /\ p[i] = q[j]
  <2>1. SUFFICES ASSUME NEW i \in 1..Len(p) PROVE \E j \in 1..Len(q) : j # k /\ p[i] = q[j]
    OBVIOUS
  <2>2. CASE i < k
    BY <1>0, <1>2, <1>3, <2>2
  <2>3. CASE ~(i < k)
    <3>1. i + 1 \in 1..Len(q) /\ i + 1 # k /\ p[i] = q[i + 1]
      BY <1>0, <1>2, <1>3, <2>3
    <3> QED
      BY <3>1
  <2> QED
    BY <2>2, <2>3
<1>6. \A j \in 1..Len(q) : q[j] = w => j = k
  BY DEF Ordered
<1>7. \A v : v \in Members(p) <=> v \in Members(q) /\ v # w
  <2>1. ASSUME NEW v, v \in Members(p) PROVE v \in Members(q) /\ v # w
    BY <1>0, <1>5, <1>6, <2>1 DEF Members
  <2>2. ASSUME NEW v, v \in Members(q), v # w PROVE v \in Members(p)
    <3>1. PICK i \in 1..Len(q) : q[i] = v
      BY <1>0, <2>2 DEF Members
    <3>2. i # k
      BY <2>2, <3>1
    <3> QED
      BY <1>0, <1>4, <3>1, <3>2 DEF Members
  <2> QED
    BY <2>1, <2>2
<1> QED
  BY <1>7 DEF p

LEMMA Symmetric == \A u, v : (Equal(u, v) <=> Equal(v, u)) /\ (Equal(u, v) => Alike(u, v))
BY DEF Equal, Alike

\* The lane of v among the two.
Own(v, rq, wq) == IF Lane[v] = "retry" THEN rq ELSE wq

\* The lanes as w finds them when it looks, queued by now if it just came.
Found(a, w, rq, wq) ==
  /\ Ordered(a, rq) /\ Ordered(a, wq)
  /\ \A v \in Members(rq) : Lane[v] = "retry"
  /\ \A v \in Members(wq) : Lane[v] = "normal"
  /\ \A v \in Members(rq) \cup Members(wq) : v = w \/ pc[v] \in Waiting \cup Gone
  /\ \A x \in Callers : \A v \in a[x] :
        Alike(v, x) /\ v # x /\ (v = w \/ pc[v] \notin {"idle", "entering"})
  /\ \A x \in Callers \ {w} : pc[x] \in {"idle", "entering"} => a[x] = {}
  /\ \A v \in Callers : (v = w \/ pc[v] \in Waiting) /\ v \notin Members(Own(v, rq, wq)) =>
        \E u \in Callers \ {v, w} : Equal(u, v) /\ pc[u] \in Gone

LEMMA LaneInvOrdered ==
  ASSUME TypeOK
  PROVE  LaneInv <=>
           /\ Ordered(ahead, retry) /\ Ordered(ahead, weighted)
           /\ \A v \in Members(retry) \cup Members(weighted) : pc[v] \in Waiting \cup Gone
           /\ \A v \in Members(retry) : Lane[v] = "retry"
           /\ \A v \in Members(weighted) : Lane[v] = "normal"
           /\ \A w \in Callers : \A v \in ahead[w] :
                 Alike(v, w) /\ v # w /\ pc[v] \notin {"idle", "entering"}
           /\ \A w \in Callers : pc[w] \in {"idle", "entering"} => ahead[w] = {}
           /\ \A v \in Callers : pc[v] \in Waiting /\ v \notin Members(Own(v, retry, weighted)) =>
                 \E u \in Callers \ {v} : Equal(u, v) /\ pc[u] \in Gone
<1>1. /\ DOMAIN retry = 1..Len(retry) /\ DOMAIN weighted = 1..Len(weighted)
  BY DEF TypeOK
<1> QED
  BY <1>1 DEF LaneInv, Ordered, InOrder, InLane, Own

\* How a look leaves the lanes and callers: w is let in from the front and
\* nobody but w goes; or w gives up, is cancelled, and takes one like it along;
\* or it waits.
LEMMA LaneStep ==
  ASSUME TypeOK, TypeOK', LaneInv, NoOvertaking, NEW w \in Callers,
         pc[w] \in {"entering"} \cup Waiting,
         NEW a \in [Callers -> SUBSET Callers], ahead' = a,
         \A x \in Callers \ {w} : a[x] = ahead[x],
         NEW rq \in Seq(Callers), NEW wq \in Seq(Callers), Found(a, w, rq, wq),
         NEW s, pc' = [pc EXCEPT ![w] = s],
         Ordered(a, retry)', Ordered(a, weighted)',
         Thinned(retry', rq, w), Thinned(weighted', wq, w),
         \/ s \in Gone
         \/ s \in Waiting /\ retry' = rq /\ weighted' = wq
         \/ /\ s = "holding"
            /\ Members(retry') = Members(rq) \ {w}
            /\ Members(weighted') = Members(wq) \ {w}
            /\ \A v \in a[w] : v \notin Members(Own(v, rq, wq))
  PROVE  LaneInv' /\ NoOvertaking'
<1>1. \A v \in Callers : pc'[v] = IF v = w THEN s ELSE pc[v]
  BY DEF TypeOK
<1>2. pc[w] \notin Gone \cup Occupying \cup {"done"}
  BY DEF Gone, Waiting, Occupying
<1>3. s \notin {"idle", "entering"} /\ (s \in Gone => s \notin Waiting \cup Occupying \cup {"done"})
      /\ (s \in Waiting => s \notin Occupying \cup {"done"})
  BY DEF Gone, Waiting, Occupying
<1>4. \A v \in Callers : v \in Members(retry') \cup Members(weighted') =>
         pc'[v] \in Waiting \cup Gone
  BY <1>1 DEF Found, Thinned
<1>5. Members(retry') \cup Members(weighted') \subseteq Callers
  BY SMTT(40) DEF Members, TypeOK
<1>6. \A v \in Members(retry') : Lane[v] = "retry"
  BY DEF Found, Thinned
<1>7. \A v \in Members(weighted') : Lane[v] = "normal"
  BY DEF Found, Thinned
<1>8. \A x \in Callers : \A v \in a[x] :
         Alike(v, x) /\ v # x /\ pc'[v] \notin {"idle", "entering"}
  BY <1>1, <1>3 DEF Found
<1>9. \A x \in Callers : pc'[x] \in {"idle", "entering"} => a[x] = {}
  BY <1>1, <1>3 DEF Found
<1>10. ASSUME NEW v \in Callers, pc'[v] \in Waiting,
              v \notin Members(Own(v, retry', weighted'))
       PROVE  \E u \in Callers \ {v} : Equal(u, v) /\ pc'[u] \in Gone
  <2>1. v = w \/ pc[v] \in Waiting
    BY <1>1, <1>10
  <2>2. CASE v \notin Members(Own(v, rq, wq))
    BY <1>1, <2>1, <2>2 DEF Found
  <2>3. CASE v \in Members(Own(v, rq, wq))
    <3>1. Equal(v, w)
      BY <1>10, <2>3 DEF Thinned, Own
    <3>2. s \in Gone
      <4>1. CASE s = "holding"
        BY <1>1, <1>10, <2>3, <4>1 DEF Own, Waiting
      <4> QED
        BY <1>10, <2>3, <4>1 DEF Own
    <3>3. v # w
      BY <1>1, <1>3, <1>10, <3>2
    <3> QED
      BY <1>1, <3>1, <3>2, <3>3, Symmetric
  <2> QED
    BY <2>2, <2>3
<1>11. LaneInv'
  <2>1. /\ DOMAIN retry' = 1..Len(retry') /\ DOMAIN weighted' = 1..Len(weighted')
    BY DEF TypeOK
  <2>2. \A q \in {retry', weighted'} :
           /\ \A i, j \in DOMAIN q : q[i] \in ahead'[q[j]] => i < j
           /\ \A i, j \in DOMAIN q : q[i] = q[j] => i = j
           /\ \A v \in Members(q) : pc'[v] \in Waiting \cup Gone
    BY <1>4, <1>5, <2>1 DEF Ordered
  <2>3. \A v \in Callers : InLane(v)' <=> v \in Members(Own(v, retry', weighted'))
    BY DEF InLane, Own
  <2> QED
    BY <1>6, <1>7, <1>8, <1>9, <1>10, <2>2, <2>3 DEF LaneInv, InOrder
<1>12. ASSUME NEW v \in Callers, NEW x \in Callers, Overtaken(v, x)'
       PROVE  \E u \in Callers \ {v} : Equal(u, v) /\ pc'[u] \in Gone
  <2>1. v \in a[x] /\ pc'[v] \in Waiting /\ pc'[x] \in Occupying \cup {"done"}
    BY <1>12 DEF Overtaken
  <2>2. CASE x = w
    <3>1. s = "holding"
      BY <1>1, <1>3, <2>1, <2>2 DEF Gone, Waiting, Occupying
    <3>2. v # w
      BY <1>8, <2>1, <2>2
    <3>3. v \notin Members(Own(v, rq, wq))
      BY <1>3, <2>1, <2>2, <3>1 DEF Gone, Waiting
    <3> QED
      BY <1>1, <2>1, <3>2, <3>3 DEF Found
  <2>3. CASE x # w
    <3>1. v \in ahead[x] /\ pc[x] \in Occupying \cup {"done"}
      BY <1>1, <2>1, <2>3
    <3>2. CASE v # w
      <4>1. Overtaken(v, x)
        BY <1>1, <2>1, <3>1, <3>2 DEF Overtaken
      <4>2. PICK u \in Callers \ {v} : Equal(u, v) /\ pc[u] \in Gone
        BY <4>1 DEF NoOvertaking
      <4> QED
        BY <1>1, <1>2, <4>2
    <3>3. CASE v = w
      <4>1. CASE pc[w] \in Waiting
        <5>1. Overtaken(v, x)
          BY <3>1, <3>3, <4>1 DEF Overtaken
        <5>2. PICK u \in Callers \ {v} : Equal(u, v) /\ pc[u] \in Gone
          BY <5>1 DEF NoOvertaking
        <5> QED
          BY <1>1, <1>2, <5>2
      <4>2. CASE pc[w] = "entering"
        BY <3>1, <3>3, <4>2 DEF LaneInv
      <4> QED
        BY <4>1, <4>2
    <3> QED
      BY <3>2, <3>3
  <2> QED
    BY <2>2, <2>3
<1> QED
  BY <1>11, <1>12 DEF NoOvertaking

\* A dequeue leaves a lane alone in which nobody has w's priority.
LEMMA DequeueNobody ==
  ASSUME NEW q \in Seq(Callers), NEW w \in Callers, \A v \in Members(q) : Lane[v] # Lane[w]
  PROVE  Members(Dequeue(q, w)) = Members(q) \ {w}
<1>1. \A i \in 1..Len(q) : q[i] \in Members(q) /\ ~Equal(q[i], w)
  BY DEF Members, Equal, Alike
<1>2. Dequeue(q, w) = q
  BY <1>1, DequeueShape
<1> QED
  BY <1>2

LEMMA LookLane ==
  ASSUME TypeOK, TypeOK', LaneInv, NoOvertaking, NEW w \in Callers,
         pc[w] \in {"entering", "waiting"},
         NEW a \in [Callers -> SUBSET Callers], ahead' = a,
         \A x \in Callers \ {w} : a[x] = ahead[x],
         NEW rq \in Seq(Callers), NEW wq \in Seq(Callers), Found(a, w, rq, wq),
         Look(w, rq, wq)
  PROVE  LaneInv' /\ NoOvertaking'
<1>0. /\ pc[w] \in {"entering"} \cup Waiting
      /\ Ordered(a, rq) /\ Ordered(a, wq)
      /\ Thinned(rq, rq, w) /\ Thinned(wq, wq, w)
  BY DEF Waiting, Found, Thinned
<1>1. CASE KeepWaiting(w, rq, wq)
  <2>1. /\ pc' = [pc EXCEPT ![w] = "parking"] /\ retry' = rq /\ weighted' = wq
        /\ "parking" \in Waiting
    BY <1>1 DEF KeepWaiting, Waiting
  <2>2. Ordered(a, retry)' /\ Ordered(a, weighted)'
    BY <1>0, <2>1 DEF Ordered
  <2> QED
    BY <1>0, <2>1, <2>2, LaneStep
<1>2. ASSUME GiveUp(w, rq, wq) PROVE LaneInv' /\ NoOvertaking'
  <2> DEFINE r == Dequeue(rq, w)
             z == Dequeue(wq, w)
  <2>1. /\ pc' = [pc EXCEPT ![w] = "timedout"] /\ "timedout" \in Gone
        /\ retry' = Dequeue(r, w) /\ weighted' = Dequeue(z, w)
    BY <1>2 DEF GiveUp, Gone
  <2>2. r \in Seq(Callers) /\ z \in Seq(Callers)
    BY DequeueType
  <2>3. /\ Thinned(r, rq, w) /\ Thinned(z, wq, w)
        /\ Ordered(a, r) /\ Ordered(a, z)
    BY <1>0, DequeueThins
  <2> HIDE DEF r, z
  <2>4. /\ Thinned(Dequeue(r, w), r, w) /\ Thinned(Dequeue(z, w), z, w)
        /\ Ordered(a, Dequeue(r, w)) /\ Ordered(a, Dequeue(z, w))
    BY <2>2, <2>3, DequeueThins
  <2>5. Thinned(retry', rq, w) /\ Thinned(weighted', wq, w)
    BY <2>1, <2>3, <2>4 DEF Thinned
  <2>6. Ordered(a, retry)' /\ Ordered(a, weighted)'
    BY <2>1, <2>4 DEF Ordered
  <2> QED
    BY <1>0, <2>1, <2>5, <2>6, LaneStep
<1>3. ASSUME Admit(w, rq, wq), NEW cr, MyTurn(w, rq, wq, cr)
      PROVE  LaneInv' /\ NoOvertaking'
  <2> DEFINE own == Own(w, rq, wq)
  <2>1. /\ pc' = [pc EXCEPT ![w] = "holding"]
        /\ retry' = Dequeue(rq, w) /\ weighted' = Dequeue(wq, w)
    BY <1>3 DEF Admit
  <2>2. /\ Thinned(retry', rq, w) /\ Thinned(weighted', wq, w)
        /\ Ordered(a, Dequeue(rq, w)) /\ Ordered(a, Dequeue(wq, w))
    BY <1>0, <2>1, DequeueThins
  <2>3. Ordered(a, retry)' /\ Ordered(a, weighted)'
    BY <2>1, <2>2 DEF Ordered
  <2>4. own \in Seq(Callers) /\ Ordered(a, own) /\ DOMAIN own = 1..Len(own)
    BY <1>0 DEF Own
  <2>5. PICK k \in 1..Len(own) :
           own[k] = w /\ \A i \in 1..(k - 1) : AgentOf[own[i]] # AgentOf[w]
    BY <1>3, <2>4 DEF MyTurn, Own
  <2>6. \A i \in 1..(k - 1) : ~Equal(own[i], w)
    BY <2>5 DEF Equal, Alike
  <2>7. Members(Dequeue(own, w)) = Members(own) \ {w}
    <3> HIDE DEF own
    <3> QED
      BY <2>4, <2>5, <2>6, DequeueSelf
  <2>8. /\ Members(retry') = Members(rq) \ {w}
        /\ Members(weighted') = Members(wq) \ {w}
    <3>1. CASE Lane[w] = "retry"
      <4>1. \A v \in Members(wq) : Lane[v] # Lane[w]
        BY <3>1 DEF Found
      <4> QED
        BY <2>1, <2>7, <3>1, <4>1, DequeueNobody DEF Own
    <3>2. CASE Lane[w] # "retry"
      <4>1. \A v \in Members(rq) : Lane[v] # Lane[w]
        BY <3>2 DEF Found
      <4> QED
        BY <2>1, <2>7, <3>2, <4>1, DequeueNobody DEF Own
    <3> QED
      BY <3>1, <3>2
  <2>9. \A v \in a[w] : v \notin Members(Own(v, rq, wq))
    <3>1. SUFFICES ASSUME NEW v \in a[w], v \in Members(Own(v, rq, wq)) PROVE FALSE
      OBVIOUS
    <3>2. Alike(v, w)
      BY DEF Found
    <3>3. Own(v, rq, wq) = own
      BY <3>2 DEF Own, Alike
    <3>4. PICK i \in 1..Len(own) : own[i] = v
      BY <2>4, <3>1, <3>3 DEF Members
    <3>5. i < k
      BY <2>4, <2>5, <3>4 DEF Ordered
    <3>6. AgentOf[own[i]] = AgentOf[w]
      BY <3>2, <3>4 DEF Alike
    <3> QED
      BY <2>5, <3>5, <3>6
  <2> QED
    BY <1>0, <2>1, <2>2, <2>3, <2>8, <2>9, LaneStep
<1>4. \/ \E cr : Admit(w, rq, wq) /\ MyTurn(w, rq, wq, cr)
      \/ GiveUp(w, rq, wq)
      \/ KeepWaiting(w, rq, wq)
  BY DEF Look
<1> QED
  BY <1>1, <1>2, <1>3, <1>4

\* A caller that looks again finds the lanes as they are.
LEMMA FoundAgain ==
  ASSUME TypeOK, LaneInv, NEW w \in Callers, pc[w] \in Waiting
  PROVE  Found(ahead, w, retry, weighted)
<1>1. pc[w] \notin Gone
  BY DEF Waiting, Gone
<1> QED
  BY <1>1, LaneInvOrdered DEF Found

\* A caller that comes stands at the end of its lane, behind all that wait.
LEMMA FoundQueued ==
  ASSUME TypeOK, LaneInv, NEW w \in Callers, pc[w] = "entering", NEW a,
         a = [ahead EXCEPT ![w] = {v \in Callers : Alike(v, w) /\ pc[v] \in Waiting}],
         NEW rq, rq = IF Lane[w] = "retry" THEN Append(retry, w) ELSE retry,
         NEW wq, wq = IF Lane[w] = "retry" THEN weighted ELSE Append(weighted, w)
  PROVE  Found(a, w, rq, wq) /\ rq \in Seq(Callers) /\ wq \in Seq(Callers)
<1>0. /\ retry \in Seq(Callers) /\ weighted \in Seq(Callers)
      /\ ahead \in [Callers -> SUBSET Callers] /\ Lane \in [Callers -> {"normal", "retry"}]
  BY RateLimitAssumption DEF TypeOK
<1>1. \A x \in Callers : a[x] = IF x = w THEN {v \in Callers : Alike(v, w) /\ pc[v] \in Waiting}
                                         ELSE ahead[x]
  BY <1>0
<1>2. \A x \in Callers : w \notin a[x]
  BY <1>1 DEF LaneInv, Waiting
<1>3. w \notin Members(retry) \cup Members(weighted)
  BY DEF LaneInv, Waiting, Gone
<1>4. ASSUME NEW q \in Seq(Callers), Ordered(ahead, q), w \notin Members(q)
      PROVE  Ordered(a, q) /\ Ordered(a, Append(q, w)) /\ Append(q, w) \in Seq(Callers)
             /\ Members(Append(q, w)) = Members(q) \cup {w}
  <2>0. /\ Len(q) \in Nat /\ DOMAIN q = 1..Len(q)
        /\ Append(q, w) \in Seq(Callers) /\ Len(Append(q, w)) = Len(q) + 1
        /\ DOMAIN Append(q, w) = 1..(Len(q) + 1)
        /\ \A i \in 1..Len(q) : Append(q, w)[i] = q[i]
        /\ Append(q, w)[Len(q) + 1] = w
    BY AppendProperties
  <2>1. \A i \in 1..Len(q) : q[i] # w /\ q[i] \in Callers
    BY <1>4, <2>0 DEF Members
  <2>2. \A i, j \in 1..Len(q) : (q[i] \in a[q[j]] => i < j) /\ (q[i] = q[j] => i = j)
    BY <1>1, <1>4, <2>1 DEF Ordered
  <2> DEFINE r == Append(q, w)
  <2>3. \A i, j \in 1..(Len(q) + 1) : (r[i] \in a[r[j]] => i < j) /\ (r[i] = r[j] => i = j)
    <3> HIDE DEF r
    <3>1. SUFFICES ASSUME NEW i \in 1..(Len(q) + 1), NEW j \in 1..(Len(q) + 1)
                   PROVE  (r[i] \in a[r[j]] => i < j) /\ (r[i] = r[j] => i = j)
      OBVIOUS
    <3>2. CASE i \in 1..Len(q) /\ j \in 1..Len(q)
      BY <2>0, <2>2, <3>2 DEF r
    <3>3. CASE i = Len(q) + 1 /\ j \in 1..Len(q)
      BY <1>2, <2>0, <2>1, <3>3 DEF r
    <3>4. CASE i \in 1..Len(q) /\ j = Len(q) + 1
      BY <2>0, <2>1, <3>4 DEF r
    <3>5. CASE i = Len(q) + 1 /\ j = Len(q) + 1
      BY <1>2, <2>0, <3>5 DEF r
    <3> QED
      BY <2>0, <3>2, <3>3, <3>4, <3>5
  <2>4. Ordered(a, q) /\ Ordered(a, r)
    BY <2>0, <2>2, <2>3 DEF Ordered
  <2>5. Members(r) = Members(q) \cup {w}
    <3>1. \A v : v \in Members(r) <=> \E i \in 1..(Len(q) + 1) : r[i] = v
      BY <2>0 DEF Members
    <3>2. \A v : v \in Members(q) <=> \E i \in 1..Len(q) : q[i] = v
      BY <2>0 DEF Members
    <3>3. \A i \in 1..(Len(q) + 1) : i \in 1..Len(q) \/ i = Len(q) + 1
      BY <2>0
    <3>4. \A i \in 1..Len(q) : i \in 1..(Len(q) + 1)
      BY <2>0
    <3>5. Len(q) + 1 \in 1..(Len(q) + 1)
      BY <2>0
    <3>6. \A v : v \in Members(r) <=> v \in Members(q) \/ v = w
      BY <2>0, <3>1, <3>2, <3>3, <3>4, <3>5
    <3> QED
      BY <3>6
  <2> QED
    BY <2>0, <2>4, <2>5
<1>5. Ordered(ahead, retry) /\ Ordered(ahead, weighted)
  BY LaneInvOrdered
<1>6. /\ rq \in Seq(Callers) /\ wq \in Seq(Callers)
      /\ Ordered(a, rq) /\ Ordered(a, wq)
      /\ Members(rq) = Members(retry) \cup (IF Lane[w] = "retry" THEN {w} ELSE {})
      /\ Members(wq) = Members(weighted) \cup (IF Lane[w] = "retry" THEN {} ELSE {w})
  BY <1>0, <1>3, <1>4, <1>5
<1>7. /\ \A v \in Members(rq) : Lane[v] = "retry"
      /\ \A v \in Members(wq) : Lane[v] = "normal"
      /\ \A v \in Members(rq) \cup Members(wq) : v = w \/ pc[v] \in Waiting \cup Gone
  BY <1>0, <1>6 DEF LaneInv
<1>8. \A x \in Callers : \A v \in a[x] :
         Alike(v, x) /\ v # x /\ pc[v] \notin {"idle", "entering"}
  BY <1>1 DEF LaneInv, Waiting
<1>9. \A x \in Callers \ {w} : pc[x] \in {"idle", "entering"} => a[x] = {}
  BY <1>1 DEF LaneInv
<1>10. ASSUME NEW v \in Callers, v = w \/ pc[v] \in Waiting, v \notin Members(Own(v, rq, wq))
       PROVE  \E u \in Callers \ {v, w} : Equal(u, v) /\ pc[u] \in Gone
  <2>1. v # w /\ ~InLane(v) /\ pc[w] \notin Gone
    BY <1>6, <1>10 DEF Own, InLane, Gone
  <2> QED
    BY <1>10, <2>1 DEF LaneInv
<1> QED
  BY <1>6, <1>7, <1>8, <1>9, <1>10 DEF Found

\* The other steps leave the lanes, and who waits outside them, alone.
LEMMA LaneStill ==
  ASSUME TypeOK, LaneInv, NoOvertaking, UNCHANGED <<retry, weighted, ahead>>,
         \A v \in Callers :
            \/ pc'[v] = pc[v]
            \/ pc[v] = "idle" /\ pc'[v] = "entering"
            \/ pc[v] = "entering" /\ pc'[v] \in Gone
            \/ pc[v] \in Waiting /\ pc'[v] \in Waiting
            \/ pc[v] \in Occupying /\ pc'[v] \in Occupying \cup {"done"}
  PROVE  LaneInv' /\ NoOvertaking'
<1>1. \A v \in Callers : /\ pc[v] \in Waiting \cup Gone => pc'[v] \in Waiting \cup Gone
                         /\ pc[v] \in Gone => pc'[v] \in Gone
                         /\ pc'[v] \in Waiting => pc[v] \in Waiting
                         /\ pc'[v] \in {"idle", "entering"} => pc[v] \in {"idle", "entering"}
                         /\ pc'[v] \in Occupying \cup {"done"} => pc[v] \in Occupying \cup {"done"}
  BY DEF Waiting, Gone, Occupying
<1>2. /\ Members(retry) \cup Members(weighted) \subseteq Callers
      /\ \A w \in Callers : ahead[w] \subseteq Callers
  BY DEF TypeOK, Members
<1>3. LaneInv'
  BY <1>1, <1>2 DEF LaneInv, InOrder, InLane
<1>4. NoOvertaking'
  BY <1>1 DEF NoOvertaking, Overtaken
<1> QED
  BY <1>3, <1>4

LEMMA LaneNext ==
  IInv /\ IInv' /\ LaneInv /\ NoOvertaking /\ [Next]_vars => LaneInv' /\ NoOvertaking'
<1> SUFFICES ASSUME IInv, IInv', LaneInv, NoOvertaking, [Next]_vars PROVE LaneInv' /\ NoOvertaking'
  OBVIOUS
<1>0. /\ TypeOK /\ TypeOK' /\ retry \in Seq(Callers) /\ weighted \in Seq(Callers)
      /\ ahead \in [Callers -> SUBSET Callers]
  BY DEF IInv, TypeOK
<1>1. ASSUME NEW w \in Callers, Enter(w) PROVE LaneInv' /\ NoOvertaking'
  <2> DEFINE a == [ahead EXCEPT ![w] = {v \in Callers : Alike(v, w) /\ pc[v] \in Waiting}]
             rq == IF Lane[w] = "retry" THEN Append(retry, w) ELSE retry
             wq == IF Lane[w] = "retry" THEN weighted ELSE Append(weighted, w)
  <2>1. pc[w] = "entering" /\ ahead' = a /\ Look(w, rq, wq)
    BY <1>1 DEF Enter
  <2>2. a \in [Callers -> SUBSET Callers] /\ \A x \in Callers \ {w} : a[x] = ahead[x]
    BY <1>0
  <2> HIDE DEF a, rq, wq
  <2>3. Found(a, w, rq, wq) /\ rq \in Seq(Callers) /\ wq \in Seq(Callers)
    BY <1>0, <2>1, FoundQueued DEF a, rq, wq
  <2> QED
    BY <1>0, <2>1, <2>2, <2>3, LookLane
<1>2. ASSUME NEW w \in Callers, Recheck(w) PROVE LaneInv' /\ NoOvertaking'
  <2>1. pc[w] = "waiting" /\ Look(w, retry, weighted) /\ ahead' = ahead
    BY <1>2 DEF Recheck
  <2>2. Found(ahead, w, retry, weighted)
    BY <1>0, <2>1, FoundAgain DEF Waiting
  <2> QED
    BY <1>0, <2>1, <2>2, LookLane
<1>3. ASSUME NEW w \in Callers, CancelWaiting(w) PROVE LaneInv' /\ NoOvertaking'
  <2>1. /\ pc[w] \in Waiting /\ pc' = [pc EXCEPT ![w] = "cancelled"] /\ "cancelled" \in Gone
        /\ retry' = Dequeue(retry, w) /\ weighted' = Dequeue(weighted, w) /\ ahead' = ahead
    BY <1>3 DEF CancelWaiting, Gone
  <2>2. Found(ahead, w, retry, weighted)
    BY <1>0, <2>1, FoundAgain
  <2>3. /\ Thinned(retry', retry, w) /\ Thinned(weighted', weighted, w)
        /\ Ordered(ahead, Dequeue(retry, w)) /\ Ordered(ahead, Dequeue(weighted, w))
    BY <1>0, <2>1, <2>2, DequeueThins DEF Found
  <2>4. Ordered(ahead, retry)' /\ Ordered(ahead, weighted)'
    BY <2>1, <2>3 DEF Ordered
  <2> QED
    BY <1>0, <2>1, <2>2, <2>3, <2>4, LaneStep
<1>4. ASSUME NEW w \in Callers,
             Arrive(w) \/ Park(w) \/ Grant(w) \/ CancelEntering(w) \/ HangOnLock(w)
               \/ Release(w) \/ CancelRelease(w)
      PROVE  LaneInv' /\ NoOvertaking'
  <2>1. UNCHANGED <<retry, weighted, ahead>>
    BY <1>4 DEF Arrive, Park, Grant, CancelEntering, HangOnLock, Release, CancelRelease
  <2>2. \A v \in Callers :
            \/ pc'[v] = pc[v]
            \/ pc[v] = "idle" /\ pc'[v] = "entering"
            \/ pc[v] = "entering" /\ pc'[v] \in Gone
            \/ pc[v] \in Waiting /\ pc'[v] \in Waiting
            \/ pc[v] \in Occupying /\ pc'[v] \in Occupying \cup {"done"}
    BY <1>0, <1>4 DEF Arrive, Park, Grant, CancelEntering, HangOnLock, Release, CancelRelease,
                      TypeOK, Gone, Waiting, Occupying
  <2> QED
    BY <1>0, <2>1, <2>2, LaneStill
<1>5. CASE Snapshot \/ Tick \/ UNCHANGED vars
  BY <1>0, <1>5, LaneStill DEF Snapshot, Tick, vars
<1> QED
  BY <1>1, <1>2, <1>3, <1>4, <1>5 DEF Next, CallerStep

\* A caller is overtaken within its agent and lane only if one equal to it gave
\* up or was cancelled, and took its waiter along.
THEOREM LaneOrder == Spec => []NoOvertaking
<1>1. Init => LaneInv /\ NoOvertaking
  BY DEF Init, LaneInv, NoOvertaking, Overtaken, InOrder, Members, Waiting
<1>2. Spec => [](LaneInv /\ NoOvertaking)
  BY <1>1, LaneNext, Invariant, PTL DEF Spec
<1> QED
  BY <1>2, PTL
=============================================================================
