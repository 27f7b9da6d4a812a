-------------------------- MODULE Supervisor_proofs --------------------------
(***************************************************************************)
(* Proofs about the loader and the watchdog that restarts agents through   *)
(* it.                                                                     *)
(* The loader, for every set of agents, dependency relation and number of  *)
(* concurrent calls and stops: types, the lock discipline, that start() of *)
(* a steady agent runs once at a time and where stop can find it, whatever *)
(* becomes of others, that dependencies come first, and that what is       *)
(* published as ready can be sent to.                                      *)
(* The watchdog, for every set of agents, calls and heals and every        *)
(* budget: it uses the loader only as any client may, it never exceeds its *)
(* budget of restarts and never gives up with budget left, and no failure  *)
(* is lost between its subscription and its scan.                          *)
(***************************************************************************)
EXTENDS Supervisor, FiniteSetTheorems, SequenceTheorems, WellFoundedInduction, TLAPS

-----------------------------------------------------------------------------
(* The loader. *)

USE LoaderAssumption

\* The statuses a step publishes are statuses.
LEMMA PublishType ==
  ASSUME TypeOK, NEW a \in Agents, NEW state \in States, PublishStatus(a, state)
  PROVE  /\ status' \in [Agents -> States]
         /\ woken' \subseteq Calls
         /\ changes' \in [Agents -> Nat]
<1>1. status' \in [Agents -> States]
  BY DEF TypeOK, PublishStatus
<1>2. woken' \subseteq Calls
  BY DEF TypeOK, PublishStatus
<1>3. changes' \in [Agents -> Nat]
  BY DEF TypeOK, PublishStatus
<1> QED
  BY <1>1, <1>2, <1>3

LEMMA InitIInv == Init => IInv
BY DEF Init, IInv, TypeOK, LockDiscipline, Fresh, States, Inside

\* A step of the call c that does not touch the lock: inside or outside, it
\* stays where it was.
LEMMA StaysIInv ==
  ASSUME IInv, TypeOK', NEW c \in Calls, NEW l \in Inside \cup {"idle", "lock", "done", "raised"},
         call' = [call EXCEPT ![c] = l], UNCHANGED <<lock, stop>>,
         call[c] \in Inside <=> l \in Inside,
         l # "idle", call[c] = "idle" <=> l = "lock",
         l = "lock" => c \in RootCalls
  PROVE  IInv'
<1>1. LockDiscipline'
  BY DEF IInv, TypeOK, LockDiscipline
<1>2. ASSUME NEW e \in Calls, call'[e] \in {"idle", "lock"}, NEW d \in Subs[e]
      PROVE  call'[d] = "idle"
  <2>1. d \in Calls /\ d \notin RootCalls
    BY DEF RootCalls
  <2>2. call[e] \in {"idle", "lock"}
    BY <1>2 DEF IInv, TypeOK, Inside
  <2>3. call[d] = "idle"
    BY <2>1, <2>2 DEF IInv, Fresh
  <2> QED
    BY <2>1, <2>3 DEF IInv, TypeOK
<1>3. ASSUME NEW s \in Stops, Then[s] # None, stop'[s] # "done"
      PROVE  call'[Then[s]] = "idle"
  <2>1. Then[s] \in Calls /\ Then[s] \notin RootCalls /\ call[Then[s]] = "idle"
    BY <1>3 DEF RootCalls, IInv, Fresh
  <2> QED
    BY <2>1 DEF IInv, TypeOK
<1>4. Fresh'
  BY <1>2, <1>3 DEF Fresh
<1> QED
  BY <1>1, <1>4 DEF IInv

\* A step that only concerns agents and stops.
LEMMA ElsewhereIInv ==
  ASSUME IInv, TypeOK', UNCHANGED <<call, lock>>,
         \A s \in Stops : stop'[s] = "done" <=> stop[s] = "done"
  PROVE  IInv'
BY DEF IInv, LockDiscipline, Fresh

\* A call enters the section or leaves it, and the lock with it.
LEMMA LockIInv ==
  ASSUME IInv, TypeOK', NEW c \in Calls, NEW l \in Inside \cup {"done", "raised"},
         call' = [call EXCEPT ![c] = l], UNCHANGED stop,
         call[c] # "idle",
         lock[Target[c]] \in {None, c},
         lock' = [lock EXCEPT ![Target[c]] = IF l \in Inside THEN c ELSE None]
  PROVE  IInv'
<1>1. LockDiscipline'
  <2>1. SUFFICES ASSUME NEW d \in Calls PROVE call'[d] \in Inside <=> lock'[Target[d]] = d
    BY DEF LockDiscipline
  <2>2. call[d] \in Inside <=> lock[Target[d]] = d
    BY DEF IInv, LockDiscipline
  <2>3. CASE d = c
    BY <2>3 DEF IInv, TypeOK, Inside
  <2>4. CASE d # c /\ Target[d] = Target[c]
    <3>1. lock[Target[d]] # d /\ lock'[Target[d]] # d
      BY <2>4 DEF IInv, TypeOK
    <3> QED
      BY <2>2, <2>4, <3>1 DEF IInv, TypeOK
  <2>5. CASE Target[d] # Target[c]
    BY <2>2, <2>5 DEF IInv, TypeOK
  <2> QED
    BY <2>3, <2>4, <2>5
<1>2. \A d \in Calls : call[d] = "idle" => call'[d] = "idle"
  BY DEF IInv, TypeOK
<1>3. \A d \in Calls : call'[d] \in {"idle", "lock"} => call[d] \in {"idle", "lock"}
  BY DEF IInv, TypeOK, Inside
<1>4. Fresh'
  BY <1>2, <1>3 DEF IInv, Fresh
<1> QED
  BY <1>1, <1>4 DEF IInv

-----------------------------------------------------------------------------
\* What Start does to the lock and to its call.
LEMMA StartShape ==
  ASSUME TypeOK, NEW c \in Calls, Start(c)
  PROVE  /\ \E l \in Inside \cup {"done"} :
               /\ call' = [call EXCEPT ![c] = l]
               /\ lock' = [lock EXCEPT ![Target[c]] = IF l \in Inside THEN c ELSE None]
         /\ \E state \in {"loading", "ready", "failed"} : PublishStatus(Target[c], state)
         /\ got' \in [Calls -> States]
         /\ inst' \in {inst, [inst EXCEPT ![c] = "booting"]}
         /\ tasks' \in {tasks, [tasks EXCEPT ![Target[c]] = c]}
         /\ loaded' \in {loaded, loaded \cup {Target[c]}}
         /\ handler' \in {handler, [handler EXCEPT ![Target[c]] = c]}
<1> DEFINE a == Target[c]
           Shape(l, state) ==
             /\ call' = [call EXCEPT ![c] = l]
             /\ lock' = [lock EXCEPT ![a] = IF l \in Inside THEN c ELSE None]
             /\ PublishStatus(a, state)
             /\ got' \in {got, [got EXCEPT ![c] = "ready"]}
             /\ inst' \in {inst, [inst EXCEPT ![c] = "booting"]}
             /\ tasks' \in {tasks, [tasks EXCEPT ![a] = c]}
             /\ loaded' \in {loaded, loaded \cup {a}}
             /\ handler' \in {handler, [handler EXCEPT ![a] = c]}
<1>1. \/ Shape("wait", "loading") \/ Shape("oneshot", "loading") \/ Shape("logging", "ready")
      \/ Shape("done", "ready") \/ Shape("failing", "failed")
  BY DEF Start, Inside
<1>2. PICK l \in Inside \cup {"done"}, state \in {"loading", "ready", "failed"} :
         Shape(l, state)
  BY <1>1 DEF Inside
<1>3. got' \in [Calls -> States]
  BY <1>2 DEF TypeOK, States
<1> QED
  BY <1>2, <1>3

LEMMA StartIInv ==
  ASSUME IInv, NEW c \in Calls, Start(c), UNCHANGED <<stop, at>>,
         call[c] # "idle", lock[Target[c]] \in {None, c}
  PROVE  IInv'
<1>1. TypeOK
  BY DEF IInv
<1>2. PICK l \in Inside \cup {"done"} :
               /\ call' = [call EXCEPT ![c] = l]
               /\ lock' = [lock EXCEPT ![Target[c]] = IF l \in Inside THEN c ELSE None]
  BY <1>1, StartShape
<1>3. PICK state \in {"loading", "ready", "failed"} : PublishStatus(Target[c], state)
  BY <1>1, StartShape
<1>4. TypeOK'
  <2>1. /\ status' \in [Agents -> States]
        /\ woken' \subseteq Calls
        /\ changes' \in [Agents -> Nat]
    BY <1>1, <1>3, PublishType DEF States
  <2>2. /\ call' \in [Calls -> Inside \cup {"idle", "lock", "done", "raised"}]
        /\ lock' \in [Agents -> Calls \cup {None}]
    BY <1>1, <1>2 DEF TypeOK
  <2>3. /\ got' \in [Calls -> States]
        /\ inst' \in [Calls -> {"none", "booting", "attached", "serving", "returned", "crashed",
                                "buried", "cancelled"}]
        /\ tasks' \in [Agents -> Calls \cup {None}]
        /\ loaded' \subseteq Agents
        /\ handler' \in [Agents -> Calls \cup {None}]
    <3>1. /\ got' \in [Calls -> States]
          /\ inst' \in {inst, [inst EXCEPT ![c] = "booting"]}
          /\ tasks' \in {tasks, [tasks EXCEPT ![Target[c]] = c]}
          /\ loaded' \in {loaded, loaded \cup {Target[c]}}
          /\ handler' \in {handler, [handler EXCEPT ![Target[c]] = c]}
      BY <1>1, StartShape
    <3>2. inst' \in [Calls -> {"none", "booting", "attached", "serving", "returned", "crashed",
                               "buried", "cancelled"}]
      BY <1>1, <3>1 DEF TypeOK
    <3>3. /\ tasks' \in [Agents -> Calls \cup {None}]
          /\ handler' \in [Agents -> Calls \cup {None}]
      <4>1. /\ Target[c] \in Agents /\ tasks \in [Agents -> Calls \cup {None}]
            /\ handler \in [Agents -> Calls \cup {None}]
        BY <1>1 DEF TypeOK
      <4> DEFINE a == Target[c]
      <4>4. tasks' \in {tasks, [tasks EXCEPT ![a] = c]}
        BY <3>1
      <4>5. handler' \in {handler, [handler EXCEPT ![a] = c]}
        BY <3>1
      <4>6. a \in Agents
        BY <4>1
      <4> HIDE DEF a
      <4>2. tasks' \in [Agents -> Calls \cup {None}]
        BY <4>1, <4>4, <4>6
      <4>3. handler' \in [Agents -> Calls \cup {None}]
        BY <4>1, <4>5, <4>6
      <4> QED
        BY <4>2, <4>3
    <3>4. loaded' \subseteq Agents
      BY <1>1, <3>1 DEF TypeOK
    <3> QED
      BY <3>1, <3>2, <3>3, <3>4
  <2> QED
    BY <1>1, <2>1, <2>2, <2>3 DEF TypeOK
<1> QED
  BY <1>2, <1>4, LockIInv

LEMMA AcquireIInv ==
  ASSUME IInv, NEW c \in Calls, Acquire(c)
  PROVE  IInv'
<1> DEFINE a == Target[c]
<1>1. CASE status[a] \in Up
  <2>1. /\ call' = [call EXCEPT ![c] = "done"] /\ got' = [got EXCEPT ![c] = status[a]]
        /\ UNCHANGED <<status, lock, woken, inst, tasks, loaded, handler, changes, stop, at>>
        /\ call[c] = "lock" /\ lock[a] = None
    BY <1>1 DEF Acquire
  <2>2. TypeOK'
    BY <2>1 DEF IInv, TypeOK
  <2> QED
    BY <2>1, <2>2, StaysIInv DEF Inside
<1>2. CASE status[a] \notin Up /\ Subs[c] # {}
  <2>1. /\ call' = [d \in Calls |-> IF d = c THEN "deps"
                                    ELSE IF d \in Subs[c] THEN "lock" ELSE call[d]]
        /\ lock' = [lock EXCEPT ![a] = c]
        /\ UNCHANGED <<status, got, woken, inst, tasks, loaded, handler, changes, stop, at>>
        /\ call[c] = "lock" /\ lock[a] = None
    BY <1>2 DEF Acquire
  <2>2. TypeOK'
    BY <2>1 DEF IInv, TypeOK, Inside
  <2>3. \A d \in Subs[c] : d \in Calls /\ call[d] = "idle"
    BY <2>1 DEF IInv, Fresh
  <2>4. LockDiscipline'
    <3>1. SUFFICES ASSUME NEW d \in Calls
                   PROVE  call'[d] \in Inside <=> lock'[Target[d]] = d
      BY DEF LockDiscipline
    <3>2. call[d] \in Inside <=> lock[Target[d]] = d
      BY DEF IInv, LockDiscipline
    <3>3. d # c => (call'[d] \in Inside <=> call[d] \in Inside)
      BY <2>1, <2>3 DEF Inside
    <3> QED
      BY <2>1, <3>2, <3>3 DEF IInv, TypeOK, Inside
  <2>5. ASSUME NEW e \in Calls, call'[e] \in {"idle", "lock"}, NEW d \in Subs[e]
        PROVE  call'[d] = "idle"
    <3>1. e # c /\ d \in Calls /\ d \notin Subs[c]
      BY <2>1, <2>5
    <3>2. call[e] \in {"idle", "lock"}
      BY <2>1, <2>3, <2>5
    <3>3. call[d] = "idle"
      BY <3>1, <3>2 DEF IInv, Fresh
    <3> QED
      BY <2>1, <3>1, <3>3
  <2>6. ASSUME NEW s \in Stops, Then[s] # None, stop'[s] # "done"
        PROVE  call'[Then[s]] = "idle"
    <3>1. Then[s] \in Calls /\ call[Then[s]] = "idle" /\ Then[s] \notin Subs[c]
      BY <2>1, <2>6 DEF IInv, Fresh
    <3> QED
      BY <2>1, <3>1
  <2>7. Fresh'
    BY <2>5, <2>6 DEF Fresh
  <2> QED
    BY <2>2, <2>4, <2>7 DEF IInv
<1>3. CASE status[a] \notin Up /\ Subs[c] = {}
  <2>1. Start(c) /\ UNCHANGED <<stop, at>> /\ call[c] = "lock" /\ lock[a] = None
    BY <1>3 DEF Acquire
  <2> QED
    BY <2>1, StartIInv
<1> QED
  BY <1>1, <1>2, <1>3

\* The remaining steps of a call, each inside the section or leaving it.
LEMMA CallStepIInv ==
  ASSUME IInv, NEW c \in Calls, CallStep(c)
  PROVE  IInv'
<1> DEFINE a == Target[c]
<1>0. TypeOK /\ a \in Agents /\ (call[c] \in Inside => lock[a] = c)
  BY DEF IInv, LockDiscipline
<1>1. CASE Acquire(c)
  BY <1>1, AcquireIInv
<1>2. CASE DepsReady(c)
  BY <1>0, <1>2, StartIInv DEF DepsReady, Inside
<1>3. CASE DepsFailed(c)
  <2>1. TypeOK'
    BY <1>0, <1>3 DEF DepsFailed, TypeOK
  <2> QED
    BY <1>0, <1>3, <2>1, LockIInv DEF DepsFailed, Inside
<1>4. ASSUME NEW l \in {"logging", "failing"}, call[c] = "wait",
             call' = [call EXCEPT ![c] = l],
             UNCHANGED <<lock, got, inst, tasks, loaded, handler, stop, at>>,
             \/ UNCHANGED <<status, woken, changes>>
             \/ PublishStatus(a, "failed")
      PROVE  IInv'
  <2>1. /\ status' \in [Agents -> States]
        /\ woken' \subseteq Calls
        /\ changes' \in [Agents -> Nat]
    <3>1. CASE UNCHANGED <<status, woken, changes>>
      BY <1>0, <3>1 DEF TypeOK
    <3>2. CASE PublishStatus(a, "failed")
      BY <1>0, <3>2, PublishType DEF States
    <3> QED
      BY <1>4, <3>1, <3>2
  <2>2. TypeOK'
    BY <1>0, <1>4, <2>1 DEF TypeOK, Inside
  <2> QED
    BY <1>4, <2>2, StaysIInv DEF Inside
<1>5. CASE Wake(c)
  BY <1>4, <1>5 DEF Wake
<1>6. CASE ReadyTimeout(c)
  BY <1>4, <1>6 DEF ReadyTimeout
<1>7. CASE Return(c)
  <2>1. TypeOK'
    BY <1>0, <1>7 DEF Return, TypeOK
  <2> QED
    BY <1>0, <1>7, <2>1, LockIInv DEF Return, Inside
<1>8. CASE Raise(c)
  <2>1. TypeOK'
    BY <1>0, <1>8 DEF Raise, TypeOK
  <2> QED
    BY <1>0, <1>8, <2>1, LockIInv DEF Raise, Inside
<1> QED
  BY <1>1, <1>2, <1>3, <1>5, <1>6, <1>7, <1>8 DEF CallStep

\* The steps of the agents' own code.
LEMMA InstStepIInv ==
  ASSUME IInv, NEW c \in Calls, InstStep(c)
  PROVE  IInv'
<1> DEFINE a == Target[c]
<1>0. TypeOK /\ a \in Agents
  BY DEF IInv
<1>1. ASSUME NEW state \in States, PublishStatus(a, state)
      PROVE  /\ status' \in [Agents -> States]
             /\ woken' \subseteq Calls
             /\ changes' \in [Agents -> Nat]
  BY <1>0, <1>1, PublishType
<1>2. CASE Ready(c)
  <2>1. /\ status' \in [Agents -> States] /\ woken' \subseteq Calls
        /\ changes' \in [Agents -> Nat]
    BY <1>1, <1>2 DEF Ready, States
  <2>2. TypeOK'
    BY <1>0, <1>2, <2>1 DEF Ready, TypeOK
  <2> QED
    BY <1>2, <2>2, ElsewhereIInv DEF Ready
<1>3. CASE TaskReturns(c) \/ TaskCrashes(c)
  <2>1. TypeOK'
    <3>1. PICK x \in {"returned", "crashed"} : inst' = [inst EXCEPT ![c] = x]
      BY <1>3 DEF TaskReturns, TaskCrashes
    <3>2. inst' \in [Calls -> {"none", "booting", "attached", "serving", "returned", "crashed",
                               "buried", "cancelled"}]
      BY <1>0, <3>1 DEF TypeOK
    <3>3. UNCHANGED <<status, lock, call, got, woken, tasks, loaded, handler, stop, at,
                      changes>>
      BY <1>3 DEF TaskReturns, TaskCrashes
    <3> QED
      BY <1>0, <3>2, <3>3 DEF TypeOK
  <2> QED
    BY <1>3, <2>1, ElsewhereIInv DEF TaskReturns, TaskCrashes
<1>4. CASE HandleTaskCrash(c)
  <2>1. /\ status' \in [Agents -> States] /\ woken' \subseteq Calls
        /\ changes' \in [Agents -> Nat]
    BY <1>1, <1>4 DEF HandleTaskCrash, States
  <2>2. TypeOK'
    BY <1>0, <1>4, <2>1 DEF HandleTaskCrash, TypeOK
  <2> QED
    BY <1>4, <2>2, ElsewhereIInv DEF HandleTaskCrash
<1>5. CASE OneShotReturns(c)
  <2>1. /\ status' \in [Agents -> States] /\ woken' \subseteq Calls
        /\ changes' \in [Agents -> Nat]
    <3>1. CASE UNCHANGED <<status, woken, changes>>
      BY <1>0, <3>1 DEF TypeOK
    <3>2. CASE PublishStatus(a, "ready")
      BY <1>1, <3>2 DEF States
    <3> QED
      BY <1>5, <3>1, <3>2 DEF OneShotReturns
  <2>2. TypeOK'
    BY <1>0, <1>5, <2>1 DEF OneShotReturns, TypeOK, Inside
  <2> QED
    BY <1>5, <2>2, StaysIInv DEF OneShotReturns, Inside
<1>6. CASE OneShotFails(c)
  <2>1. /\ status' \in [Agents -> States] /\ woken' \subseteq Calls
        /\ changes' \in [Agents -> Nat]
    BY <1>1, <1>6 DEF OneShotFails, States
  <2>2. TypeOK'
    BY <1>0, <1>6, <2>1 DEF OneShotFails, TypeOK, Inside
  <2> QED
    BY <1>6, <2>2, StaysIInv DEF OneShotFails, Inside
<1>7. CASE Attach(c)
  <2>1. TypeOK'
    BY <1>0, <1>7 DEF Attach, TypeOK
  <2> QED
    BY <1>7, <2>1, ElsewhereIInv DEF Attach
<1> QED
  BY <1>2, <1>3, <1>4, <1>5, <1>6, <1>7 DEF InstStep

\* The steps of stop and restart.
LEMMA StopStepIInv ==
  ASSUME IInv, NEW s \in Stops, StopStep(s)
  PROVE  IInv'
<1> DEFINE a == Stopping(s)
<1>0. TypeOK /\ at[s] \in 1..Len(StopOrder[s]) /\ Len(StopOrder[s]) \in Nat
      /\ a \in Agents
  BY DEF IInv, TypeOK, Stopping
<1>1. CASE CallHook(s)
  <2>1. TypeOK'
    BY <1>0, <1>1 DEF CallHook, TypeOK
  <2> QED
    BY <1>0, <1>1, <2>1, ElsewhereIInv DEF CallHook, TypeOK
<1>2. ASSUME PublishStatus(a, "stopped")
      PROVE  /\ status' \in [Agents -> States]
             /\ woken' \subseteq Calls
             /\ changes' \in [Agents -> Nat]
  BY <1>0, <1>2, PublishType DEF States
<1>3. CASE Detach(s)
  <2>1. /\ status' \in [Agents -> States] /\ woken' \subseteq Calls
        /\ changes' \in [Agents -> Nat]
    <3>1. CASE UNCHANGED <<status, woken, changes>>
      BY <1>0, <3>1 DEF TypeOK
    <3> QED
      BY <1>2, <1>3, <3>1 DEF Detach
  <2>2. tasks' \in [Agents -> Calls \cup {None}]
    BY <1>0, <1>3 DEF Detach, TypeOK
  <2>3. handler' \in [Agents -> Calls \cup {None}]
    <3>1. handler' = handler \/ handler' = [handler EXCEPT ![Stopping(s)] = None]
      BY <1>3 DEF Detach
    <3> QED
      BY <1>0, <3>1 DEF TypeOK
  <2>4. /\ inst' \in [Calls -> {"none", "booting", "attached", "serving", "returned", "crashed",
                                "buried", "cancelled"}]
        /\ stop' \in [Stops -> {"idle", "enter", "hook", "join", "ending", "done"}]
    <3>1. /\ inst' = inst \/ \E t \in Calls : inst' = [inst EXCEPT ![t] = "cancelled"]
          /\ \E p \in {"join", "ending"} : stop' = [stop EXCEPT ![s] = p]
      BY <1>0, <1>3 DEF Detach, TypeOK
    <3> QED
      BY <1>0, <3>1 DEF TypeOK
  <2>5. TypeOK'
    BY <1>0, <1>3, <2>1, <2>2, <2>3, <2>4 DEF Detach, TypeOK
  <2>6. \A t \in Stops : stop'[t] = "done" <=> stop[t] = "done"
    BY <1>0, <1>3 DEF Detach, TypeOK
  <2> QED
    BY <1>3, <2>5, <2>6, ElsewhereIInv DEF Detach
<1>4. CASE MarkStopped(s)
  <2>1. /\ status' \in [Agents -> States] /\ woken' \subseteq Calls
        /\ changes' \in [Agents -> Nat]
    BY <1>2, <1>4 DEF MarkStopped
  <2>2. /\ handler' \in [Agents -> Calls \cup {None}]
        /\ stop' \in [Stops -> {"idle", "enter", "hook", "join", "ending", "done"}]
    BY <1>0, <1>4 DEF MarkStopped, TypeOK
  <2>3. TypeOK'
    BY <1>0, <1>4, <2>1, <2>2 DEF MarkStopped, TypeOK
  <2>4. \A t \in Stops : stop'[t] = "done" <=> stop[t] = "done"
    BY <1>0, <1>4 DEF MarkStopped, TypeOK
  <2> QED
    BY <1>4, <2>3, <2>4, ElsewhereIInv DEF MarkStopped
<1>5. CASE StopEnds(s) /\ at[s] < Len(StopOrder[s])
  <2>1. at' \in [Stops -> Nat] /\ \A t \in Stops : at'[t] \in 1..Len(StopOrder[t])
    <3>1. at \in [Stops -> Nat] /\ at' = [at EXCEPT ![s] = at[s] + 1]
      BY <1>0, <1>5 DEF StopEnds, TypeOK
    <3>2. \A t \in Stops : at[t] \in 1..Len(StopOrder[t]) /\ Len(StopOrder[t]) \in Nat
      BY <1>0 DEF TypeOK
    <3>3. at[s] + 1 \in Nat /\ at[s] + 1 \in 1..Len(StopOrder[s])
      BY <1>0, <1>5, <3>1, <3>2
    <3> QED
      BY <3>1, <3>2, <3>3
  <2>2. TypeOK'
    BY <1>0, <1>5, <2>1 DEF StopEnds, TypeOK
  <2>3. \A t \in Stops : stop'[t] = "done" <=> stop[t] = "done"
    BY <1>0, <1>5 DEF StopEnds, TypeOK
  <2> QED
    BY <1>5, <2>2, <2>3, ElsewhereIInv DEF StopEnds
<1>6. CASE StopEnds(s) /\ ~(at[s] < Len(StopOrder[s]))
  <2>1. /\ stop[s] = "ending" /\ stop' = [stop EXCEPT ![s] = "done"]
        /\ call' = IF Then[s] = None THEN call ELSE [call EXCEPT ![Then[s]] = "lock"]
        /\ UNCHANGED <<status, lock, got, woken, inst, tasks, loaded, handler, changes, at>>
    BY <1>6 DEF StopEnds
  <2>2. Then[s] # None => Then[s] \in Calls /\ call[Then[s]] = "idle"
    BY <2>1 DEF IInv, Fresh
  <2>3. TypeOK'
    BY <1>0, <2>1 DEF TypeOK
  <2>4. LockDiscipline'
    BY <1>0, <2>1, <2>2 DEF IInv, TypeOK, LockDiscipline, Inside
  <2>5. ASSUME NEW e \in Calls, call'[e] \in {"idle", "lock"}, NEW d \in Subs[e]
        PROVE  call'[d] = "idle"
    <3>1. d \in Calls /\ d # Then[s]
      OBVIOUS
    <3>2. call[e] \in {"idle", "lock"}
      BY <1>0, <2>1, <2>2, <2>5 DEF TypeOK
    <3>3. call[d] = "idle"
      BY <3>1, <3>2 DEF IInv, Fresh
    <3> QED
      BY <1>0, <2>1, <3>1, <3>3 DEF TypeOK
  <2>6. ASSUME NEW t \in Stops, Then[t] # None, stop'[t] # "done"
        PROVE  call'[Then[t]] = "idle"
    <3>1. t # s /\ stop[t] # "done"
      BY <1>0, <2>1, <2>6 DEF TypeOK
    <3>2. Then[t] \in Calls /\ Then[t] # Then[s] /\ call[Then[t]] = "idle"
      BY <2>6, <3>1 DEF IInv, Fresh
    <3> QED
      BY <1>0, <2>1, <3>2 DEF TypeOK
  <2>7. Fresh'
    BY <2>5, <2>6 DEF Fresh
  <2> QED
    BY <2>3, <2>4, <2>7 DEF IInv
<1> QED
  BY <1>0, <1>1, <1>3, <1>4, <1>5, <1>6 DEF StopStep

LEMMA StepIInv == IInv /\ [Next]_loaderVars => IInv'
<1> SUFFICES ASSUME IInv, [Next]_loaderVars PROVE IInv'
  OBVIOUS
<1>0. TypeOK
  BY DEF IInv
<1>1. CASE UNCHANGED loaderVars
  BY <1>1 DEF loaderVars, IInv, TypeOK, LockDiscipline, Fresh
<1>2. CASE LoaderStep
  BY <1>2, CallStepIInv, InstStepIInv, StopStepIInv DEF LoaderStep
<1>3. ASSUME NEW c \in Calls, ClientCalls(c) PROVE IInv'
  <2>1. TypeOK'
    BY <1>0, <1>3 DEF ClientCalls, Begin, TypeOK
  <2> QED
    BY <1>3, <2>1, StaysIInv DEF ClientCalls, Begin, Inside
<1>4. ASSUME NEW s \in Stops, StopBegins(s) PROVE IInv'
  <2>1. TypeOK'
    BY <1>0, <1>4 DEF StopBegins, TypeOK
  <2> QED
    BY <1>0, <1>4, <2>1, ElsewhereIInv DEF StopBegins, TypeOK
<1>5. ASSUME NEW a \in Agents, Delivered(a) PROVE IInv'
  <2>1. changes' \in [Agents -> Nat]
    BY <1>0, <1>5 DEF Delivered, TypeOK
  <2>2. TypeOK'
    BY <1>0, <1>5, <2>1 DEF Delivered, TypeOK
  <2> QED
    BY <1>5, <2>2, ElsewhereIInv DEF Delivered
<1>6. CASE Finished
  BY <1>1, <1>6 DEF Finished
<1> QED
  BY <1>1, <1>2, <1>3, <1>4, <1>5, <1>6 DEF Next

\* Types, the lock discipline of ensure_running and the freshness of the calls
\* it makes, in every reachable state, whatever fails, crashes or is stopped.
THEOREM Invariant == Spec => []IInv
<1>1. Init => IInv
  BY InitIInv
<1>2. IInv /\ [Next]_loaderVars => IInv'
  BY StepIInv
<1> QED
  BY <1>1, <1>2, PTL DEF Spec

\* No exit of ensure_running leaves its agent's lock held, and no call works on
\* an agent whose lock it does not own.
THEOREM Locked == Spec => []LockDiscipline
<1>1. IInv => LockDiscipline
  BY DEF IInv
<1> QED
  BY <1>1, Invariant, PTL

-----------------------------------------------------------------------------
(***************************************************************************)
(* One start() at a time.  A steady agent has at most one unsettled        *)
(* instance, and while it has one its calls find it: by the lock, or by    *)
(* the board.                                                              *)
(***************************************************************************)

\* No other instance of c's agent is unsettled.
Alone(c) == \A d \in Calls : d # c /\ Target[d] = Target[c] => ~Unsettled(d)

\* What a step of one call has to satisfy to preserve OneInv.
LEMMA FrameOneInv ==
  ASSUME IInv, OneInv, NEW c \in SteadyCalls,
         \A d \in Calls : d # c =>
            /\ inst'[d] = inst[d]
            /\ call'[d] = call[d] \/ (call[d] = "idle" /\ call'[d] = "lock"),
         \A b \in Agents : b # Target[c] => status'[b] = status[b],
         woken' \subseteq woken \cup {e \in Calls : call[e] = "wait" /\ Target[e] = Target[c]},
         (status' = status /\ woken' = woken) \/ Alone(c),
         Unsettled(c)' =>
            /\ Unsettled(c) \/ Alone(c)
            /\ \A e \in Calls : Target[e] = Target[c] => call'[e] # "deps"
            /\ \/ call'[c] = "oneshot"
               \/ call'[c] = "wait" /\ (c \in woken' => status'[Target[c]] \in Up)
               \/ call'[c] \in {"logging", "done"} /\ status'[Target[c]] \in Up,
         call'[c] = "deps" => Alone(c) /\ ~Unsettled(c)',
         c \in woken' => call'[c] \notin {"idle", "lock", "deps"},
         call'[c] = "oneshot" => Live(c)' /\ Mode[Target[c]] = "oneshot"
  PROVE  OneInv'
<1>0. /\ \A d \in Calls : Target[d] \in Agents
      /\ woken \subseteq Calls
      /\ SteadyCalls \subseteq Calls
  BY DEF IInv, TypeOK, SteadyCalls
<1>1. \A d \in Calls : d # c => (Unsettled(d)' <=> Unsettled(d)) /\ (Live(d)' <=> Live(d))
  BY DEF Unsettled, Live, Starting
<1>2. \A d, e \in SteadyCalls :
         Unsettled(d)' /\ Unsettled(e)' /\ Target[d] = Target[e] => d = e
  BY <1>0, <1>1 DEF OneInv, Alone
<1>3. ASSUME NEW d \in SteadyCalls, Unsettled(d)'
      PROVE  \/ call'[d] = "oneshot"
             \/ call'[d] = "wait" /\ (d \in woken' => status'[Target[d]] \in Up)
             \/ call'[d] \in {"logging", "done"} /\ status'[Target[d]] \in Up
  <2>1. CASE d = c
    BY <1>3, <2>1
  <2>2. CASE d # c
    <3>1. Unsettled(d) /\ d \in Calls
      BY <1>0, <1>1, <1>3, <2>2
    <3>2. \/ call[d] = "oneshot"
          \/ call[d] = "wait" /\ (d \in woken => status[Target[d]] \in Up)
          \/ call[d] \in {"logging", "done"} /\ status[Target[d]] \in Up
      BY <3>1 DEF OneInv
    <3>3. call'[d] = call[d]
      BY <2>2, <3>1, <3>2
    <3>4. status'[Target[d]] = status[Target[d]] /\ (d \in woken' => d \in woken)
      <4>1. CASE Target[d] = Target[c]
        BY <2>2, <3>1, <4>1 DEF Alone
      <4>2. CASE Target[d] # Target[c]
        BY <1>0, <4>2
      <4> QED
        BY <4>1, <4>2
    <3> QED
      BY <3>2, <3>3, <3>4
  <2> QED
    BY <2>1, <2>2
<1>4. ASSUME NEW e \in SteadyCalls, NEW d \in SteadyCalls, call'[e] = "deps", Target[e] = Target[d]
      PROVE  ~Unsettled(d)'
  <2>1. CASE e = c
    BY <1>0, <1>1, <1>4, <2>1 DEF Alone
  <2>2. CASE e # c /\ d = c
    BY <1>0, <1>4, <2>2
  <2>3. CASE e # c /\ d # c
    <3>1. call[e] = "deps"
      BY <1>0, <1>4, <2>3
    <3> QED
      BY <1>0, <1>1, <1>4, <2>3, <3>1 DEF OneInv
  <2> QED
    BY <2>1, <2>2, <2>3
<1>5. ASSUME NEW d \in SteadyCalls \cap woken' PROVE call'[d] \notin {"idle", "lock", "deps"}
  <2>1. CASE d = c
    BY <2>1
  <2>2. CASE d # c
    <3>1. d \in Calls /\ call[d] \notin {"idle", "lock", "deps"}
      BY <1>0 DEF OneInv
    <3> QED
      BY <2>2, <3>1
  <2> QED
    BY <2>1, <2>2
<1>6. ASSUME NEW d \in SteadyCalls, call'[d] = "oneshot"
      PROVE  Live(d)' /\ Mode[Target[d]] = "oneshot"
  <2>1. CASE d = c
    BY <1>6, <2>1
  <2>2. CASE d # c
    <3>1. call[d] = "oneshot"
      BY <1>0, <1>6, <2>2
    <3> QED
      BY <1>0, <1>1, <2>2, <3>1 DEF OneInv
  <2> QED
    BY <2>1, <2>2
<1> QED
  BY <1>2, <1>3, <1>4, <1>5, <1>6 DEF OneInv

\* What publish_status can change.
LEMMA PublishFrame ==
  ASSUME TypeOK, NEW c \in Calls, NEW state \in States, PublishStatus(Target[c], state)
  PROVE  /\ status'[Target[c]] = state
         /\ \A b \in Agents : b # Target[c] => status'[b] = status[b]
         /\ woken' \subseteq
               woken \cup {e \in Calls : call[e] = "wait" /\ Target[e] = Target[c]}
         /\ state = "loading" => woken' = woken
BY DEF PublishStatus, TypeOK, Waking

\* Nothing unsettled hides behind a free lock and a status that is not up.
LEMMA NothingUnsettled ==
  ASSUME IInv, OneInv, NEW c \in SteadyCalls,
         \/ lock[Target[c]] = None /\ status[Target[c]] \notin Up
         \/ call[c] = "deps"
  PROVE  Alone(c) /\ ~Unsettled(c)
<1>1. ASSUME NEW d \in SteadyCalls, Target[d] = Target[c] PROVE ~Unsettled(d)
  <2>1. CASE call[c] = "deps"
    BY <1>1, <2>1 DEF OneInv
  <2>2. CASE lock[Target[c]] = None /\ status[Target[c]] \notin Up
    <3>1. SUFFICES ASSUME Unsettled(d) PROVE FALSE
      OBVIOUS
    <3>2. call[d] \in {"oneshot", "wait", "logging"}
      BY <1>1, <2>2, <3>1 DEF OneInv
    <3>3. lock[Target[d]] = d
      BY <3>2 DEF IInv, LockDiscipline, Inside, SteadyCalls
    <3> QED
      BY <1>1, <2>2, <3>3 DEF IInv, TypeOK, SteadyCalls
  <2> QED
    BY <2>1, <2>2
<1> QED
  BY <1>1 DEF Alone, SteadyCalls

\* Nobody else gathers dependencies for an agent whose lock is free or c's.
LEMMA NobodyElseGathers ==
  ASSUME IInv, NEW c \in Calls, lock[Target[c]] \in {None, c},
         NEW e \in Calls, e # c, Target[e] = Target[c]
  PROVE  call[e] # "deps"
BY DEF IInv, LockDiscipline, Inside, TypeOK

LEMMA StartOneInv ==
  ASSUME IInv, OneInv, NEW c \in SteadyCalls, Start(c), call[c] \in {"lock", "deps"},
         lock[Target[c]] \in {None, c}, Alone(c), ~Unsettled(c)
  PROVE  OneInv'
<1> DEFINE a == Target[c]
<1>0. c \in Calls /\ TypeOK /\ a \in Agents /\ c \notin woken
  BY DEF IInv, OneInv, SteadyCalls
<1>1. ASSUME NEW l \in {"wait", "oneshot"}, call' = [call EXCEPT ![c] = l],
             inst' = [inst EXCEPT ![c] = "booting"], PublishStatus(a, "loading"),
             l = "oneshot" => Mode[a] = "oneshot"
      PROVE  OneInv'
  <2>1. /\ \A b \in Agents : b # a => status'[b] = status[b]
        /\ woken' = woken
    BY <1>0, <1>1, PublishFrame DEF States
  <2>2. /\ call'[c] = l
        /\ inst'[c] = "booting"
        /\ \A d \in Calls : d # c => call'[d] = call[d] /\ inst'[d] = inst[d]
    BY <1>0, <1>1 DEF TypeOK
  <2>3. \A e \in Calls : Target[e] = a => call'[e] # "deps"
    BY <1>0, <2>2, NobodyElseGathers
  <2>4. Live(c)'
    BY <2>2 DEF Live, Starting
  <2>5. c \notin woken'
    BY <1>0, <2>1
  <2>6. Unsettled(c)' =>
           /\ Unsettled(c) \/ Alone(c)
           /\ \A e \in Calls : Target[e] = Target[c] => call'[e] # "deps"
           /\ \/ call'[c] = "oneshot"
              \/ call'[c] = "wait" /\ (c \in woken' => status'[Target[c]] \in Up)
              \/ call'[c] \in {"logging", "done"} /\ status'[Target[c]] \in Up
    BY <1>1, <2>2, <2>3, <2>5
  <2>7. /\ call'[c] # "deps"
        /\ call'[c] = "oneshot" => Live(c)' /\ Mode[Target[c]] = "oneshot"
    BY <1>1, <2>2, <2>4
  <2>8. \A b \in Agents : b # Target[c] => status'[b] = status[b]
    BY <2>1
  <2> HIDE DEF a
  <2> QED
    BY <2>1, <2>2, <2>5, <2>6, <2>7, <2>8, FrameOneInv
<1>2. ASSUME NEW l \in {"logging", "done", "failing"}, call' = [call EXCEPT ![c] = l],
             inst' = inst, NEW state \in States, PublishStatus(a, state)
      PROVE  OneInv'
  <2>1. /\ \A b \in Agents : b # a => status'[b] = status[b]
        /\ woken' \subseteq woken \cup {e \in Calls : call[e] = "wait" /\ Target[e] = a}
    BY <1>0, <1>2, PublishFrame
  <2>2. /\ call'[c] = l
        /\ \A d \in Calls : d # c => call'[d] = call[d] /\ inst'[d] = inst[d]
        /\ ~Unsettled(c)'
    BY <1>0, <1>2 DEF TypeOK, Unsettled, Live, Starting
  <2> QED
    BY <1>0, <1>2, <2>1, <2>2, FrameOneInv
<1>3. CASE Mode[a] = "persistent" /\ call' = [call EXCEPT ![c] = "wait"]
           /\ inst' = [inst EXCEPT ![c] = "booting"] /\ PublishStatus(a, "loading")
  BY <1>1, <1>3
<1>4. CASE Mode[a] = "oneshot" /\ call' = [call EXCEPT ![c] = "oneshot"]
           /\ inst' = [inst EXCEPT ![c] = "booting"] /\ PublishStatus(a, "loading")
  BY <1>1, <1>4
<1>5. CASE call' = [call EXCEPT ![c] = "logging"] /\ inst' = inst /\ PublishStatus(a, "ready")
  BY <1>2, <1>5 DEF States
<1>6. CASE call' = [call EXCEPT ![c] = "done"] /\ inst' = inst /\ PublishStatus(a, "ready")
  BY <1>2, <1>6 DEF States
<1>7. CASE call' = [call EXCEPT ![c] = "failing"] /\ inst' = inst /\ PublishStatus(a, "failed")
  BY <1>2, <1>7 DEF States
<1> QED
  BY <1>3, <1>4, <1>5, <1>6, <1>7 DEF Start

LEMMA CallStepOneInv ==
  ASSUME IInv, OneInv, NEW c \in SteadyCalls, CallStep(c)
  PROVE  OneInv'
<1> DEFINE a == Target[c]
<1>0. /\ c \in Calls /\ TypeOK /\ a \in Agents
      /\ call[c] \in Inside => lock[a] = c
  BY DEF IInv, LockDiscipline, SteadyCalls
<1>1. CASE Acquire(c) /\ status[a] \in Up
  <2>1. /\ call[c] = "lock" /\ call' = [call EXCEPT ![c] = "done"]
        /\ UNCHANGED <<status, woken, inst>>
    BY <1>1 DEF Acquire
  <2>6. /\ call'[c] = "done"
        /\ \A d \in Calls : d # c => call'[d] = call[d]
    BY <1>0, <2>1 DEF TypeOK
  <2>7. ~Unsettled(c)
    BY <2>1 DEF OneInv
  <2>8. ~Unsettled(c)'
    BY <2>1, <2>7 DEF Unsettled, Live, Starting
  <2>2. /\ call'[c] = "done" /\ ~Unsettled(c)'
        /\ \A d \in Calls : d # c => call'[d] = call[d]
    BY <2>6, <2>8
  <2>3. c \in woken' => call[c] # "lock"
    BY <2>1 DEF OneInv
  <2>4. c \notin woken'
    BY <2>1, <2>3
  <2>5. call'[c] \notin {"deps", "oneshot"}
    BY <2>2
  <2> HIDE DEF a
  <2> QED
    BY <2>1, <2>2, <2>4, <2>5, FrameOneInv
<1>2. CASE Acquire(c) /\ status[a] \notin Up /\ Subs[c] # {}
  <2>1. /\ call[c] = "lock" /\ lock[a] = None
        /\ call' = [d \in Calls |-> IF d = c THEN "deps"
                                    ELSE IF d \in Subs[c] THEN "lock" ELSE call[d]]
        /\ UNCHANGED <<status, woken, inst>>
    BY <1>2 DEF Acquire
  <2>2. Alone(c) /\ ~Unsettled(c) /\ ~Unsettled(c)'
    BY <1>2, <2>1, NothingUnsettled DEF Unsettled, Live, Starting
  <2>3. \A d \in Subs[c] : d \in Calls /\ call[d] = "idle"
    BY <1>0, <2>1 DEF IInv, Fresh
  <2>4. /\ call'[c] = "deps" /\ c \notin woken'
        /\ \A d \in Calls : d # c =>
              call'[d] = call[d] \/ (call[d] = "idle" /\ call'[d] = "lock")
    BY <1>0, <2>1, <2>3 DEF OneInv
  <2> QED
    BY <2>1, <2>2, <2>4, FrameOneInv
<1>3. CASE Acquire(c) /\ status[a] \notin Up /\ Subs[c] = {}
  <2>1. call[c] = "lock" /\ lock[a] = None /\ Start(c)
    BY <1>3 DEF Acquire
  <2> QED
    BY <1>3, <2>1, NothingUnsettled, StartOneInv
<1>4. CASE DepsReady(c)
  <2>1. call[c] = "deps" /\ lock[a] = c /\ Start(c)
    BY <1>0, <1>4 DEF DepsReady, Inside
  <2> QED
    BY <2>1, NothingUnsettled, StartOneInv
<1>5. ASSUME NEW l \in {"done", "raised", "logging"}, call' = [call EXCEPT ![c] = l],
             UNCHANGED <<status, woken, inst>>, call[c] \in Inside,
             Unsettled(c) => l # "raised" /\ status[a] \in Up
      PROVE  OneInv'
  <2>1. /\ call'[c] = l /\ (Unsettled(c)' <=> Unsettled(c))
        /\ \A d \in Calls : d # c => call'[d] = call[d]
    BY <1>0, <1>5 DEF TypeOK, Unsettled, Live, Starting
  <2>2. \A e \in Calls : Target[e] = a => call'[e] # "deps"
    BY <1>0, <1>5, <2>1, NobodyElseGathers
  <2> QED
    BY <1>5, <2>1, <2>2, FrameOneInv
<1>6. CASE DepsFailed(c)
  BY <1>5, <1>6 DEF DepsFailed, OneInv, Inside
<1>7. CASE Wake(c) /\ status[a] \in Up
  BY <1>5, <1>7 DEF Wake, Inside
<1>8. CASE Wake(c) /\ status[a] \notin Up
  <2>1. /\ call[c] = "wait" /\ c \in woken /\ UNCHANGED inst
        /\ call' = [call EXCEPT ![c] = "failing"] /\ PublishStatus(a, "failed")
    BY <1>8 DEF Wake
  <2>2. Alone(c)
    <3>1. SUFFICES ASSUME NEW d \in Calls, d # c, Target[d] = a PROVE ~Unsettled(d)
      BY DEF Alone
    <3>2. call[d] \notin Inside
      BY <1>0, <2>1, <3>1 DEF IInv, LockDiscipline, Inside
    <3> QED
      BY <1>8, <3>1, <3>2 DEF OneInv, Inside, SteadyCalls
  <2>3. ~Unsettled(c) /\ ~Unsettled(c)'
    BY <1>8, <2>1 DEF OneInv, Unsettled, Live, Starting
  <2>4. /\ call'[c] = "failing"
        /\ \A d \in Calls : d # c => call'[d] = call[d] /\ inst'[d] = inst[d]
    BY <1>0, <2>1 DEF TypeOK
  <2>5. /\ \A b \in Agents : b # a => status'[b] = status[b]
        /\ woken' \subseteq woken \cup {e \in Calls : call[e] = "wait" /\ Target[e] = a}
    BY <1>0, <2>1, PublishFrame DEF States
  <2> QED
    BY <2>2, <2>3, <2>4, <2>5, FrameOneInv
<1>9. CASE Return(c)
  BY <1>5, <1>9 DEF Return, OneInv, Inside
<1>10. CASE Raise(c)
  BY <1>5, <1>10 DEF Raise, OneInv, Inside
<1>11. ~ReadyTimeout(c)
  BY DEF ReadyTimeout, SteadyCalls, Steady
<1> QED
  BY <1>1, <1>2, <1>3, <1>4, <1>6, <1>7, <1>8, <1>9, <1>10, <1>11 DEF CallStep

LEMMA InstStepOneInv ==
  ASSUME IInv, OneInv, NEW c \in SteadyCalls, InstStep(c)
  PROVE  OneInv'
<1> DEFINE a == Target[c]
<1>0. c \in Calls /\ TypeOK /\ a \in Agents /\ (Unsettled(c) => Alone(c))
  BY DEF IInv, OneInv, Alone, SteadyCalls
<1>1. \A state \in States : PublishStatus(a, state) =>
         /\ status'[a] = state
         /\ \A b \in Agents : b # a => status'[b] = status[b]
         /\ woken' \subseteq woken \cup {e \in Calls : call[e] = "wait" /\ Target[e] = a}
  BY <1>0, PublishFrame
<1>2. \A e \in Calls : Unsettled(c) /\ Target[e] = a => call[e] # "deps"
  BY DEF OneInv, SteadyCalls
<1>3. ASSUME NEW x, inst' = [inst EXCEPT ![c] = x]
      PROVE  inst'[c] = x /\ \A d \in Calls : d # c => inst'[d] = inst[d]
  BY <1>0, <1>3 DEF TypeOK
<1>4. CASE Ready(c)
  <2>1. Unsettled(c) /\ inst'[c] = "serving" /\ call' = call /\ PublishStatus(a, "ready")
    BY <1>3, <1>4 DEF Ready, Unsettled, Live, Starting
  <2>2. /\ status'[a] \in Up
        /\ \A b \in Agents : b # a => status'[b] = status[b]
        /\ woken' \subseteq woken \cup {e \in Calls : call[e] = "wait" /\ Target[e] = a}
    BY <1>1, <2>1 DEF States, Up
  <2>3. /\ call[c] \in {"oneshot", "wait", "logging", "done"}
        /\ Live(c)' /\ (call[c] = "oneshot" => Mode[a] = "oneshot")
    BY <2>1 DEF OneInv, Live, Starting
  <2>4. \A d \in Calls : d # c => inst'[d] = inst[d]
    BY <1>3, <1>4 DEF Ready
  <2> QED
    BY <1>0, <1>2, <2>1, <2>2, <2>3, <2>4, FrameOneInv
<1>5. CASE TaskReturns(c) \/ TaskCrashes(c)
  <2>1. /\ UNCHANGED <<status, woken, call>> /\ Unsettled(c)
        /\ Mode[a] = "persistent"
        /\ \A d \in Calls : d # c => inst'[d] = inst[d]
    BY <1>3, <1>5 DEF TaskReturns, TaskCrashes, Unsettled, Live, Starting
  <2>2. /\ call[c] \notin {"oneshot", "deps", "idle", "lock"}
        /\ \/ call[c] = "wait" /\ (c \in woken => status[a] \in Up)
           \/ call[c] \in {"logging", "done"} /\ status[a] \in Up
    BY <2>1 DEF OneInv
  <2> QED
    BY <1>2, <2>1, <2>2, FrameOneInv
<1>6. CASE HandleTaskCrash(c)
  <2>1. /\ Unsettled(c) /\ ~Live(c) /\ inst'[c] = "buried" /\ call' = call
        /\ PublishStatus(a, "failed")
        /\ \A d \in Calls : d # c => inst'[d] = inst[d]
    BY <1>3, <1>6 DEF HandleTaskCrash, Unsettled, Live, Starting
  <2>2. /\ \A b \in Agents : b # a => status'[b] = status[b]
        /\ woken' \subseteq woken \cup {e \in Calls : call[e] = "wait" /\ Target[e] = a}
    BY <1>1, <2>1 DEF States
  <2>3. call[c] \notin {"oneshot", "deps", "idle", "lock"} /\ ~Unsettled(c)'
    BY <2>1 DEF OneInv, Unsettled, Live, Starting
  <2> QED
    BY <1>0, <2>1, <2>2, <2>3, FrameOneInv
<1>7. ASSUME NEW l \in {"logging", "failing"}, call[c] = "oneshot",
             call' = [call EXCEPT ![c] = l],
             NEW x \in {"returned", "buried", "cancelled"}, inst' = [inst EXCEPT ![c] = x],
             (status' = status /\ woken' = woken)
               \/ \E state \in States : PublishStatus(a, state)
      PROVE  OneInv'
  <2>1. Alone(c)
    BY <1>0, <1>7 DEF OneInv, Unsettled, Live, Starting
  <2>2. /\ \A b \in Agents : b # a => status'[b] = status[b]
        /\ woken' \subseteq woken \cup {e \in Calls : call[e] = "wait" /\ Target[e] = a}
    BY <1>1, <1>7
  <2>3. /\ call'[c] = l /\ ~Unsettled(c)'
        /\ \A d \in Calls : d # c => call'[d] = call[d] /\ inst'[d] = inst[d]
    BY <1>0, <1>3, <1>7 DEF TypeOK, Unsettled, Live, Starting
  <2> QED
    BY <2>1, <2>2, <2>3, FrameOneInv
<1>8. CASE OneShotReturns(c)
  BY <1>7, <1>8 DEF OneShotReturns, States
<1>9. CASE OneShotFails(c)
  BY <1>7, <1>9 DEF OneShotFails, States
<1>10. CASE Attach(c)
  <2>1. /\ UNCHANGED <<status, woken, call>> /\ Live(c) /\ Live(c)'
        /\ \A d \in Calls : d # c => inst'[d] = inst[d]
    BY <1>3, <1>10 DEF Attach, Live, Starting
  <2>2. /\ Unsettled(c)
        /\ \/ call[c] = "oneshot" /\ Mode[a] = "oneshot"
           \/ call[c] = "wait" /\ (c \in woken => status[a] \in Up)
           \/ call[c] \in {"logging", "done"} /\ status[a] \in Up
    BY <2>1 DEF OneInv, Unsettled
  <2> QED
    BY <1>2, <2>1, <2>2, FrameOneInv
<1> QED
  BY <1>4, <1>5, <1>6, <1>8, <1>9, <1>10 DEF InstStep

-----------------------------------------------------------------------------
\* A step that leaves the steady agents and their instances alone; a call of
\* theirs may have begun.
LEMMA ElsewhereOneInv ==
  ASSUME OneInv,
         \A d \in SteadyCalls :
            /\ inst'[d] = inst[d]
            /\ call'[d] = call[d] \/ (call[d] = "idle" /\ call'[d] = "lock")
            /\ d \in woken' => d \in woken,
         \A b \in Steady : status'[b] = status[b]
  PROVE  OneInv'
<1>1. \A d \in SteadyCalls : /\ Unsettled(d)' <=> Unsettled(d)
                             /\ Live(d)' <=> Live(d)
                             /\ Target[d] \in Steady
  BY DEF Unsettled, Live, Starting, SteadyCalls
<1>2. \A d, e \in SteadyCalls :
         Unsettled(d)' /\ Unsettled(e)' /\ Target[d] = Target[e] => d = e
  BY <1>1 DEF OneInv
<1>3. ASSUME NEW d \in SteadyCalls, Unsettled(d)'
      PROVE  \/ call'[d] = "oneshot"
             \/ call'[d] = "wait" /\ (d \in woken' => status'[Target[d]] \in Up)
             \/ call'[d] \in {"logging", "done"} /\ status'[Target[d]] \in Up
  <2>1. \/ call[d] = "oneshot"
        \/ call[d] = "wait" /\ (d \in woken => status[Target[d]] \in Up)
        \/ call[d] \in {"logging", "done"} /\ status[Target[d]] \in Up
    BY <1>1, <1>3 DEF OneInv
  <2>2. call'[d] = call[d] /\ status'[Target[d]] = status[Target[d]]
    BY <1>1, <2>1
  <2> QED
    BY <2>1, <2>2
<1>4. \A e, d \in SteadyCalls :
         call'[e] = "deps" /\ Target[e] = Target[d] => ~Unsettled(d)'
  BY <1>1 DEF OneInv
<1>5. \A d \in SteadyCalls \cap woken' : call'[d] \notin {"idle", "lock", "deps"}
  BY DEF OneInv
<1>6. \A d \in SteadyCalls :
         call'[d] = "oneshot" => Live(d)' /\ Mode[Target[d]] = "oneshot"
  BY <1>1 DEF OneInv
<1> QED
  BY <1>2, <1>3, <1>4, <1>5, <1>6 DEF OneInv

\* What a step of a call, or of its instance, can disturb of other agents.
LEMMA OtherAgents ==
  ASSUME IInv, NEW c \in Calls, CallStep(c) \/ InstStep(c)
  PROVE  /\ \A d \in Calls : d # c =>
              /\ inst'[d] = inst[d]
              /\ call'[d] = call[d] \/ (call[d] = "idle" /\ call'[d] = "lock")
         /\ \A b \in Agents : b # Target[c] => status'[b] = status[b]
         /\ \A d \in Calls : d \in woken' => d \in woken \/ Target[d] = Target[c]
<1> DEFINE a == Target[c]
           Calm == /\ \A b \in Agents : b # a => status'[b] = status[b]
                   /\ \A d \in Calls : d \in woken' => d \in woken \/ Target[d] = a
           Apart == \A d \in Calls : d # c => inst'[d] = inst[d] /\ call'[d] = call[d]
<1>0. TypeOK /\ a \in Agents
  BY DEF IInv
<1>1. \A state \in States : PublishStatus(a, state) => Calm
  BY <1>0, PublishFrame
<1>2. status' = status /\ woken' = woken => Calm
  OBVIOUS
<1>3. Start(c) => Calm /\ Apart
  <2> SUFFICES ASSUME Start(c) PROVE Calm /\ Apart
    OBVIOUS
  <2>1. \E l \in Inside \cup {"done"} : call' = [call EXCEPT ![c] = l]
    BY <1>0, StartShape
  <2>2. \E state \in {"loading", "ready", "failed"} : PublishStatus(a, state)
    BY <1>0, StartShape
  <2>3. inst' \in {inst, [inst EXCEPT ![c] = "booting"]}
    BY <1>0, StartShape
  <2>4. Apart
    BY <1>0, <2>1, <2>3 DEF TypeOK
  <2>5. Calm
    BY <1>1, <2>2 DEF States
  <2> QED
    BY <2>4, <2>5
<1>4. CASE Acquire(c) /\ ~Start(c)
  <2>1. Calm /\ UNCHANGED inst
    BY <1>2, <1>4 DEF Acquire
  <2>2. \A d \in Calls : d # c =>
           call'[d] = call[d] \/ (call[d] = "idle" /\ call'[d] = "lock")
    <3>1. CASE call' = [call EXCEPT ![c] = "done"]
      BY <1>0, <3>1 DEF TypeOK
    <3>2. CASE call' = [d \in Calls |-> IF d = c THEN "deps"
                                        ELSE IF d \in Subs[c] THEN "lock" ELSE call[d]]
      BY <1>4, <3>2 DEF Acquire, IInv, Fresh
    <3> QED
      BY <1>4, <3>1, <3>2 DEF Acquire
  <2> QED
    BY <2>1, <2>2
<1>5. CASE DepsFailed(c) \/ Return(c) \/ Raise(c)
  <2>1. Calm /\ UNCHANGED inst
    BY <1>2, <1>5 DEF DepsFailed, Return, Raise
  <2>2. Apart
    BY <1>0, <1>5, <2>1 DEF TypeOK, DepsFailed, Return, Raise
  <2> QED
    BY <2>1, <2>2
<1>6. CASE Wake(c) \/ ReadyTimeout(c)
  <2>1. Calm /\ UNCHANGED inst
    BY <1>1, <1>2, <1>6 DEF Wake, ReadyTimeout, States
  <2>2. Apart
    BY <1>0, <1>6, <2>1 DEF TypeOK, Wake, ReadyTimeout
  <2> QED
    BY <2>1, <2>2
<1>7. CASE InstStep(c)
  <2>1. Calm
    BY <1>1, <1>2, <1>7 DEF InstStep, Attach, Ready, TaskReturns, TaskCrashes,
                            HandleTaskCrash, OneShotReturns, OneShotFails, States
  <2>2. /\ \E l \in {"logging", "failing"} : call' \in {call, [call EXCEPT ![c] = l]}
        /\ \E x \in {"attached", "serving", "returned", "crashed", "buried", "cancelled"} :
              inst' = [inst EXCEPT ![c] = x]
    BY <1>7 DEF InstStep, Attach, Ready, TaskReturns, TaskCrashes, HandleTaskCrash,
                OneShotReturns, OneShotFails
  <2>3. Apart
    BY <1>0, <2>2 DEF TypeOK
  <2> QED
    BY <2>1, <2>3
<1> QED
  BY <1>3, <1>4, <1>5, <1>6, <1>7 DEF CallStep, DepsReady

\* Loader.tasks holds tasks of the agent it names, and only persistent agents have one.
Owned == \A a \in Agents : tasks[a] # None => Target[tasks[a]] = a /\ Mode[a] = "persistent"

\* The kind of life a start gives its instance.
LEMMA StartMode ==
  ASSUME TypeOK, NEW c \in Calls, Start(c)
  PROVE  \/ /\ tasks' = [tasks EXCEPT ![Target[c]] = c]
            /\ inst' = [inst EXCEPT ![c] = "booting"]
            /\ call' = [call EXCEPT ![c] = "wait"]
            /\ Mode[Target[c]] = "persistent"
         \/ /\ tasks' = tasks
            /\ inst' = [inst EXCEPT ![c] = "booting"]
            /\ call' = [call EXCEPT ![c] = "oneshot"]
            /\ Mode[Target[c]] = "oneshot"
         \/ /\ tasks' = tasks
            /\ inst' = inst
            /\ \E l \in {"logging", "done", "failing"} : call' = [call EXCEPT ![c] = l]
BY DEF Start

LEMMA StepOwned == IInv /\ Owned /\ [Next]_loaderVars => Owned'
<1> SUFFICES ASSUME IInv, Owned, [Next]_loaderVars PROVE Owned'
  OBVIOUS
<1>0. TypeOK
  BY DEF IInv
<1>1. CASE UNCHANGED tasks
  BY <1>1 DEF Owned
<1>2. ASSUME NEW c \in Calls, Start(c) PROVE Owned'
  <2>1. CASE tasks' = [tasks EXCEPT ![Target[c]] = c] /\ Mode[Target[c]] = "persistent"
    BY <1>0, <2>1 DEF Owned, TypeOK
  <2> QED
    BY <1>0, <1>1, <1>2, <2>1, StartMode
<1>3. ASSUME NEW c \in Calls, CallStep(c) PROVE Owned'
  BY <1>1, <1>2, <1>3 DEF CallStep, Acquire, DepsReady, DepsFailed, Wake, ReadyTimeout,
                          Return, Raise
<1>4. ASSUME NEW c \in Calls, InstStep(c) PROVE Owned'
  BY <1>1, <1>4 DEF InstStep, Attach, Ready, TaskReturns, TaskCrashes, HandleTaskCrash,
                    OneShotReturns, OneShotFails
<1>5. ASSUME NEW s \in Stops, StopStep(s) PROVE Owned'
  <2>1. CASE Detach(s)
    <3>1. tasks' = [tasks EXCEPT ![Stopping(s)] = None]
      BY <2>1 DEF Detach
    <3> QED
      BY <1>0, <3>1 DEF Owned, TypeOK
  <2> QED
    BY <1>1, <1>5, <2>1 DEF StopStep, CallHook, MarkStopped, StopEnds
<1>6. CASE LoaderStep
  BY <1>3, <1>4, <1>5, <1>6 DEF LoaderStep
<1> QED
  BY <1>1, <1>6 DEF Next, ClientCalls, Begin, StopBegins, Delivered, Finished, loaderVars

-----------------------------------------------------------------------------
(***************************************************************************)
(* A steady agent may be stopped or restarted once.  Its stop cancels the  *)
(* one live task, which the table knows, and until the stop publishes      *)
(* `stopped` no other is started: the board still says that the agent is   *)
(* up, or the call whose task was cancelled waits, inside the lock.        *)
(***************************************************************************)
Joining(a) == \E s \in Stops : stop[s] = "join" /\ Stopping(s) = a

Held(a) == /\ \A c \in Calls : Target[c] = a => ~Unsettled(c) /\ call[c] # "deps"
           /\ \/ status[a] \in Up
              \/ \E c \in Calls : Target[c] = a /\ call[c] = "wait" /\ c \notin woken

StopInv == /\ LiveIsTracked
           /\ \A a \in Steady : Joining(a) => Held(a)
           /\ \A c \in SteadyCalls : inst[c] = "crashed" => Unstopped(Target[c])
           /\ \A c \in SteadyCalls :
                 Unsettled(c) /\ call[c] # "oneshot" => Mode[Target[c]] = "persistent"

\* A steady agent that is stopped does not crash, and no other stop is at it.
LEMMA SoleStop ==
  ASSUME IInv, NEW s \in Stops, Stopping(s) \in Steady
  PROVE  /\ ~Unstopped(Stopping(s))
         /\ \A t \in Stops : Stopping(t) = Stopping(s) => t = s
<1>1. \A t \in Stops : at[t] \in DOMAIN StopOrder[t]
  BY DEF IInv, TypeOK
<1>2. StoppedOnce(Stopping(s))
  BY DEF Steady
<1> QED
  BY <1>1, <1>2 DEF Stopping, StoppedOnce, Unstopped

\* A step that only concerns agents that are not steady, or no instance and no task.
LEMMA ElsewhereStopInv ==
  ASSUME StopInv, IInv,
         \A d \in SteadyCalls :
            /\ inst'[d] = inst[d]
            /\ call'[d] = call[d] \/ (call[d] = "idle" /\ call'[d] = "lock")
            /\ d \in woken' => d \in woken,
         \A b \in Steady : status'[b] = status[b] /\ tasks'[b] = tasks[b],
         \A b \in Steady : Joining(b)' => Joining(b)
  PROVE  StopInv'
<1>1. \A d \in SteadyCalls : /\ d \in Calls /\ Target[d] \in Steady
                             /\ Unsettled(d)' <=> Unsettled(d)
                             /\ Live(d)' <=> Live(d)
  BY DEF Unsettled, Live, Starting, SteadyCalls
<1>2. LiveIsTracked'
  BY <1>1 DEF StopInv, LiveIsTracked
<1>3. ASSUME NEW a \in Steady, Joining(a)' PROVE Held(a)'
  <2>1. Held(a)
    BY <1>3 DEF StopInv
  <2>2. \A c \in Calls : Target[c] = a => c \in SteadyCalls
    BY DEF SteadyCalls
  <2>3. \A c \in Calls : Target[c] = a => ~Unsettled(c)' /\ call'[c] # "deps"
    BY <1>1, <2>1, <2>2 DEF Held
  <2>4. ASSUME NEW c \in Calls, Target[c] = a, call[c] = "wait", c \notin woken
        PROVE  call'[c] = "wait" /\ c \notin woken'
    BY <2>2, <2>4
  <2> QED
    BY <2>1, <2>3, <2>4 DEF Held
<1>4. \A c \in SteadyCalls : inst'[c] = "crashed" => Unstopped(Target[c])
  BY DEF StopInv
<1>5. ASSUME NEW c \in SteadyCalls, Unsettled(c)', call'[c] # "oneshot"
      PROVE  Mode[Target[c]] = "persistent"
  BY <1>1, <1>5 DEF StopInv
<1> QED
  BY <1>2, <1>3, <1>4, <1>5 DEF StopInv

\* What a step of a call or of an instance leaves alone.
LEMMA TasksFrame ==
  ASSUME IInv, NEW c \in Calls, CallStep(c) \/ InstStep(c)
  PROVE  /\ UNCHANGED <<stop, at>>
         /\ \A b \in Agents : b # Target[c] => tasks'[b] = tasks[b]
<1>1. TypeOK
  BY DEF IInv
<1>2. UNCHANGED <<stop, at>>
  BY DEF CallStep, Acquire, DepsReady, DepsFailed, Wake, ReadyTimeout, Return, Raise,
         InstStep, Attach, Ready, TaskReturns, TaskCrashes, HandleTaskCrash,
         OneShotReturns, OneShotFails
<1>3. tasks' \in {tasks, [tasks EXCEPT ![Target[c]] = c]}
  <2>1. CASE Start(c)
    BY <1>1, <2>1, StartShape
  <2>2. CASE ~Start(c)
    BY <2>2 DEF CallStep, Acquire, DepsReady, DepsFailed, Wake, ReadyTimeout, Return,
                Raise, InstStep, Attach, Ready, TaskReturns, TaskCrashes, HandleTaskCrash,
                OneShotReturns, OneShotFails
  <2> QED
    BY <2>1, <2>2
<1> QED
  BY <1>1, <1>2, <1>3 DEF TypeOK

\* While an agent's stop joins the cancelled task, its calls only look and leave.
LEMMA JoinedCall ==
  ASSUME IInv, NEW c \in SteadyCalls, Held(Target[c]), CallStep(c)
  PROVE  /\ UNCHANGED <<status, woken, inst, tasks>>
         /\ \E l \in {"done", "raised", "logging"} : call' = [call EXCEPT ![c] = l]
         /\ status[Target[c]] \in Up
<1> DEFINE a == Target[c]
<1>0. c \in Calls /\ TypeOK /\ call[c] # "deps" /\ a \in Steady
  BY DEF Held, IInv, SteadyCalls
<1>1. ASSUME NEW d \in Calls, Target[d] = a, call[d] = "wait"
      PROVE  lock[a] = d
  BY <1>1 DEF IInv, LockDiscipline, Inside
<1>2. call[c] \in Inside => lock[a] = c
  BY <1>0 DEF IInv, LockDiscipline
<1>3. status[a] \in Up
  <2> SUFFICES ASSUME status[a] \notin Up PROVE FALSE
    OBVIOUS
  <2>1. PICK d \in Calls : Target[d] = a /\ call[d] = "wait" /\ d \notin woken
    BY DEF Held
  <2>2. lock[a] = d
    BY <1>1, <2>1
  <2>3. CASE Acquire(c)
    BY <1>0, <2>2, <2>3 DEF Acquire
  <2>4. CASE DepsReady(c) \/ DepsFailed(c)
    BY <1>0, <2>4 DEF DepsReady, DepsFailed
  <2>5. CASE Wake(c)
    BY <1>2, <2>1, <2>2, <2>5 DEF Wake, Inside
  <2>6. CASE ReadyTimeout(c)
    BY <1>0, <2>6 DEF ReadyTimeout, Steady
  <2>7. CASE Return(c) \/ Raise(c)
    BY <1>2, <2>1, <2>2, <2>7 DEF Return, Raise, Inside
  <2> QED
    BY <2>3, <2>4, <2>5, <2>6, <2>7 DEF CallStep
<1>4. ~ReadyTimeout(c) /\ ~DepsReady(c) /\ ~DepsFailed(c)
  BY <1>0 DEF ReadyTimeout, DepsReady, DepsFailed, Steady
<1>5. /\ UNCHANGED <<status, woken, inst, tasks>>
      /\ \E l \in {"done", "raised", "logging"} : call' = [call EXCEPT ![c] = l]
  BY <1>3, <1>4 DEF CallStep, Acquire, Wake, Return, Raise
<1> QED
  BY <1>3, <1>5

\* A step of a call starts an agent that nobody else starts, or leaves instances alone.
Launches(c) == /\ Start(c)
               /\ \/ call[c] = "deps"
                  \/ call[c] = "lock" /\ lock[Target[c]] = None /\ status[Target[c]] \notin Up

LEMMA CallCases ==
  ASSUME NEW c \in Calls, CallStep(c)
  PROVE  Launches(c) \/ (UNCHANGED <<inst, tasks>> /\ call[c] # "oneshot")
BY DEF CallStep, Launches, Acquire, DepsReady, DepsFailed, Wake, ReadyTimeout, Return,
       Raise

\* The stop of one agent is not disturbed by the steps of another.
LEMMA HeldElsewhere ==
  ASSUME IInv, NEW c \in Calls, CallStep(c) \/ InstStep(c),
         NEW b \in Agents, b # Target[c], Held(b)
  PROVE  Held(b)'
<1>1. /\ \A d \in Calls : d # c =>
            /\ inst'[d] = inst[d]
            /\ call'[d] = call[d] \/ (call[d] = "idle" /\ call'[d] = "lock")
      /\ status'[b] = status[b]
      /\ \A d \in Calls : d \in woken' => d \in woken \/ Target[d] = Target[c]
  BY OtherAgents
<1>2. \A d \in Calls : Target[d] = b => ~Unsettled(d)' /\ call'[d] # "deps"
  BY <1>1 DEF Held, Unsettled, Live, Starting
<1>3. ASSUME NEW d \in Calls, Target[d] = b, call[d] = "wait", d \notin woken
      PROVE  call'[d] = "wait" /\ d \notin woken'
  BY <1>1, <1>3
<1> QED
  BY <1>1, <1>2, <1>3 DEF Held

\* Steps of the calls of steady agents and of their instances.
LEMMA CallStepStopInv ==
  ASSUME IInv, OneInv, StopInv, NEW c \in SteadyCalls, CallStep(c)
  PROVE  StopInv'
<1> DEFINE a == Target[c]
<1>0. /\ c \in Calls /\ TypeOK /\ a \in Steady /\ a \in Agents
      /\ SteadyCalls \subseteq Calls /\ Steady \subseteq Agents
      /\ \A d \in Calls : Target[d] \in Agents
      /\ \A d \in SteadyCalls : Target[d] \in Steady
  BY DEF IInv, SteadyCalls, Steady
<1>1. /\ UNCHANGED <<stop, at>>
      /\ \A b \in Agents : b # a => tasks'[b] = tasks[b]
  BY <1>0, TasksFrame
<1>2. \A d \in Calls : d # c =>
         /\ inst'[d] = inst[d]
         /\ call'[d] = call[d] \/ (call[d] = "idle" /\ call'[d] = "lock")
  BY <1>0, OtherAgents
<1>3. /\ \A b \in Agents : b # a => status'[b] = status[b]
      /\ \A d \in Calls : d \in woken' => d \in woken \/ Target[d] = a
  BY <1>0, OtherAgents
<1>4. \A d \in Calls : d # c => (Unsettled(d)' <=> Unsettled(d)) /\ (Live(d)' <=> Live(d))
  BY <1>2 DEF Unsettled, Live, Starting
<1>5. \/ UNCHANGED <<inst, tasks>> /\ call[c] # "oneshot"
      \/ Launches(c) /\ Alone(c) /\ ~Unsettled(c)
  BY <1>0, CallCases, NothingUnsettled DEF Launches
<1>6. CASE Launches(c) /\ Alone(c) /\ ~Unsettled(c)
  <2>1. \/ /\ inst' = inst
           /\ tasks' = tasks
        \/ /\ inst'[c] = "booting" /\ Mode[a] = "persistent" /\ tasks'[a] = c
        \/ /\ inst'[c] = "booting" /\ Mode[a] = "oneshot" /\ call'[c] = "oneshot"
    BY <1>0, <1>6, StartMode DEF Launches, TypeOK
  <2>2. \A d \in SteadyCalls : Live(d)' /\ Mode[Target[d]] = "persistent"
                                => tasks'[Target[d]] = d
    <3> SUFFICES ASSUME NEW d \in SteadyCalls, Live(d)', Mode[Target[d]] = "persistent"
                 PROVE  tasks'[Target[d]] = d
      OBVIOUS
    <3>1. CASE d = c
      BY <1>6, <2>1, <3>1 DEF Live, Starting, Unsettled
    <3>2. CASE d # c
      <4>1. Live(d) /\ d \in Calls
        BY <1>0, <1>4, <3>2
      <4>2. Target[d] # a
        BY <1>6, <3>2, <4>1 DEF Alone, Live, Starting, Unsettled
      <4>3. tasks[Target[d]] = d
        BY <4>1 DEF StopInv, LiveIsTracked
      <4> QED
        BY <1>0, <1>1, <4>1, <4>2, <4>3
    <3> QED
      BY <3>1, <3>2
  <2>3. \A d \in SteadyCalls : inst'[d] = "crashed" => Unstopped(Target[d])
    BY <1>0, <1>2, <1>6, <2>1 DEF StopInv, Unsettled, Live, Starting
  <2>4. \A d \in SteadyCalls :
           Unsettled(d)' /\ call'[d] # "oneshot" => Mode[Target[d]] = "persistent"
    <3> SUFFICES ASSUME NEW d \in SteadyCalls, Unsettled(d)', call'[d] # "oneshot"
                 PROVE  Mode[Target[d]] = "persistent"
      OBVIOUS
    <3>1. CASE d = c
      BY <1>6, <2>1, <3>1 DEF Unsettled, Live, Starting
    <3>2. CASE d # c
      BY <1>0, <1>2, <1>4, <3>2 DEF StopInv
    <3> QED
      BY <3>1, <3>2
  <2>5. ~Joining(a)
    <3>1. Joining(a) => Held(a)
      BY <1>0 DEF StopInv
    <3>2. Held(a) => status[a] \in Up /\ call[c] # "deps"
      BY <1>0, JoinedCall DEF Held
    <3>3. call[c] # "deps" => status[a] \notin Up
      BY <1>6 DEF Launches
    <3> QED
      BY <3>1, <3>2, <3>3
  <2>6. ASSUME NEW b \in Steady, Joining(b)' PROVE Held(b)'
    <3>1. Joining(b) /\ Held(b)
      BY <1>1, <2>6 DEF StopInv, Joining, Stopping
    <3> QED
      BY <1>0, <2>5, <3>1, HeldElsewhere
  <2> QED
    BY <2>2, <2>3, <2>4, <2>6 DEF StopInv, LiveIsTracked
<1>7. CASE UNCHANGED <<inst, tasks>> /\ call[c] # "oneshot"
  <2>1. \A d \in Calls : (Unsettled(d)' <=> Unsettled(d)) /\ (Live(d)' <=> Live(d))
    BY <1>7 DEF Unsettled, Live, Starting
  <2>2. LiveIsTracked'
    BY <1>0, <1>7, <2>1 DEF StopInv, LiveIsTracked
  <2>3. \A d \in SteadyCalls :
           Unsettled(d)' /\ call'[d] # "oneshot" => Mode[Target[d]] = "persistent"
    BY <1>0, <1>2, <1>7, <2>1 DEF StopInv
  <2>4. ASSUME NEW b \in Steady, Joining(b)' PROVE Held(b)'
    <3>1. Joining(b) /\ Held(b)
      BY <1>1, <2>4 DEF StopInv, Joining, Stopping
    <3>2. CASE b = a
      <4>1. PICK l \in {"done", "raised", "logging"} : call' = [call EXCEPT ![c] = l]
        BY <1>0, <3>1, <3>2, JoinedCall
      <4>2. status[a] \in Up /\ status' = status
        BY <1>0, <3>1, <3>2, JoinedCall
      <4>3. \A d \in Calls : Target[d] = b => call'[d] # "deps"
        BY <1>0, <3>1, <4>1 DEF Held, TypeOK
      <4> QED
        BY <2>1, <3>1, <3>2, <4>2, <4>3 DEF Held
    <3> QED
      BY <1>0, <3>1, <3>2, HeldElsewhere
  <2>5. \A d \in SteadyCalls : inst'[d] = "crashed" => Unstopped(Target[d])
    BY <1>7 DEF StopInv
  <2> QED
    BY <2>2, <2>3, <2>4, <2>5 DEF StopInv
<1> QED
  BY <1>5, <1>6, <1>7

LEMMA InstStepStopInv ==
  ASSUME IInv, OneInv, StopInv, NEW c \in SteadyCalls, InstStep(c)
  PROVE  StopInv'
<1> DEFINE a == Target[c]
<1>0. /\ c \in Calls /\ TypeOK /\ a \in Steady /\ a \in Agents
      /\ SteadyCalls \subseteq Calls /\ Steady \subseteq Agents
      /\ \A d \in SteadyCalls : Target[d] \in Steady
  BY DEF IInv, SteadyCalls, Steady
<1>1. UNCHANGED <<stop, at, tasks>>
  BY <1>0, TasksFrame DEF InstStep, Attach, Ready, TaskReturns, TaskCrashes,
                          HandleTaskCrash, OneShotReturns, OneShotFails
<1>2. \A d \in Calls : d # c =>
         /\ inst'[d] = inst[d]
         /\ call'[d] = call[d] \/ (call[d] = "idle" /\ call'[d] = "lock")
  BY <1>0, OtherAgents
<1>3. \A d \in Calls : d # c => (Unsettled(d)' <=> Unsettled(d)) /\ (Live(d)' <=> Live(d))
  BY <1>2 DEF Unsettled, Live, Starting
<1>4. Unsettled(c)
  BY DEF InstStep, Attach, Ready, TaskReturns, TaskCrashes, HandleTaskCrash,
         OneShotReturns, OneShotFails, OneInv, Unsettled, Live, Starting
<1>5. \/ ~Unsettled(c)'
      \/ Live(c)' /\ Live(c) /\ call' = call
      \/ /\ inst'[c] = "crashed" /\ Mode[a] = "persistent" /\ "crash" \in Faults[a]
  BY <1>0 DEF InstStep, Attach, Ready, TaskReturns, TaskCrashes, HandleTaskCrash,
              OneShotReturns, OneShotFails, Unsettled, Live, Starting, TypeOK
<1>6. LiveIsTracked'
  <2> SUFFICES ASSUME NEW d \in SteadyCalls, Live(d)', Mode[Target[d]] = "persistent"
               PROVE  tasks'[Target[d]] = d
    BY DEF LiveIsTracked
  <2>1. Live(d)
    BY <1>0, <1>3, <1>5 DEF Live, Starting, Unsettled
  <2> QED
    BY <1>1, <2>1 DEF StopInv, LiveIsTracked
<1>7. \A d \in SteadyCalls : inst'[d] = "crashed" => Unstopped(Target[d])
  <2> SUFFICES ASSUME NEW d \in SteadyCalls, inst'[d] = "crashed" PROVE Unstopped(Target[d])
    OBVIOUS
  <2>1. CASE d = c
    BY <1>0, <1>5, <2>1 DEF Unsettled, Live, Starting, Steady
  <2>2. CASE d # c
    BY <1>0, <1>2, <2>2 DEF StopInv
  <2> QED
    BY <2>1, <2>2
<1>8. \A d \in SteadyCalls :
         Unsettled(d)' /\ call'[d] # "oneshot" => Mode[Target[d]] = "persistent"
  <2> SUFFICES ASSUME NEW d \in SteadyCalls, Unsettled(d)', call'[d] # "oneshot"
               PROVE  Mode[Target[d]] = "persistent"
    OBVIOUS
  <2>1. CASE d = c
    BY <1>4, <1>5, <2>1 DEF StopInv
  <2>2. CASE d # c
    BY <1>0, <1>2, <1>3, <2>2 DEF StopInv
  <2> QED
    BY <2>1, <2>2
<1>9. ASSUME NEW b \in Steady, Joining(b)' PROVE Held(b)'
  <2>1. Joining(b) /\ Held(b)
    BY <1>1, <1>9 DEF StopInv, Joining, Stopping
  <2>2. b # a
    BY <1>0, <1>4, <2>1 DEF Held
  <2> QED
    BY <1>0, <2>1, <2>2, HeldElsewhere
<1> QED
  BY <1>6, <1>7, <1>8, <1>9 DEF StopInv

\* Steps of a stop: of an agent that is not steady, they concern no steady one.
LEMMA StrangerStop ==
  ASSUME IInv, OneInv, Owned, StopInv, NEW s \in Stops, StopStep(s),
         Stopping(s) \notin Steady \/ CallHook(s) \/ StopEnds(s)
  PROVE  OneInv' /\ StopInv'
<1> DEFINE a == Stopping(s)
<1>0. /\ TypeOK /\ a \in Agents
      /\ SteadyCalls \subseteq Calls /\ Steady \subseteq Agents
      /\ \A d \in SteadyCalls : Target[d] \in Steady
  BY DEF IInv, TypeOK, Stopping, Steady, SteadyCalls
<1>1. a \notin Steady /\ PublishStatus(a, "stopped") =>
         /\ \A b \in Steady : status'[b] = status[b]
         /\ \A d \in SteadyCalls : d \in woken' => d \in woken
  BY <1>0 DEF PublishStatus, TypeOK
<1>2. CASE CallHook(s)
  <2>1. \A b \in Steady : Joining(b)' => Joining(b)
    BY <1>0, <1>2 DEF CallHook, Joining, Stopping, TypeOK
  <2> QED
    BY <1>2, <2>1, ElsewhereOneInv, ElsewhereStopInv DEF CallHook
<1>3. CASE Detach(s) /\ a \notin Steady
  <2>1. /\ UNCHANGED <<call, at>>
        /\ \/ UNCHANGED inst
           \/ \E t \in Calls : Target[t] = a /\ inst' = [inst EXCEPT ![t] = "cancelled"]
        /\ \E p \in {"join", "ending"} : stop' = [stop EXCEPT ![s] = p]
    BY <1>0, <1>3 DEF Detach, TypeOK, Owned
  <2>2. \A d \in SteadyCalls : inst'[d] = inst[d]
    BY <1>0, <1>3, <2>1 DEF TypeOK
  <2>3. UNCHANGED <<status, woken>> \/ PublishStatus(a, "stopped")
    BY <1>3 DEF Detach
  <2>4. \A b \in Steady : tasks'[b] = tasks[b]
    BY <1>0, <1>3 DEF Detach, TypeOK
  <2>5. \A b \in Steady : Joining(b)' => Joining(b)
    BY <1>0, <1>3, <2>1 DEF Joining, Stopping, TypeOK
  <2> QED
    BY <1>1, <1>3, <2>1, <2>2, <2>3, <2>4, <2>5, ElsewhereOneInv, ElsewhereStopInv
<1>4. CASE MarkStopped(s) /\ a \notin Steady
  <2>1. \A b \in Steady : Joining(b)' => Joining(b)
    BY <1>0, <1>4 DEF MarkStopped, Joining, Stopping, TypeOK
  <2> QED
    BY <1>1, <1>4, <2>1, ElsewhereOneInv, ElsewhereStopInv DEF MarkStopped
<1>5. CASE StopEnds(s)
  <2>1. /\ UNCHANGED <<status, woken, inst, tasks>>
        /\ \/ UNCHANGED call
           \/ Then[s] # None /\ stop[s] = "ending" /\ call' = [call EXCEPT ![Then[s]] = "lock"]
    BY <1>5 DEF StopEnds
  <2>2. \A d \in Calls : call'[d] = call[d] \/ (call[d] = "idle" /\ call'[d] = "lock")
    BY <1>0, <2>1 DEF IInv, TypeOK, Fresh
  <2>3. /\ \A t \in Stops : t # s => stop'[t] = stop[t] /\ at'[t] = at[t]
        /\ stop'[s] # "join"
    BY <1>0, <1>5 DEF StopEnds, TypeOK
  <2>4. \A b \in Steady : Joining(b)' => Joining(b)
    BY <2>3 DEF Joining, Stopping
  <2> QED
    BY <1>0, <2>1, <2>2, <2>4, ElsewhereOneInv, ElsewhereStopInv
<1> QED
  BY <1>2, <1>3, <1>4, <1>5 DEF StopStep

\* The stop of a steady agent, of which there is one: it finds the live task in the
\* table, or there is none.
LEMMA OwnStop ==
  ASSUME IInv, OneInv, Owned, StopInv, NEW s \in Stops, Stopping(s) \in Steady,
         Detach(s) \/ MarkStopped(s)
  PROVE  OneInv' /\ StopInv'
<1> DEFINE a == Stopping(s)
           t == tasks[a]
<1>0. /\ TypeOK /\ a \in Agents /\ a \in Steady
      /\ SteadyCalls \subseteq Calls /\ Steady \subseteq Agents
      /\ \A d \in SteadyCalls : Target[d] \in Steady
      /\ \A d \in Calls : Target[d] = a => d \in SteadyCalls
  BY DEF IInv, TypeOK, Stopping, Steady, SteadyCalls
<1>1. ~Unstopped(a) /\ \A r \in Stops : Stopping(r) = a => r = s
  BY SoleStop
<1>2. /\ UNCHANGED <<call, at>>
      /\ \/ /\ Detach(s) /\ t # None /\ Live(t)
            /\ inst' = [inst EXCEPT ![t] = "cancelled"] /\ UNCHANGED <<status, woken>>
         \/ /\ Detach(s) /\ ~(t # None /\ Live(t))
            /\ inst' = inst /\ PublishStatus(a, "stopped") /\ stop'[s] = "ending"
         \/ /\ MarkStopped(s)
            /\ inst' = inst /\ PublishStatus(a, "stopped") /\ stop'[s] = "ending"
  BY <1>0 DEF Detach, MarkStopped, TypeOK
<1>3. /\ t # None => t \in SteadyCalls /\ Target[t] = a /\ Mode[a] = "persistent"
      /\ MarkStopped(s) => Held(a)
  BY <1>0 DEF TypeOK, Owned, MarkStopped, StopInv, Joining
<1>4. \A d \in Calls : inst'[d] # inst[d] =>
         d = t /\ t # None /\ inst'[d] = "cancelled" /\ Live(t) /\ Detach(s)
  BY <1>0, <1>2 DEF TypeOK
<1>5. /\ \A b \in Agents : b # a => status'[b] = status[b] /\ tasks'[b] = tasks[b]
      /\ \A d \in Calls : d \in woken' => d \in woken \/ (Target[d] = a /\ call[d] = "wait")
  BY <1>0, <1>2 DEF PublishStatus, Detach, MarkStopped, TypeOK
<1>6. \A d \in Calls : Unsettled(d)' => Unsettled(d) /\ inst'[d] = inst[d]
  BY <1>4 DEF Unsettled, Live, Starting
<1>7. \A d \in Calls : Live(d)' => Live(d) /\ Unsettled(d)'
  BY <1>4 DEF Live, Starting, Unsettled
<1>8. ASSUME NEW d \in Calls, Target[d] = a, Unsettled(d)'
      PROVE  call[d] = "oneshot" /\ ~(Detach(s) /\ t # None /\ Live(t))
  <2>1. d \in SteadyCalls /\ Unsettled(d)
    BY <1>0, <1>6, <1>8
  <2>2. CASE Detach(s) /\ t # None /\ Live(t)
    <3>1. Unsettled(t) /\ d = t
      BY <1>3, <1>8, <2>1, <2>2 DEF OneInv, Live, Starting, Unsettled
    <3>2. inst'[t] = "cancelled"
      BY <1>0, <1>2, <2>2, <1>3 DEF TypeOK, MarkStopped, Detach
    <3> QED
      BY <1>8, <3>1, <3>2 DEF Unsettled, Live, Starting
  <2>3. CASE Detach(s) /\ ~(t # None /\ Live(t))
    <3>1. SUFFICES ASSUME call[d] # "oneshot" PROVE FALSE
      BY <2>3
    <3>2. Mode[a] = "persistent" /\ Live(d)
      BY <1>1, <1>8, <2>1, <3>1 DEF StopInv, Unsettled, Live, Starting
    <3>3. t = d
      BY <1>8, <2>1, <3>2 DEF StopInv, LiveIsTracked
    <3> QED
      BY <2>3, <3>2, <3>3
  <2>4. CASE MarkStopped(s)
    BY <1>3, <1>8, <2>1, <2>4 DEF Held
  <2> QED
    BY <2>2, <2>3, <2>4
<1>9. \A d \in SteadyCalls : call[d] = "oneshot" => inst'[d] = inst[d] /\ Mode[Target[d]] = "oneshot"
  BY <1>0, <1>3, <1>4 DEF OneInv
<1>10. OneInv'
  <2>1. \A c, d \in SteadyCalls :
           Unsettled(c)' /\ Unsettled(d)' /\ Target[c] = Target[d] => c = d
    BY <1>0, <1>6 DEF OneInv
  <2>2. ASSUME NEW c \in SteadyCalls, Unsettled(c)'
        PROVE  \/ call[c] = "oneshot"
               \/ call[c] = "wait" /\ (c \in woken' => status'[Target[c]] \in Up)
               \/ call[c] \in {"logging", "done"} /\ status'[Target[c]] \in Up
    <3>1. CASE Target[c] = a
      BY <1>0, <1>8, <2>2, <3>1
    <3>2. CASE Target[c] # a
      <4>1. Unsettled(c) /\ c \in Calls /\ Target[c] \in Agents
        BY <1>0, <1>6, <2>2
      <4>2. status'[Target[c]] = status[Target[c]] /\ (c \in woken' => c \in woken)
        BY <1>5, <3>2, <4>1
      <4> QED
        BY <4>1, <4>2 DEF OneInv
    <3> QED
      BY <3>1, <3>2
  <2>3. \A c, d \in SteadyCalls :
           call[c] = "deps" /\ Target[c] = Target[d] => ~Unsettled(d)'
    BY <1>0, <1>6 DEF OneInv
  <2>4. \A c \in SteadyCalls \cap woken' : call[c] \notin {"idle", "lock", "deps"}
    BY <1>0, <1>5 DEF OneInv
  <2>5. \A c \in SteadyCalls : call[c] = "oneshot" => Live(c)' /\ Mode[Target[c]] = "oneshot"
    BY <1>9 DEF OneInv, Live, Starting
  <2> QED
    BY <1>2, <2>1, <2>2, <2>3, <2>4, <2>5 DEF OneInv
<1>11. LiveIsTracked'
  <2> SUFFICES ASSUME NEW d \in SteadyCalls, Live(d)', Mode[Target[d]] = "persistent"
               PROVE  tasks'[Target[d]] = d
    BY DEF LiveIsTracked
  <2>1. Target[d] # a
    BY <1>0, <1>7, <1>8, <1>9
  <2>2. tasks[Target[d]] = d
    BY <1>0, <1>7 DEF StopInv, LiveIsTracked
  <2> QED
    BY <1>0, <1>5, <2>1, <2>2
<1>12. ASSUME NEW b \in Steady, Joining(b)' PROVE Held(b)'
  <2>1. CASE b # a
    <3>1. \A r \in Stops : Stopping(r) = b => stop'[r] = stop[r]
      BY <1>0, <2>1 DEF Detach, MarkStopped, TypeOK
    <3>2. Joining(b) /\ Held(b)
      BY <1>2, <1>12, <3>1 DEF Joining, Stopping, StopInv
    <3>3. \A d \in Calls : Target[d] = b => ~Unsettled(d)'
      BY <1>6, <3>2 DEF Held
    <3>4. \A d \in Calls : Target[d] = b /\ d \notin woken => d \notin woken'
      BY <1>5, <2>1
    <3> QED
      BY <1>0, <1>2, <1>5, <2>1, <3>2, <3>3, <3>4 DEF Held
  <2>2. CASE b = a
    <3>1. stop'[s] = "join"
      BY <1>1, <1>2, <1>12, <2>2 DEF Joining, Stopping
    <3>2. Detach(s) /\ t # None /\ Live(t) /\ UNCHANGED <<status, woken>>
      BY <1>2, <3>1
    <3>3. \A d \in Calls : Target[d] = a => ~Unsettled(d)'
      BY <1>8, <3>2
    <3>4. t \in SteadyCalls /\ Target[t] = a /\ Unsettled(t) /\ call[t] # "oneshot"
      BY <1>3, <3>2 DEF Live, Starting, Unsettled, OneInv
    <3>5. \A d \in Calls : Target[d] = a => call[d] # "deps"
      BY <1>0, <3>4 DEF OneInv
    <3>6. \/ status[a] \in Up
          \/ call[t] = "wait" /\ t \notin woken
      BY <3>4 DEF OneInv
    <3> QED
      BY <1>0, <1>2, <2>2, <3>2, <3>3, <3>4, <3>5, <3>6 DEF Held
  <2> QED
    BY <2>1, <2>2
<1>13. \A c \in SteadyCalls : inst'[c] = "crashed" => Unstopped(Target[c])
  BY <1>0, <1>4 DEF StopInv
<1>14. \A c \in SteadyCalls :
          Unsettled(c)' /\ call'[c] # "oneshot" => Mode[Target[c]] = "persistent"
  BY <1>0, <1>2, <1>6 DEF StopInv
<1> QED
  BY <1>10, <1>11, <1>12, <1>13, <1>14 DEF StopInv

LEMMA StepOneInv ==
  ASSUME IInv, OneInv, Owned, StopInv, [Next]_loaderVars
  PROVE  OneInv' /\ StopInv'
<1>0. TypeOK /\ SteadyCalls \subseteq Calls /\ Steady \subseteq Agents
  BY DEF IInv, SteadyCalls, Steady
<1>1. CASE UNCHANGED <<status, call, woken, inst, tasks, stop, at>>
  BY <1>1, ElsewhereOneInv, ElsewhereStopInv DEF Joining, Stopping
<1>2. ASSUME NEW c \in Calls, CallStep(c) \/ InstStep(c) PROVE OneInv' /\ StopInv'
  <2>1. CASE c \in SteadyCalls
    BY <1>2, <2>1, CallStepOneInv, InstStepOneInv, CallStepStopInv, InstStepStopInv
  <2>2. CASE c \notin SteadyCalls
    <3>1. /\ \A d \in SteadyCalls : d # c /\ Target[d] # Target[c]
          /\ \A b \in Steady : b \in Agents /\ b # Target[c]
      BY <2>2 DEF SteadyCalls, Steady
    <3>2. /\ \A d \in SteadyCalls :
                /\ inst'[d] = inst[d]
                /\ call'[d] = call[d] \/ (call[d] = "idle" /\ call'[d] = "lock")
                /\ d \in woken' => d \in woken
          /\ \A b \in Steady : status'[b] = status[b]
      BY <1>0, <1>2, <3>1, OtherAgents
    <3>3. /\ \A b \in Steady : tasks'[b] = tasks[b]
          /\ \A b \in Steady : Joining(b)' => Joining(b)
      BY <1>2, <3>1, TasksFrame DEF Joining, Stopping
    <3> QED
      BY <3>2, <3>3, ElsewhereOneInv, ElsewhereStopInv
  <2> QED
    BY <2>1, <2>2
<1>3. ASSUME NEW s \in Stops, StopStep(s) PROVE OneInv' /\ StopInv'
  BY <1>3, StrangerStop, OwnStop DEF StopStep
<1>4. ASSUME NEW c \in Calls, ClientCalls(c) PROVE OneInv' /\ StopInv'
  <2>1. \A d \in Calls : call'[d] = call[d] \/ (call[d] = "idle" /\ call'[d] = "lock")
    BY <1>0, <1>4 DEF ClientCalls, Begin, TypeOK
  <2> QED
    BY <1>0, <1>4, <2>1, ElsewhereOneInv, ElsewhereStopInv
    DEF ClientCalls, Begin, Joining, Stopping
<1>5. ASSUME NEW s \in Stops, StopBegins(s) PROVE OneInv' /\ StopInv'
  <2>1. \A r \in Stops : stop'[r] = "join" => stop[r] = "join"
    BY <1>0, <1>5 DEF StopBegins, TypeOK
  <2> QED
    BY <1>5, <2>1, ElsewhereOneInv, ElsewhereStopInv DEF StopBegins, Joining, Stopping
<1> QED
  BY <1>1, <1>2, <1>3, <1>4, <1>5 DEF Next, LoaderStep, Delivered, Finished, loaderVars

LEMMA OneInvariant == Spec => [](IInv /\ OneInv /\ StopInv)
<1>1. Init => IInv /\ OneInv /\ Owned /\ StopInv
  BY InitIInv DEF Init, OneInv, Unsettled, Live, Starting, Owned, SteadyCalls, StopInv,
                  LiveIsTracked, Joining
<1>2. IInv /\ OneInv /\ Owned /\ StopInv /\ [Next]_loaderVars
        => IInv' /\ OneInv' /\ Owned' /\ StopInv'
  BY StepIInv, StepOneInv, StepOwned
<1> QED
  BY <1>1, <1>2, PTL DEF Spec

\* ensure_running is idempotent, however many clients call it for however many
\* agents with whatever dependencies, in whatever order: a second start() of an
\* agent never runs beside a first, crashes, failing imports and one stop or restart
\* of it included (see Steady), and whatever times out or is stopped elsewhere.
THEOREM OneStartAtATime == Spec => []Idempotent
<1>1. OneInv => Idempotent
  BY DEF OneInv, Idempotent, Unsettled, Live, Starting
<1> QED
  BY <1>1, OneInvariant, PTL

\* Loader.stop can cancel what runs: the live task of a steady agent is the one the
\* task table has, however starts, a restart and other agents' stops overlap.
THEOREM StopFindsTheTask == Spec => []LiveIsTracked
<1>1. StopInv => LiveIsTracked
  BY DEF StopInv
<1> QED
  BY <1>1, OneInvariant, PTL

-----------------------------------------------------------------------------
(***************************************************************************)
(* Dependencies first.  An agent that nobody stops and that is not late,   *)
(* once a call for it has ended well, is up, or it was and crashed; this   *)
(* stays so, because a start begins only when the board says it is down,   *)
(* and finds it so until it publishes.                                     *)
(***************************************************************************)
Undisturbed(b) == b \in Steady /\ Unstopped(b)

WasUp(b) == \/ status[b] \in Up
            \/ \E d \in Calls : Target[d] = b /\ inst[d] \in {"crashed", "buried"}

DepsInv ==
    /\ \A c \in Calls : call[c] \in {"idle", "lock", "deps"} => inst[c] = "none"
    /\ \A c \in SteadyCalls : call[c] = "deps" => status[Target[c]] \notin Up
    /\ \A b \in Agents : Undisturbed(b) => status[b] # "stopped"
    /\ \A c \in Calls : Undisturbed(Target[c]) /\ call[c] \in {"logging", "done"}
                           => WasUp(Target[c])
    /\ DependenciesFirst

\* What a launch finds: no instance yet, an agent that is down, dependencies that were
\* all up when their calls ended.
LEMMA LaunchFinds ==
  ASSUME IInv, OneInv, DepsInv, NEW c \in Calls, CallStep(c)
  PROVE  \/ /\ Launches(c) /\ inst[c] = "none"
            /\ c \in SteadyCalls => status[Target[c]] \notin Up
            /\ \A b \in DependsOn[Target[c]] : Undisturbed(b) => WasUp(b)
         \/ UNCHANGED <<inst, tasks>> /\ call[c] \notin {"oneshot", "idle"}
<1>1. CASE Acquire(c) /\ status[Target[c]] \notin Up /\ Subs[c] = {}
  <2>1. Launches(c) /\ inst[c] = "none"
    BY <1>1 DEF Acquire, Launches, DepsInv
  <2>2. DependsOn[Target[c]] = {}
    BY <1>1
  <2> QED
    BY <1>1, <2>1, <2>2
<1>2. CASE DepsReady(c)
  <2>1. Launches(c) /\ inst[c] = "none" /\ (c \in SteadyCalls => status[Target[c]] \notin Up)
    BY <1>2 DEF DepsReady, Launches, DepsInv
  <2>2. ASSUME NEW b \in DependsOn[Target[c]], Undisturbed(b) PROVE WasUp(b)
    <3>1. PICK d \in Subs[c] : Target[d] = b
      OBVIOUS
    <3>2. d \in Calls /\ call[d] = "done"
      BY <1>2, <3>1 DEF DepsReady
    <3> QED
      BY <2>2, <3>1, <3>2 DEF DepsInv
  <2> QED
    BY <2>1, <2>2
<1> QED
  BY <1>1, <1>2 DEF CallStep, Acquire, DepsFailed, Wake, ReadyTimeout, Return, Raise

\* An instance that crashed stays crashed.
LEMMA CrashedStays ==
  ASSUME IInv, OneInv, DepsInv, [Next]_loaderVars, NEW d \in SteadyCalls,
         inst[d] \in {"crashed", "buried"}
  PROVE  inst'[d] \in {"crashed", "buried"}
<1>0. d \in Calls /\ TypeOK /\ call[d] # "oneshot"
  BY DEF IInv, OneInv, SteadyCalls, Live, Starting
<1>1. CASE UNCHANGED inst
  BY <1>1
<1>2. ASSUME NEW c \in Calls, CallStep(c) PROVE inst'[d] \in {"crashed", "buried"}
  <2>1. CASE c = d
    BY <1>1, <1>2, <2>1, LaunchFinds
  <2> QED
    BY <1>0, <1>2, <2>1, OtherAgents
<1>3. ASSUME NEW c \in Calls, InstStep(c) PROVE inst'[d] \in {"crashed", "buried"}
  <2>1. CASE c = d
    BY <1>0, <1>3, <2>1 DEF InstStep, Attach, Ready, TaskReturns, TaskCrashes,
                            HandleTaskCrash, OneShotReturns, OneShotFails, Live, Starting,
                            TypeOK
  <2> QED
    BY <1>0, <1>3, <2>1, OtherAgents
<1>4. ASSUME NEW s \in Stops, StopStep(s) PROVE inst'[d] \in {"crashed", "buried"}
  BY <1>0, <1>4 DEF StopStep, CallHook, Detach, MarkStopped, StopEnds, Live, Starting,
                    TypeOK
<1> QED
  BY <1>1, <1>2, <1>3, <1>4 DEF Next, LoaderStep, ClientCalls, Begin, StopBegins,
                                Delivered, Finished, loaderVars

\* The status of an agent that nobody stops changes by its own calls and instances.
LEMMA StatusByOwn ==
  ASSUME IInv, [Next]_loaderVars, NEW b \in Agents, Undisturbed(b), status'[b] # status[b]
  PROVE  \E c \in SteadyCalls : Target[c] = b /\ (CallStep(c) \/ InstStep(c))
<1>0. TypeOK
  BY DEF IInv
<1>1. ASSUME NEW c \in Calls, CallStep(c) \/ InstStep(c)
      PROVE  c \in SteadyCalls /\ Target[c] = b
  BY <1>1, OtherAgents DEF SteadyCalls, Undisturbed
<1>2. ASSUME NEW s \in Stops, StopStep(s) PROVE FALSE
  <2>1. Stopping(s) # b /\ Stopping(s) \in Agents
    BY <1>0 DEF Undisturbed, Unstopped, Stopping, TypeOK
  <2> QED
    BY <1>0, <1>2, <2>1 DEF StopStep, CallHook, Detach, MarkStopped, StopEnds,
                            PublishStatus, TypeOK
<1> QED
  BY <1>1, <1>2 DEF Next, LoaderStep, ClientCalls, Begin, StopBegins, Delivered, Finished,
                    loaderVars

\* What an agent's own steps do to its status.
LEMMA StatusSteps ==
  ASSUME IInv, OneInv, DepsInv, NEW c \in SteadyCalls, Undisturbed(Target[c]),
         CallStep(c) \/ InstStep(c)
  PROVE  /\ WasUp(Target[c]) => WasUp(Target[c])'
         /\ status'[Target[c]] # "stopped"
         /\ call'[c] \in {"logging", "done"} => WasUp(Target[c])'
<1> DEFINE a == Target[c]
           Fine == /\ WasUp(a) => WasUp(a)'
                   /\ status'[a] # "stopped"
                   /\ call'[c] \in {"logging", "done"} => WasUp(a)'
<1>0. /\ c \in Calls /\ TypeOK /\ a \in Agents /\ a \in Steady /\ status[a] # "stopped"
      /\ \A d \in Calls : Target[d] = a => d \in SteadyCalls
      /\ "timeout" \notin Faults[a]
  BY DEF IInv, SteadyCalls, Steady, DepsInv, Undisturbed
<1>1. [Next]_loaderVars
  BY <1>0 DEF Next, LoaderStep
<1>2. ASSUME NEW d \in Calls, Target[d] = a, inst[d] \in {"crashed", "buried"}
      PROVE  WasUp(a)'
  BY <1>0, <1>1, <1>2, CrashedStays DEF WasUp
<1>3. WasUp(a) => status[a] \in Up \/ WasUp(a)'
  BY <1>2 DEF WasUp
<1>4. status'[a] \in Up => WasUp(a)'
  BY DEF WasUp
<1>5. ASSUME NEW state \in States, PublishStatus(a, state) PROVE status'[a] = state
  BY <1>0, <1>5 DEF PublishStatus, TypeOK
<1>6. ASSUME NEW l, call' = [call EXCEPT ![c] = l] PROVE call'[c] = l
  BY <1>0, <1>6 DEF TypeOK
<1>7. CASE UNCHANGED status /\ (call'[c] \in {"logging", "done"} => WasUp(a))
  BY <1>0, <1>3, <1>4, <1>7
<1>8. ASSUME Start(c), status[a] \notin Up PROVE Fine
  <2>1. ASSUME call'[c] \in {"logging", "done"} PROVE PublishStatus(a, "ready")
    BY <1>6, <1>8, <2>1 DEF Start
  <2>2. status'[a] \in {"loading", "ready", "failed"}
    BY <1>5, <1>8 DEF Start, States
  <2> QED
    BY <1>3, <1>4, <1>5, <1>8, <2>1, <2>2 DEF States, Up
<1>9. CASE Acquire(c)
  <2>1. CASE status[a] \in Up
    BY <1>7, <1>9, <2>1 DEF Acquire, WasUp
  <2>2. CASE status[a] \notin Up /\ Subs[c] # {}
    <3>1. UNCHANGED status /\ call'[c] = "deps"
      BY <1>0, <1>9, <2>2 DEF Acquire
    <3> QED
      BY <1>7, <3>1
  <2>3. CASE status[a] \notin Up /\ Subs[c] = {}
    BY <1>8, <1>9, <2>3 DEF Acquire
  <2> QED
    BY <2>1, <2>2, <2>3
<1>10. CASE DepsReady(c)
  BY <1>8, <1>10 DEF DepsReady, DepsInv
<1>11. CASE DepsFailed(c) \/ Raise(c)
  BY <1>6, <1>7, <1>11 DEF DepsFailed, Raise
<1>12. CASE Return(c)
  BY <1>0, <1>7, <1>12 DEF Return, DepsInv
<1>13. CASE Wake(c)
  <2>1. CASE status[a] \in Up
    BY <1>7, <1>13, <2>1 DEF Wake, WasUp
  <2>2. CASE status[a] \notin Up
    <3>1. call'[c] = "failing" /\ status'[a] = "failed"
      BY <1>5, <1>6, <1>13, <2>2 DEF Wake, States
    <3> QED
      BY <1>3, <2>2, <3>1
  <2> QED
    BY <2>1, <2>2
<1>14. CASE Ready(c)
  BY <1>4, <1>5, <1>14 DEF Ready, States, Up
<1>15. CASE TaskReturns(c) \/ TaskCrashes(c)
  BY <1>0, <1>7, <1>15 DEF TaskReturns, TaskCrashes, DepsInv
<1>16. CASE HandleTaskCrash(c)
  <2>1. inst'[c] = "buried" /\ status'[a] = "failed"
    BY <1>0, <1>5, <1>16 DEF HandleTaskCrash, TypeOK, States
  <2> QED
    BY <1>0, <2>1 DEF WasUp
<1>17. CASE OneShotReturns(c)
  <2>1. status'[a] \in Up
    BY <1>0, <1>5, <1>17 DEF OneShotReturns, States, Up
  <2> QED
    BY <1>4, <2>1 DEF Up
<1>18. CASE OneShotFails(c)
  <2>1. inst'[c] = "buried" /\ status'[a] = "failed"
    BY <1>0, <1>5, <1>18 DEF OneShotFails, TypeOK, States
  <2> QED
    BY <1>0, <2>1 DEF WasUp
<1>19. ~ReadyTimeout(c)
  BY <1>0 DEF ReadyTimeout
<1>20. CASE Attach(c)
  BY <1>0, <1>7, <1>20 DEF Attach, DepsInv
<1> QED
  BY <1>9, <1>10, <1>11, <1>12, <1>13, <1>14, <1>15, <1>16, <1>17, <1>18, <1>19, <1>20
  DEF CallStep, InstStep

\* What was up stays up, or crashes.
LEMMA WasUpStays ==
  ASSUME IInv, OneInv, DepsInv, [Next]_loaderVars, NEW b \in Agents, Undisturbed(b), WasUp(b)
  PROVE  WasUp(b)'
<1>1. CASE status'[b] = status[b]
  <2>1. ASSUME NEW d \in Calls, Target[d] = b, inst[d] \in {"crashed", "buried"}
        PROVE  WasUp(b)'
    BY <2>1, CrashedStays DEF WasUp, SteadyCalls, Undisturbed
  <2> QED
    BY <1>1, <2>1 DEF WasUp
<1>2. CASE status'[b] # status[b]
  BY <1>2, StatusByOwn, StatusSteps
<1> QED
  BY <1>1, <1>2

\* How a call ends well: by a step of its own.
LEMMA EndsByOwn ==
  ASSUME IInv, [Next]_loaderVars, NEW d \in Calls,
         call'[d] \in {"logging", "done"}, call'[d] # call[d]
  PROVE  CallStep(d) \/ InstStep(d)
<1>0. TypeOK
  BY DEF IInv
<1>1. ASSUME NEW c \in Calls, CallStep(c) \/ InstStep(c) PROVE c = d
  BY <1>1, OtherAgents
<1>2. ASSUME NEW s \in Stops, StopStep(s) PROVE FALSE
  BY <1>0, <1>2 DEF StopStep, CallHook, Detach, MarkStopped, StopEnds, TypeOK
<1>3. ASSUME NEW c \in Calls, ClientCalls(c) PROVE FALSE
  BY <1>0, <1>3 DEF ClientCalls, Begin, TypeOK
<1> QED
  BY <1>1, <1>2, <1>3 DEF Next, LoaderStep, StopBegins, Delivered, Finished, loaderVars

\* A call and its instance begin by the call's own steps, and none begins again.
LEMMA BeginsByOwn ==
  ASSUME IInv, [Next]_loaderVars, NEW d \in Calls
  PROVE  /\ call'[d] \in {"idle", "lock", "deps"} => call[d] \in {"idle", "lock", "deps"}
         /\ call'[d] = "deps" /\ call[d] # "deps" => CallStep(d)
         /\ Starting(d)' /\ ~Starting(d) => CallStep(d)
         /\ inst'[d] # "none" /\ inst[d] = "none" => CallStep(d) \/ InstStep(d)
<1> DEFINE Onward == /\ call'[d] \in {"idle", "lock", "deps"}
                            => call[d] \in {"idle", "lock", "deps"}
                     /\ call'[d] = "deps" => call[d] = "deps"
                     /\ Starting(d)' => Starting(d)
                     /\ inst'[d] # "none" => inst[d] # "none"
<1>0. TypeOK
  BY DEF IInv
<1>1. ASSUME NEW c \in Calls, CallStep(c) \/ InstStep(c), c # d PROVE Onward
  BY <1>1, OtherAgents DEF Starting
<1>2. CASE CallStep(d)
  <2>1. ASSUME call'[d] \in {"idle", "lock", "deps"} PROVE call[d] \in {"idle", "lock", "deps"}
    BY <1>0, <1>2, <2>1 DEF CallStep, Acquire, DepsReady, DepsFailed, Wake, ReadyTimeout,
                            Return, Raise, TypeOK
  <2> QED
    BY <1>2, <2>1
<1>3. CASE InstStep(d)
  <2>1. \/ call' = call
        \/ \E l \in {"logging", "failing"} : call' = [call EXCEPT ![d] = l]
    BY <1>3 DEF InstStep, Attach, Ready, TaskReturns, TaskCrashes, HandleTaskCrash,
                OneShotReturns, OneShotFails
  <2>2. \E x \in {"attached", "serving", "returned", "crashed", "buried", "cancelled"} :
           /\ inst' = [inst EXCEPT ![d] = x]
           /\ x = "attached" => Starting(d)
    BY <1>3 DEF InstStep, Attach, Ready, TaskReturns, TaskCrashes, HandleTaskCrash,
                OneShotReturns, OneShotFails, Starting
  <2> QED
    BY <1>0, <1>3, <2>1, <2>2 DEF TypeOK, Starting
<1>4. ASSUME NEW s \in Stops, StopStep(s) PROVE Onward
  <2>1. call' = call \/ (Then[s] # None /\ stop[s] = "ending"
                           /\ call' = [call EXCEPT ![Then[s]] = "lock"])
    BY <1>4 DEF StopStep, CallHook, Detach, MarkStopped, StopEnds
  <2>2. \/ call'[d] = call[d]
        \/ call'[d] = "lock" /\ call[d] = "idle"
    BY <1>0, <2>1 DEF IInv, Fresh, TypeOK
  <2>3. inst' = inst \/ \E t \in Calls : Live(t) /\ inst' = [inst EXCEPT ![t] = "cancelled"]
    BY <1>0, <1>4 DEF StopStep, CallHook, Detach, MarkStopped, StopEnds, TypeOK
  <2> QED
    BY <1>0, <2>2, <2>3 DEF TypeOK, Live, Starting
<1>5. ASSUME NEW c \in Calls, ClientCalls(c) PROVE Onward
  BY <1>0, <1>5 DEF ClientCalls, Begin, TypeOK, Starting
<1>6. CASE UNCHANGED <<call, inst>>
  BY <1>6 DEF Starting
<1> QED
  BY <1>1, <1>2, <1>3, <1>4, <1>5, <1>6 DEF Next, LoaderStep, StopBegins, Delivered,
                                            Finished, loaderVars

\* While a call gathers the dependencies of an agent, nothing makes the agent ready.
LEMMA DownWhileGathering ==
  ASSUME IInv, OneInv, DepsInv, [Next]_loaderVars, NEW c \in SteadyCalls,
         call[c] = "deps", call'[c] = "deps"
  PROVE  status'[Target[c]] \notin Up
<1> DEFINE a == Target[c]
<1>0. /\ c \in Calls /\ TypeOK /\ a \in Agents /\ lock[a] = c /\ status[a] \notin Up
      /\ \A e \in Calls : Target[e] = a => e \in SteadyCalls
  BY DEF IInv, LockDiscipline, Inside, SteadyCalls, DepsInv
<1>1. \A state \in States : PublishStatus(a, state) => status'[a] = state
  BY <1>0 DEF PublishStatus, TypeOK
<1>2. ASSUME NEW e \in Calls, CallStep(e) \/ InstStep(e), Target[e] = a
      PROVE  status'[a] \notin Up
  <2>1. ~Unsettled(e) /\ call[e] # "oneshot"
    BY <1>0, <1>2 DEF OneInv, Unsettled, Live, Starting
  <2>2. ~InstStep(e)
    BY <2>1 DEF InstStep, Attach, Ready, TaskReturns, TaskCrashes, HandleTaskCrash,
                OneShotReturns, OneShotFails, Unsettled, Live, Starting
  <2>3. CASE e = c
    <3>1. ~DepsReady(c) /\ ~DepsFailed(c)
      <4>1. ASSUME Start(c) PROVE FALSE
        <5>1. \E l \in {"wait", "oneshot", "logging", "done", "failing"} :
                 call' = [call EXCEPT ![c] = l]
          BY <1>0, <4>1, StartMode
        <5> QED
          BY <1>0, <5>1 DEF TypeOK
      <4> QED
        BY <1>0, <4>1 DEF DepsReady, DepsFailed, TypeOK
    <3> QED
      BY <1>2, <2>2, <2>3, <3>1 DEF CallStep, Acquire, Wake, ReadyTimeout, Return, Raise
  <2>4. CASE e # c
    <3>1. call[e] \notin Inside
      BY <1>0, <1>2, <2>4 DEF IInv, LockDiscipline
    <3>2. ~Acquire(e)
      BY <1>0, <1>2 DEF Acquire
    <3> QED
      BY <1>2, <2>2, <3>1, <3>2 DEF CallStep, DepsReady, DepsFailed, Wake, ReadyTimeout,
                                    Return, Raise, Inside
  <2> QED
    BY <2>3, <2>4
<1>3. ASSUME NEW e \in Calls, CallStep(e) \/ InstStep(e), Target[e] # a
      PROVE  status'[a] \notin Up
  BY <1>0, <1>3, OtherAgents
<1>4. ASSUME NEW s \in Stops, StopStep(s) PROVE status'[a] \notin Up
  <2>1. status' = status \/ PublishStatus(Stopping(s), "stopped")
    BY <1>4 DEF StopStep, CallHook, Detach, MarkStopped, StopEnds
  <2> QED
    BY <1>0, <2>1 DEF PublishStatus, TypeOK, Up
<1> QED
  BY <1>0, <1>2, <1>3, <1>4 DEF Next, LoaderStep, ClientCalls, Begin, StopBegins,
                                Delivered, Finished, loaderVars

LEMMA StepDepsInv ==
  ASSUME IInv, OneInv, DepsInv, [Next]_loaderVars
  PROVE  DepsInv'
<1>0. TypeOK /\ \A c \in Calls : Undisturbed(Target[c]) => c \in SteadyCalls
  BY DEF IInv, SteadyCalls, Undisturbed
<1>1. ASSUME NEW c \in Calls, call'[c] \in {"idle", "lock", "deps"} PROVE inst'[c] = "none"
  <2>1. inst[c] = "none"
    BY <1>1, BeginsByOwn DEF DepsInv
  <2>2. SUFFICES ASSUME inst'[c] # "none" PROVE FALSE
    OBVIOUS
  <2>3. CASE CallStep(c)
    <3>1. Launches(c)
      BY <2>1, <2>2, <2>3, CallCases
    <3>2. \E l \in {"wait", "oneshot", "logging", "done", "failing"} :
             call' = [call EXCEPT ![c] = l]
      BY <1>0, <3>1, StartMode DEF Launches
    <3> QED
      BY <1>0, <1>1, <3>2 DEF TypeOK
  <2>4. CASE InstStep(c)
    <3>1. call[c] = "oneshot"
      BY <2>1, <2>4 DEF InstStep, Attach, Ready, TaskReturns, TaskCrashes,
                        HandleTaskCrash, OneShotReturns, OneShotFails, Live, Starting
    <3> QED
      BY <1>1, <3>1, BeginsByOwn
  <2> QED
    BY <2>1, <2>2, <2>3, <2>4, BeginsByOwn
<1>2. ASSUME NEW c \in SteadyCalls, call'[c] = "deps" PROVE status'[Target[c]] \notin Up
  <2>1. c \in Calls
    BY DEF SteadyCalls
  <2>2. CASE call[c] = "deps"
    BY <1>2, <2>2, DownWhileGathering
  <2>3. CASE call[c] # "deps"
    <3>1. CallStep(c)
      BY <1>2, <2>1, <2>3, BeginsByOwn
    <3>2. Acquire(c) /\ ~Start(c)
      <4>1. ~Start(c)
        <5> SUFFICES ASSUME Start(c) PROVE FALSE
          OBVIOUS
        <5>1. \E l \in {"wait", "oneshot", "logging", "done", "failing"} :
                 call' = [call EXCEPT ![c] = l]
          BY <1>0, <2>1, StartMode
        <5> QED
          BY <1>0, <1>2, <2>1, <5>1 DEF TypeOK
      <4> QED
        BY <1>0, <1>2, <2>1, <3>1, <4>1 DEF CallStep, DepsReady, DepsFailed, Wake,
                                            ReadyTimeout, Return, Raise, TypeOK
    <3>3. status[Target[c]] \notin Up /\ UNCHANGED status
      BY <1>0, <1>2, <2>1, <3>2 DEF Acquire, TypeOK
    <3> QED
      BY <3>3
  <2> QED
    BY <2>2, <2>3
<1>3. ASSUME NEW b \in Agents, Undisturbed(b) PROVE status'[b] # "stopped"
  <2>1. CASE status'[b] = status[b]
    BY <1>3, <2>1 DEF DepsInv
  <2>2. CASE status'[b] # status[b]
    BY <1>3, <2>2, StatusByOwn, StatusSteps
  <2> QED
    BY <2>1, <2>2
<1>4. ASSUME NEW c \in Calls, Undisturbed(Target[c]), call'[c] \in {"logging", "done"}
      PROVE  WasUp(Target[c])'
  <2>1. CASE call'[c] = call[c]
    BY <1>4, <2>1, WasUpStays DEF DepsInv
  <2>2. CASE call'[c] # call[c]
    BY <1>0, <1>4, <2>2, EndsByOwn, StatusSteps
  <2> QED
    BY <2>1, <2>2
<1>5. ASSUME NEW c \in Calls, Starting(c)',
             NEW b \in DependsOn[Target[c]] \cap Steady, Unstopped(b)
      PROVE  WasUp(b)'
  <2>1. b \in Agents /\ Undisturbed(b)
    BY <1>5 DEF Undisturbed, Steady
  <2>2. WasUp(b)
    <3>1. CASE Starting(c)
      BY <1>5, <3>1 DEF DepsInv, DependenciesFirst, WasUp
    <3>2. CASE ~Starting(c)
      <4>1. CallStep(c)
        BY <1>5, <3>2, BeginsByOwn
      <4> QED
        BY <1>5, <2>1, <3>2, <4>1, LaunchFinds DEF Starting
    <3> QED
      BY <3>1, <3>2
  <2> QED
    BY <2>1, <2>2, WasUpStays
<1>6. DependenciesFirst'
  BY <1>5 DEF DependenciesFirst, WasUp
<1> QED
  BY <1>1, <1>2, <1>3, <1>4, <1>6 DEF DepsInv

\* Dependencies first: whatever calls for an agent overlap, start() runs only when each
\* of its dependencies was made ready, and has not left that state but by a crash.
THEOREM DependenciesAreFirst == Spec => []DependenciesFirst
<1>1. Init => DepsInv
  BY DEF Init, DepsInv, DependenciesFirst, SteadyCalls, Starting
<1>2. IInv /\ OneInv /\ DepsInv /\ [Next]_loaderVars => DepsInv'
  BY StepDepsInv
<1>3. DepsInv => DependenciesFirst
  BY DEF DepsInv
<1> QED
  BY <1>1, <1>2, <1>3, OneInvariant, PTL DEF Spec

-----------------------------------------------------------------------------
(***************************************************************************)
(* Ready agents can be reached.  Between the registration and ctx.ready()  *)
(* the handler stays: a stop that unregisters it has cancelled the start,  *)
(* or found none that is alive.                                            *)
(***************************************************************************)
AttachedInv == \A c \in SteadyCalls :
    inst[c] = "attached" /\ Mode[Target[c]] = "persistent" => handler[Target[c]] # None

ReadyInv == /\ ReadyIsReachable
            /\ AttachedInv
            /\ \A c \in Calls : call[c] = "oneshot" => Mode[Target[c]] = "oneshot"

\* A step that publishes something else than `ready`, and takes a handler away only
\* from an agent that it stops and of which no start is alive.
LEMMA FrameReady ==
  ASSUME TypeOK, ReadyInv, NEW a \in Agents,
         status' = status \/ \E state \in States \ {"ready"} : PublishStatus(a, state),
         \/ handler' = handler
         \/ \E c \in Calls : handler' = [handler EXCEPT ![a] = c]
         \/ /\ PublishStatus(a, "stopped") /\ handler' = [handler EXCEPT ![a] = None]
            /\ \A c \in SteadyCalls : Target[c] = a => inst[c] # "attached",
         \A c \in SteadyCalls : inst'[c] = "attached" =>
            inst[c] = "attached" \/ handler'[Target[c]] # None
  PROVE  ReadyIsReachable' /\ AttachedInv'
<1>0. None \notin Calls /\ \A c \in SteadyCalls : Target[c] \in Agents
  BY DEF SteadyCalls
<1> DEFINE Stopped == /\ status'[a] = "stopped"
                      /\ \A c \in SteadyCalls : Target[c] = a => inst[c] # "attached"
<1>1. ASSUME NEW b \in Agents
      PROVE  handler'[b] = handler[b] \/ handler'[b] # None \/ (b = a /\ Stopped)
  <2>1. ASSUME NEW c \in Calls, handler' = [handler EXCEPT ![a] = c]
        PROVE  handler'[b] = handler[b] \/ handler'[b] # None
    BY <1>0, <2>1 DEF TypeOK
  <2>2. ASSUME PublishStatus(a, "stopped"), handler' = [handler EXCEPT ![a] = None]
        PROVE  handler'[b] = handler[b] \/ (b = a /\ status'[a] = "stopped")
    BY <2>2 DEF TypeOK, PublishStatus
  <2> QED
    BY <2>1, <2>2
<1>2. \A b \in Agents : status'[b] = "ready" => status[b] = "ready"
  BY DEF PublishStatus, TypeOK
<1>3. ReadyIsReachable'
  BY <1>1, <1>2 DEF ReadyInv, ReadyIsReachable, Steady
<1>4. AttachedInv'
  BY <1>0, <1>1 DEF ReadyInv, AttachedInv
<1> QED
  BY <1>3, <1>4

LEMMA StepReadyInv ==
  ASSUME IInv, OneInv, StopInv, ReadyInv, [Next]_loaderVars
  PROVE  ReadyInv'
<1>0. TypeOK /\ \A c \in Calls : c # None
  BY DEF IInv
<1> DEFINE Good == ReadyIsReachable' /\ AttachedInv'
<1>2. ASSUME NEW c \in Calls, Start(c) PROVE Good
  <2> DEFINE a == Target[c]
  <2>0. a \in Agents
    OBVIOUS
  <2>1. CASE status' = status \/ \E state \in States \ {"ready"} : PublishStatus(a, state)
    <3>1. handler' = handler \/ handler' = [handler EXCEPT ![a] = c]
      BY <1>2 DEF Start
    <3>2. \A d \in Calls : inst'[d] = "attached" => inst[d] = "attached"
      BY <1>0, <1>2, StartMode DEF TypeOK
    <3> QED
      BY <1>0, <2>0, <2>1, <3>1, <3>2, FrameReady DEF SteadyCalls
  <2>2. ASSUME PublishStatus(a, "ready"), inst' = inst,
               \/ /\ handler' = handler /\ Mode[a] \in {"inert", "sync"}
                  /\ Mode[a] = "sync" => a \notin Registers
               \/ handler' = [handler EXCEPT ![a] = c]
        PROVE  Good
    <3>2. AttachedInv'
      BY <1>0, <2>2 DEF ReadyInv, AttachedInv, TypeOK, SteadyCalls
    <3>3. \A b \in Agents : b # a => status'[b] = status[b] /\ handler'[b] = handler[b]
      BY <1>0, <2>2 DEF PublishStatus, TypeOK
    <3>4. \/ Mode[a] \in {"inert", "sync"} /\ (Mode[a] = "sync" => a \notin Registers)
          \/ handler'[a] # None
      BY <1>0, <2>0, <2>2 DEF TypeOK
    <3> HIDE DEF a
    <3>5. ReadyIsReachable'
      BY <3>3, <3>4 DEF ReadyInv, ReadyIsReachable, Steady
    <3> QED
      BY <3>2, <3>5
  <2> QED
    BY <1>2, <2>1, <2>2 DEF Start, States
<1>3. ASSUME NEW c \in Calls, CallStep(c) PROVE Good
  <2>1. \/ Start(c)
        \/ /\ status' = status \/ PublishStatus(Target[c], "failed")
           /\ UNCHANGED <<handler, inst>>
    BY <1>3 DEF CallStep, Acquire, DepsReady, DepsFailed, Wake, ReadyTimeout, Return, Raise
  <2> QED
    BY <1>0, <1>2, <2>1, FrameReady DEF States
<1>4. ASSUME NEW c \in Calls, InstStep(c) PROVE Good
  <2> DEFINE a == Target[c]
  <2>0. a \in Agents
    OBVIOUS
  <2>1. CASE Ready(c)
    <3>1. PublishStatus(a, "ready") /\ handler' = handler
      BY <2>1 DEF Ready
    <3>2. \A d \in Calls : inst'[d] = "attached" => inst[d] = "attached"
      BY <1>0, <2>1 DEF Ready, TypeOK
    <3>3. AttachedInv'
      BY <3>1, <3>2 DEF ReadyInv, AttachedInv, SteadyCalls
    <3>4. ASSUME a \in Steady, a \in Registers \/ Mode[a] = "skill",
                 Mode[a] \in {"persistent", "sync", "skill"}
          PROVE  handler[a] # None
      <4>1. c \in SteadyCalls /\ Live(c)
        BY <2>1, <3>4 DEF SteadyCalls, Ready, Live, Starting
      <4>2. Mode[a] = "persistent"
        BY <3>4, <4>1 DEF StopInv, OneInv, Unsettled
      <4>3. inst[c] = "attached"
        BY <2>1, <3>4, <4>2 DEF Ready
      <4> QED
        BY <4>1, <4>2, <4>3 DEF ReadyInv, AttachedInv
    <3>5. \A b \in Agents : b # a => status'[b] = status[b]
      BY <1>0, <3>1 DEF PublishStatus, TypeOK
    <3> HIDE DEF a
    <3>6. ReadyIsReachable'
      BY <3>1, <3>4, <3>5 DEF ReadyInv, ReadyIsReachable, Steady
    <3> QED
      BY <3>3, <3>6
  <2>2. CASE OneShotReturns(c)
    <3>1. /\ status' = status \/ PublishStatus(a, "ready")
          /\ handler' = handler
          /\ Mode[a] = "oneshot"
          /\ inst' = [inst EXCEPT ![c] = "returned"]
      BY <2>2 DEF OneShotReturns, ReadyInv
    <3>2. AttachedInv'
      BY <1>0, <3>1 DEF ReadyInv, AttachedInv, SteadyCalls, TypeOK
    <3>3. \A b \in Agents : b # a => status'[b] = status[b]
      BY <1>0, <3>1 DEF PublishStatus, TypeOK
    <3> HIDE DEF a
    <3>4. ReadyIsReachable'
      BY <3>1, <3>3 DEF ReadyInv, ReadyIsReachable, Steady
    <3> QED
      BY <3>2, <3>4
  <2>3. CASE TaskReturns(c) \/ TaskCrashes(c) \/ HandleTaskCrash(c) \/ OneShotFails(c)
    <3>1. /\ status' = status \/ PublishStatus(a, "failed")
          /\ handler' = handler
          /\ \E x \in {"returned", "crashed", "buried", "cancelled"} :
                inst' = [inst EXCEPT ![c] = x]
      BY <2>3 DEF TaskReturns, TaskCrashes, HandleTaskCrash, OneShotFails
    <3>2. \A d \in Calls : inst'[d] = "attached" => inst[d] = "attached"
      BY <1>0, <3>1 DEF TypeOK
    <3> QED
      BY <1>0, <2>0, <3>1, <3>2, FrameReady DEF States, SteadyCalls
  <2>4. CASE Attach(c)
    <3>1. /\ status' = status
          /\ handler' = [handler EXCEPT ![a] = c]
          /\ inst' = [inst EXCEPT ![c] = "attached"]
      BY <2>4 DEF Attach
    <3>2. handler'[a] # None /\ \A d \in Calls : inst'[d] = "attached" /\ d # c
                                                  => inst[d] = "attached"
      BY <1>0, <3>1 DEF TypeOK
    <3> QED
      BY <1>0, <2>0, <3>1, <3>2, FrameReady DEF SteadyCalls
  <2> QED
    BY <1>4, <2>1, <2>2, <2>3, <2>4 DEF InstStep
<1>5. ASSUME NEW s \in Stops, StopStep(s) PROVE Good
  <2> DEFINE a == Stopping(s)
  <2>0. a \in Agents /\ \A t \in Agents : tasks[t] \in Calls \cup {None}
    BY <1>0 DEF TypeOK, Stopping
  <2>1. CASE Detach(s) /\ tasks[a] # None /\ Live(tasks[a])
    <3>1. UNCHANGED <<status, handler>> /\ inst' = [inst EXCEPT ![tasks[a]] = "cancelled"]
      BY <2>1 DEF Detach
    <3>2. \A d \in Calls : inst'[d] = "attached" => inst[d] = "attached"
      BY <1>0, <2>0, <2>1, <3>1 DEF TypeOK
    <3> QED
      BY <1>0, <2>0, <3>1, <3>2, FrameReady DEF SteadyCalls
  <2>2. ASSUME PublishStatus(a, "stopped"), handler' = [handler EXCEPT ![a] = None],
               inst' = inst,
               \A c \in SteadyCalls : Target[c] = a /\ Mode[a] = "persistent"
                                         => inst[c] # "attached"
        PROVE  Good
    <3>1. \A b \in Agents : b # a => status'[b] = status[b] /\ handler'[b] = handler[b]
      BY <1>0, <2>2 DEF PublishStatus, TypeOK
    <3>2. status'[a] = "stopped"
      BY <1>0, <2>0, <2>2 DEF PublishStatus, TypeOK
    <3> HIDE DEF a
    <3>3. ReadyIsReachable'
      BY <3>1, <3>2 DEF ReadyInv, ReadyIsReachable, Steady
    <3>4. AttachedInv'
      BY <2>2, <3>1 DEF ReadyInv, AttachedInv, SteadyCalls
    <3> QED
      BY <3>3, <3>4
  <2>3. CASE Detach(s) /\ (tasks[a] = None \/ ~Live(tasks[a]))
    <3>1. ASSUME NEW c \in SteadyCalls, Target[c] = a, Mode[a] = "persistent",
                 inst[c] = "attached"
          PROVE  FALSE
      <4>1. Live(c) /\ c \in Calls
        BY <3>1 DEF Live, Starting, SteadyCalls
      <4>2. tasks[a] = c
        BY <3>1, <4>1 DEF StopInv, LiveIsTracked
      <4> QED
        BY <1>0, <2>3, <4>1, <4>2
    <3> QED
      BY <2>2, <2>3, <3>1 DEF Detach
  <2>4. CASE MarkStopped(s)
    <3>1. ASSUME NEW c \in SteadyCalls, Target[c] = a, inst[c] = "attached" PROVE FALSE
      <4>1. a \in Steady /\ c \in Calls /\ Joining(a)
        BY <2>4, <3>1 DEF SteadyCalls, Joining, MarkStopped
      <4>2. Held(a)
        BY <4>1 DEF StopInv
      <4> QED
        BY <3>1, <4>1, <4>2 DEF Held, Unsettled, Live, Starting
    <3> QED
      BY <2>2, <2>4, <3>1 DEF MarkStopped
  <2>5. CASE CallHook(s) \/ StopEnds(s)
    <3>1. UNCHANGED <<status, handler, inst>>
      BY <2>5 DEF CallHook, StopEnds
    <3> QED
      BY <1>0, <2>0, <3>1, FrameReady
  <2> QED
    BY <1>5, <2>1, <2>3, <2>4, <2>5 DEF StopStep
<1>6. ASSUME UNCHANGED <<status, handler, inst>> PROVE Good
  BY <1>6 DEF ReadyInv, ReadyIsReachable, AttachedInv
<1>7. Good
  BY <1>3, <1>4, <1>5, <1>6 DEF Next, LoaderStep, ClientCalls, Begin, StopBegins,
                                Delivered, Finished, loaderVars
<1>8. ASSUME NEW d \in Calls, call'[d] = "oneshot" PROVE Mode[Target[d]] = "oneshot"
  <2>1. CASE call[d] = "oneshot"
    BY <2>1 DEF ReadyInv
  <2>2. ASSUME Start(d) PROVE Mode[Target[d]] = "oneshot"
    <3>1. \/ Mode[Target[d]] = "oneshot"
          \/ \E l \in {"wait", "logging", "done", "failing"} : call' = [call EXCEPT ![d] = l]
      BY <1>0, <2>2, StartMode
    <3> QED
      BY <1>0, <1>8, <3>1 DEF TypeOK
  <2>3. ASSUME NEW c \in Calls, CallStep(c) \/ InstStep(c), c # d
        PROVE  Mode[Target[d]] = "oneshot"
    BY <1>8, <2>1, <2>3, OtherAgents
  <2>4. CASE CallStep(d)
    BY <1>0, <1>8, <2>1, <2>2, <2>4 DEF CallStep, Acquire, DepsReady, DepsFailed, Wake,
                                        ReadyTimeout, Return, Raise, TypeOK
  <2>5. CASE InstStep(d)
    BY <1>0, <1>8, <2>1, <2>5 DEF InstStep, Attach, Ready, TaskReturns, TaskCrashes,
                                  HandleTaskCrash, OneShotReturns, OneShotFails, TypeOK
  <2>6. ASSUME NEW s \in Stops, StopStep(s) PROVE Mode[Target[d]] = "oneshot"
    BY <1>0, <1>8, <2>1, <2>6 DEF StopStep, CallHook, Detach, MarkStopped, StopEnds,
                                  TypeOK
  <2>7. ASSUME NEW c \in Calls, ClientCalls(c) PROVE Mode[Target[d]] = "oneshot"
    BY <1>0, <1>8, <2>1, <2>7 DEF ClientCalls, Begin, TypeOK
  <2> QED
    BY <1>8, <2>1, <2>3, <2>4, <2>5, <2>6, <2>7 DEF Next, LoaderStep, StopBegins,
                                                    Delivered, Finished, loaderVars
<1> QED
  BY <1>7, <1>8 DEF ReadyInv

\* A steady agent that registers a handler can be sent to whenever it is published as
\* ready, whatever calls for it and whatever stop or restart overlap with its start,
\* and whatever becomes of other agents.
THEOREM ReadyHasHandler == Spec => []ReadyIsReachable
<1>1. Init => ReadyInv
  BY DEF Init, ReadyInv, ReadyIsReachable, AttachedInv, Steady, SteadyCalls
<1>2. IInv /\ OneInv /\ StopInv /\ ReadyInv /\ [Next]_loaderVars => ReadyInv'
  BY StepReadyInv
<1>3. ReadyInv => ReadyIsReachable
  BY DEF ReadyInv
<1> QED
  BY <1>1, <1>2, <1>3, OneInvariant, PTL DEF Spec

HIDE LoaderAssumption

-----------------------------------------------------------------------------
(* The supervisor is a client of the loader. *)

\* A step of the supervisor is a step of the loader or leaves the loader alone.
LEMMA SupStepIsLoaderStep == [SupNext]_allVars => [Next]_loaderVars
<1> SUFFICES ASSUME [SupNext]_allVars PROVE [Next]_loaderVars
  OBVIOUS
<1>1. ASSUME NEW a \in Agents, Unheard(a) \/ OnStateChange(a) PROVE Next
  BY <1>1 DEF Unheard, OnStateChange, Next
<1>2. ASSUME NEW h \in Heals, NEW busy, TryRestart(h, busy) PROVE Next
  BY <1>2, SupervisorAssumption DEF TryRestart, Next
<1>3. ASSUME NEW h \in Heals, HealStep(h) PROVE [Next]_loaderVars
  BY <1>2, <1>3 DEF HealStep, ScheduleRestart, Attempt, GiveUp, AttemptEnds, ScanHealed
<1>4. ASSUME NEW a \in Agents, Scan(a) PROVE [Next]_loaderVars
  BY <1>2, <1>4 DEF Scan, GiveUp, HealsAt
<1>5. CASE Install \/ Report \/ Reset \/ Tick
  BY <1>5 DEF Install, Report, Reset, Tick
<1>6. CASE SupNext
  BY <1>1, <1>3, <1>4, <1>5, <1>6 DEF SupNext, Next
<1>7. CASE UNCHANGED allVars
  BY <1>7 DEF allVars
<1> QED
  BY <1>6, <1>7

\* Whatever the supervisor does, and however its restarts overlap with other calls and
\* stops, the loader behaves as its own specification says.
THEOREM SupervisorUsesLoader == SupSpec => Spec
<1>1. SupInit => Init
  BY DEF SupInit
<1> QED
  BY <1>1, SupStepIsLoaderStep, PTL DEF SupSpec, Spec

-----------------------------------------------------------------------------
(* The budget. *)

\* What is kept of the attempts is their end: the rest fell out of the window.
Kept(a, k) ==
    /\ k \in 0..Len(attempts[a])
    /\ restarts[a] = SubSeq(attempts[a], k + 1, Len(attempts[a]))
    /\ \A j \in 1..k : attempts[a][j] + Window < now

BudgetInv ==
    /\ now \in Nat /\ giveups \in [Agents -> Nat]
    /\ attempts \in [Agents -> Seq(Nat)] /\ restarts \in [Agents -> Seq(Nat)]
    /\ \A a \in Agents : \A i, j \in 1..Len(attempts[a]) :
          i <= j => attempts[a][i] <= attempts[a][j] /\ attempts[a][j] <= now
    /\ \A a \in Agents : \E k \in Nat : Kept(a, k)
    /\ RestartBudget

\* A non-empty set of naturals has a least member.
LEMMA LeastNat ==
  ASSUME NEW T \in SUBSET Nat, T # {}
  PROVE  \E x \in T : \A y \in T : x <= y
<1>1. PICK x \in T : \A y \in T : ~(<<y, x>> \in OpToRel(<, Nat))
  BY NatLessThanWellFounded, WFMin
<1>2. \A y \in T : ~(y < x)
  BY <1>1 DEF OpToRel
<1> QED
  BY <1>2

\* The elements of a suffix.
LEMMA SuffixProperties ==
  ASSUME NEW s \in Seq(Nat), NEW k \in 0..Len(s)
  PROVE  LET r == SubSeq(s, k + 1, Len(s)) IN
         r \in Seq(Nat) /\ Len(r) = Len(s) - k /\ \A j \in 1..Len(r) : r[j] = s[k + j]
<1> DEFINE r == SubSeq(s, k + 1, Len(s))
<1>1. k + 1 \in Int /\ Len(s) \in Int /\ \A i \in (k + 1)..Len(s) : s[i] \in Nat
  OBVIOUS
<1>2. /\ r \in Seq(Nat)
      /\ Len(r) = IF k + 1 <= Len(s) THEN Len(s) - (k + 1) + 1 ELSE 0
      /\ \A j \in 1..(Len(s) - (k + 1) + 1) : r[j] = s[(k + 1) + j - 1]
  BY <1>1, SubSeqProperties
<1> HIDE DEF r
<1>3. Len(r) = Len(s) - k /\ Len(s) - (k + 1) + 1 = Len(r)
  BY <1>2
<1>4. \A j \in 1..Len(r) : (k + 1) + j - 1 = k + j
  BY <1>3
<1>5. r \in Seq(Nat) /\ Len(r) = Len(s) - k /\ \A j \in 1..Len(r) : r[j] = s[k + j]
  BY <1>2, <1>3, <1>4
<1> QED
  BY <1>5 DEF r

\* _prune pops a prefix, all of it out of the window, and stops at the first time
\* that is not.
LEMMA PruneStops ==
  ASSUME NEW s \in Seq(Nat), now \in Nat
  PROVE  \E n \in 0..Len(s) :
            /\ Prune(s) = SubSeq(s, n + 1, Len(s))
            /\ \A j \in 1..n : s[j] + Window < now
            /\ n < Len(s) => s[n + 1] + Window >= now
<1> DEFINE Stop(n) == /\ \A j \in 1..n : s[j] + Window < now
                      /\ n < Len(s) => s[n + 1] + Window >= now
           Recent == {j \in 1..Len(s) : s[j] + Window >= now}
<1>1. \A j \in 1..Len(s) : s[j] + Window < now \/ s[j] + Window >= now
  BY SupervisorAssumption
<1>2. \E n \in 0..Len(s) : Stop(n)
  <2>1. CASE Recent = {}
    <3>1. \A j \in 1..Len(s) : s[j] + Window < now
      BY <2>1, <1>1
    <3> QED
      BY <3>1
  <2>2. CASE Recent # {}
    <3>1. Recent \in SUBSET Nat
      OBVIOUS
    <3> HIDE DEF Recent
    <3>2. PICK x \in Recent : \A y \in Recent : x <= y
      BY <2>2, <3>1, LeastNat
    <3> USE DEF Recent
    <3>3. x - 1 \in 0..Len(s) /\ (x - 1) + 1 = x
      BY <3>2
    <3>4. \A j \in 1..(x - 1) : j \in 1..Len(s) /\ j \notin Recent
      BY <3>2
    <3>5. \A j \in 1..(x - 1) : s[j] + Window < now
      BY <1>1, <3>4
    <3> QED
      BY <3>2, <3>3, <3>5
  <2> QED
    BY <2>1, <2>2
<1> DEFINE n == CHOOSE m \in 0..Len(s) : Stop(m)
<1>3. n \in 0..Len(s) /\ Stop(n)
  BY <1>2
<1>4. Prune(s) = SubSeq(s, n + 1, Len(s))
  BY DEF Prune
<1> HIDE DEF n
<1> QED
  BY <1>3, <1>4

\* What is left after _prune is the attempts in the window, and those only.
LEMMA PruneKept ==
  ASSUME BudgetInv, NEW a \in Agents
  PROVE  \E k \in 0..Len(attempts[a]) :
            /\ Prune(restarts[a]) = SubSeq(attempts[a], k + 1, Len(attempts[a]))
            /\ \A j \in 1..k : attempts[a][j] + Window < now
            /\ \A j \in (k + 1)..Len(attempts[a]) : attempts[a][j] + Window >= now
<1> DEFINE s == attempts[a]
           r == restarts[a]
<1>1. /\ s \in Seq(Nat) /\ r \in Seq(Nat) /\ now \in Nat
      /\ \A i, j \in 1..Len(s) : i <= j => s[i] <= s[j]
  BY DEF BudgetInv
<1>2. \E k \in 0..Len(s) : r = SubSeq(s, k + 1, Len(s)) /\ \A j \in 1..k : s[j] + Window < now
  BY DEF BudgetInv, Kept
<1> HIDE DEF s, r
<1>3. PICK k \in 0..Len(s) : r = SubSeq(s, k + 1, Len(s)) /\ \A j \in 1..k : s[j] + Window < now
  BY <1>2
<1>4. PICK n \in 0..Len(r) :
         /\ Prune(r) = SubSeq(r, n + 1, Len(r))
         /\ \A j \in 1..n : r[j] + Window < now
         /\ n < Len(r) => r[n + 1] + Window >= now
  BY <1>1, PruneStops
<1>5. Len(s) \in Nat /\ \A j \in 1..Len(s) : s[j] \in Nat
  BY <1>1
<1>6. Len(r) = Len(s) - k /\ \A j \in 1..Len(r) : r[j] = s[k + j]
  BY <1>1, <1>3, SuffixProperties
<1>7. k + n \in 0..Len(s)
  BY <1>3, <1>4, <1>5, <1>6
<1>8. Prune(r) = SubSeq(s, (k + n) + 1, Len(s))
  <2> DEFINE u == SubSeq(r, n + 1, Len(r))
             v == SubSeq(s, (k + n) + 1, Len(s))
  <2>1. u \in Seq(Nat) /\ Len(u) = Len(r) - n /\ \A j \in 1..Len(u) : u[j] = r[n + j]
    BY <1>1, <1>4, SuffixProperties
  <2>2. /\ v \in Seq(Nat) /\ Len(v) = Len(s) - (k + n)
        /\ \A j \in 1..Len(v) : v[j] = s[(k + n) + j]
    BY <1>1, <1>7, SuffixProperties
  <2> HIDE DEF u, v
  <2>3. Len(u) = Len(v)
    BY <1>3, <1>4, <1>5, <1>6, <2>1, <2>2
  <2>4. ASSUME NEW j \in 1..Len(u) PROVE u[j] = v[j]
    <3>1. n + j \in 1..Len(r) /\ k + (n + j) = (k + n) + j
      BY <1>3, <1>4, <1>5, <1>6, <2>1
    <3> QED
      BY <1>6, <2>1, <2>2, <2>3, <3>1
  <2>5. u = v
    BY <2>1, <2>2, <2>3, <2>4, SeqEqual
  <2> QED
    BY <1>4, <2>5 DEF u, v
<1>9. \A j \in 1..(k + n) : s[j] + Window < now
  <2>1. ASSUME NEW j \in 1..(k + n), ~(j \in 1..k) PROVE s[j] + Window < now
    <3>1. j - k \in 1..n /\ j - k \in 1..Len(r) /\ k + (j - k) = j
      BY <1>3, <1>4, <1>5, <1>6, <2>1
    <3> QED
      BY <1>4, <1>6, <3>1
  <2> QED
    BY <1>3, <2>1
<1>10. \A j \in ((k + n) + 1)..Len(s) : s[j] + Window >= now
  <2>1. SUFFICES ASSUME NEW j \in ((k + n) + 1)..Len(s) PROVE s[j] + Window >= now
    OBVIOUS
  <2>2. /\ n < Len(r) /\ n + 1 \in 1..Len(r) /\ k + (n + 1) <= j
        /\ k + (n + 1) \in 1..Len(s) /\ j \in 1..Len(s)
    BY <1>3, <1>4, <1>5, <1>6, <2>1
  <2>3. s[k + (n + 1)] + Window >= now /\ s[k + (n + 1)] <= s[j]
    BY <1>1, <1>4, <1>6, <2>2
  <2>4. s[k + (n + 1)] \in Nat /\ s[j] \in Nat /\ Window \in Nat /\ now \in Nat
    BY <1>1, <1>5, <2>2, SupervisorAssumption
  <2> QED
    BY <2>3, <2>4
<1> QED
  BY <1>7, <1>8, <1>9, <1>10 DEF s, r

LEMMA InitBudgetInv == SupInit => BudgetInv
<1> SUFFICES ASSUME SupInit PROVE BudgetInv
  OBVIOUS
<1>1. <<>> \in Seq(Nat) /\ Len(<<>>) = 0 /\ SubSeq(<<>>, 0 + 1, 0) = <<>>
  BY EmptySeq, SubSeqEmpty
<1>2. now \in Nat /\ giveups \in [Agents -> Nat]
  BY DEF SupInit
<1>3. attempts \in [Agents -> Seq(Nat)] /\ restarts \in [Agents -> Seq(Nat)]
  BY <1>1 DEF SupInit
<1>4. \A a \in Agents : attempts[a] = <<>> /\ restarts[a] = <<>>
  BY DEF SupInit
<1>5. \A a \in Agents : Kept(a, 0)
  <2>1. SUFFICES ASSUME NEW a \in Agents PROVE Kept(a, 0)
    OBVIOUS
  <2>2. Len(attempts[a]) = 0 /\ SubSeq(attempts[a], 0 + 1, Len(attempts[a])) = restarts[a]
    BY <1>1, <1>4
  <2>3. 0 \in 0..Len(attempts[a]) /\ \A j \in 1..0 : attempts[a][j] + Window < now
    BY <2>2
  <2> QED
    BY <2>2, <2>3 DEF Kept
<1>6. RestartBudget
  BY <1>1, <1>4 DEF RestartBudget
<1> QED
  BY <1>1, <1>2, <1>3, <1>4, <1>5, <1>6 DEF BudgetInv

\* Steps that only prune: the attempts stay as they are.
LEMMA PruningBudgetInv ==
  ASSUME BudgetInv, attempts' = attempts, now' = now, giveups' \in [Agents -> Nat],
         restarts' \in [Agents -> Seq(Nat)],
         \A a \in Agents : restarts'[a] \in {restarts[a], Prune(restarts[a])}
  PROVE  BudgetInv'
<1>1. ASSUME NEW a \in Agents PROVE \E k \in Nat : Kept(a, k)'
  <2>1. CASE restarts'[a] = restarts[a]
    BY <2>1 DEF BudgetInv, Kept
  <2>2. CASE restarts'[a] = Prune(restarts[a])
    <3>1. Len(attempts[a]) \in Nat
      BY DEF BudgetInv
    <3>2. PICK k \in 0..Len(attempts[a]) :
             /\ Prune(restarts[a]) = SubSeq(attempts[a], k + 1, Len(attempts[a]))
             /\ \A j \in 1..k : attempts[a][j] + Window < now
      BY PruneKept
    <3>3. k \in Nat
      BY <3>1
    <3> QED
      BY <2>2, <3>2, <3>3 DEF Kept
  <2> QED
    BY <2>1, <2>2
<1> QED
  BY <1>1 DEF BudgetInv, RestartBudget

LEMMA PruneType ==
  ASSUME BudgetInv, NEW a \in Agents PROVE Prune(restarts[a]) \in Seq(Nat)
<1>1. restarts[a] \in Seq(Nat) /\ now \in Nat
  BY DEF BudgetInv
<1>2. PICK n \in 0..Len(restarts[a]) : Prune(restarts[a]) = SubSeq(restarts[a], n + 1, Len(restarts[a]))
  BY <1>1, PruneStops
<1> QED
  BY <1>1, <1>2, SuffixProperties

\* An attempt is made only within the budget of the window.
LEMMA TryRestartBudgetInv ==
  ASSUME BudgetInv, NEW h \in Heals, NEW busy, TryRestart(h, busy), now' = now
  PROVE  BudgetInv'
<1> DEFINE a == HealOf(h)
           s == attempts[a]
           recent == Prune(restarts[a])
<1>1. a \in Agents
  BY SupervisorAssumption, LoaderAssumption DEF HealOf
<1>2. /\ s \in Seq(Nat) /\ Len(s) \in Nat /\ now \in Nat /\ recent \in Seq(Nat)
      /\ MaxRestarts \in Nat /\ Window \in Nat
  BY <1>1, PruneType, SupervisorAssumption DEF BudgetInv
<1>3. /\ restarts' = [restarts EXCEPT ![a] = Append(recent, now)]
      /\ attempts' = [attempts EXCEPT ![a] = Append(s, now)]
      /\ giveups' = giveups /\ Len(recent) < MaxRestarts
  BY DEF TryRestart
<1>4. PICK k \in 0..Len(s) :
         /\ recent = SubSeq(s, k + 1, Len(s))
         /\ \A j \in 1..k : s[j] + Window < now
  BY <1>1, PruneKept
<1>5. \A j \in 1..Len(s) : s[j] \in Nat /\ s[j] <= now
  BY <1>1, <1>2 DEF BudgetInv
<1> DEFINE L == Len(s) + 1
           t == Append(s, now)
<1>6. /\ t \in Seq(Nat) /\ Len(t) = L /\ t[L] = now
      /\ \A j \in 1..Len(s) : t[j] = s[j]
  BY <1>2, AppendProperties
<1>7. attempts'[a] = t /\ restarts'[a] = Append(recent, now)
  BY <1>1, <1>3 DEF BudgetInv
<1>8. \A b \in Agents : b # a => attempts'[b] = attempts[b] /\ restarts'[b] = restarts[b]
  BY <1>3 DEF BudgetInv
<1>9. attempts' \in [Agents -> Seq(Nat)] /\ restarts' \in [Agents -> Seq(Nat)]
  <2>1. Append(recent, now) \in Seq(Nat) /\ t \in Seq(Nat)
    BY <1>2, <1>6, AppendProperties
  <2> QED
    BY <1>3, <2>1 DEF BudgetInv
<1>10. Len(recent) = Len(s) - k /\ \A j \in 1..Len(recent) : recent[j] = s[k + j]
  BY <1>2, <1>4, <1>5, SuffixProperties
<1>L. L \in Nat /\ L = Len(s) + 1 /\ k \in Nat /\ k <= Len(s)
  BY <1>2
<1> HIDE DEF a, s, recent, t, L
<1>11. Kept(a, k)'
  <2>1. SubSeq(t, k + 1, L) = Append(recent, now)
    <3> DEFINE u == SubSeq(t, k + 1, L)
               v == Append(recent, now)
    <3>1. u \in Seq(Nat) /\ Len(u) = L - k /\ \A j \in 1..Len(u) : u[j] = t[k + j]
      <4>1. k \in 0..Len(t) /\ Len(t) = L
        BY <1>2, <1>L, <1>6
      <4> QED
        BY <1>6, <4>1, SuffixProperties
    <3>2. /\ v \in Seq(Nat) /\ Len(v) = Len(recent) + 1 /\ v[Len(recent) + 1] = now
          /\ \A j \in 1..Len(recent) : v[j] = recent[j]
      BY <1>2, AppendProperties
    <3>3. Len(v) = Len(u)
      BY <1>2, <1>L, <1>10, <3>1, <3>2
    <3>4. ASSUME NEW j \in 1..Len(u) PROVE u[j] = v[j]
      <4>1. CASE j = Len(recent) + 1
        <5>1. k + j = L
          BY <1>2, <1>L, <1>10, <4>1
        <5> QED
          BY <1>6, <3>1, <3>2, <4>1, <5>1
      <4>2. CASE j # Len(recent) + 1
        <5>1. j \in 1..Len(recent)
          <6>1. Len(recent) \in Nat
            BY <1>2
          <6> HIDE DEF u, v
          <6>2. Len(u) = Len(recent) + 1
            BY <3>2, <3>3
          <6> QED
            BY <4>2, <6>1, <6>2
        <5>2. k + j \in 1..Len(s)
          BY <1>L, <1>10, <5>1
        <5>3. u[j] = t[k + j] /\ t[k + j] = s[k + j] /\ recent[j] = s[k + j] /\ v[j] = recent[j]
          BY <1>6, <1>10, <3>1, <3>2, <5>1, <5>2
        <5> QED
          BY <5>3
      <4> QED
        BY <4>1, <4>2
    <3> HIDE DEF u, v
    <3>5. u = v
      BY <3>1, <3>2, <3>3, <3>4, SeqEqual
    <3> QED
      BY <3>5 DEF u, v
  <2>2. k \in 0..Len(t) /\ \A j \in 1..k : t[j] + Window < now
    <3>1. k \in 0..Len(t)
      BY <1>L, <1>6
    <3>2. ASSUME NEW j \in 1..k PROVE t[j] + Window < now
      <4>1. j \in 1..Len(s)
        BY <1>L
      <4> QED
        BY <1>4, <1>6, <4>1
    <3> QED
      BY <3>1, <3>2
  <2> QED
    BY <1>6, <1>7, <2>1, <2>2 DEF Kept
<1>12. \A b \in Agents : \E i \in Nat : Kept(b, i)'
  <2>1. ASSUME NEW b \in Agents, b # a PROVE \E i \in Nat : Kept(b, i)'
    BY <1>8, <2>1 DEF BudgetInv, Kept
  <2>2. k \in Nat
    BY <1>2
  <2> QED
    BY <1>11, <2>1, <2>2
<1>13. \A b \in Agents : \A i, j \in 1..Len(attempts'[b]) :
          i <= j => attempts'[b][i] <= attempts'[b][j] /\ attempts'[b][j] <= now
  <2>1. ASSUME NEW i \in 1..L, NEW j \in 1..L, i <= j PROVE t[i] <= t[j] /\ t[j] <= now
    <3>1. CASE j = L
      <4>1. CASE i = L
        BY <1>2, <1>6, <3>1, <4>1
      <4>2. CASE i # L
        <5>1. i \in 1..Len(s)
          BY <1>L, <4>2
        <5>2. t[i] = s[i] /\ s[i] <= now /\ now <= now
          BY <1>2, <1>5, <1>6, <5>1
        <5> QED
          BY <1>6, <3>1, <5>2
      <4> QED
        BY <4>1, <4>2
    <3>2. CASE j # L
      <4>1. i \in 1..Len(s) /\ j \in 1..Len(s)
        BY <1>2, <1>L, <2>1, <3>2
      <4>2. s[i] <= s[j] /\ s[j] <= now
        BY <1>1, <2>1, <4>1 DEF BudgetInv, s
      <4> QED
        BY <1>6, <4>1, <4>2
    <3> QED
      BY <3>1, <3>2
  <2>2. ASSUME NEW b \in Agents, b # a, NEW i \in 1..Len(attempts'[b]), NEW j \in 1..Len(attempts'[b]), i <= j
        PROVE attempts'[b][i] <= attempts'[b][j] /\ attempts'[b][j] <= now
    BY <1>8, <2>2 DEF BudgetInv
  <2> QED
    BY <1>6, <1>7, <2>1, <2>2
<1>14. RestartBudget'
  <2>1. ASSUME NEW i \in 1..L, i + MaxRestarts <= L PROVE t[i + MaxRestarts] - t[i] > Window
    <3>1. CASE i + MaxRestarts = L
      <4>1. i \in 1..k
        BY <1>2, <1>L, <1>3, <1>4, <1>10, <3>1
      <4>2. i \in 1..Len(s) /\ s[i] + Window < now /\ s[i] \in Nat
        BY <1>2, <1>L, <1>4, <1>5, <4>1
      <4> QED
        <5>1. t[i + MaxRestarts] = now /\ t[i] = s[i]
          BY <1>6, <3>1, <4>2
        <5>2. now - s[i] > Window
          BY <1>2, <4>2
        <5> QED
          BY <5>1, <5>2
    <3>2. CASE i + MaxRestarts # L
      <4>1. i \in 1..Len(s) /\ i + MaxRestarts \in 1..Len(s) /\ i + MaxRestarts <= Len(s)
        BY <1>2, <1>L, <2>1, <3>2
      <4>2. s[i + MaxRestarts] - s[i] > Window
        BY <1>1, <4>1 DEF BudgetInv, RestartBudget, s
      <4> QED
        BY <1>6, <4>1, <4>2
    <3> QED
      BY <3>1, <3>2
  <2>2. ASSUME NEW b \in Agents, b # a, NEW i \in 1..Len(attempts'[b]), i + MaxRestarts <= Len(attempts'[b])
        PROVE attempts'[b][i + MaxRestarts] - attempts'[b][i] > Window
    BY <1>8, <2>2 DEF BudgetInv, RestartBudget
  <2> QED
    BY <1>6, <1>7, <2>1, <2>2 DEF RestartBudget
<1> QED
  BY <1>3, <1>9, <1>12, <1>13, <1>14 DEF BudgetInv

\* Every step of the supervisor keeps the window.
LEMMA StepBudgetInv == BudgetInv /\ [SupNext]_allVars => BudgetInv'
<1> SUFFICES ASSUME BudgetInv, [SupNext]_allVars PROVE BudgetInv'
  OBVIOUS
<1>0. /\ now \in Nat /\ giveups \in [Agents -> Nat]
      /\ restarts \in [Agents -> Seq(Nat)] /\ attempts \in [Agents -> Seq(Nat)]
  BY DEF BudgetInv
<1>1. CASE UNCHANGED <<restarts, giveups, now, attempts>>
  BY <1>0, <1>1, PruningBudgetInv
<1>2. ASSUME NEW h \in Heals, GiveUp(h), now' = now PROVE BudgetInv'
  <2>1. HealOf(h) \in Agents
    BY SupervisorAssumption, LoaderAssumption DEF HealOf
  <2>2. restarts' \in [Agents -> Seq(Nat)] /\ giveups' \in [Agents -> Nat]
    BY <1>0, <1>2, <2>1, PruneType DEF GiveUp
  <2>3. \A a \in Agents : restarts'[a] \in {restarts[a], Prune(restarts[a])}
    BY <1>0, <1>2, <2>1 DEF GiveUp
  <2>4. attempts' = attempts
    BY <1>2 DEF GiveUp
  <2> QED
    BY <1>2, <2>2, <2>3, <2>4, PruningBudgetInv
<1>3. ASSUME NEW a \in Agents, Scan(a) PROVE BudgetInv'
  BY <1>0, <1>1, <1>2, <1>3, TryRestartBudgetInv DEF Scan, HealsAt
<1>4. ASSUME NEW h \in Heals, HealStep(h) PROVE BudgetInv'
  <2>1. CASE Attempt(h)
    BY <1>2, <2>1, TryRestartBudgetInv DEF Attempt
  <2>2. CASE ~Attempt(h)
    BY <1>1, <1>4, <2>2 DEF HealStep, ScheduleRestart, AttemptEnds, ScanHealed
  <2> QED
    BY <2>1, <2>2
<1>5. CASE Report
  <2>1. restarts' \in [Agents -> Seq(Nat)]
    BY <1>5, PruneType DEF Report
  <2>2. \A a \in Agents : restarts'[a] \in {restarts[a], Prune(restarts[a])}
    BY <1>5 DEF Report
  <2>3. UNCHANGED <<giveups, now, attempts>>
    BY <1>5 DEF Report
  <2> QED
    BY <1>0, <2>1, <2>2, <2>3, PruningBudgetInv
<1>6. CASE Reset
  <2>1. <<>> \in Seq(Nat) /\ Len(<<>>) = 0 /\ SubSeq(<<>>, 0 + 1, 0) = <<>>
    BY EmptySeq, SubSeqEmpty
  <2>2. \A a \in Agents : attempts'[a] = <<>> /\ restarts'[a] = <<>>
    BY <1>6 DEF Reset
  <2>3. /\ now' = now /\ giveups' \in [Agents -> Nat]
        /\ attempts' \in [Agents -> Seq(Nat)] /\ restarts' \in [Agents -> Seq(Nat)]
    BY <1>6, <2>1 DEF Reset
  <2>4. ASSUME NEW a \in Agents PROVE Kept(a, 0)'
    <3>1. Len(attempts'[a]) = 0 /\ SubSeq(attempts'[a], 0 + 1, Len(attempts'[a])) = restarts'[a]
      BY <2>1, <2>2
    <3>2. 0 \in 0..Len(attempts'[a]) /\ \A j \in 1..0 : attempts'[a][j] + Window < now'
      BY <3>1
    <3> QED
      BY <3>1, <3>2 DEF Kept
  <2>5. RestartBudget'
    BY <2>1, <2>2 DEF RestartBudget
  <2> QED
    BY <1>0, <2>1, <2>2, <2>3, <2>4, <2>5 DEF BudgetInv
<1>7. CASE Tick
  <2>1. now' = now + 1 /\ UNCHANGED <<restarts, giveups, attempts>>
    BY <1>7 DEF Tick
  <2>2. ASSUME NEW a \in Agents, NEW j \in 1..Len(attempts[a]) PROVE attempts[a][j] \in Nat
    BY <1>0
  <2>3. ASSUME NEW a \in Agents PROVE \E k \in Nat : Kept(a, k)'
    <3>1. PICK k \in Nat : Kept(a, k)
      BY DEF BudgetInv
    <3>2. \A j \in 1..k : attempts[a][j] + Window < now + 1
      <4>1. ASSUME NEW j \in 1..k PROVE attempts[a][j] + Window < now + 1
        <5>1. k <= Len(attempts[a]) /\ Len(attempts[a]) \in Nat
          BY <1>0, <3>1 DEF Kept
        <5>2. attempts[a][j] \in Nat /\ Window \in Nat
          BY <2>2, <5>1, SupervisorAssumption
        <5>3. attempts[a][j] + Window < now
          BY <3>1 DEF Kept
        <5> QED
          BY <1>0, <5>2, <5>3
      <4> QED
        BY <4>1
    <3> QED
      BY <2>1, <3>1, <3>2 DEF Kept
  <2>4. ASSUME NEW a \in Agents, NEW i \in 1..Len(attempts[a]), NEW j \in 1..Len(attempts[a]), i <= j
        PROVE  attempts[a][i] <= attempts[a][j] /\ attempts[a][j] <= now + 1
    <3>1. attempts[a][i] <= attempts[a][j] /\ attempts[a][j] <= now
      BY <2>4 DEF BudgetInv
    <3> QED
      BY <1>0, <2>2, <3>1
  <2>5. RestartBudget'
    BY <2>1 DEF BudgetInv, RestartBudget
  <2> QED
    BY <1>0, <2>1, <2>3, <2>4, <2>5 DEF BudgetInv
<1>8. CASE SupNext
  BY <1>1, <1>3, <1>4, <1>5, <1>6, <1>7, <1>8
  DEF SupNext, supVars, Unheard, OnStateChange, Install
<1>9. CASE UNCHANGED allVars
  BY <1>1, <1>9 DEF allVars, supVars
<1> QED
  BY <1>8, <1>9

LEMMA BudgetKept == SupSpec => []BudgetInv
BY InitBudgetInv, StepBudgetInv, PTL DEF SupSpec

\* No agent is restarted more than MaxRestarts times in a window, by the scan and any
\* number of tasks together, although each of them slides the window only when it looks.
THEOREM Budgeted == SupSpec => []RestartBudget
<1>1. BudgetInv => RestartBudget
  BY DEF BudgetInv
<1> QED
  BY <1>1, BudgetKept, PTL

\* The supervisor gives up on an agent only when it has restarted it MaxRestarts times
\* within the window that ends now.
THEOREM GivesUpOnlyWhenSpent == SupSpec => GiveUpIsEarned
<1>1. ASSUME BudgetInv, NEW h \in Heals, GiveUp(h),
             NEW a \in Agents, giveups'[a] > giveups[a]
      PROVE  Cardinality({i \in DOMAIN attempts[a] : attempts[a][i] + Window >= now}) >= MaxRestarts
  <2> DEFINE s == attempts[a]
             recent == {i \in DOMAIN s : s[i] + Window >= now}
  <2>1. a = HealOf(h)
    BY <1>1 DEF GiveUp, BudgetInv
  <2>2. s \in Seq(Nat) /\ MaxRestarts \in Nat /\ Len(Prune(restarts[a])) >= MaxRestarts
    BY <1>1, <2>1, SupervisorAssumption DEF BudgetInv, GiveUp
  <2>3. PICK k \in 0..Len(s) :
           /\ Prune(restarts[a]) = SubSeq(s, k + 1, Len(s))
           /\ \A j \in (k + 1)..Len(s) : s[j] + Window >= now
    BY <1>1, PruneKept
  <2>4. Len(Prune(restarts[a])) = Len(s) - k
    BY <2>2, <2>3, SuffixProperties
  <2>5. Len(s) \in Nat /\ DOMAIN s = 1..Len(s) /\ k \in Nat
    BY <2>2
  <2> HIDE DEF s
  <2>6. (k + 1)..Len(s) \subseteq recent /\ recent \subseteq 1..Len(s)
    BY <2>3, <2>5
  <2>7. /\ IsFiniteSet(1..Len(s))
        /\ Cardinality((k + 1)..Len(s)) = IF k + 1 > Len(s) THEN 0 ELSE Len(s) - (k + 1) + 1
    <3>1. 1 \in Int /\ Len(s) \in Int /\ k + 1 \in Int
      BY <2>5
    <3> QED
      BY <3>1, FS_Interval
  <2>8. /\ IsFiniteSet(recent) /\ Cardinality((k + 1)..Len(s)) <= Cardinality(recent)
        /\ Cardinality((k + 1)..Len(s)) >= MaxRestarts
    <3> HIDE DEF recent
    <3>1. IsFiniteSet(recent) /\ Cardinality((k + 1)..Len(s)) <= Cardinality(recent)
      BY <2>6, <2>7, FS_Subset
    <3>2. Cardinality((k + 1)..Len(s)) >= MaxRestarts
      BY <2>2, <2>4, <2>5, <2>7
    <3> QED
      BY <3>1, <3>2
  <2>9. Cardinality((k + 1)..Len(s)) \in Nat /\ Cardinality(recent) \in Nat
    BY <2>2, <2>4, <2>5, <2>7, <2>8, FS_CardinalityType
  <2>10. Cardinality(recent) >= MaxRestarts
    BY <2>2, <2>8, <2>9
  <2> QED
    BY <2>10 DEF s
<1>2. ASSUME BudgetInv, SupNext, NEW a \in Agents, giveups'[a] > giveups[a]
      PROVE  \E h \in Heals : GiveUp(h)
  <2>1. giveups' # giveups
    BY <1>2 DEF BudgetInv
  <2>2. ~Reset
    BY <1>2 DEF Reset, BudgetInv
  <2>3. ASSUME NEW b \in Agents, Scan(b) PROVE \E h \in Heals : GiveUp(h)
    BY <2>1, <2>3 DEF Scan, HealsAt, TryRestart
  <2>4. ASSUME NEW h \in Heals, HealStep(h) PROVE \E g \in Heals : GiveUp(g)
    BY <2>1, <2>4 DEF HealStep, ScheduleRestart, Attempt, AttemptEnds, ScanHealed,
                      TryRestart
  <2> QED
    BY <1>2, <2>1, <2>2, <2>3, <2>4
    DEF SupNext, supVars, Unheard, OnStateChange, Install, Report, Tick
<1>3. BudgetInv /\ [SupNext]_allVars =>
        [\A a \in Agents : giveups'[a] > giveups[a] =>
            LET recent == {i \in DOMAIN attempts[a] : attempts[a][i] + Window >= now}
            IN Cardinality(recent) >= MaxRestarts]_allVars
  BY <1>1, <1>2
<1> QED
  BY <1>3, BudgetKept, PTL DEF SupSpec, GiveUpIsEarned

-----------------------------------------------------------------------------
(* Nothing falls between the subscription and the scan. *)

\* An agent in flight is there for a heal that has been scheduled, or was made.
SeenInv ==
    /\ heal \in [Heals -> {"free", "scheduled", "delay", "restarting", "scanning", "over"}]
    /\ inFlight \subseteq Agents
    /\ \A a \in inFlight : HealsAt(a, {"delay", "restarting", "scanning", "over"}) # {}
    /\ FirstFailureSeen

\* A step of the loader that fails an agent says so, and takes no notification back.
LEMMA FailureIsPublished ==
  ASSUME TypeOK, LoaderStep \/ (\E c \in Calls : ClientCalls(c)) \/ (\E s \in Stops : StopBegins(s)),
         NEW a \in Agents
  PROVE  /\ changes'[a] >= changes[a]
         /\ status'[a] = "failed" /\ status[a] # "failed" => changes'[a] > 0
<1> DEFINE Said == /\ changes'[a] >= changes[a]
                   /\ status'[a] = "failed" /\ status[a] # "failed" => changes'[a] > 0
<1>0. changes \in [Agents -> Nat] /\ status \in [Agents -> States]
  BY DEF TypeOK
<1>1. ASSUME UNCHANGED <<status, changes>> PROVE Said
  BY <1>0, <1>1
<1>2. ASSUME NEW b \in Agents, NEW state \in States, PublishStatus(b, state) PROVE Said
  BY <1>0, <1>2 DEF PublishStatus
<1> HIDE DEF Said
<1>3. ASSUME NEW c \in Calls, Start(c) PROVE Said
  <2>1. PICK state \in {"loading", "ready", "failed"} : PublishStatus(Target[c], state)
    BY <1>3, StartShape
  <2> QED
    BY <1>2, <2>1, LoaderAssumption DEF States
<1>4. ASSUME NEW c \in Calls, CallStep(c) PROVE Said
  <2>1. Target[c] \in Agents /\ "failed" \in States
    BY LoaderAssumption DEF States
  <2>2. CASE Acquire(c) \/ DepsReady(c)
    BY <1>1, <1>3, <2>2 DEF Acquire, DepsReady
  <2>3. CASE Wake(c) \/ ReadyTimeout(c)
    BY <1>1, <1>2, <2>1, <2>3 DEF Wake, ReadyTimeout
  <2>4. CASE DepsFailed(c) \/ Return(c) \/ Raise(c)
    BY <1>1, <2>4 DEF DepsFailed, Return, Raise
  <2> QED
    BY <1>4, <2>2, <2>3, <2>4 DEF CallStep
<1>5. ASSUME NEW c \in Calls, InstStep(c) PROVE Said
  <2>1. Target[c] \in Agents /\ "failed" \in States /\ "ready" \in States
    BY LoaderAssumption DEF States
  <2>2. CASE Attach(c) \/ TaskReturns(c) \/ TaskCrashes(c)
    BY <1>1, <2>2 DEF Attach, TaskReturns, TaskCrashes
  <2>3. CASE Ready(c) \/ HandleTaskCrash(c) \/ OneShotReturns(c) \/ OneShotFails(c)
    BY <1>1, <1>2, <2>1, <2>3 DEF Ready, HandleTaskCrash, OneShotReturns, OneShotFails
  <2> QED
    BY <1>5, <2>2, <2>3 DEF InstStep
<1>6. ASSUME NEW s \in Stops, StopStep(s) PROVE Said
  <2>1. Stopping(s) \in Agents /\ "stopped" \in States
    BY LoaderAssumption DEF TypeOK, Stopping, States
  <2>2. CASE CallHook(s) \/ StopEnds(s)
    BY <1>1, <2>2 DEF CallHook, StopEnds
  <2>3. CASE Detach(s) \/ MarkStopped(s)
    BY <1>1, <1>2, <2>1, <2>3 DEF Detach, MarkStopped
  <2> QED
    BY <1>6, <2>2, <2>3 DEF StopStep
<1>7. Said
  BY <1>1, <1>4, <1>5, <1>6 DEF LoaderStep, ClientCalls, Begin, StopBegins
<1> QED
  BY <1>7 DEF Said

LEMMA InitSeenInv == SupInit => SeenInv
BY DEF SupInit, SeenInv, FirstFailureSeen

\* What a step must do for a failure to stay seen: a heal never goes back, and who fails,
\* or is no longer scanned or notified of, is taken care of.
LEMMA SeenFrame ==
  ASSUME SeenInv, TypeOK, TypeOK',
         heal' \in [Heals -> {"free", "scheduled", "delay", "restarting", "scanning", "over"}],
         inFlight' \subseteq Agents,
         \A h \in Heals :
            \/ heal'[h] = heal[h]
            \/ heal[h] = "free"
            \/ heal[h] = "scheduled" /\ heal'[h] = "delay"
            \/ heal'[h] \in {"restarting", "scanning", "over"},
         \A a \in inFlight' : a \in inFlight \/ HealsAt(a, {"delay"})' # {},
         \A a \in Watched : watching' /\ status'[a] = "failed" =>
            \/ watching /\ status[a] = "failed" /\ (a \in scan => a \in scan') /\ changes'[a] >= changes[a]
            \/ a \in scan' \/ changes'[a] > 0
            \/ HealsAt(a, {"scheduled", "delay", "restarting", "scanning", "over"})' # {}
  PROVE  SeenInv'
<1>1. ASSUME NEW a \in inFlight' PROVE HealsAt(a, {"delay", "restarting", "scanning", "over"})' # {}
  <2>1. CASE HealsAt(a, {"delay"})' # {}
    BY <2>1 DEF HealsAt
  <2>2. CASE a \in inFlight
    <3>1. PICK h \in Heals : HealOf(h) = a /\ heal[h] \in {"delay", "restarting", "scanning", "over"}
      BY <2>2 DEF SeenInv, HealsAt
    <3>2. heal'[h] \in {"delay", "restarting", "scanning", "over"}
      BY <3>1
    <3> QED
      BY <3>1, <3>2 DEF HealsAt, HealOf
  <2> QED
    BY <1>1, <2>1, <2>2
<1>2. ASSUME NEW a \in Watched, watching', status'[a] = "failed",
             HealsAt(a, {"restarting", "scanning", "over"})' = {}
      PROVE  a \in scan' \/ changes'[a] > 0 \/ HealsAt(a, {"scheduled", "delay"})' # {}
  <2>1. CASE HealsAt(a, {"scheduled", "delay", "restarting", "scanning", "over"})' # {}
    BY <1>2, <2>1 DEF HealsAt
  <2>2. CASE /\ watching /\ status[a] = "failed" /\ (a \in scan => a \in scan')
             /\ changes'[a] >= changes[a]
    <3>1. HealsAt(a, {"restarting", "scanning", "over"}) = {}
      BY <1>2 DEF HealsAt, HealOf
    <3>2. a \in scan \/ changes[a] > 0 \/ HealsAt(a, {"scheduled", "delay"}) # {}
      BY <2>2, <3>1 DEF SeenInv, FirstFailureSeen
    <3>3. CASE HealsAt(a, {"scheduled", "delay"}) # {}
      <4>1. PICK h \in Heals : HealOf(h) = a /\ heal[h] \in {"scheduled", "delay"}
        BY <3>3 DEF HealsAt
      <4>2. HealOf(h)' = a /\ heal'[h] \in {"scheduled", "delay", "restarting", "scanning", "over"}
        BY <4>1 DEF HealOf
      <4> QED
        BY <1>2, <4>2 DEF HealsAt
    <3>4. a \in Agents /\ changes[a] \in Nat /\ changes'[a] \in Nat
      BY DEF TypeOK, Watched
    <3>5. CASE changes[a] > 0
      <4>1. changes'[a] > 0 \/ ~(changes'[a] >= changes[a])
        BY <3>4, <3>5
      <4> QED
        BY <2>2, <4>1
    <3> QED
      BY <2>2, <3>2, <3>3, <3>5
  <2> QED
    BY <1>2, <2>1, <2>2
<1>3. FirstFailureSeen'
  BY <1>2 DEF FirstFailureSeen, Watched
<1> QED
  BY <1>1, <1>3 DEF SeenInv

LEMMA StepSeenInv == IInv /\ SeenInv /\ [SupNext]_allVars => SeenInv'
<1> SUFFICES ASSUME IInv, SeenInv, [SupNext]_allVars PROVE SeenInv'
  OBVIOUS
<1>0. /\ heal \in [Heals -> {"free", "scheduled", "delay", "restarting", "scanning", "over"}]
      /\ inFlight \subseteq Agents /\ changes \in [Agents -> Nat]
      /\ TypeOK /\ TypeOK'
  BY SupStepIsLoaderStep, StepIInv DEF SeenInv, TypeOK, IInv
<1> DEFINE States6 == {"free", "scheduled", "delay", "restarting", "scanning", "over"}
<1>1. ASSUME UNCHANGED <<status, changes, watching, scan, heal, inFlight>> PROVE SeenInv'
  BY <1>1 DEF SeenInv, FirstFailureSeen, HealsAt, HealOf, Watched
<1>2. ASSUME LoaderStep \/ (\E c \in Calls : ClientCalls(c)) \/ (\E s \in Stops : StopBegins(s)),
             UNCHANGED supVars
      PROVE  SeenInv'
  <2>1. \A a \in Agents :
            /\ changes'[a] >= changes[a]
            /\ status'[a] = "failed" /\ status[a] # "failed" => changes'[a] > 0
    BY <1>0, <1>2, FailureIsPublished
  <2>2. UNCHANGED <<watching, scan, heal, inFlight>>
    BY <1>2 DEF supVars
  <2>3. \A a \in Watched : watching' /\ status'[a] = "failed" =>
            \/ watching /\ status[a] = "failed" /\ (a \in scan => a \in scan') /\ changes'[a] >= changes[a]
            \/ changes'[a] > 0
    BY <2>1, <2>2 DEF Watched
  <2> QED
    BY <1>0, <2>2, <2>3, SeenFrame
<1>3. ASSUME NEW a \in Agents, Unheard(a) PROVE SeenInv'
  BY <1>0, <1>3 DEF Unheard, supVars, SeenInv, FirstFailureSeen, HealsAt, HealOf
<1>4. ASSUME NEW a \in Agents, OnStateChange(a) PROVE SeenInv'
  <2>1. /\ watching /\ UNCHANGED <<watching, scan, inFlight, status>>
        /\ \A b \in Agents : b # a => changes'[b] = changes[b]
    BY <1>0, <1>4 DEF OnStateChange, Delivered
  <2>2. CASE heal' = heal
    <3>1. a \in inFlight \/ a \notin Watched
      BY <1>4, <2>2, <1>0 DEF OnStateChange, HealsAt
    <3>2. a \in inFlight => HealsAt(a, {"scheduled", "delay", "restarting", "scanning", "over"})' # {}
      BY <2>2 DEF SeenInv, HealsAt, HealOf
    <3>3. \A b \in Watched : watching' /\ status'[b] = "failed" =>
            \/ watching /\ status[b] = "failed" /\ (b \in scan => b \in scan') /\ changes'[b] >= changes[b]
            \/ HealsAt(b, {"scheduled", "delay", "restarting", "scanning", "over"})' # {}
      BY <1>0, <2>1, <3>1, <3>2 DEF Watched
    <3> QED
      BY <1>0, <2>1, <2>2, <3>3, SeenFrame
  <2>3. ASSUME NEW h \in HealsAt(a, {"free"}), heal' = [heal EXCEPT ![h] = "scheduled"] PROVE SeenInv'
    <3>1. h \in Heals /\ HealOf(h) = a /\ heal[h] = "free" /\ heal'[h] = "scheduled"
          /\ heal' \in [Heals -> States6] /\ \A g \in Heals : g # h => heal'[g] = heal[g]
      BY <1>0, <2>3 DEF HealsAt
    <3>2. HealsAt(a, {"scheduled", "delay", "restarting", "scanning", "over"})' # {}
      BY <3>1 DEF HealsAt, HealOf
    <3>3. \A b \in Watched : watching' /\ status'[b] = "failed" =>
            \/ watching /\ status[b] = "failed" /\ (b \in scan => b \in scan') /\ changes'[b] >= changes[b]
            \/ HealsAt(b, {"scheduled", "delay", "restarting", "scanning", "over"})' # {}
      BY <1>0, <2>1, <3>2 DEF Watched
    <3> QED
      BY <1>0, <2>1, <3>1, <3>3, SeenFrame
  <2> QED
    BY <1>4, <2>2, <2>3 DEF OnStateChange
<1>5. ASSUME NEW a \in Agents, Scan(a) PROVE SeenInv'
  <2>1. /\ UNCHANGED <<watching, inFlight, status, changes>> /\ scan' = scan \ {a}
    BY <1>5 DEF Scan, TryRestart, StopBegins, GiveUp, loaderVars
  <2>2. CASE status[a] # "failed" /\ heal' = heal
    <3>1. \A b \in Watched : watching' /\ status'[b] = "failed" =>
            watching /\ status[b] = "failed" /\ (b \in scan => b \in scan') /\ changes'[b] >= changes[b]
      BY <1>0, <2>1, <2>2 DEF Watched
    <3> QED
      BY <1>0, <2>1, <2>2, <3>1, SeenFrame
  <2>3. ASSUME NEW h \in HealsAt(a, {"free"}), NEW l \in {"scanning", "over"}, heal' = [heal EXCEPT ![h] = l]
        PROVE SeenInv'
    <3>1. h \in Heals /\ HealOf(h) = a /\ heal'[h] = l
          /\ heal' \in [Heals -> States6] /\ \A g \in Heals : g # h => heal'[g] = heal[g]
      BY <1>0, <2>3 DEF HealsAt
    <3>2. HealsAt(a, {"scheduled", "delay", "restarting", "scanning", "over"})' # {}
      BY <3>1 DEF HealsAt, HealOf
    <3>3. \A b \in Watched : watching' /\ status'[b] = "failed" =>
            \/ watching /\ status[b] = "failed" /\ (b \in scan => b \in scan') /\ changes'[b] >= changes[b]
            \/ HealsAt(b, {"scheduled", "delay", "restarting", "scanning", "over"})' # {}
      BY <1>0, <2>1, <3>2 DEF Watched
    <3> QED
      BY <1>0, <2>1, <3>1, <3>3, SeenFrame
  <2>4. \/ status[a] # "failed" /\ heal' = heal
        \/ \E h \in HealsAt(a, {"free"}), l \in {"scanning", "over"} : heal' = [heal EXCEPT ![h] = l]
    BY <1>5 DEF Scan, TryRestart, GiveUp
  <2> QED
    BY <2>2, <2>3, <2>4
<1>6. ASSUME NEW h \in Heals, HealStep(h) PROVE SeenInv'
  <2>1. UNCHANGED <<watching, scan, status, changes>>
    BY <1>6 DEF HealStep, ScheduleRestart, Attempt, AttemptEnds, ScanHealed, TryRestart,
                GiveUp, StopBegins, loaderVars
  <2>2. HealOf(h) \in Agents
    BY SupervisorAssumption, LoaderAssumption DEF HealOf
  <2>3. \A b \in Watched : watching' /\ status'[b] = "failed" =>
            watching /\ status[b] = "failed" /\ (b \in scan => b \in scan') /\ changes'[b] >= changes[b]
    BY <1>0, <2>1 DEF Watched
  <2>4. \/ /\ heal[h] = "scheduled" /\ heal' = [heal EXCEPT ![h] = "delay"]
           /\ inFlight' = inFlight \cup {HealOf(h)}
        \/ /\ \E l \in {"restarting", "over"} : heal' = [heal EXCEPT ![h] = l]
           /\ inFlight' \subseteq inFlight
    BY <1>6 DEF HealStep, ScheduleRestart, Attempt, AttemptEnds, ScanHealed, TryRestart,
                GiveUp
  <2>5. CASE /\ heal[h] = "scheduled" /\ heal' = [heal EXCEPT ![h] = "delay"]
             /\ inFlight' = inFlight \cup {HealOf(h)}
    <3>1. heal' \in [Heals -> States6] /\ heal'[h] = "delay" /\ \A g \in Heals : g # h => heal'[g] = heal[g]
      BY <1>0, <2>5
    <3>2. \A a \in inFlight' : a \in inFlight \/ HealsAt(a, {"delay"})' # {}
      BY <2>5, <3>1 DEF HealsAt, HealOf
    <3>3. inFlight' \subseteq Agents
      BY <1>0, <2>2, <2>5
    <3> QED
      BY <1>0, <2>1, <2>3, <2>5, <3>1, <3>2, <3>3, SeenFrame
  <2>6. ASSUME NEW l \in {"restarting", "over"}, heal' = [heal EXCEPT ![h] = l], inFlight' \subseteq inFlight
        PROVE  SeenInv'
    <3>1. heal' \in [Heals -> States6] /\ heal'[h] = l /\ \A g \in Heals : g # h => heal'[g] = heal[g]
      BY <1>0, <2>6
    <3>2. inFlight' \subseteq Agents
      BY <1>0, <2>6
    <3> QED
      BY <1>0, <2>1, <2>3, <2>6, <3>1, <3>2, SeenFrame
  <2> QED
    BY <2>4, <2>5, <2>6
<1>7. CASE Install
  <2>1. \A a \in Watched : a \in scan'
    BY <1>7 DEF Install
  <2>2. UNCHANGED <<heal, inFlight>>
    BY <1>7 DEF Install
  <2> QED
    BY <1>0, <2>1, <2>2, SeenFrame
<1>8. CASE SupNext
  BY <1>1, <1>2, <1>3, <1>4, <1>5, <1>6, <1>7, <1>8
     DEF SupNext, Report, Reset, Tick, loaderVars
<1> QED
  BY <1>1, <1>8 DEF allVars, supVars, loaderVars

\* No failure is lost between the supervisor's subscription and its scan, nor by the
\* delay of a restart: an agent that has failed and had no heal is on its way to one.
THEOREM FailuresAreSeen == SupSpec => []FirstFailureSeen
<1>1. SupInit => IInv /\ SeenInv
  BY InitIInv, InitSeenInv DEF SupInit
<1>2. IInv /\ SeenInv /\ [SupNext]_allVars => (IInv /\ SeenInv)'
  BY SupStepIsLoaderStep, StepIInv, StepSeenInv
<1>3. SeenInv => FirstFailureSeen
  BY DEF SeenInv
<1> QED
  BY <1>1, <1>2, <1>3, PTL DEF SupSpec

\* The loader keeps its promises under the supervisor: no lock is left held, and of
\* steady agents one start() is alive at a time, which stop can find, after those of
\* its dependencies, and with the handler it registers when it is published as ready.
THEOREM SupervisedLoaderIsSafe ==
    SupSpec => [](/\ LockDiscipline /\ Idempotent /\ LiveIsTracked
                  /\ DependenciesFirst /\ ReadyIsReachable)
BY SupervisorUsesLoader, Locked, OneStartAtATime, StopFindsTheTask, DependenciesAreFirst,
   ReadyHasHandler, PTL
=============================================================================
