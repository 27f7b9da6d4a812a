---------------------------- MODULE Gateway_proofs ----------------------------
(***************************************************************************)
(* Proofs about the gateway, for every set of users, messages, admin runs  *)
(* and scripts of them: the pairing registry lets nobody through whom no   *)
(* admin has approved, in spite of the daemon, the admins' processes and   *)
(* the file each having its own copy of it; and the final frame of a draft *)
(* is the last one its chat shows, in spite of all the tasks that work on  *)
(* the same handle.                                                        *)
(***************************************************************************)
EXTENDS Gateway, SequenceTheorems, TLAPS

\* Who may be recorded: a message may come without a user id.
People == Users \cup {None}
Registries == [allowed : SUBSET Users, pending : SUBSET People, notified : SUBSET People]

\* Types of the gateway's own state.
GatewayTypeOK ==
    /\ script \in Scripts
    /\ mem \in Registries /\ file \in Registries
    /\ stamp \in Nat /\ seen \in Nat
    /\ disk \in [stage : {"idle", "cut", "put", "stat", "load"}, m : Nat]
    /\ cli \in [Admins -> [stage : {"no", "loaded", "cut", "done"}, reg : Registries]]
    /\ inbox \in [Events -> {"no", "hinting", "done"}]
    /\ heard \in [Events -> {None, "user_cancel", "pairing_requested", "user_message", "command_invoked"}]
    /\ granted \in SUBSET Users /\ missed \in BOOLEAN
    /\ \A a \in Admins : cli[a].stage = "loaded" => script.does[a].op # "none"

\* What is read back from the file was written by somebody who may.
PairInv == GatewayTypeOK /\ OnlyApproved

-----------------------------------------------------------------------------
\* Every operation on a registry yields one, and only approving allows anybody new.
LEMMA ApplyAllows ==
  ASSUME NEW r \in Registries, NEW op \in {"approve", "reject", "revoke"}, NEW u \in Users
  PROVE  /\ Apply(r, op, u) \in Registries
         /\ Apply(r, op, u).allowed \subseteq r.allowed \cup (IF op = "approve" THEN {u} ELSE {})
BY DEF Apply, ApprovePending, RejectPending, RevokeAllowed, Registries, People

\* Holding a message and noting its hint allow nobody.
LEMMA HoldAllows ==
  ASSUME NEW r \in Registries, NEW u \in People
  PROVE  /\ AddPending(r, u) \in Registries /\ AddPending(r, u).allowed = r.allowed
         /\ MarkNotified(r, u) \in Registries /\ MarkNotified(r, u).allowed = r.allowed
BY DEF AddPending, MarkNotified, Registries, People

\* The file, cut to nothing, allows nobody.
LEMMA EmptyAllows == Empty \in Registries /\ Empty.allowed = {}
BY DEF Empty, Registries

\* At boot every copy of the registry is the file's.
LEMMA InitPairInv == Init => PairInv
<1> SUFFICES ASSUME Init PROVE PairInv
  OBVIOUS
<1>1. script \in Scripts /\ script.allowed \in SUBSET Users
  BY ScriptsAssumption DEF Init
<1>2. file \in Registries /\ file.allowed = script.allowed
  BY <1>1 DEF Init, Empty, Registries
<1>3. GatewayTypeOK
  BY <1>1, <1>2, EmptyAllows DEF Init, GatewayTypeOK, Idle
<1>4. OnlyApproved
  BY <1>1, <1>2, EmptyAllows, NoneAssumption DEF Init, OnlyApproved, Reached
<1> QED
  BY <1>3, <1>4 DEF PairInv

-----------------------------------------------------------------------------
\* The daemon's own steps copy one copy of the registry to another.
LEMMA DaemonStep ==
  ASSUME PairInv, DiskCut \/ DiskPut \/ DiskStat \/ Poll \/ Reload
  PROVE  PairInv'
<1>1. GatewayTypeOK'
  <2> USE DEF PairInv, GatewayTypeOK, Idle
  <2>1. CASE DiskCut
    BY <2>1, EmptyAllows DEF DiskCut
  <2>2. CASE DiskPut
    BY <2>2 DEF DiskPut
  <2>3. CASE DiskStat
    BY <2>3 DEF DiskStat
  <2>4. CASE Poll
    BY <2>4 DEF Poll
  <2>5. CASE Reload
    BY <2>5 DEF Reload
  <2> QED
    BY <2>1, <2>2, <2>3, <2>4, <2>5
<1>2. OnlyApproved'
  <2>1. /\ \A m \in Events : Reached(m)' = Reached(m)
        /\ script' = script /\ cli' = cli /\ granted' = granted
    BY DEF DiskCut, DiskPut, DiskStat, Poll, Reload, Reached
  <2>2. mem'.allowed \subseteq granted /\ file'.allowed \subseteq granted
    BY EmptyAllows DEF PairInv, OnlyApproved, DiskCut, DiskPut, DiskStat, Poll, Reload
  <2> QED
    BY <2>1, <2>2 DEF PairInv, OnlyApproved
<1> QED
  BY <1>1, <1>2 DEF PairInv

\* A run of the command line.
LEMMA CliStep ==
  ASSUME PairInv, NEW a \in Admins, CliLoads(a) \/ CliCuts(a) \/ CliWrites(a)
  PROVE  PairInv'
<1> DEFINE d == script.does[a]
           r == cli[a].reg
<1>1. r \in Registries /\ r.allowed \subseteq granted
  BY DEF PairInv, GatewayTypeOK, OnlyApproved
<1>2. d.op \in {"approve", "reject", "revoke", "none"} /\ d.user \in Users
  BY ScriptsAssumption DEF PairInv, GatewayTypeOK
<1>3. CASE CliLoads(a)
  <2>1. GatewayTypeOK'
    BY <1>3 DEF PairInv, GatewayTypeOK, CliLoads
  <2>2. OnlyApproved'
    BY <1>3 DEF PairInv, GatewayTypeOK, OnlyApproved, CliLoads, Reached
  <2> QED
    BY <2>1, <2>2 DEF PairInv
<1>4. CASE CliWrites(a)
  <2>1. GatewayTypeOK'
    BY <1>1, <1>4 DEF PairInv, GatewayTypeOK, CliWrites
  <2>2. OnlyApproved'
    BY <1>1, <1>4 DEF PairInv, GatewayTypeOK, OnlyApproved, CliWrites, Reached
  <2> QED
    BY <2>1, <2>2 DEF PairInv
<1>5. CASE CliCuts(a)
  <2>1. CASE Saves(r, d.op, d.user) /\ cli' = [cli EXCEPT ![a] = [stage |-> "cut", reg |-> Apply(r, d.op, d.user)]]
    <3> DEFINE new == Apply(r, d.op, d.user)
    <3>1. /\ file' = Empty /\ stamp' = stamp + 1
          /\ granted' = IF d.op = "approve" THEN granted \cup {d.user} ELSE granted
      BY <1>5, <2>1 DEF CliCuts
    <3>2. d.op \in {"approve", "reject", "revoke"}
      BY <1>2, <1>5 DEF PairInv, GatewayTypeOK, CliCuts
    <3>3. new \in Registries /\ new.allowed \subseteq granted'
      BY <1>1, <1>2, <3>1, <3>2, ApplyAllows
    <3> HIDE DEF new
    <3>4. GatewayTypeOK'
      BY <1>2, <1>5, <2>1, <3>1, <3>3, EmptyAllows DEF PairInv, GatewayTypeOK, CliCuts, new
    <3>5. OnlyApproved'
      BY <1>2, <1>5, <2>1, <3>1, <3>3, EmptyAllows DEF PairInv, GatewayTypeOK, OnlyApproved, CliCuts, Reached, new
    <3> QED
      BY <3>4, <3>5 DEF PairInv
  <2>2. CASE ~(Saves(r, d.op, d.user) /\ cli' = [cli EXCEPT ![a] = [stage |-> "cut", reg |-> Apply(r, d.op, d.user)]])
    <3>1. cli' = [cli EXCEPT ![a].stage = "done"] /\ UNCHANGED <<file, stamp, granted>>
      BY <1>5, <2>2 DEF CliCuts
    <3>2. GatewayTypeOK'
      BY <1>5, <3>1 DEF PairInv, GatewayTypeOK, CliCuts
    <3>3. OnlyApproved'
      BY <1>5, <3>1 DEF PairInv, GatewayTypeOK, OnlyApproved, CliCuts, Reached
    <3> QED
      BY <3>2, <3>3 DEF PairInv
  <2> QED
    BY <2>1, <2>2
<1> QED
  BY <1>3, <1>4, <1>5

\* The same operations asked of the daemon.
LEMMA PairOpStep ==
  ASSUME PairInv, NEW a \in Admins, PairOp(a)
  PROVE  PairInv'
<1> DEFINE d == script.does[a]
           new == Apply(mem, d.op, d.user)
<1>1. d.op \in {"approve", "reject", "revoke"} /\ d.user \in Users
  BY ScriptsAssumption DEF PairInv, GatewayTypeOK, PairOp
<1>2. mem \in Registries /\ mem.allowed \subseteq granted
  BY DEF PairInv, GatewayTypeOK, OnlyApproved
<1>3. granted' = IF d.op = "approve" THEN granted \cup {d.user} ELSE granted
  BY DEF PairOp
<1>4. new \in Registries /\ new.allowed \subseteq granted'
  BY <1>1, <1>2, <1>3, ApplyAllows
<1> HIDE DEF new
<1>5. \/ mem' = new /\ disk' = [Idle EXCEPT !.stage = "cut"]
      \/ mem' = mem /\ disk' = disk
  BY DEF PairOp, SaveBegins, new
<1>6. GatewayTypeOK'
  BY <1>1, <1>3, <1>4, <1>5 DEF PairInv, GatewayTypeOK, PairOp, Idle
<1>7. OnlyApproved'
  BY <1>1, <1>3, <1>4, <1>5 DEF PairInv, GatewayTypeOK, OnlyApproved, PairOp, Reached
<1> QED
  BY <1>6, <1>7 DEF PairInv

\* A message arrives, is held, or goes through the gate.
LEMMA InboundStep ==
  ASSUME PairInv, NEW m \in Events, Cancel(m) \/ Hold(m) \/ Hinted(m) \/ Deliver(m)
  PROVE  PairInv'
<1>1. script.from[m] \in People
  BY ScriptsAssumption DEF PairInv, GatewayTypeOK, People
<1>2. mem \in Registries /\ mem.allowed \subseteq granted
  BY DEF PairInv, GatewayTypeOK, OnlyApproved
<1>3. /\ UNCHANGED <<script, file, stamp, seen, cli, granted, missed>>
      /\ inbox' \in [Events -> {"no", "hinting", "done"}]
      /\ mem' \in Registries /\ mem'.allowed = mem.allowed
      /\ disk' \in [stage : {"idle", "cut", "put", "stat", "load"}, m : Nat]
  <2> USE <1>1, <1>2, HoldAllows DEF PairInv, GatewayTypeOK, Idle
  <2>1. CASE Cancel(m)
    BY <2>1 DEF Cancel, Publish
  <2>2. CASE Hold(m)
    BY <2>2 DEF Hold, SaveBegins
  <2>3. CASE Hinted(m)
    BY <2>3 DEF Hinted, SaveBegins
  <2>4. CASE Deliver(m)
    BY <2>4 DEF Deliver, Publish
  <2> QED
    BY <2>1, <2>2, <2>3, <2>4
<1>4. \/ heard' = heard
      \/ heard' = [heard EXCEPT ![m] = "user_cancel"]
      \/ heard' = [heard EXCEPT ![m] = "pairing_requested"]
      \/ /\ \E what \in {"user_message", "command_invoked"} : heard' = [heard EXCEPT ![m] = what]
         /\ script.from[m] \in mem.allowed
  BY DEF Cancel, Hold, Hinted, Deliver, Publish, Blocked
<1>5. GatewayTypeOK'
  BY <1>3, <1>4 DEF PairInv, GatewayTypeOK
<1>6. OnlyApproved'
  BY <1>2, <1>3, <1>4 DEF PairInv, GatewayTypeOK, OnlyApproved, Reached
<1> QED
  BY <1>5, <1>6 DEF PairInv

\* No step of the gateway, the admins or the drafts allows anybody new.
LEMMA NextPairInv == PairInv /\ [Next]_vars => PairInv'
<1> SUFFICES ASSUME PairInv, [Next]_vars PROVE PairInv'
  OBVIOUS
<1>1. CASE UNCHANGED gvars
  BY <1>1 DEF PairInv, GatewayTypeOK, OnlyApproved, Reached, gvars
<1>2. CASE Next
  BY <1>1, <1>2, DaemonStep, CliStep, PairOpStep, InboundStep DEF Next
<1> QED
  BY <1>1, <1>2 DEF vars

\* Nobody's message gets through the gate, and no copy of the registry allows anybody,
\* unless an admin approved him: for every number of users, messages and admin runs,
\* however their reads and writes of the file interleave with the daemon's.
THEOREM Approved == Spec => []OnlyApproved
<1>1. PairInv => OnlyApproved
  BY DEF PairInv
<1> QED
  BY <1>1, InitPairInv, NextPairInv, PTL DEF Spec

-----------------------------------------------------------------------------
(* The queue of a lock *)

\* Queues: who is in one, and that nobody is in it twice.
In(t, q) == \E i \in 1..Len(q) : q[i] = t
Once(q) == \A i, j \in 1..Len(q) : q[i] = q[j] => i = j

\* A queue somebody is in is not empty.
LEMMA Someone ==
  ASSUME NEW q, NEW t, In(t, q)
  PROVE  q # <<>>
<1> SUFFICES ASSUME q = <<>> PROVE FALSE
  OBVIOUS
<1>1. Len(q) = 0
  OBVIOUS
<1> QED
  BY <1>1 DEF In

\* Appending keeps a queue free of repetitions and leaves its head alone.
LEMMA Joined ==
  ASSUME NEW S, NEW q \in Seq(S), NEW t \in S, Once(q), ~In(t, q)
  PROVE  /\ Append(q, t) \in Seq(S) /\ Once(Append(q, t))
         /\ \A x \in S : In(x, Append(q, t)) <=> In(x, q) \/ x = t
         /\ q # <<>> => Append(q, t)[1] = q[1]
         /\ Append(q, t)[Len(Append(q, t))] = t /\ Append(q, t) # <<>>
<1> DEFINE r == Append(q, t)
<1>1. /\ r \in Seq(S) /\ Len(q) \in Nat /\ Len(r) = Len(q) + 1 /\ r[Len(q) + 1] = t
      /\ \A i \in 1..Len(q) : r[i] = q[i]
  OBVIOUS
<1>2. q # <<>> => Len(q) >= 1
  BY <1>1, EmptySeq
<1> HIDE DEF r
<1>3. r # <<>>
  BY <1>1
<1>4. Once(r)
  BY <1>1 DEF Once, In
<1>5. \A x \in S : In(x, r) <=> In(x, q) \/ x = t
  BY <1>1 DEF In
<1> QED
  BY <1>1, <1>2, <1>3, <1>4, <1>5 DEF r

\* The head leaves: everybody else stays, and whoever is last stays last.
LEMMA Served ==
  ASSUME NEW S, NEW q \in Seq(S), q # <<>>, Once(q)
  PROVE  /\ Tail(q) \in Seq(S) /\ Once(Tail(q))
         /\ \A x \in S : In(x, Tail(q)) <=> In(x, q) /\ x # q[1]
         /\ Tail(q) # <<>> => q[1] # q[Len(q)] /\ Tail(q)[Len(Tail(q))] = q[Len(q)]
         /\ Tail(q) = <<>> => q[1] = q[Len(q)]
<1> DEFINE r == Tail(q)
<1>1. /\ r \in Seq(S) /\ Len(q) \in Nat /\ Len(q) >= 1 /\ Len(r) = Len(q) - 1
      /\ \A i \in 1..Len(r) : r[i] = q[i + 1]
  BY EmptySeq, LenProperties, HeadTailProperties
<1>2. r = <<>> <=> Len(r) = 0
  BY <1>1, EmptySeq
<1> HIDE DEF r
<1>3. Once(r)
  BY <1>1 DEF Once
<1>4. ASSUME NEW x \in S PROVE In(x, r) <=> In(x, q) /\ x # q[1]
  <2>1. ASSUME In(x, r) PROVE In(x, q) /\ x # q[1]
    BY <1>1, <2>1 DEF In, Once
  <2>2. ASSUME In(x, q), x # q[1] PROVE In(x, r)
    <3>1. PICK i \in 1..Len(q) : q[i] = x
      BY <2>2 DEF In
    <3>2. i # 1
      BY <2>2, <3>1
    <3>3. i - 1 \in 1..Len(r) /\ r[i - 1] = q[i - 1 + 1]
      BY <1>1, <3>1, <3>2
    <3> QED
      BY <3>1, <3>3 DEF In
  <2> QED
    BY <2>1, <2>2
<1>5. r # <<>> => q[1] # q[Len(q)] /\ r[Len(r)] = q[Len(q)]
  <2> SUFFICES ASSUME r # <<>> PROVE q[1] # q[Len(q)] /\ r[Len(r)] = q[Len(q)]
    OBVIOUS
  <2>1. Len(r) >= 1
    BY <1>1, <1>2
  <2>2. Len(r) \in 1..Len(r) /\ Len(r) + 1 = Len(q)
    BY <1>1, <2>1
  <2> QED
    BY <1>1, <2>1, <2>2 DEF Once
<1>6. r = <<>> => q[1] = q[Len(q)]
  <2>1. r = <<>> => Len(q) = 1
    BY <1>1, <1>2
  <2> QED
    BY <2>1
<1> QED
  BY <1>1, <1>3, <1>4, <1>5, <1>6 DEF r

\* One leaves from anywhere in the queue: the others stay in their order.
LEMMA Removed ==
  ASSUME NEW S, NEW q \in Seq(S), NEW t \in S, Once(q)
  PROVE  /\ RemoveFirst(q, t) \in Seq(S) /\ Once(RemoveFirst(q, t))
         /\ \A x \in S : In(x, RemoveFirst(q, t)) <=> In(x, q) /\ x # t
         /\ q # <<>> /\ q[1] # t => RemoveFirst(q, t) # <<>> /\ RemoveFirst(q, t)[1] = q[1]
<1> DEFINE r == RemoveFirst(q, t)
<1>0. CASE ~In(t, q)
  <2>1. r = q
    BY <1>0 DEF In, RemoveFirst
  <2> QED
    BY <1>0, <2>1
<1> SUFFICES ASSUME In(t, q) PROVE
         /\ r \in Seq(S) /\ Once(r)
         /\ \A x \in S : In(x, r) <=> In(x, q) /\ x # t
         /\ q # <<>> /\ q[1] # t => r # <<>> /\ r[1] = q[1]
  BY <1>0
<1>1. PICK k \in 1..Len(q) : q[k] = t
  BY DEF In
<1> DEFINE I == {i \in 1..Len(q) : q[i] = t}
<1>2. I = {k}
  BY <1>1 DEF Once
<1>3. SelectInSeq(q, LAMBDA v : v = t) = IF I # {} THEN Min(I) ELSE 0
  BY DEF SelectInSeq
<1>4. Min(I) = k
  BY <1>2 DEF Min
<1>5. SelectInSeq(q, LAMBDA v : v = t) = k
  BY <1>2, <1>3, <1>4
<1>6. r = RemoveAt(q, SelectInSeq(q, LAMBDA v : v = t))
  BY <1>1 DEF RemoveFirst
<1>7. r = RemoveAt(q, k)
  BY <1>5, <1>6
<1> DEFINE a == SubSeq(q, 1, k - 1)
           b == SubSeq(q, k + 1, Len(q))
<1>8. r = a \o b
  BY <1>7 DEF RemoveAt
<1>9. Len(q) \in Nat /\ k \in Nat /\ 1 <= k /\ k <= Len(q)
  BY <1>1, LenProperties
<1>10. a \in Seq(S) /\ Len(a) = k - 1 /\ \A i \in 1..k - 1 : a[i] = q[i]
  BY <1>9, SubSeqProperties
<1>11. b \in Seq(S) /\ Len(b) = Len(q) - k /\ \A i \in 1..Len(q) - k : b[i] = q[k + i]
  BY <1>9, SubSeqProperties
<1> HIDE DEF a, b, r
<1>12. r \in Seq(S) /\ Len(r) = Len(q) - 1
  BY <1>8, <1>9, <1>10, <1>11, ConcatProperties
<1>13. \A i \in 1..Len(r) : r[i] = IF i < k THEN q[i] ELSE q[i + 1]
  <2> SUFFICES ASSUME NEW i \in 1..Len(r) PROVE r[i] = IF i < k THEN q[i] ELSE q[i + 1]
    OBVIOUS
  <2>1. r[i] = IF i <= Len(a) THEN a[i] ELSE b[i - Len(a)]
    BY <1>8, <1>9, <1>10, <1>11, <1>12, ConcatProperties
  <2>2. CASE i < k
    BY <1>9, <1>10, <2>1, <2>2
  <2>3. CASE ~(i < k)
    <3>1. r[i] = b[i - (k - 1)] /\ i - (k - 1) \in 1..Len(q) - k
      BY <1>9, <1>10, <1>12, <2>1, <2>3
    <3>2. b[i - (k - 1)] = q[k + (i - (k - 1))] /\ k + (i - (k - 1)) = i + 1
      BY <1>9, <1>11, <3>1
    <3> QED
      BY <2>3, <3>1, <3>2
  <2> QED
    BY <2>2, <2>3
<1> DEFINE old(i) == IF i < k THEN i ELSE i + 1
<1>18. \A i \in 1..Len(r) : old(i) \in 1..Len(q) /\ old(i) # k /\ r[i] = q[old(i)]
  BY <1>9, <1>12, <1>13
<1>19. \A i, j \in 1..Len(r) : old(i) = old(j) => i = j
  BY <1>9, <1>12
<1> HIDE DEF old
<1>14. Once(r)
  BY <1>18, <1>19 DEF Once
<1>15. ASSUME NEW x \in S, In(x, r) PROVE In(x, q) /\ x # t
  <2>1. PICK i \in 1..Len(r) : r[i] = x
    BY <1>15 DEF In
  <2>2. PICK j \in 1..Len(q) : q[j] = x /\ j # k
    BY <1>18, <2>1
  <2> QED
    BY <1>1, <2>2 DEF In, Once
<1>16. ASSUME NEW x \in S, In(x, q), x # t PROVE In(x, r)
  <2>1. PICK i \in 1..Len(q) : q[i] = x
    BY <1>16 DEF In
  <2>2. CASE i < k
    <3>1. i \in 1..Len(r) /\ r[i] = x
      BY <1>9, <1>12, <1>13, <2>1, <2>2
    <3> QED
      BY <3>1 DEF In
  <2>3. CASE ~(i < k)
    <3>1. i > k
      BY <1>1, <1>9, <1>16, <2>1, <2>3
    <3>2. i - 1 \in 1..Len(r) /\ ~(i - 1 < k) /\ i - 1 + 1 = i
      BY <1>9, <1>12, <2>1, <3>1
    <3>3. r[i - 1] = x
      BY <1>13, <2>1, <3>2
    <3> QED
      BY <3>2, <3>3 DEF In
  <2> QED
    BY <2>2, <2>3
<1>17. ASSUME q # <<>>, q[1] # t PROVE r # <<>> /\ r[1] = q[1]
  <2>1. k > 1
    BY <1>1, <1>9, <1>17
  <2>2. Len(r) >= 1 /\ 1 \in 1..Len(r)
    BY <1>9, <1>12, <2>1
  <2> QED
    BY <1>13, <2>1, <2>2
<1> QED
  BY <1>12, <1>14, <1>15, <1>16, <1>17

-----------------------------------------------------------------------------
(* The invariant of the drafts *)

\* Where a task may be suspended.
Stages == {"idle", "come", "sleep", "ready", "opening", "stopping", "closing", "closed", "done"} \cup Busy
DraftStates == [opened : BOOLEAN, closed : BOOLEAN, text : Nat, sent : Nat, msg : BOOLEAN]
Shown == [posts : Nat, text : Nat, final : BOOLEAN]
Frames == [h : Handles, text : Nat, final : BOOLEAN, edit : BOOLEAN]

\* Types of the state of the drafts.
DraftsTypeOK ==
    /\ draft \in [Handles -> DraftStates]
    /\ lockq \in [Handles -> Seq(Tasks)]
    /\ pc \in [Tasks -> Stages]
    /\ call \in [Tasks -> Frames \cup {None}]
    /\ chat \in [Handles -> Shown]
    /\ asker \in [Streams -> {"idle", "away", "opening", "open", "closing", "done"}]
    /\ active \in Events \cup {None}
    /\ target \in [Tasks -> Handles \cup {None}]

\* The queue of a lock holds exactly the tasks that want it or have it, each once; who renders is first.
LockInv ==
    /\ \A h \in Handles : Once(lockq[h])
    /\ \A t \in Tasks : pc[t] \in Busy => target[t] \in Handles
    /\ \A h \in Handles, t \in Tasks : In(t, lockq[h]) <=> pc[t] \in Busy /\ target[t] = h
    /\ \A t \in Tasks : pc[t] = "render" => lockq[target[t]][1] = t

\* A call is under way exactly while its task opens or renders; the frame a closer renders is
\* final and has the text the draft ended with, and no other frame is final.
FrameInv ==
    \A t \in Tasks :
        /\ pc[t] \in {"opening", "render"} => call[t] \in Frames /\ call[t].h = target[t]
        /\ pc[t] = "opening" => ~call[t].final
        /\ pc[t] = "render" => (call[t].final <=> Closing(t))
        /\ pc[t] = "render" /\ Closing(t) => call[t].text = draft[target[t]].text
        /\ pc[t] \notin {"opening", "render"} => call[t] = None

\* What each kind of task does, and on which handle.
TaskInv ==
    /\ \A s \in Streams :
         /\ pc[s] \in {"idle", "opening", "done"}
         /\ pc[s] = "opening" => target[s] = s
         /\ asker[s] \in {"idle", "away"} => pc[s] = "idle"
         /\ asker[s] \in {"open", "closing"} => pc[s] = "done"
         /\ asker[s] \notin {"closing", "done"} => pc[Closer(s)] = "idle"
         /\ pc[Closer(s)] # "idle" => pc[Closer(s)] \in {"closing", "closed"} \cup Busy /\ target[Closer(s)] = s
    /\ \A u \in Updates : pc[u] \in {"idle", "done"} \cup Busy
    /\ \A h \in Handles :
         /\ pc[Trail(h)] \in {"idle", "sleep", "done"} \cup Busy
         /\ pc[Trail(h)] \in Busy => target[Trail(h)] = h
    /\ \A e \in Events :
         /\ pc[Loop(e)] \in {"idle", "ready", "done"} \cup Busy
         /\ pc[Loop(e)] \in Busy => target[Loop(e)] = e
         /\ LoopLive(e) => pc[e] = "done"
         /\ pc[e] \in {"idle", "come", "stopping", "closing", "closed", "opening", "done"} \cup Busy
         /\ pc[e] = "opening" => target[e] = e
         /\ pc[e] \in {"stopping", "closing"} \cup Busy => target[e] \in Events

\* A task that is going to close its target, or is closing it.
Ending(t) == Closing(t) /\ pc[t] \in {"stopping", "closing"} \cup Busy

\* No two tasks close the same handle.
OneCloser == \A t, u \in Tasks : Ending(t) /\ Ending(u) /\ target[t] = target[u] => t = u

\* Who closes a handle has it for itself: it was opened, it is no active card, and once it is
\* marked closed nobody queues behind the final flush.
ClosersOK ==
    \A t \in Tasks : Ending(t) =>
        /\ target[t] \in Handles /\ pc[target[t]] = "done" /\ active # target[t]
        /\ pc[t] # "stopping" <=> draft[target[t]].closed
        /\ pc[t] \in Busy => lockq[target[t]][Len(lockq[target[t]])] = t

\* A closed handle has no source of flushes left, and its lock no queue but that of its closer.
ClosedOK ==
    \A h \in Handles : draft[h].closed =>
        /\ pc[h] = "done" /\ ~TrailLive(h) /\ active # h
        /\ h \in Events => ~LoopLive(h)
        /\ h \in Streams => asker[h] \in {"closing", "done"}
        /\ lockq[h] # <<>> => \E t \in Tasks : Ending(t) /\ target[t] = h

\* The active card has been opened.
CardOK == active # None => pc[active] = "done"

\* What the chat shows as final is the text the draft ended with, and its closer is through.
ShownOK ==
    \A h \in Handles : chat[h].final =>
        /\ draft[h].closed /\ chat[h].text = draft[h].text
        /\ \A t \in Tasks : Ending(t) => target[t] # h

\* A message that has not been handled has no task of the dashboard.
InboxOK == \A m \in Events : inbox[m] = "no" => pc[m] = "idle"

\* Who closes a draft, and what that leaves of it.
CloseInv == OneCloser /\ ClosersOK /\ ClosedOK /\ CardOK /\ ShownOK /\ InboxOK

\* The final frame stays because the lock is fair and a closed handle takes no new flush: the
\* closer is last in the queue, so whatever was before it has been answered.
DraftInv == DraftsTypeOK /\ LockInv /\ FrameInv /\ TaskInv /\ CloseInv

\* The names of the tasks of different handles, and of different kinds, differ.
LEMMA TaskNames ==
  /\ Handles \subseteq Tasks /\ Updates \subseteq Tasks
  /\ \A h \in Handles : Trail(h) \in Tasks
  /\ \A h \in Events : Loop(h) \in Tasks
  /\ \A h \in Streams : Closer(h) \in Tasks
  /\ \A h, k \in Handles :
        /\ Trail(h) # Loop(k) /\ Trail(h) # Closer(k) /\ Loop(h) # Closer(k)
        /\ Trail(h) = Trail(k) => h = k
        /\ Loop(h) = Loop(k) => h = k
        /\ Closer(h) = Closer(k) => h = k
  /\ \A h \in Handles, k \in Handles \cup Updates : Trail(h) # k /\ Loop(h) # k /\ Closer(h) # k
BY TasksAssumption DEF Tasks, Handles, Trail, Loop, Closer

\* The tasks that close a draft are the dashboard's and the closers of the streams.
LEMMA ClosingTasks ==
  /\ \A t \in Streams \cup Updates : ~Closing(t)
  /\ \A h \in Handles : ~Closing(Trail(h)) /\ ~Closing(Loop(h))
  /\ \A t \in Events : Closing(t)
  /\ \A s \in Streams : Closing(Closer(s))
BY TaskNames, TasksAssumption DEF Closing, Handles

\* Where each kind of task goes after its flush.
LEMMA WhereAfter ==
  /\ \A h \in Events : After(Loop(h)) = "ready"
  /\ \A t \in Events : After(t) = "closed"
  /\ \A h \in Streams : After(Closer(h)) = "closed"
  /\ \A t \in Updates : After(t) = "done"
  /\ \A h \in Handles : After(Trail(h)) = "done"
  /\ \A t \in Tasks : After(t) \in {"ready", "closed", "done"}
BY TaskNames, ClosingTasks DEF After, Handles

\* A call that ends.
LEMMA Ended ==
  ASSUME DraftsTypeOK, NEW c \in Frames, NEW r \in Results
  PROVE  /\ Effect(c, r) =>
              /\ chat' \in [Handles -> Shown]
              /\ \A h \in Handles : \/ chat'[h].text = chat[h].text /\ chat'[h].final = chat[h].final
                                    \/ /\ h = c.h /\ chat'[h].text = c.text
                                       /\ chat'[h].final = (chat[h].final \/ c.final)
         /\ Confirm(c, r) \in [Handles -> DraftStates]
         /\ \A h \in Handles : Confirm(c, r)[h].closed = draft[h].closed /\ Confirm(c, r)[h].text = draft[h].text
<1>1. ASSUME Effect(c, r) PROVE
              /\ chat' \in [Handles -> Shown]
              /\ \A h \in Handles : \/ chat'[h].text = chat[h].text /\ chat'[h].final = chat[h].final
                                    \/ /\ h = c.h /\ chat'[h].text = c.text
                                       /\ chat'[h].final = (chat[h].final \/ c.final)
  <2>1. CASE chat' = chat
    BY <2>1 DEF DraftsTypeOK
  <2> DEFINE p == chat[c.h].posts + (IF c.edit THEN 0 ELSE 1)
             f == chat[c.h].final \/ c.final
  <2>2. CASE chat' # chat
    <3>1. chat' = [chat EXCEPT ![c.h] = [posts |-> p, text |-> c.text, final |-> f]]
      BY <1>1, <2>2 DEF Effect, Taken
    <3>2. p \in Nat /\ f \in BOOLEAN /\ c.h \in Handles /\ c.text \in Nat
      BY DEF DraftsTypeOK, Frames, Shown
    <3> HIDE DEF p, f
    <3>3. chat' \in [Handles -> Shown]
      BY <3>1, <3>2 DEF DraftsTypeOK, Shown
    <3>4. /\ chat'[c.h].text = c.text /\ chat'[c.h].final = f
          /\ \A h \in Handles : h # c.h => chat'[h] = chat[h]
      BY <3>1, <3>2 DEF DraftsTypeOK
    <3> QED
      BY <3>2, <3>3, <3>4 DEF f
  <2> QED
    BY <2>1, <2>2
<1>2. /\ Confirm(c, r) \in [Handles -> DraftStates]
      /\ \A h \in Handles : Confirm(c, r)[h].closed = draft[h].closed /\ Confirm(c, r)[h].text = draft[h].text
  <2>1. Confirm(c, r) = draft \/ Confirm(c, r) = [draft EXCEPT ![c.h].msg = TRUE]
    BY DEF Confirm
  <2>2. c.h \in Handles /\ draft[c.h] \in DraftStates
    BY DEF Frames, DraftsTypeOK
  <2>5. draft \in [Handles -> DraftStates]
    BY DEF DraftsTypeOK
  <2> DEFINE new == [draft[c.h] EXCEPT !.msg = TRUE]
  <2>3. /\ new \in DraftStates
        /\ new.closed = draft[c.h].closed /\ new.text = draft[c.h].text
    BY <2>2 DEF DraftStates
  <2>4. Confirm(c, r) = draft \/ Confirm(c, r) = [draft EXCEPT ![c.h] = new]
    BY <2>1
  <2> HIDE DEF new
  <2> QED
    BY <2>2, <2>3, <2>4, <2>5
<1> QED
  BY <1>1, <1>2

\* Setting the text of a handle that is open.
LEMMA TextSet ==
  ASSUME DraftsTypeOK, NEW h \in Handles, ~draft[h].closed
  PROVE  /\ SetText(h) \in [Handles -> DraftStates]
         /\ \A k \in Handles : /\ SetText(h)[k].closed = draft[k].closed
                               /\ SetText(h)[k].text # draft[k].text => ~draft[k].closed
<1> DEFINE new == [draft[h] EXCEPT !.text = @ + 1]
<1>1. draft \in [Handles -> DraftStates] /\ draft[h] \in DraftStates
  BY DEF DraftsTypeOK
<1>2. new \in DraftStates /\ new.closed = draft[h].closed
  BY <1>1 DEF DraftStates
<1>3. SetText(h) = [draft EXCEPT ![h] = new]
  BY DEF SetText
<1> HIDE DEF new
<1> QED
  BY <1>1, <1>2, <1>3

-----------------------------------------------------------------------------
(* The lock *)

\* A task that neither has nor wants a lock may go anywhere else.
Idles(t) == \/ pc'[t] = pc[t] /\ target'[t] = target[t]
            \/ pc[t] \notin Busy /\ pc'[t] \notin Busy

\* Tasks that move outside the locks leave the locks as they are.
LEMMA LocksLeft ==
  ASSUME DraftsTypeOK, LockInv, UNCHANGED lockq, \A t \in Tasks : Idles(t)
  PROVE  LockInv'
BY DEF LockInv, Idles, Busy

\* A task joins the queue of a lock.
LEMMA LockJoined ==
  ASSUME DraftsTypeOK, LockInv, NEW t \in Tasks, NEW h \in Handles,
         pc[t] \notin Busy, pc'[t] = "lock", target'[t] = h,
         lockq' = [lockq EXCEPT ![h] = Append(@, t)],
         \A u \in Tasks \ {t} : Idles(u)
  PROVE  LockInv'
<1>1. lockq[h] \in Seq(Tasks) /\ Once(lockq[h]) /\ ~In(t, lockq[h])
  BY DEF DraftsTypeOK, LockInv
<1>2. /\ lockq'[h] = Append(lockq[h], t)
      /\ \A k \in Handles \ {h} : lockq'[k] = lockq[k]
  BY DEF DraftsTypeOK
<1>3. /\ Once(lockq'[h]) /\ \A u \in Tasks : In(u, lockq'[h]) <=> In(u, lockq[h]) \/ u = t
      /\ lockq[h] # <<>> => lockq'[h][1] = lockq[h][1]
  BY <1>1, <1>2, Joined
<1>4. \A k \in Handles : Once(lockq'[k])
  BY <1>2, <1>3 DEF LockInv
<1>5. \A u \in Tasks : pc'[u] \in Busy => target'[u] \in Handles
  BY DEF LockInv, Idles
<1>6. ASSUME NEW k \in Handles, NEW u \in Tasks
      PROVE  In(u, lockq'[k]) <=> pc'[u] \in Busy /\ target'[u] = k
  <2>1. CASE u = t
    BY <1>1, <1>2, <1>3, <2>1 DEF LockInv, Busy
  <2>2. CASE u # t
    BY <1>2, <1>3, <2>2 DEF LockInv, Idles
  <2> QED
    BY <2>1, <2>2
<1>7. ASSUME NEW u \in Tasks, pc'[u] = "render" PROVE lockq'[target'[u]][1] = u
  <2>1. u # t /\ pc[u] = "render" /\ target'[u] = target[u]
    BY <1>7 DEF Idles, Busy
  <2>2. target[u] \in Handles /\ lockq[target[u]][1] = u /\ In(u, lockq[target[u]])
    BY <2>1 DEF LockInv, Busy
  <2>3. lockq[target[u]] # <<>>
    BY <2>2 DEF In
  <2> QED
    BY <1>2, <1>3, <2>1, <2>2, <2>3
<1> QED
  BY <1>4, <1>5, <1>6, <1>7 DEF LockInv

\* The task at the head of a queue has done its flush and leaves.
LEMMA LockServed ==
  ASSUME DraftsTypeOK, LockInv, NEW t \in Tasks,
         pc[t] \in Busy, lockq[target[t]][1] = t, pc'[t] \notin Busy,
         lockq' = [lockq EXCEPT ![target[t]] = Tail(@)],
         \A u \in Tasks \ {t} : Idles(u)
  PROVE  LockInv'
<1> DEFINE h == target[t]
<1>1. h \in Handles /\ lockq[h] \in Seq(Tasks) /\ Once(lockq[h]) /\ In(t, lockq[h])
  BY DEF DraftsTypeOK, LockInv
<1>2. lockq[h] # <<>>
  BY <1>1 DEF In
<1> HIDE DEF h
<1>3. /\ lockq'[h] = Tail(lockq[h])
      /\ \A k \in Handles \ {h} : lockq'[k] = lockq[k]
  BY <1>1 DEF DraftsTypeOK, h
<1>4. /\ Once(lockq'[h]) /\ \A u \in Tasks : In(u, lockq'[h]) <=> In(u, lockq[h]) /\ u # t
  BY <1>1, <1>2, <1>3, Served DEF h
<1>5. \A k \in Handles : Once(lockq'[k])
  BY <1>3, <1>4 DEF LockInv
<1>6. \A u \in Tasks : pc'[u] \in Busy => target'[u] \in Handles
  BY DEF LockInv, Idles
<1>7. ASSUME NEW k \in Handles, NEW u \in Tasks
      PROVE  In(u, lockq'[k]) <=> pc'[u] \in Busy /\ target'[u] = k
  <2>1. CASE u = t
    BY <1>1, <1>3, <1>4, <2>1 DEF LockInv, h
  <2>2. CASE u # t
    BY <1>3, <1>4, <2>2 DEF LockInv, Idles
  <2> QED
    BY <2>1, <2>2
<1>8. ASSUME NEW u \in Tasks, pc'[u] = "render" PROVE lockq'[target'[u]][1] = u
  <2>1. u # t /\ pc[u] = "render" /\ target'[u] = target[u]
    BY <1>8 DEF Idles, Busy
  <2>2. target[u] \in Handles /\ lockq[target[u]][1] = u
    BY <2>1 DEF LockInv, Busy
  <2>3. target[u] # h
    BY <2>1, <2>2 DEF h
  <2> QED
    BY <1>3, <2>1, <2>2, <2>3
<1> QED
  BY <1>5, <1>6, <1>7, <1>8 DEF LockInv

\* A task that is cancelled, wherever it is.
LEMMA LockRemoved ==
  ASSUME DraftsTypeOK, LockInv, NEW t \in Tasks, NEW h \in Handles,
         pc[t] \in Busy => target[t] = h, pc'[t] \notin Busy,
         lockq' = [lockq EXCEPT ![h] = RemoveFirst(@, t)],
         \A u \in Tasks \ {t} : Idles(u)
  PROVE  LockInv'
<1>1. lockq[h] \in Seq(Tasks) /\ Once(lockq[h])
  BY DEF DraftsTypeOK, LockInv
<1>2. /\ lockq'[h] = RemoveFirst(lockq[h], t)
      /\ \A k \in Handles \ {h} : lockq'[k] = lockq[k]
  BY DEF DraftsTypeOK
<1>3. /\ Once(lockq'[h]) /\ \A u \in Tasks : In(u, lockq'[h]) <=> In(u, lockq[h]) /\ u # t
      /\ lockq[h] # <<>> /\ lockq[h][1] # t => lockq'[h][1] = lockq[h][1]
  <2> DEFINE r == RemoveFirst(lockq[h], t)
  <2>1. /\ Once(r) /\ \A u \in Tasks : In(u, r) <=> In(u, lockq[h]) /\ u # t
        /\ lockq[h] # <<>> /\ lockq[h][1] # t => r[1] = lockq[h][1]
    BY <1>1, Removed
  <2> HIDE DEF r
  <2>2. lockq'[h] = r
    BY <1>2 DEF r
  <2> QED
    BY <2>1, <2>2
<1>5. \A k \in Handles : Once(lockq'[k])
  BY <1>2, <1>3 DEF LockInv
<1>6. \A u \in Tasks : pc'[u] \in Busy => target'[u] \in Handles
  BY DEF LockInv, Idles
<1>7. ASSUME NEW k \in Handles, NEW u \in Tasks
      PROVE  In(u, lockq'[k]) <=> pc'[u] \in Busy /\ target'[u] = k
  <2>1. CASE u = t
    BY <1>2, <1>3, <2>1 DEF LockInv
  <2>2. CASE u # t
    BY <1>2, <1>3, <2>2 DEF LockInv, Idles
  <2> QED
    BY <2>1, <2>2
<1>8. ASSUME NEW u \in Tasks, pc'[u] = "render" PROVE lockq'[target'[u]][1] = u
  <2>1. u # t /\ pc[u] = "render" /\ target'[u] = target[u]
    BY <1>8 DEF Idles, Busy
  <2>2. target[u] \in Handles /\ lockq[target[u]][1] = u /\ In(u, lockq[target[u]])
    BY <2>1 DEF LockInv, Busy
  <2>3. lockq[target[u]] # <<>>
    BY <2>2 DEF In
  <2> QED
    BY <1>2, <1>3, <2>1, <2>2, <2>3
<1> QED
  BY <1>5, <1>6, <1>7, <1>8 DEF LockInv

-----------------------------------------------------------------------------
(* Closing *)

\* No task comes to close a handle, or to stop short of it.
Ends(t) == Ending(t)' => Ending(t) /\ target'[t] = target[t] /\ (pc'[t] = "stopping" <=> pc[t] = "stopping")

\* The handles go on as they were: what closes and what shows.
Same(h) == /\ draft'[h].closed = draft[h].closed
           /\ draft'[h].text # draft[h].text => ~draft[h].closed
           /\ pc[h] = "done" => pc'[h] = "done"
           /\ draft[h].closed => /\ TrailLive(h)' => TrailLive(h)
                                 /\ h \in Events => (LoopLive(h)' => LoopLive(h))
                                 /\ h \in Streams => asker'[h] = asker[h] \/ asker'[h] \in {"closing", "done"}

\* A step in which nobody begins or ends to close, and nobody joins behind a closer.
LEMMA ClosingLeft ==
  ASSUME DraftsTypeOK, CloseInv, UNCHANGED <<active, inbox>>,
         \A t \in Tasks : Ends(t), \A h \in Handles : Same(h),
         \A m \in Events : pc'[m] = "idle" <=> pc[m] = "idle",
         \A t \in Tasks : Ending(t)' /\ pc'[t] \in Busy
                             => lockq'[target[t]][Len(lockq'[target[t]])] = t,
         \A h \in Handles : draft[h].closed /\ lockq'[h] # <<>>
                             => \E t \in Tasks : Ending(t)' /\ target'[t] = h
  PROVE  OneCloser' /\ ClosersOK' /\ ClosedOK' /\ CardOK' /\ InboxOK'
<1>1. OneCloser'
  BY DEF CloseInv, OneCloser, Ends
<1>2. ClosersOK'
  BY DEF CloseInv, ClosersOK, Ends, Same
<1>3. ClosedOK'
  BY DEF CloseInv, ClosedOK, Same
<1>4. CardOK'
  BY TasksAssumption DEF CloseInv, CardOK, Same, DraftsTypeOK, Handles
<1>5. InboxOK'
  BY DEF CloseInv, InboxOK
<1> QED
  BY <1>1, <1>2, <1>3, <1>4, <1>5

\* The chat of h shows no final frame it did not show before, and keeps the one it shows.
Still(h) == chat'[h].final => chat[h].final /\ chat'[h].text = chat[h].text

\* A step that shows no final frame.
LEMMA ShowLeft ==
  ASSUME CloseInv, \A t \in Tasks : Ends(t), \A h \in Handles : Same(h) /\ Still(h)
  PROVE  ShownOK'
BY DEF CloseInv, ShownOK, Same, Ends, Still

\* Only the owner of a handle opens it.
LEMMA OpeningTask ==
  ASSUME TaskInv, NEW t \in Tasks, pc[t] = "opening"
  PROVE  t \in Handles /\ target[t] = t
BY TaskNames DEF TaskInv, Tasks, Handles, Busy

\* A frame that is not final reaches no chat that has the final one.
LEMMA FrameHarmless ==
  ASSUME DraftInv, NEW t \in Tasks, NEW r \in Results, Effect(call[t], r),
         pc[t] = "opening" \/ (pc[t] = "render" /\ ~Closing(t))
  PROVE  chat' \in [Handles -> Shown] /\ \A h \in Handles : Still(h)
<1> DEFINE c == call[t]
<1>1. DraftsTypeOK /\ c \in Frames /\ c.h = target[t] /\ ~c.final /\ c.h \in Handles
  BY DEF DraftInv, FrameInv, Frames
<1>2. ~chat[c.h].final
  <2>1. CASE pc[t] = "opening"
    <3>1. c.h = t
      BY <1>1, <2>1, OpeningTask DEF DraftInv
    <3> QED
      BY <1>1, <2>1, <3>1 DEF DraftInv, CloseInv, ShownOK, ClosedOK
  <2>2. CASE pc[t] = "render"
    <3>1. lockq[c.h] # <<>>
      BY <1>1, <2>2, Someone DEF DraftInv, LockInv, Busy
    <3> QED
      BY <1>1, <3>1 DEF DraftInv, CloseInv, ShownOK, ClosedOK
  <2> QED
    BY <2>1, <2>2
<1>3. /\ chat' \in [Handles -> Shown]
      /\ \A h \in Handles : \/ chat'[h].text = chat[h].text /\ chat'[h].final = chat[h].final
                            \/ h = c.h /\ chat'[h].final = (chat[h].final \/ c.final)
  BY <1>1, Ended
<1> QED
  BY <1>1, <1>2, <1>3 DEF Still

\* Whoever leaves the lock leaves the one that closes behind him.
LEMMA ServedCloses ==
  ASSUME DraftInv, NEW t \in Tasks, pc[t] \in Busy, lockq[target[t]][1] = t,
         lockq' = [lockq EXCEPT ![target[t]] = Tail(@)],
         pc' = [pc EXCEPT ![t] = After(t)], target' = target
  PROVE  /\ LockInv' /\ lockq' \in [Handles -> Seq(Tasks)] /\ pc' \in [Tasks -> Stages]
         /\ \A u \in Tasks : Ends(u)
         /\ \A u \in Tasks : Ending(u)' /\ pc'[u] \in Busy
                             => lockq'[target[u]][Len(lockq'[target[u]])] = u
         /\ \A h \in Handles : draft[h].closed /\ lockq'[h] # <<>>
                             => \E u \in Tasks : Ending(u)' /\ target'[u] = h
         /\ \A m \in Events : pc'[m] = "idle" <=> pc[m] = "idle"
         /\ \A h \in Handles : /\ pc[h] = "done" => pc'[h] = "done"
                               /\ TrailLive(h)' => TrailLive(h)
                               /\ h \in Events => (LoopLive(h)' => LoopLive(h))
<1> DEFINE h == target[t]
<1>0. /\ lockq \in [Handles -> Seq(Tasks)] /\ pc \in [Tasks -> Stages]
      /\ After(t) \in {"ready", "closed", "done"}
  BY WhereAfter DEF DraftInv, DraftsTypeOK
<1>1. h \in Handles /\ In(t, lockq[h]) /\ lockq[h] \in Seq(Tasks) /\ Once(lockq[h])
  BY <1>0 DEF DraftInv, LockInv
<1>2. lockq[h] # <<>>
  BY <1>1 DEF In
<1> HIDE DEF h
<1>3. /\ lockq'[h] = Tail(lockq[h]) /\ \A k \in Handles \ {h} : lockq'[k] = lockq[k]
      /\ Tail(lockq[h]) \in Seq(Tasks)
      /\ Tail(lockq[h]) # <<>> => /\ Tail(lockq[h])[Len(Tail(lockq[h]))] = lockq[h][Len(lockq[h])]
                                  /\ lockq[h][1] # lockq[h][Len(lockq[h])]
  BY <1>0, <1>1, <1>2, Served DEF h
<1>4. /\ pc'[t] = After(t) /\ pc'[t] \notin Busy
      /\ \A u \in Tasks \ {t} : pc'[u] = pc[u]
  BY <1>0 DEF Busy
<1>5. LockInv'
  <2>1. \A u \in Tasks \ {t} : Idles(u)
    BY <1>4 DEF Idles
  <2> QED
    BY <1>4, <2>1, LockServed DEF DraftInv
<1>6. lockq' \in [Handles -> Seq(Tasks)] /\ pc' \in [Tasks -> Stages]
  BY <1>0, <1>1, <1>3 DEF Stages, h
<1>7. \A u \in Tasks : /\ Ends(u)
                       /\ Ending(u)' <=> Ending(u) /\ u # t
  BY <1>0, <1>4 DEF Ends, Ending, Busy
<1>8. ASSUME NEW u \in Tasks, Ending(u)', pc'[u] \in Busy
      PROVE  lockq'[target[u]][Len(lockq'[target[u]])] = u
  <2>1. /\ u # t /\ Ending(u) /\ pc[u] \in Busy /\ target[u] \in Handles
        /\ lockq[target[u]][Len(lockq[target[u]])] = u
    BY <1>4, <1>7, <1>8 DEF DraftInv, CloseInv, ClosersOK
  <2>2. In(u, lockq'[target[u]])
    BY <1>5, <1>8, <2>1 DEF LockInv
  <2>3. lockq'[target[u]] # <<>>
    BY <2>2, Someone
  <2> QED
    BY <1>3, <2>1, <2>3
<1>9. ASSUME NEW k \in Handles, draft[k].closed, lockq'[k] # <<>>
      PROVE  \E u \in Tasks : Ending(u)' /\ target'[u] = k
  <2>1. PICK u \in Tasks : Ending(u) /\ target[u] = k
    BY <1>2, <1>3, <1>9 DEF DraftInv, CloseInv, ClosedOK
  <2>2. u # t
    <3> SUFFICES ASSUME u = t PROVE FALSE
      OBVIOUS
    <3>1. k = h /\ lockq[h][Len(lockq[h])] = t
      BY <2>1 DEF DraftInv, CloseInv, ClosersOK, h
    <3> QED
      BY <1>3, <1>9, <3>1 DEF h
  <2> QED
    BY <1>7, <2>1, <2>2
<1>10. \A m \in Events : pc'[m] = "idle" <=> pc[m] = "idle"
  BY <1>0, <1>4, TaskNames DEF Busy, Handles
<1>11. ASSUME NEW k \in Handles
       PROVE  /\ pc[k] = "done" => pc'[k] = "done"
              /\ TrailLive(k)' => TrailLive(k)
              /\ k \in Events => (LoopLive(k)' => LoopLive(k))
  BY <1>0, <1>4, TaskNames, WhereAfter DEF Busy, TrailLive, LoopLive
<1> QED
  BY <1>5, <1>6, <1>7, <1>8, <1>9, <1>10, <1>11

-----------------------------------------------------------------------------
(* The steps *)

\* _do_flush at the head of the queue.
LEMMA FlushKeeps ==
  ASSUME DraftInv, NEW t \in Tasks, Flush(t), UNCHANGED inbox
  PROVE  DraftInv'
<1> DEFINE h == target[t]
<1>1. /\ pc[t] = "lock" /\ lockq[h][1] = t /\ h \in Handles /\ In(t, lockq[h])
      /\ lockq[h] \in Seq(Tasks) /\ Once(lockq[h]) /\ lockq[h] # <<>>
      /\ UNCHANGED <<chat, asker, active, target>>
  <2>1. /\ pc[t] = "lock" /\ Head(lockq[h]) = t /\ UNCHANGED <<chat, asker, active, target>>
    BY DEF Flush, Waiting
  <2>2. h \in Handles /\ In(t, lockq[h]) /\ lockq[h] \in Seq(Tasks) /\ Once(lockq[h])
    BY <2>1 DEF DraftInv, LockInv, DraftsTypeOK, Busy
  <2>3. lockq[h] # <<>>
    BY <2>2 DEF In
  <2> QED
    BY <2>1, <2>2, <2>3
<1>0. /\ draft \in [Handles -> DraftStates] /\ lockq \in [Handles -> Seq(Tasks)]
      /\ pc \in [Tasks -> Stages] /\ call \in [Tasks -> Frames \cup {None}]
  BY DEF DraftInv, DraftsTypeOK
<1> HIDE DEF h
<1>2. CASE ~Closing(t) /\ lockq' = [lockq EXCEPT ![h] = Tail(@)]
           /\ pc' = [pc EXCEPT ![t] = After(t)] /\ UNCHANGED <<draft, call>>
  <2>1. /\ LockInv' /\ lockq' \in [Handles -> Seq(Tasks)] /\ pc' \in [Tasks -> Stages]
        /\ \A u \in Tasks : Ends(u)
        /\ \A u \in Tasks : Ending(u)' /\ pc'[u] \in Busy
                             => lockq'[target[u]][Len(lockq'[target[u]])] = u
        /\ \A k \in Handles : draft[k].closed /\ lockq'[k] # <<>>
                             => \E u \in Tasks : Ending(u)' /\ target'[u] = k
        /\ \A m \in Events : pc'[m] = "idle" <=> pc[m] = "idle"
        /\ \A k \in Handles : /\ pc[k] = "done" => pc'[k] = "done"
                              /\ TrailLive(k)' => TrailLive(k)
                              /\ k \in Events => (LoopLive(k)' => LoopLive(k))
    BY <1>1, <1>2, ServedCloses DEF Busy, h
  <2>2. After(t) \in {"ready", "done"} /\ t \notin Events /\ \A s \in Streams : t # Closer(s)
    BY <1>2, WhereAfter, ClosingTasks DEF After, Closing
  <2>3. DraftsTypeOK'
    BY <1>1, <1>2, <2>1 DEF DraftInv, DraftsTypeOK
  <2>5. FrameInv'
    BY <1>1, <1>2, <2>2 DEF DraftInv, FrameInv, DraftsTypeOK
  <2>6. TaskInv'
    BY <1>1, <1>2, <2>2, TaskNames, WhereAfter DEF DraftInv, TaskInv, DraftsTypeOK, Busy, LoopLive
  <2>7. CloseInv'
    <3>1. \A k \in Handles : Same(k)
      BY <1>1, <1>2, <2>1 DEF Same
    <3>2. \A k \in Handles : Still(k)
      BY <1>1 DEF Still
    <3> QED
      BY <1>1, <2>1, <3>1, <3>2, ClosingLeft, ShowLeft DEF DraftInv, CloseInv
  <2> QED
    BY <2>1, <2>3, <2>5, <2>6, <2>7 DEF DraftInv
<1>3. CASE /\ draft' = [draft EXCEPT ![h].sent = draft[h].text]
           /\ call' = [call EXCEPT ![t] = Render(h, Closing(t))]
           /\ pc' = [pc EXCEPT ![t] = "render"] /\ UNCHANGED lockq
  <2> DEFINE f == Render(h, Closing(t))
  <2>1. f \in Frames /\ f.h = h /\ f.text = draft[h].text /\ f.final = Closing(t)
    <3>1. draft[h].text \in Nat /\ draft[h].msg \in BOOLEAN /\ Closing(t) \in BOOLEAN
      BY <1>0, <1>1 DEF DraftStates, Closing
    <3> QED
      BY <1>1, <3>1 DEF Render, Frames
  <2> HIDE DEF f
  <2>2. /\ draft' \in [Handles -> DraftStates]
        /\ \A k \in Handles : draft'[k].closed = draft[k].closed /\ draft'[k].text = draft[k].text
    <3> DEFINE new == [draft[h] EXCEPT !.sent = draft[h].text]
    <3>1. new \in DraftStates /\ new.closed = draft[h].closed /\ new.text = draft[h].text
      BY <1>0, <1>1 DEF DraftStates
    <3>2. draft' = [draft EXCEPT ![h] = new]
      BY <1>3
    <3> HIDE DEF new
    <3> QED
      BY <1>0, <1>1, <3>1, <3>2
  <2>3. DraftsTypeOK'
    BY <1>1, <1>3, <2>1, <2>2 DEF DraftInv, DraftsTypeOK, Stages, Busy, f
  <2>4. LockInv'
    BY <1>1, <1>3 DEF DraftInv, DraftsTypeOK, LockInv, Busy, h
  <2>5. FrameInv'
    BY <1>1, <1>3, <2>1, <2>2 DEF DraftInv, FrameInv, DraftsTypeOK, LockInv, Busy, h, f
  <2>6. TaskInv'
    BY <1>1, <1>3, TaskNames DEF DraftInv, TaskInv, DraftsTypeOK, Busy, LoopLive
  <2>7. CloseInv'
    <3>1. /\ pc[t] = "lock" /\ pc'[t] = "render" /\ t \in Tasks
          /\ \A u \in Tasks \ {t} : pc'[u] = pc[u]
      BY <1>0, <1>1, <1>3
    <3>2. \A k \in Handles : Same(k)
      BY <1>1, <2>2, <3>1, TaskNames DEF Same, TrailLive, LoopLive, Busy
    <3>3. \A u \in Tasks : /\ Ends(u) /\ Ending(u)' = Ending(u)
                           /\ pc'[u] \in Busy <=> pc[u] \in Busy
      BY <1>1, <3>1 DEF Ends, Ending, Busy
    <3>4. \A m \in Events : pc'[m] = "idle" <=> pc[m] = "idle"
      BY <3>1, TaskNames DEF Handles
    <3>5. \A u \in Tasks : Ending(u)' /\ pc'[u] \in Busy => lockq'[target[u]][Len(lockq'[target[u]])] = u
      BY <1>3, <3>3 DEF DraftInv, CloseInv, ClosersOK
    <3>6. \A k \in Handles : draft[k].closed /\ lockq'[k] # <<>> => \E u \in Tasks : Ending(u)' /\ target'[u] = k
      BY <1>1, <1>3, <3>3 DEF DraftInv, CloseInv, ClosedOK
    <3>7. \A k \in Handles : Still(k)
      BY <1>1 DEF Still
    <3> QED
      BY <1>1, <3>2, <3>3, <3>4, <3>5, <3>6, <3>7, ClosingLeft, ShowLeft DEF DraftInv, CloseInv
  <2> QED
    BY <2>3, <2>4, <2>5, <2>6, <2>7 DEF DraftInv
<1> QED
  BY <1>2, <1>3 DEF Flush, h

\* A call that ends, in whatever way, also the one with the final frame.
LEMMA RenderEndsKeeps ==
  ASSUME DraftInv, NEW t \in Tasks, NEW r \in Results, RenderEnds(t, r), UNCHANGED inbox
  PROVE  DraftInv'
<1> DEFINE c == call[t]
           h == target[t]
<1>1. /\ pc[t] = "render" /\ UNCHANGED <<asker, active, target>>
      /\ draft' = Confirm(c, r) /\ Effect(c, r)
      /\ call' = [call EXCEPT ![t] = None]
      /\ lockq' = [lockq EXCEPT ![h] = Tail(@)]
      /\ pc' = [pc EXCEPT ![t] = After(t)]
  BY DEF RenderEnds
<1>2. /\ DraftsTypeOK /\ c \in Frames /\ c.h = h /\ h \in Handles /\ lockq[h][1] = t
      /\ c.final <=> Closing(t)
      /\ Closing(t) => c.text = draft[h].text
  BY <1>1 DEF DraftInv, FrameInv, LockInv, Busy
<1>3. /\ chat' \in [Handles -> Shown] /\ draft' \in [Handles -> DraftStates]
      /\ \A k \in Handles : \/ chat'[k].text = chat[k].text /\ chat'[k].final = chat[k].final
                            \/ /\ k = h /\ chat'[k].text = c.text
                               /\ chat'[k].final = (chat[k].final \/ c.final)
      /\ \A k \in Handles : draft'[k].closed = draft[k].closed /\ draft'[k].text = draft[k].text
  BY <1>1, <1>2, Ended
<1> HIDE DEF c, h
<1>4. /\ LockInv' /\ lockq' \in [Handles -> Seq(Tasks)] /\ pc' \in [Tasks -> Stages]
      /\ \A u \in Tasks : Ends(u)
      /\ \A u \in Tasks : Ending(u)' /\ pc'[u] \in Busy
                           => lockq'[target[u]][Len(lockq'[target[u]])] = u
      /\ \A k \in Handles : draft[k].closed /\ lockq'[k] # <<>>
                           => \E u \in Tasks : Ending(u)' /\ target'[u] = k
      /\ \A m \in Events : pc'[m] = "idle" <=> pc[m] = "idle"
      /\ \A k \in Handles : /\ pc[k] = "done" => pc'[k] = "done"
                            /\ TrailLive(k)' => TrailLive(k)
                            /\ k \in Events => (LoopLive(k)' => LoopLive(k))
  BY <1>1, <1>2, ServedCloses DEF Busy, h
<1>5. DraftsTypeOK'
  BY <1>1, <1>2, <1>3, <1>4 DEF DraftsTypeOK
<1>6. After(t) \in {"ready", "closed", "done"} /\ pc \in [Tasks -> Stages]
  BY <1>2, WhereAfter DEF DraftsTypeOK
<1>7. FrameInv'
  BY <1>1, <1>3, <1>6, <1>2 DEF DraftInv, FrameInv, DraftsTypeOK, LockInv, Busy
<1>8. TaskInv'
  BY <1>1, <1>6, TaskNames, WhereAfter DEF DraftInv, TaskInv, Busy, LoopLive
<1>9. \A k \in Handles : Same(k)
  BY <1>1, <1>3, <1>4 DEF Same
<1>10. OneCloser' /\ ClosersOK' /\ ClosedOK' /\ CardOK' /\ InboxOK'
  BY <1>1, <1>2, <1>4, <1>9, ClosingLeft DEF DraftInv
<1>11. ShownOK'
  <2>1. CASE ~Closing(t)
    BY <1>1, <1>4, <1>9, <2>1, FrameHarmless, ShowLeft DEF DraftInv, c
  <2>2. CASE Closing(t)
    <3>1. Ending(t) /\ ~Ending(t)' /\ draft[h].closed
      BY <1>1, <1>6, <2>2 DEF Ending, Busy, DraftInv, CloseInv, ClosersOK, h
    <3>2. \A u \in Tasks : Ending(u)' => target'[u] # h
      BY <1>1, <1>4, <3>1 DEF DraftInv, CloseInv, OneCloser, Ends, h
    <3>3. ASSUME NEW k \in Handles, chat'[k].final
          PROVE  /\ draft'[k].closed /\ chat'[k].text = draft'[k].text
                 /\ \A u \in Tasks : Ending(u)' => target'[u] # k
      <4>1. CASE k = h
        <5>1. draft'[h].closed /\ draft'[h].text = draft[h].text
          BY <1>2, <1>3, <3>1
        <5>2. chat'[h].text = draft[h].text
          <6>1. CASE chat'[h].text = c.text
            BY <1>2, <2>2, <6>1
          <6>2. CASE chat'[h].text = chat[h].text /\ chat'[h].final = chat[h].final
            BY <1>2, <3>3, <4>1, <6>2 DEF DraftInv, CloseInv, ShownOK
          <6> QED
            BY <1>2, <1>3, <6>1, <6>2
        <5> QED
          BY <3>2, <4>1, <5>1, <5>2
      <4>2. CASE k # h
        <5>1. chat[k].final /\ chat'[k].text = chat[k].text
          BY <1>3, <3>3, <4>2
        <5>2. draft[k].closed /\ chat[k].text = draft[k].text /\ \A u \in Tasks : Ending(u) => target[u] # k
          BY <5>1 DEF DraftInv, CloseInv, ShownOK
        <5>3. \A u \in Tasks : Ending(u)' => target'[u] # k
          BY <1>4, <5>2 DEF Ends
        <5> QED
          BY <1>3, <5>1, <5>2, <5>3
      <4> QED
        BY <4>1, <4>2
    <3> QED
      BY <3>3 DEF ShownOK
  <2> QED
    BY <2>1, <2>2
<1> QED
  BY <1>4, <1>5, <1>7, <1>8, <1>10, <1>11 DEF DraftInv, CloseInv

\* A task that queues for the lock of a handle nobody has closed.
LEMMA JoinKeeps ==
  ASSUME DraftInv, NEW t \in Tasks, NEW h \in Handles, ~Closing(t), ~draft[h].closed,
         pc[t] \notin Busy \cup {"opening"}, pc'[t] = "lock", target' = [target EXCEPT ![t] = h],
         lockq' = [lockq EXCEPT ![h] = Append(@, t)],
         \A u \in Tasks \ {t} : pc'[u] = pc[u],
         pc' \in [Tasks -> Stages], draft' \in [Handles -> DraftStates],
         \A k \in Handles : /\ draft'[k].closed = draft[k].closed
                            /\ draft'[k].text # draft[k].text => ~draft[k].closed
                            /\ TrailLive(k)' => TrailLive(k) \/ ~draft[k].closed
                            /\ k \in Events => (LoopLive(k)' => LoopLive(k))
                            /\ pc[k] = "done" => pc'[k] = "done",
         UNCHANGED <<call, chat, asker, active, inbox>>
  PROVE  DraftsTypeOK' /\ LockInv' /\ FrameInv' /\ CloseInv'
<1>1. /\ DraftsTypeOK /\ lockq[h] \in Seq(Tasks) /\ Once(lockq[h]) /\ ~In(t, lockq[h])
  BY DEF DraftInv, LockInv, DraftsTypeOK
<1>2. Append(lockq[h], t) \in Seq(Tasks)
  BY <1>1
<1>3. /\ lockq' \in [Handles -> Seq(Tasks)] /\ target' \in [Tasks -> Handles \cup {None}]
      /\ target'[t] = h /\ \A u \in Tasks \ {t} : target'[u] = target[u]
      /\ \A k \in Handles \ {h} : lockq'[k] = lockq[k]
  BY <1>1, <1>2 DEF DraftsTypeOK
<1>4. DraftsTypeOK'
  BY <1>1, <1>3 DEF DraftsTypeOK
<1>5. LockInv'
  BY <1>1, <1>3, LockJoined DEF DraftInv, Idles, Busy
<1>6. FrameInv'
  <2>1. ASSUME NEW u \in Tasks, pc'[u] \in {"opening", "render"} PROVE u # t /\ pc'[u] = pc[u]
    BY <2>1
  <2>2. ASSUME NEW u \in Tasks, pc'[u] = "render", Closing(u)
        PROVE  call'[u].text = draft'[target'[u]].text
    <3>1. Ending(u) /\ u # t /\ pc[u] = "render" /\ target'[u] = target[u]
      BY <1>3, <2>1, <2>2 DEF Ending, Busy
    <3>2. draft[target[u]].closed /\ target[u] \in Handles
      BY <3>1 DEF DraftInv, CloseInv, ClosersOK
    <3> QED
      BY <2>2, <3>1, <3>2 DEF DraftInv, FrameInv
  <2>3. call[t] = None
    BY DEF DraftInv, FrameInv, Busy
  <2> QED
    BY <1>3, <2>1, <2>2, <2>3 DEF DraftInv, FrameInv
<1>7. \A u \in Tasks : Ends(u) /\ (Ending(u)' => u # t /\ pc'[u] = pc[u] /\ target'[u] = target[u])
  BY <1>3 DEF Ends, Ending
<1>8. \A k \in Handles : Same(k)
  BY DEF Same
<1>9. \A m \in Events : pc'[m] = "idle" <=> pc[m] = "idle"
  BY ClosingTasks, TaskNames DEF Handles
<1>10. ASSUME NEW u \in Tasks, Ending(u)', pc'[u] \in Busy
       PROVE  lockq'[target[u]][Len(lockq'[target[u]])] = u
  <2>1. /\ Ending(u) /\ pc[u] \in Busy /\ target[u] \in Handles /\ draft[target[u]].closed
        /\ lockq[target[u]][Len(lockq[target[u]])] = u
    BY <1>7, <1>10 DEF DraftInv, CloseInv, ClosersOK, Ends, Busy
  <2> QED
    BY <1>3, <2>1
<1>11. ASSUME NEW k \in Handles, draft[k].closed, lockq'[k] # <<>>
       PROVE  \E u \in Tasks : Ending(u)' /\ target'[u] = k
  <2>1. PICK u \in Tasks : Ending(u) /\ target[u] = k
    BY <1>3, <1>11 DEF DraftInv, CloseInv, ClosedOK
  <2>2. u # t
    BY <2>1 DEF Ending
  <2> QED
    BY <1>3, <2>1, <2>2 DEF Ending
<1>12. OneCloser' /\ ClosersOK' /\ ClosedOK' /\ CardOK' /\ InboxOK'
  <2>1. /\ \A u \in Tasks : Ending(u)' /\ pc'[u] \in Busy
                             => lockq'[target[u]][Len(lockq'[target[u]])] = u
        /\ \A k \in Handles : draft[k].closed /\ lockq'[k] # <<>>
                             => \E u \in Tasks : Ending(u)' /\ target'[u] = k
    BY <1>10, <1>11
  <2> QED
    BY <1>1, <1>7, <1>8, <1>9, <2>1, ClosingLeft DEF DraftInv
<1>13. ShownOK'
  BY <1>7, <1>8, ShowLeft DEF DraftInv, Still
<1> QED
  BY <1>4, <1>5, <1>6, <1>12, <1>13 DEF CloseInv

\* A coalesced flush that wakes up belongs to a handle nobody closes.
LEMMA TrailWakesKeeps ==
  ASSUME DraftInv, NEW h \in Handles, TrailWakes(h), UNCHANGED inbox
  PROVE  DraftInv'
<1> DEFINE t == Trail(h)
<1>1. /\ pc[t] = "sleep" /\ lockq' = [lockq EXCEPT ![h] = Append(@, t)]
      /\ target' = [target EXCEPT ![t] = h] /\ pc' = [pc EXCEPT ![t] = "lock"]
      /\ UNCHANGED <<draft, call, chat, asker, active, inbox>>
  BY DEF TrailWakes, Queue
<1>2. /\ t \in Tasks /\ ~Closing(t) /\ DraftsTypeOK /\ ~draft[h].closed
      /\ t \notin Streams \cup Events \cup Updates /\ \A e \in Events : t # Loop(e)
      /\ \A s \in Streams : t # Closer(s)
      /\ \A k \in Handles : t = Trail(k) => k = h
  BY <1>1, TaskNames, ClosingTasks DEF DraftInv, CloseInv, ClosedOK, TrailLive, Handles
<1> HIDE DEF t
<1>3. pc' \in [Tasks -> Stages] /\ pc'[t] = "lock" /\ \A u \in Tasks \ {t} : pc'[u] = pc[u]
  BY <1>1, <1>2 DEF DraftsTypeOK, Stages, Busy
<1>4. \A k \in Handles : /\ TrailLive(k)' => TrailLive(k) \/ ~draft[k].closed
                         /\ k \in Events => (LoopLive(k)' => LoopLive(k))
                         /\ pc[k] = "done" => pc'[k] = "done"
  BY <1>1, <1>2, <1>3, TaskNames DEF TrailLive, LoopLive, t
<1>5. DraftsTypeOK' /\ LockInv' /\ FrameInv' /\ CloseInv'
  BY <1>1, <1>2, <1>3, <1>4, JoinKeeps DEF DraftsTypeOK, Busy
<1>6. TaskInv'
  BY <1>1, <1>2, <1>3, TaskNames DEF DraftInv, TaskInv, DraftsTypeOK, Busy, LoopLive, t
<1> QED
  BY <1>5, <1>6 DEF DraftInv

\* The refresh loop only goes round on a card nobody closes.
LEMMA RefreshKeeps ==
  ASSUME DraftInv, NEW h \in Events, Refresh(h), UNCHANGED inbox
  PROVE  DraftInv'
<1> DEFINE t == Loop(h)
<1>1. /\ pc[t] = "ready" /\ ~draft[h].closed /\ lockq' = [lockq EXCEPT ![h] = Append(@, t)]
      /\ target' = [target EXCEPT ![t] = h] /\ pc' = [pc EXCEPT ![t] = "lock"]
      /\ draft' = draft \/ draft' = SetText(h)
      /\ UNCHANGED <<call, chat, asker, active, inbox>>
  BY DEF Refresh, Queue
<1>2. /\ t \in Tasks /\ ~Closing(t) /\ DraftsTypeOK /\ h \in Handles
      /\ t \notin Streams \cup Events \cup Updates /\ \A e \in Handles : t # Trail(e)
      /\ \A s \in Streams : t # Closer(s)
      /\ \A k \in Events : t = Loop(k) => k = h
  BY TaskNames, ClosingTasks DEF DraftInv, Handles
<1> HIDE DEF t
<1>3. pc' \in [Tasks -> Stages] /\ pc'[t] = "lock" /\ \A u \in Tasks \ {t} : pc'[u] = pc[u]
  BY <1>1, <1>2 DEF DraftsTypeOK, Stages, Busy
<1>4. \A k \in Handles : /\ TrailLive(k)' => TrailLive(k) \/ ~draft[k].closed
                         /\ k \in Events => (LoopLive(k)' => LoopLive(k))
                         /\ pc[k] = "done" => pc'[k] = "done"
  BY <1>1, <1>2, <1>3, TaskNames DEF TrailLive, LoopLive, t
<1>5. /\ draft' \in [Handles -> DraftStates]
      /\ \A k \in Handles : /\ draft'[k].closed = draft[k].closed
                            /\ draft'[k].text # draft[k].text => ~draft[k].closed
  BY <1>1, <1>2, TextSet DEF DraftsTypeOK
<1>6. DraftsTypeOK' /\ LockInv' /\ FrameInv' /\ CloseInv'
  BY <1>1, <1>2, <1>3, <1>4, <1>5, JoinKeeps DEF Busy
<1>7. TaskInv'
  BY <1>1, <1>2, <1>3, TaskNames DEF DraftInv, TaskInv, DraftsTypeOK, Busy, LoopLive, t
<1> QED
  BY <1>6, <1>7 DEF DraftInv

\* A step that leaves the locks and the closing alone.
Aside(t) == \/ pc'[t] = pc[t] /\ target'[t] = target[t]
            \/ pc[t] \notin Busy /\ pc'[t] \notin Busy /\ ~Ending(t) /\ ~Ending(t)'

\* A step outside the locks, in which nobody closes anything.
LEMMA QuietKeeps ==
  ASSUME DraftInv, UNCHANGED <<lockq, active, inbox>>,
         \A t \in Tasks : Aside(t), \A h \in Handles : Same(h) /\ Still(h),
         \A m \in Events : pc'[m] = "idle" <=> pc[m] = "idle"
  PROVE  LockInv' /\ CloseInv'
<1>1. LockInv'
  BY LocksLeft DEF DraftInv, Aside, Idles
<1>2. \A t \in Tasks : Ends(t) /\ (Ending(t) => Ending(t)' /\ target'[t] = target[t])
  BY DEF Aside, Ends, Ending
<1>3. \A t \in Tasks : Ending(t)' /\ pc'[t] \in Busy => lockq'[target[t]][Len(lockq'[target[t]])] = t
  BY DEF Aside, DraftInv, CloseInv, ClosersOK, Ending
<1>4. \A h \in Handles : draft[h].closed /\ lockq'[h] # <<>> => \E t \in Tasks : Ending(t)' /\ target'[t] = h
  BY <1>2 DEF DraftInv, CloseInv, ClosedOK
<1>5. OneCloser' /\ ClosersOK' /\ ClosedOK' /\ CardOK' /\ InboxOK'
  BY <1>2, <1>3, <1>4, ClosingLeft DEF DraftInv
<1>6. ShownOK'
  BY <1>2, ShowLeft DEF DraftInv
<1> QED
  BY <1>1, <1>5, <1>6 DEF CloseInv

\* update_draft, refused, flushed at once or later.
LEMMA UpdateKeeps ==
  ASSUME DraftInv, NEW u \in Updates, NEW s \in Streams, Update(u, s), UNCHANGED inbox
  PROVE  DraftInv'
<1> DEFINE t == Trail(s)
<1>1. /\ pc[u] = "idle" /\ UNCHANGED <<call, chat, asker, active>>
      /\ \/ /\ pc' = [pc EXCEPT ![u] = "done"] /\ UNCHANGED <<draft, lockq, target>>
         \/ /\ ~draft[s].closed /\ draft' = SetText(s)
            /\ \/ Queue(u, s, pc)
               \/ /\ ~TrailLive(s) /\ pc' = [pc EXCEPT ![u] = "done", ![t] = "sleep"]
                  /\ UNCHANGED <<lockq, target>>
               \/ /\ pc' = [pc EXCEPT ![u] = "done"] /\ UNCHANGED <<lockq, target>>
  BY DEF Update
<1>2. /\ u \in Tasks /\ s \in Tasks /\ t \in Tasks /\ s \in Handles /\ u # t /\ u \notin Handles /\ t \notin Handles
      /\ ~Closing(u) /\ ~Closing(t) /\ t \notin Updates
      /\ \A h \in Handles : u # Trail(h) /\ u # Loop(h) /\ u # Closer(h) /\ t # Loop(h) /\ t # Closer(h)
      /\ \A h \in Handles : t = Trail(h) => h = s
  BY TaskNames, ClosingTasks, TasksAssumption DEF Handles
<1> HIDE DEF t
<1>3. DraftsTypeOK /\ pc \in [Tasks -> Stages]
  BY DEF DraftInv, DraftsTypeOK
<1>4. CASE Queue(u, s, pc) /\ draft' = SetText(s) /\ ~draft[s].closed
  <2>1. /\ lockq' = [lockq EXCEPT ![s] = Append(@, u)] /\ target' = [target EXCEPT ![u] = s]
        /\ pc' = [pc EXCEPT ![u] = "lock"]
    BY <1>4 DEF Queue
  <2>2. pc' \in [Tasks -> Stages] /\ pc'[u] = "lock" /\ \A x \in Tasks \ {u} : pc'[x] = pc[x]
    BY <1>2, <1>3, <2>1 DEF Stages, Busy
  <2>3. \A k \in Handles : /\ TrailLive(k)' => TrailLive(k) \/ ~draft[k].closed
                           /\ k \in Events => (LoopLive(k)' => LoopLive(k))
                           /\ pc[k] = "done" => pc'[k] = "done"
    BY <1>2, <2>2, TaskNames DEF TrailLive, LoopLive
  <2>4. /\ draft' \in [Handles -> DraftStates]
        /\ \A k \in Handles : /\ draft'[k].closed = draft[k].closed
                              /\ draft'[k].text # draft[k].text => ~draft[k].closed
    BY <1>2, <1>3, <1>4, TextSet
  <2>5. DraftsTypeOK' /\ LockInv' /\ FrameInv' /\ CloseInv'
    BY <1>1, <1>2, <1>4, <2>1, <2>2, <2>3, <2>4, JoinKeeps DEF Busy
  <2>6. TaskInv'
    BY <1>1, <1>2, <1>3, <2>1, <2>2, TaskNames DEF DraftInv, TaskInv, DraftsTypeOK, Busy, LoopLive, Handles
  <2> QED
    BY <2>5, <2>6 DEF DraftInv
<1>5. CASE /\ draft' = draft \/ (draft' = SetText(s) /\ ~draft[s].closed)
           /\ \/ pc' = [pc EXCEPT ![u] = "done"]
              \/ ~TrailLive(s) /\ ~draft[s].closed /\ pc' = [pc EXCEPT ![u] = "done", ![t] = "sleep"]
           /\ UNCHANGED <<lockq, target>>
  <2>1. /\ pc'[u] = "done" /\ \A x \in Tasks \ {u, t} : pc'[x] = pc[x]
        /\ pc'[t] = pc[t] \/ (pc'[t] = "sleep" /\ ~TrailLive(s) /\ ~draft[s].closed)
        /\ pc' \in [Tasks -> Stages]
    BY <1>2, <1>3, <1>5 DEF Stages
  <2>2. /\ draft' \in [Handles -> DraftStates]
        /\ \A k \in Handles : /\ draft'[k].closed = draft[k].closed
                              /\ draft'[k].text # draft[k].text => ~draft[k].closed
    BY <1>2, <1>3, <1>5, TextSet DEF DraftsTypeOK
  <2>3. ~TrailLive(s) => pc[t] \notin Busy
    BY DEF TrailLive, t
  <2>4. \A x \in Tasks : Aside(x)
    BY <1>1, <1>2, <1>5, <2>1, <2>3 DEF Aside, Busy, Ending
  <2>5. \A k \in Handles : Same(k) /\ Still(k)
    BY <1>1, <1>2, <2>1, <2>2, TaskNames DEF Same, Still, TrailLive, LoopLive
  <2>6. \A m \in Events : pc'[m] = "idle" <=> pc[m] = "idle"
    BY <1>2, <2>1, TaskNames DEF Handles
  <2>7. LockInv' /\ CloseInv'
    BY <1>1, <1>5, <2>4, <2>5, <2>6, QuietKeeps
  <2>8. DraftsTypeOK'
    BY <1>1, <1>3, <1>5, <2>1, <2>2 DEF DraftsTypeOK
  <2>9. FrameInv'
    <3>1. ASSUME NEW x \in Tasks, pc'[x] = "render", Closing(x)
          PROVE  call'[x].text = draft'[target'[x]].text
      <4>1. Ending(x) /\ x # u /\ pc[x] = "render"
        BY <1>2, <2>1, <3>1 DEF Ending, Busy
      <4>2. draft[target[x]].closed /\ target[x] \in Handles
        BY <4>1 DEF DraftInv, CloseInv, ClosersOK
      <4> QED
        BY <1>1, <1>5, <2>2, <3>1, <4>1, <4>2 DEF DraftInv, FrameInv
    <3>2. call[u] = None /\ (pc'[t] # pc[t] => call[t] = None)
      BY <1>1, <1>2, <2>1, <2>3 DEF DraftInv, FrameInv, TaskInv, Busy, t
    <3> QED
      BY <1>1, <1>2, <1>5, <2>1, <3>1, <3>2 DEF DraftInv, FrameInv
  <2>10. TaskInv'
    BY <1>1, <1>2, <1>3, <1>5, <2>1, <2>3, TaskNames DEF DraftInv, TaskInv, Busy, LoopLive, Handles, t
  <2> QED
    BY <2>7, <2>8, <2>9, <2>10 DEF DraftInv
<1> QED
  BY <1>1, <1>4, <1>5

\* open() of a stream comes back.
LEMMA OpenEndsKeeps ==
  ASSUME DraftInv, NEW s \in Streams, NEW r \in Results, OpenEnds(s, r), UNCHANGED inbox
  PROVE  DraftInv'
<1>1. /\ pc[s] = "opening" /\ Effect(call[s], r) /\ draft' = Confirm(call[s], r)
      /\ call' = [call EXCEPT ![s] = None] /\ pc' = [pc EXCEPT ![s] = "done"]
      /\ asker' = [asker EXCEPT ![s] = IF @ = "opening" THEN "open" ELSE @]
      /\ UNCHANGED <<lockq, active, target>>
  BY DEF OpenEnds
<1>2. /\ s \in Tasks /\ s \in Handles /\ ~Closing(s) /\ s \notin Events /\ s \notin Updates
      /\ \A h \in Handles : s # Trail(h) /\ s # Loop(h) /\ s # Closer(h)
      /\ DraftsTypeOK /\ pc \in [Tasks -> Stages] /\ call[s] \in Frames
  BY <1>1, TaskNames, ClosingTasks, TasksAssumption DEF Handles, DraftInv, DraftsTypeOK, FrameInv
<1>3. /\ chat' \in [Handles -> Shown] /\ \A h \in Handles : Still(h)
  BY <1>1, <1>2, FrameHarmless
<1>4. /\ draft' \in [Handles -> DraftStates]
      /\ \A k \in Handles : draft'[k].closed = draft[k].closed /\ draft'[k].text = draft[k].text
  BY <1>1, <1>2, Ended
<1>5. pc' \in [Tasks -> Stages] /\ pc'[s] = "done" /\ \A x \in Tasks \ {s} : pc'[x] = pc[x]
  BY <1>1, <1>2 DEF Stages
<1>6. \A x \in Tasks : Aside(x)
  BY <1>1, <1>2, <1>5 DEF Aside, Busy, Ending
<1>7. ~draft[s].closed
  BY <1>1, <1>2 DEF DraftInv, CloseInv, ClosedOK
<1>8. \A k \in Handles : Same(k)
  BY <1>1, <1>2, <1>4, <1>5, <1>7, TaskNames DEF Same, TrailLive, LoopLive, DraftsTypeOK
<1>9. LockInv' /\ CloseInv'
  BY <1>1, <1>2, <1>3, <1>5, <1>6, <1>8, QuietKeeps, TaskNames DEF Handles
<1>10. DraftsTypeOK'
  BY <1>1, <1>2, <1>3, <1>4, <1>5 DEF DraftsTypeOK
<1>11. FrameInv'
  BY <1>1, <1>2, <1>4, <1>5 DEF DraftInv, FrameInv, LockInv, DraftsTypeOK, Busy
<1>12. TaskInv'
  BY <1>1, <1>2, <1>5, TaskNames DEF DraftInv, TaskInv, Busy, LoopLive, DraftsTypeOK, Handles
<1> QED
  BY <1>9, <1>10, <1>11, <1>12 DEF DraftInv

\* open() raises.
LEMMA OpenRaisesKeeps ==
  ASSUME DraftInv, NEW t \in Handles, OpenRaises(t), UNCHANGED inbox
  PROVE  DraftInv'
<1>1. /\ pc[t] = "opening" /\ call' = [call EXCEPT ![t] = None] /\ pc' = [pc EXCEPT ![t] = "done"]
      /\ UNCHANGED <<draft, lockq, chat, active, target>>
      /\ asker' = asker \/ (t \in Streams /\ asker' = [asker EXCEPT ![t] = "done"])
  BY DEF OpenRaises
<1>2. /\ t \in Tasks /\ t \notin Updates
      /\ \A h \in Handles : t # Trail(h) /\ t # Loop(h) /\ t # Closer(h)
      /\ DraftsTypeOK /\ pc \in [Tasks -> Stages]
  BY TaskNames, TasksAssumption DEF Handles, DraftInv, DraftsTypeOK
<1>3. pc' \in [Tasks -> Stages] /\ pc'[t] = "done" /\ \A x \in Tasks \ {t} : pc'[x] = pc[x]
  BY <1>1, <1>2 DEF Stages
<1>4. \A x \in Tasks : Aside(x)
  BY <1>1, <1>2, <1>3 DEF Aside, Busy, Ending
<1>5. ~draft[t].closed
  BY <1>1, <1>2 DEF DraftInv, CloseInv, ClosedOK
<1>6. \A k \in Handles : Same(k) /\ Still(k)
  BY <1>1, <1>2, <1>3, <1>5, TaskNames DEF Same, Still, TrailLive, LoopLive, DraftsTypeOK
<1>7. LockInv' /\ CloseInv'
  BY <1>1, <1>2, <1>3, <1>4, <1>6, QuietKeeps, TaskNames DEF Handles
<1>8. DraftsTypeOK'
  BY <1>1, <1>2, <1>3 DEF DraftsTypeOK
<1>9. FrameInv'
  BY <1>1, <1>2, <1>3 DEF DraftInv, FrameInv, DraftsTypeOK
<1>10. TaskInv'
  BY <1>1, <1>2, <1>3, TaskNames, TasksAssumption DEF DraftInv, TaskInv, Busy, LoopLive, DraftsTypeOK, Handles
<1> QED
  BY <1>7, <1>8, <1>9, <1>10 DEF DraftInv

\* reply_via_gateway gives up waiting for its draft, or has closed it.
LEMMA AskerKeeps ==
  ASSUME DraftInv, NEW s \in Streams, AskTimesOut(s) \/ AskClosed(s), UNCHANGED inbox
  PROVE  DraftInv'
<1>1. /\ asker[s] \in {"opening", "closing"} /\ asker' = [asker EXCEPT ![s] = "done"]
      /\ UNCHANGED <<draft, lockq, pc, call, chat, active, target>>
  BY DEF AskTimesOut, AskClosed
<1>2. DraftsTypeOK' /\ asker \in [Streams -> {"idle", "away", "opening", "open", "closing", "done"}]
  BY <1>1 DEF DraftInv, DraftsTypeOK
<1>3. \A k \in Handles : Same(k) /\ Still(k)
  BY <1>1, <1>2 DEF Same, Still, TrailLive, LoopLive
<1>4. LockInv' /\ CloseInv'
  BY <1>1, <1>3, QuietKeeps DEF Aside
<1>5. FrameInv'
  BY <1>1 DEF DraftInv, FrameInv
<1>6. TaskInv'
  BY <1>1, <1>2 DEF DraftInv, TaskInv, LoopLive
<1> QED
  BY <1>2, <1>4, <1>5, <1>6 DEF DraftInv

\* A task opens a draft of its own.
LEMMA OpenKeeps ==
  ASSUME DraftInv, NEW t \in Handles, pc[t] \in {"idle", "come", "closed"}, t \in Events => pc[t] # "idle",
         OpenWith(t, [pc EXCEPT ![t] = "opening"]), UNCHANGED <<lockq, chat, active, inbox>>,
         asker' \in [Streams -> {"idle", "away", "opening", "open", "closing", "done"}],
         \A s \in Streams : IF s = t THEN asker[s] = "idle" /\ asker'[s] = "opening" ELSE asker'[s] = asker[s]
  PROVE  DraftInv'
<1> DEFINE new == [draft[t] EXCEPT !.opened = TRUE, !.text = 1]
           f == [h |-> t, text |-> 1, final |-> FALSE, edit |-> FALSE]
<1>1. /\ draft' = [draft EXCEPT ![t] = new] /\ call' = [call EXCEPT ![t] = f]
      /\ pc' = [pc EXCEPT ![t] = "opening"] /\ target' = [target EXCEPT ![t] = t]
  BY DEF OpenWith
<1>2. /\ t \in Tasks /\ t \notin Updates
      /\ \A h \in Handles : t # Trail(h) /\ t # Loop(h) /\ t # Closer(h)
      /\ DraftsTypeOK /\ pc \in [Tasks -> Stages] /\ draft \in [Handles -> DraftStates]
      /\ call \in [Tasks -> Frames \cup {None}] /\ target \in [Tasks -> Handles \cup {None}]
  BY TaskNames, TasksAssumption DEF Handles, DraftInv, DraftsTypeOK
<1>3. new \in DraftStates /\ new.closed = draft[t].closed /\ f \in Frames /\ f.h = t /\ ~f.final
  <2>1. draft[t] \in DraftStates
    BY <1>2
  <2>2. new \in DraftStates /\ new.closed = draft[t].closed
    BY <2>1 DEF DraftStates
  <2>3. f \in Frames /\ f.h = t /\ ~f.final
    BY DEF Frames
  <2> QED
    BY <2>2, <2>3
<1> HIDE DEF new, f
<1>4. /\ pc' \in [Tasks -> Stages] /\ pc'[t] = "opening" /\ \A x \in Tasks \ {t} : pc'[x] = pc[x]
      /\ target' \in [Tasks -> Handles \cup {None}] /\ target'[t] = t
      /\ \A x \in Tasks \ {t} : target'[x] = target[x]
  BY <1>1, <1>2 DEF Stages
<1>5. ~draft[t].closed
  BY DEF DraftInv, CloseInv, ClosedOK
<1>6. /\ draft' \in [Handles -> DraftStates]
      /\ \A k \in Handles : /\ draft'[k].closed = draft[k].closed
                            /\ draft'[k].text # draft[k].text => ~draft[k].closed
  BY <1>1, <1>2, <1>3, <1>5
<1>7. \A x \in Tasks : Aside(x)
  BY <1>4 DEF Aside, Busy, Ending
<1>8. \A k \in Handles : Same(k) /\ Still(k)
  BY <1>2, <1>4, <1>5, <1>6, TaskNames DEF Same, Still, TrailLive, LoopLive, Handles
<1>9. LockInv' /\ CloseInv'
  <2>1. \A m \in Events : pc'[m] = "idle" <=> pc[m] = "idle"
    BY <1>4, TaskNames DEF Handles
  <2> QED
    BY <1>7, <1>8, <2>1, QuietKeeps
<1>10. DraftsTypeOK'
  BY <1>1, <1>2, <1>3, <1>4, <1>6 DEF DraftsTypeOK
<1>11. FrameInv'
  <2>1. ASSUME NEW x \in Tasks, pc'[x] = "render", Closing(x)
        PROVE  call'[x].text = draft'[target'[x]].text
    <3>1. Ending(x) /\ x # t /\ pc[x] = "render"
      BY <1>4, <2>1 DEF Ending, Busy
    <3>2. draft[target[x]].closed /\ target[x] \in Handles
      BY <3>1 DEF DraftInv, CloseInv, ClosersOK
    <3> QED
      BY <1>1, <1>2, <1>4, <1>6, <2>1, <3>1, <3>2 DEF DraftInv, FrameInv
  <2> QED
    BY <1>1, <1>2, <1>3, <1>4, <2>1 DEF DraftInv, FrameInv
<1>12. TaskInv'
  BY <1>2, <1>4, TaskNames, TasksAssumption DEF DraftInv, TaskInv, Busy, LoopLive, Handles
<1> QED
  BY <1>9, <1>10, <1>11, <1>12 DEF DraftInv

\* An agent asks for a draft.
LEMMA AskKeeps ==
  ASSUME DraftInv, NEW s \in Streams, Ask(s), UNCHANGED inbox
  PROVE  DraftInv'
<1>1. /\ asker[s] = "idle" /\ asker' = [asker EXCEPT ![s] = "opening"]
      /\ OpenWith(s, [pc EXCEPT ![s] = "opening"]) /\ UNCHANGED <<lockq, chat, active>>
  BY DEF Ask
<1>2. s \in Handles /\ s \notin Events /\ pc[s] = "idle"
  BY <1>1, TasksAssumption DEF Handles, DraftInv, TaskInv
<1>3. asker' \in [Streams -> {"idle", "away", "opening", "open", "closing", "done"}]
  BY <1>1 DEF DraftInv, DraftsTypeOK
<1>4. \A k \in Streams : IF k = s THEN asker[k] = "idle" /\ asker'[k] = "opening" ELSE asker'[k] = asker[k]
  BY <1>1 DEF DraftInv, DraftsTypeOK
<1> QED
  BY <1>1, <1>2, <1>3, <1>4, OpenKeeps

\* A message that the dashboard has dealt with, or hears of.
LEMMA MessageKeeps ==
  ASSUME DraftInv, NEW e \in Events,
         \/ pc[e] = "idle" /\ pc' = [pc EXCEPT ![e] = "come"] /\ inbox' = [inbox EXCEPT ![e] = "done"]
         \/ pc[e] \in {"come", "closed"} /\ pc' = [pc EXCEPT ![e] = "done"] /\ inbox' = inbox,
         inbox \in [Events -> {"no", "hinting", "done"}],
         UNCHANGED <<draft, lockq, call, chat, asker, active, target>>
  PROVE  DraftInv'
<1>1. /\ e \in Tasks /\ e \notin Updates /\ e \notin Streams /\ e \in Handles
      /\ \A h \in Handles : e # Trail(h) /\ e # Loop(h) /\ e # Closer(h)
      /\ DraftsTypeOK /\ pc \in [Tasks -> Stages]
  BY TaskNames, TasksAssumption DEF Handles, DraftInv, DraftsTypeOK
<1>2. /\ pc' \in [Tasks -> Stages] /\ pc[e] \in {"idle", "come", "closed"} /\ pc'[e] \in {"come", "done"}
      /\ \A x \in Tasks \ {e} : pc'[x] = pc[x]
  BY <1>1 DEF Stages
<1>3. LockInv'
  BY <1>1, <1>2, LocksLeft DEF DraftInv, Idles, Busy
<1>4. DraftsTypeOK'
  BY <1>1, <1>2 DEF DraftsTypeOK
<1>5. FrameInv'
  BY <1>1, <1>2 DEF DraftInv, FrameInv
<1>6. TaskInv'
  BY <1>1, <1>2, TaskNames DEF DraftInv, TaskInv, Busy, LoopLive, Handles
<1>7. \A x \in Tasks : Ending(x)' <=> Ending(x)
  BY <1>1, <1>2 DEF Ending, Busy
<1>8. OneCloser'
  BY <1>7 DEF DraftInv, CloseInv, OneCloser
<1>9. ClosersOK'
  <2>1. ~Ending(e)
    BY <1>2 DEF Ending, Busy
  <2>2. ASSUME NEW x \in Tasks, Ending(x)'
        PROVE  pc'[x] = pc[x] /\ pc'[target[x]] = pc[target[x]]
    BY <1>1, <1>2, <1>7, <2>1, <2>2, TaskNames DEF DraftInv, CloseInv, ClosersOK
  <2> QED
    BY <1>7, <2>2 DEF DraftInv, CloseInv, ClosersOK
<1>10. ClosedOK'
  BY <1>1, <1>2, <1>7, TaskNames DEF DraftInv, CloseInv, ClosedOK, TrailLive, LoopLive
<1>11. CardOK'
  BY <1>1, <1>2, TaskNames DEF DraftInv, CloseInv, CardOK, DraftsTypeOK, Handles
<1>12. ShownOK'
  BY <1>7 DEF DraftInv, CloseInv, ShownOK
<1>13. InboxOK'
  BY <1>1, <1>2, TaskNames DEF DraftInv, CloseInv, InboxOK, Handles
<1> QED
  BY <1>3, <1>4, <1>5, <1>6, <1>8, <1>9, <1>10, <1>11, <1>12, <1>13 DEF DraftInv, CloseInv

\* Who closes what: the dashboard a card, a closer its own stream.
LEMMA EndingTask ==
  ASSUME TaskInv, NEW t \in Tasks
  PROVE  /\ Ending(t) => \/ t \in Events /\ target[t] \in Events
                         \/ \E s \in Streams : t = Closer(s) /\ target[t] = s
         /\ pc[t] = "closing" => Closing(t)
<1>1. CASE t \in Handles
  BY <1>1, TaskNames, ClosingTasks, TasksAssumption DEF TaskInv, Ending, Busy, Handles
<1>2. CASE t \in Updates
  BY <1>2, ClosingTasks DEF TaskInv, Ending, Busy
<1>3. ASSUME NEW h \in Handles, t = Trail(h) \/ (h \in Events /\ t = Loop(h))
      PROVE  ~Closing(t) /\ pc[t] # "closing"
  BY <1>3, ClosingTasks DEF TaskInv, Busy
<1>4. ASSUME NEW s \in Streams, t = Closer(s)
      PROVE  Closing(t) /\ (Ending(t) => target[t] = s)
  BY <1>4, ClosingTasks DEF TaskInv, Ending, Busy
<1> QED
  BY <1>1, <1>2, <1>3, <1>4 DEF Tasks, Ending, Handles

\* The final flush queues: behind everybody who is there, and nobody queues behind it.
LEMMA CloseQueuesKeeps ==
  ASSUME DraftInv, NEW t \in Tasks, CloseQueues(t), UNCHANGED inbox
  PROVE  DraftInv'
<1> DEFINE h == target[t]
<1>1. /\ pc[t] = "closing" /\ lockq' = [lockq EXCEPT ![h] = Append(@, t)]
      /\ target' = [target EXCEPT ![t] = h] /\ pc' = [pc EXCEPT ![t] = "lock"]
      /\ UNCHANGED <<draft, call, chat, asker, active, inbox>>
  BY DEF CloseQueues, Queue
<1>2. /\ DraftsTypeOK /\ pc \in [Tasks -> Stages] /\ lockq \in [Handles -> Seq(Tasks)]
      /\ target \in [Tasks -> Handles \cup {None}]
      /\ Closing(t) /\ Ending(t) /\ h \in Handles /\ draft[h].closed /\ pc[h] = "done"
      /\ t \notin Streams \cup Updates /\ \A k \in Handles : t # Trail(k) /\ t # Loop(k)
  <2>1. Closing(t)
    BY <1>1, EndingTask DEF DraftInv
  <2>2. Ending(t)
    BY <1>1, <2>1 DEF Ending
  <2> QED
    BY <1>1, <2>1, <2>2, ClosingTasks DEF DraftInv, DraftsTypeOK, CloseInv, ClosersOK
<1> HIDE DEF h
<1>3. /\ target' = target
      /\ pc' \in [Tasks -> Stages] /\ pc'[t] = "lock" /\ \A x \in Tasks \ {t} : pc'[x] = pc[x]
  BY <1>1, <1>2 DEF Stages, Busy, h
<1>4. /\ lockq[h] \in Seq(Tasks) /\ Once(lockq[h]) /\ ~In(t, lockq[h])
  BY <1>1, <1>2 DEF DraftInv, LockInv, Busy
<1>5. /\ Append(lockq[h], t) \in Seq(Tasks)
      /\ Append(lockq[h], t)[Len(Append(lockq[h], t))] = t
  BY <1>4, Joined
<1>6. /\ lockq' \in [Handles -> Seq(Tasks)] /\ lockq'[h] = Append(lockq[h], t)
      /\ \A k \in Handles \ {h} : lockq'[k] = lockq[k]
  BY <1>1, <1>2, <1>5
<1>7. DraftsTypeOK'
  BY <1>1, <1>2, <1>3, <1>6 DEF DraftsTypeOK
<1>8. LockInv'
  BY <1>1, <1>2, <1>3, LockJoined DEF Idles, Busy, DraftInv, h
<1>9. FrameInv'
  BY <1>1, <1>2, <1>3 DEF DraftInv, FrameInv
<1>10. TaskInv'
  BY <1>1, <1>2, <1>3, TaskNames DEF DraftInv, TaskInv, Busy, LoopLive, Handles
<1>11. \A x \in Tasks : Ends(x) /\ (Ending(x) <=> Ending(x)')
  BY <1>1, <1>2, <1>3 DEF Ends, Ending, Busy
<1>12. \A k \in Handles : Same(k) /\ Still(k)
  BY <1>1, <1>2, <1>3, TaskNames DEF Same, Still, TrailLive, LoopLive
<1>13. \A m \in Events : pc'[m] = "idle" <=> pc[m] = "idle"
  BY <1>1, <1>3, TaskNames DEF Handles
<1>14. ASSUME NEW x \in Tasks, Ending(x)', pc'[x] \in Busy
       PROVE  lockq'[target[x]][Len(lockq'[target[x]])] = x
  <2>1. CASE x = t
    BY <1>5, <1>6, <2>1 DEF h
  <2>2. CASE x # t
    <3>1. Ending(x) /\ pc[x] \in Busy
      BY <1>3, <1>11, <1>14, <2>2
    <3>2. target[x] # h /\ target[x] \in Handles /\ lockq[target[x]][Len(lockq[target[x]])] = x
      BY <1>2, <2>2, <3>1 DEF DraftInv, CloseInv, OneCloser, ClosersOK, h
    <3> QED
      BY <1>6, <3>2
  <2> QED
    BY <2>1, <2>2
<1>15. ASSUME NEW k \in Handles, draft[k].closed, lockq'[k] # <<>>
       PROVE  \E x \in Tasks : Ending(x)' /\ target'[x] = k
  <2>1. CASE k = h
    BY <1>2, <1>3, <1>11, <2>1 DEF h
  <2>2. CASE k # h
    BY <1>3, <1>6, <1>11, <1>15, <2>2 DEF DraftInv, CloseInv, ClosedOK
  <2> QED
    BY <2>1, <2>2
<1>16. OneCloser' /\ ClosersOK' /\ ClosedOK' /\ CardOK' /\ InboxOK'
  <2>1. /\ \A x \in Tasks : Ending(x)' /\ pc'[x] \in Busy
                             => lockq'[target[x]][Len(lockq'[target[x]])] = x
        /\ \A k \in Handles : draft[k].closed /\ lockq'[k] # <<>>
                             => \E x \in Tasks : Ending(x)' /\ target'[x] = k
    BY <1>14, <1>15
  <2> QED
    BY <1>1, <1>2, <1>11, <1>12, <1>13, <2>1, ClosingLeft DEF DraftInv
<1>17. ShownOK'
  BY <1>11, <1>12, ShowLeft DEF DraftInv
<1> QED
  BY <1>7, <1>8, <1>9, <1>10, <1>16, <1>17 DEF DraftInv, CloseInv

\* The dashboard's card is open: its loop starts on a handle nobody closes.
LEMMA OpenedKeeps ==
  ASSUME DraftInv, NEW e \in Events, NEW r \in Results, Opened(e, r), UNCHANGED inbox
  PROVE  DraftInv'
<1> DEFINE l == Loop(e)
<1>1. /\ pc[e] = "opening" /\ Effect(call[e], r) /\ draft' = Confirm(call[e], r)
      /\ call' = [call EXCEPT ![e] = None] /\ active' = e
      /\ pc' = [pc EXCEPT ![e] = "done", ![l] = "ready"]
      /\ UNCHANGED <<lockq, asker, target>>
  BY DEF Opened
<1>2. /\ e \in Tasks /\ e \in Handles /\ l \in Tasks /\ ~Closing(l) /\ e \notin Streams /\ e \notin Updates
      /\ l \notin Streams /\ l \notin Events /\ l \notin Updates
      /\ \A h \in Handles : /\ e # Trail(h) /\ e # Loop(h) /\ e # Closer(h)
                            /\ l # Trail(h) /\ l # Closer(h) /\ (l = Loop(h) => h = e) /\ l # h
      /\ DraftsTypeOK /\ pc \in [Tasks -> Stages] /\ call[e] \in Frames
  BY <1>1, TaskNames, ClosingTasks, TasksAssumption DEF Handles, DraftInv, DraftsTypeOK, FrameInv
<1>3. pc[l] \notin Busy
  BY <1>1 DEF DraftInv, TaskInv, LoopLive
<1> HIDE DEF l
<1>4. /\ chat' \in [Handles -> Shown] /\ \A h \in Handles : Still(h)
  BY <1>1, <1>2, FrameHarmless
<1>5. /\ draft' \in [Handles -> DraftStates]
      /\ \A k \in Handles : draft'[k].closed = draft[k].closed /\ draft'[k].text = draft[k].text
  BY <1>1, <1>2, Ended
<1>6. /\ pc' \in [Tasks -> Stages] /\ pc'[e] = "done" /\ pc'[l] = "ready" /\ e # l
      /\ \A x \in Tasks \ {e, l} : pc'[x] = pc[x]
  BY <1>1, <1>2 DEF Stages
<1>7. DraftsTypeOK'
  BY <1>1, <1>2, <1>4, <1>5, <1>6 DEF DraftsTypeOK
<1>8. LockInv'
  BY <1>1, <1>2, <1>3, <1>6, LocksLeft DEF DraftInv, Idles, Busy
<1>9. FrameInv'
  <2>1. call' \in [Tasks -> Frames \cup {None}] /\ call'[e] = None /\ \A x \in Tasks \ {e} : call'[x] = call[x]
    BY <1>1, <1>2, <1>7 DEF DraftsTypeOK
  <2>2. l # e /\ pc[l] # "opening" /\ pc[l] # "render"
    BY <1>2, <1>3, <1>6, OpeningTask DEF Busy, DraftInv, Handles
  <2>3. call'[l] = None
    BY <1>2, <2>1, <2>2 DEF DraftInv, FrameInv
  <2>4. ASSUME NEW x \in Tasks, pc'[x] = "render", Closing(x)
        PROVE  call'[x].text = draft'[target'[x]].text
    <3>1. Ending(x) /\ x # e /\ pc[x] = "render"
      BY <1>2, <1>6, <2>4 DEF Ending, Busy
    <3>2. target[x] \in Handles
      BY <3>1 DEF DraftInv, CloseInv, ClosersOK
    <3> QED
      BY <1>1, <1>5, <2>1, <2>4, <3>1, <3>2 DEF DraftInv, FrameInv
  <2> QED
    BY <1>1, <1>2, <1>6, <2>1, <2>3, <2>4 DEF DraftInv, FrameInv
<1>10. TaskInv'
  BY <1>1, <1>2, <1>6, TaskNames DEF DraftInv, TaskInv, Busy, LoopLive, Handles
<1>11. \A x \in Tasks : (Ending(x)' <=> Ending(x)) /\ (Ending(x) => pc'[x] = pc[x] /\ target'[x] = target[x])
  BY <1>1, <1>2, <1>6 DEF Ending, Busy
<1>12. ~draft[e].closed
  BY <1>1, <1>2 DEF DraftInv, CloseInv, ClosedOK
<1>13. OneCloser'
  BY <1>11 DEF DraftInv, CloseInv, OneCloser
<1>14. ClosersOK'
  <2>1. ASSUME NEW x \in Tasks, Ending(x) PROVE target[x] # e /\ pc'[target[x]] = "done" /\ target[x] \in Handles
    BY <1>1, <1>2, <1>6, <2>1, TaskNames DEF DraftInv, CloseInv, ClosersOK
  <2> QED
    BY <1>1, <1>5, <1>11, <2>1 DEF DraftInv, CloseInv, ClosersOK
<1>15. ClosedOK'
  <2>1. ASSUME NEW k \in Handles, draft'[k].closed
        PROVE  /\ k # e /\ pc'[k] = "done" /\ ~TrailLive(k)' /\ active' # k
               /\ k \in Events => ~LoopLive(k)'
    BY <1>1, <1>2, <1>5, <1>6, <1>12, <2>1, TaskNames DEF DraftInv, CloseInv, ClosedOK, TrailLive, LoopLive
  <2> QED
    BY <1>1, <1>5, <1>11, <2>1 DEF DraftInv, CloseInv, ClosedOK
<1>16. CardOK'
  BY <1>1, <1>6 DEF CardOK
<1>17. ShownOK'
  BY <1>4, <1>5, <1>11 DEF DraftInv, CloseInv, ShownOK, Still
<1>18. InboxOK'
  BY <1>1, <1>2, <1>6, TaskNames DEF DraftInv, CloseInv, InboxOK, Handles
<1> QED
  BY <1>7, <1>8, <1>9, <1>10, <1>13, <1>14, <1>15, <1>16, <1>17, <1>18 DEF DraftInv, CloseInv

\* _stop forgets the active card, which nobody else can close from now on.
LEMMA StopBeginsKeeps ==
  ASSUME DraftInv, NEW e \in Events, pc[e] = "come", active # None, StopBegins(e), UNCHANGED <<asker, inbox>>
  PROVE  DraftInv'
<1>1. /\ target' = [target EXCEPT ![e] = active] /\ active' = None
      /\ pc' = [pc EXCEPT ![e] = "stopping"]
      /\ UNCHANGED <<draft, lockq, call, chat, asker>>
  BY DEF StopBegins
<1>2. /\ e \in Tasks /\ e \in Handles /\ e \notin Streams /\ e \notin Updates /\ Closing(e)
      /\ \A h \in Handles : e # Trail(h) /\ e # Loop(h) /\ e # Closer(h)
      /\ DraftsTypeOK /\ pc \in [Tasks -> Stages] /\ target \in [Tasks -> Handles \cup {None}]
      /\ active \in Events /\ active \in Handles /\ active \in Tasks
      /\ ~draft[active].closed /\ pc[active] = "done" /\ active # e
  <2>1. active \in Events
    BY DEF DraftInv, DraftsTypeOK
  <2>2. pc[active] = "done"
    BY DEF DraftInv, CloseInv, CardOK
  <2>3. ~draft[active].closed
    BY <2>1 DEF DraftInv, CloseInv, ClosedOK, Handles
  <2> QED
    BY <2>1, <2>2, <2>3, TaskNames, ClosingTasks, TasksAssumption DEF Handles, DraftInv, DraftsTypeOK
<1>3. /\ pc' \in [Tasks -> Stages] /\ pc'[e] = "stopping" /\ \A x \in Tasks \ {e} : pc'[x] = pc[x]
      /\ target' \in [Tasks -> Handles \cup {None}] /\ target'[e] = active
      /\ \A x \in Tasks \ {e} : target'[x] = target[x]
  BY <1>1, <1>2 DEF Stages
<1>4. DraftsTypeOK'
  BY <1>1, <1>2, <1>3 DEF DraftsTypeOK
<1>5. LockInv'
  BY <1>1, <1>2, <1>3, LocksLeft DEF DraftInv, Idles, Busy
<1>6. FrameInv'
  BY <1>1, <1>2, <1>3 DEF DraftInv, FrameInv
<1>7. TaskInv'
  BY <1>1, <1>2, <1>3, TaskNames DEF DraftInv, TaskInv, Busy, LoopLive, Handles
<1>8. /\ Ending(e)' /\ ~Ending(e)
      /\ \A x \in Tasks \ {e} : Ending(x)' <=> Ending(x)
  BY <1>2, <1>3 DEF Ending, Busy
<1>9. \A x \in Tasks \ {e} : Ending(x) => target'[x] # active
  BY <1>3 DEF DraftInv, CloseInv, ClosersOK
<1>10. OneCloser'
  BY <1>3, <1>8, <1>9 DEF DraftInv, CloseInv, OneCloser
<1>11. ClosersOK'
  <2>1. ASSUME NEW x \in Tasks \ {e}, Ending(x)
        PROVE  target[x] \in Handles /\ pc'[target[x]] = "done"
    BY <1>3, <1>8, <2>1, TaskNames DEF DraftInv, CloseInv, ClosersOK
  <2>2. \A k \in Handles : active' # k
    BY <1>1, TasksAssumption
  <2> QED
    BY <1>1, <1>2, <1>3, <1>8, <2>1, <2>2 DEF DraftInv, CloseInv, ClosersOK, Busy
<1>12. ClosedOK'
  <2>1. \A k \in Handles : active' # k
    BY <1>1, TasksAssumption
  <2>2. ASSUME NEW k \in Handles, draft[k].closed
        PROVE  pc'[k] = "done" /\ ~TrailLive(k)' /\ (k \in Events => ~LoopLive(k)')
    BY <1>2, <1>3, <2>2, TaskNames DEF DraftInv, CloseInv, ClosedOK, TrailLive, LoopLive
  <2> QED
    BY <1>1, <1>3, <1>8, <2>1, <2>2 DEF DraftInv, CloseInv, ClosedOK
<1>13. CardOK'
  BY <1>1 DEF CardOK
<1>14. ShownOK'
  BY <1>1, <1>2, <1>3, <1>8 DEF DraftInv, CloseInv, ShownOK
<1>15. InboxOK'
  BY <1>2, <1>3, TaskNames DEF DraftInv, CloseInv, InboxOK, Handles
<1> QED
  BY <1>4, <1>5, <1>6, <1>7, <1>10, <1>11, <1>12, <1>13, <1>14, <1>15 DEF DraftInv, CloseInv

\* What the platform does with the call of a task that is cancelled.
LEMMA CancelHarmless ==
  ASSUME DraftInv, NEW t \in Tasks, ~Closing(t),
         IF pc[t] = "render" THEN \E r \in {"refused", "lost"} : Effect(call[t], r) ELSE UNCHANGED chat
  PROVE  chat' \in [Handles -> Shown] /\ \A h \in Handles : Still(h)
<1>1. CASE pc[t] = "render"
  <2>1. PICK r \in Results : Effect(call[t], r)
    BY <1>1 DEF Results
  <2> QED
    BY <1>1, <2>1, FrameHarmless
<1>2. CASE chat' = chat
  BY <1>2 DEF DraftInv, DraftsTypeOK, Still
<1> QED
  BY <1>1, <1>2

\* The cancelled refresh loop leaves its lock wherever it was.
LEMMA LoopCancelledKeeps ==
  ASSUME DraftInv, NEW e \in Events, LoopCancelled(e), UNCHANGED inbox
  PROVE  DraftInv'
<1> DEFINE h == target[e]
           t == Loop(h)
<1>1. /\ pc[e] = "stopping"
      /\ IF pc[t] = "render" THEN \E r \in {"refused", "lost"} : Effect(call[t], r) ELSE UNCHANGED chat
      /\ call' = [call EXCEPT ![t] = None]
      /\ lockq' = [lockq EXCEPT ![h] = RemoveFirst(@, t)]
      /\ pc' = [pc EXCEPT ![t] = "done"]
      /\ UNCHANGED <<draft, asker, active, target>>
  BY DEF LoopCancelled
<1>2. /\ DraftsTypeOK /\ pc \in [Tasks -> Stages] /\ lockq \in [Handles -> Seq(Tasks)]
      /\ call \in [Tasks -> Frames \cup {None}]
      /\ h \in Events /\ h \in Handles /\ ~draft[h].closed
      /\ pc[t] \in Busy => target[t] = h
  <2>1. Ending(e) /\ e \in Tasks
    BY <1>1, ClosingTasks, TaskNames DEF Ending, Handles
  <2>2. h \in Events
    BY <1>1 DEF DraftInv, TaskInv
  <2> QED
    BY <1>1, <2>1, <2>2 DEF DraftInv, DraftsTypeOK, CloseInv, ClosersOK, TaskInv, Handles
<1> HIDE DEF h
<1>3. /\ t \in Tasks /\ ~Closing(t) /\ t \notin Streams /\ t \notin Events /\ t \notin Updates
      /\ \A k \in Handles : t # Trail(k) /\ t # Closer(k) /\ (t = Loop(k) => k = h) /\ t # k
  BY <1>2, TaskNames, ClosingTasks DEF Handles
<1> HIDE DEF t
<1>4. chat' \in [Handles -> Shown] /\ \A k \in Handles : Still(k)
  BY <1>1, <1>3, CancelHarmless
<1>5. pc' \in [Tasks -> Stages] /\ pc'[t] = "done" /\ \A x \in Tasks \ {t} : pc'[x] = pc[x]
  BY <1>1, <1>2, <1>3 DEF Stages
<1>6. /\ lockq' \in [Handles -> Seq(Tasks)] /\ \A k \in Handles \ {h} : lockq'[k] = lockq[k]
  <2>1. RemoveFirst(lockq[h], t) \in Seq(Tasks)
    BY <1>2, <1>3, Removed DEF DraftInv, LockInv
  <2> QED
    BY <1>1, <1>2, <2>1
<1>7. DraftsTypeOK'
  BY <1>1, <1>2, <1>3, <1>4, <1>5, <1>6 DEF DraftsTypeOK
<1>8. LockInv'
  BY <1>1, <1>2, <1>3, <1>5, LockRemoved DEF DraftInv, Idles, Busy
<1>9. FrameInv'
  BY <1>1, <1>2, <1>3, <1>5 DEF DraftInv, FrameInv
<1>10. TaskInv'
  BY <1>1, <1>2, <1>3, <1>5, TaskNames DEF DraftInv, TaskInv, Busy, LoopLive, Handles, t
<1>11. \A x \in Tasks : Ends(x) /\ (Ending(x) <=> Ending(x)') /\ (Ending(x) => x # t)
  BY <1>1, <1>3, <1>5 DEF Ends, Ending
<1>12. \A k \in Handles : Same(k)
  BY <1>1, <1>3, <1>5, TaskNames DEF Same, TrailLive, LoopLive, Busy
<1>13. \A m \in Events : pc'[m] = "idle" <=> pc[m] = "idle"
  BY <1>3, <1>5, TaskNames DEF Handles
<1>14. ASSUME NEW x \in Tasks, Ending(x)', pc'[x] \in Busy
       PROVE  lockq'[target[x]][Len(lockq'[target[x]])] = x
  <2>1. Ending(x) /\ pc[x] \in Busy
    BY <1>5, <1>11, <1>14
  <2>2. target[x] # h /\ target[x] \in Handles /\ lockq[target[x]][Len(lockq[target[x]])] = x
    BY <1>2, <2>1 DEF DraftInv, CloseInv, ClosersOK, Busy
  <2> QED
    BY <1>6, <2>2
<1>15. \A k \in Handles : draft[k].closed /\ lockq'[k] # <<>> => \E x \in Tasks : Ending(x)' /\ target'[x] = k
  BY <1>1, <1>2, <1>6, <1>11 DEF DraftInv, CloseInv, ClosedOK
<1>16. OneCloser' /\ ClosersOK' /\ ClosedOK' /\ CardOK' /\ InboxOK'
  <2>1. \A x \in Tasks : Ending(x)' /\ pc'[x] \in Busy => lockq'[target[x]][Len(lockq'[target[x]])] = x
    BY <1>14
  <2> QED
    BY <1>1, <1>2, <1>11, <1>12, <1>13, <1>15, <2>1, ClosingLeft DEF DraftInv
<1>17. ShownOK'
  BY <1>4, <1>11, <1>12, ShowLeft DEF DraftInv
<1> QED
  BY <1>7, <1>8, <1>9, <1>10, <1>16, <1>17 DEF DraftInv, CloseInv

\* close() begins: nobody but t will touch h.
LEMMA CloseKeeps ==
  ASSUME DraftInv, NEW t \in Tasks, NEW h \in Handles,
         Closing(t), pc[t] \in {"idle", "stopping"}, t \in Events => pc[t] = "stopping",
         ~draft[h].closed, pc[h] = "done", active # h, h \in Events => ~LoopLive(h),
         \A x \in Tasks : Ending(x) /\ target[x] = h => x = t,
         Ending(t) => target[t] = h,
         target' = [target EXCEPT ![t] = h],
         pc' = [Quiet(h, pc) EXCEPT ![t] = "closing"], Cancelled(h),
         draft' \in [Handles -> DraftStates], draft'[h].closed,
         \A k \in Handles \ {h} : draft'[k] = draft[k],
         asker' = asker \/ (h \in Streams /\ asker' = [asker EXCEPT ![h] = "closing"]),
         h \in Streams => asker'[h] = "closing",
         UNCHANGED <<active, inbox>>
  PROVE  DraftsTypeOK' /\ LockInv' /\ FrameInv' /\ CloseInv'
<1> DEFINE l == Trail(h)
<1>1. /\ IF pc[l] = "render" THEN \E r \in {"refused", "lost"} : Effect(call[l], r) ELSE UNCHANGED chat
      /\ call' = [call EXCEPT ![l] = None]
      /\ lockq' = [lockq EXCEPT ![h] = RemoveFirst(@, l)]
  BY DEF Cancelled
<1>2. /\ DraftsTypeOK /\ pc \in [Tasks -> Stages] /\ lockq \in [Handles -> Seq(Tasks)]
      /\ call \in [Tasks -> Frames \cup {None}] /\ target \in [Tasks -> Handles \cup {None}]
      /\ l \in Tasks /\ ~Closing(l) /\ l # t
      /\ pc[l] \in Busy => target[l] = h
      /\ h \in Tasks /\ l \notin Events
      /\ \A k \in Handles : l # Loop(k) /\ (l = Trail(k) => k = h) /\ l # k
      /\ \A k \in Handles : t # Trail(k) /\ t # Loop(k)
      /\ t # h
  BY TaskNames, ClosingTasks DEF DraftInv, DraftsTypeOK, TaskInv, Handles
<1>3. /\ pc' \in [Tasks -> Stages] /\ pc'[t] = "closing"
      /\ \A x \in Tasks \ {t, l} : pc'[x] = pc[x]
      /\ pc'[l] = "done" \/ (pc'[l] = pc[l] /\ ~TrailLive(h))
  BY <1>2 DEF Quiet, Stages
<1>4. pc'[l] \notin Busy \cup {"sleep", "opening"}
  <2>1. ~TrailLive(h) => pc[l] \notin Busy \cup {"sleep"}
    BY DEF TrailLive
  <2>2. pc[l] # "opening"
    BY <1>2, OpeningTask DEF DraftInv
  <2> QED
    BY <1>3, <2>1, <2>2 DEF Busy
<1> HIDE DEF l
<1>5. chat' \in [Handles -> Shown] /\ \A k \in Handles : Still(k)
  BY <1>1, <1>2, CancelHarmless
<1>6. /\ target' \in [Tasks -> Handles \cup {None}] /\ target'[t] = h
      /\ \A x \in Tasks \ {t} : target'[x] = target[x]
  BY <1>2
<1>7. /\ lockq' \in [Handles -> Seq(Tasks)] /\ \A k \in Handles \ {h} : lockq'[k] = lockq[k]
  <2>1. RemoveFirst(lockq[h], l) \in Seq(Tasks)
    BY <1>2, Removed DEF DraftInv, LockInv
  <2> QED
    BY <1>1, <1>2, <2>1
<1>8. DraftsTypeOK'
  <2>1. call' \in [Tasks -> Frames \cup {None}]
    BY <1>1, <1>2
  <2>2. asker' \in [Streams -> {"idle", "away", "opening", "open", "closing", "done"}]
    BY <1>2 DEF DraftsTypeOK
  <2> QED
    BY <1>2, <1>3, <1>5, <1>6, <1>7, <2>1, <2>2 DEF DraftsTypeOK
<1>9. LockInv'
  <2>1. \A x \in Tasks \ {l} : Idles(x)
    BY <1>3, <1>6 DEF Idles, Busy
  <2> QED
    BY <1>1, <1>2, <1>4, <2>1, LockRemoved DEF DraftInv
<1>10. \A x \in Tasks \ {t} : Ending(x)' <=> Ending(x) /\ x # l
  BY <1>2, <1>3 DEF Ending
<1>11. Ending(t)' /\ ~Ending(l)
  BY <1>2, <1>3 DEF Ending
<1>12. FrameInv'
  <2>1. ASSUME NEW x \in Tasks, pc'[x] \in {"opening", "render"} PROVE x # t /\ x # l /\ pc'[x] = pc[x]
    BY <1>3, <1>4, <2>1 DEF Busy
  <2>2. ASSUME NEW x \in Tasks, pc'[x] = "render", Closing(x)
        PROVE  call'[x].text = draft'[target'[x]].text
    <3>1. x # t /\ x # l /\ pc[x] = "render" /\ Ending(x) /\ target'[x] = target[x]
      BY <1>6, <2>1, <2>2 DEF Ending, Busy
    <3>2. target[x] \in Handles /\ target[x] # h
      BY <3>1 DEF DraftInv, CloseInv, ClosersOK
    <3>3. draft'[target[x]] = draft[target[x]] /\ call'[x] = call[x]
      BY <1>1, <1>2, <3>1, <3>2
    <3> QED
      BY <2>2, <3>1, <3>3 DEF DraftInv, FrameInv
  <2>3. /\ call'[l] = None /\ call'[t] = None
        /\ \A x \in Tasks \ {l} : call'[x] = call[x]
    BY <1>1, <1>2 DEF DraftInv, FrameInv
  <2>4. ASSUME NEW x \in Tasks, pc'[x] \notin {"opening", "render"} PROVE call'[x] = None
    BY <1>3, <2>3, <2>4 DEF DraftInv, FrameInv
  <2>5. ASSUME NEW x \in Tasks, pc'[x] \in {"opening", "render"}
        PROVE  /\ call'[x] \in Frames /\ call'[x].h = target'[x]
               /\ pc'[x] = "opening" => ~call'[x].final
               /\ pc'[x] = "render" => (call'[x].final <=> Closing(x))
    BY <1>6, <2>1, <2>3, <2>5 DEF DraftInv, FrameInv
  <2> QED
    BY <2>2, <2>4, <2>5 DEF FrameInv
<1>13. OneCloser'
  BY <1>6, <1>10, <1>11 DEF DraftInv, CloseInv, OneCloser
<1>14. ClosersOK'
  <2>1. pc'[h] = "done"
    BY <1>2, <1>3
  <2>2. ASSUME NEW x \in Tasks, Ending(x), x # t
        PROVE  /\ target[x] \in Handles /\ target[x] # h /\ pc'[target[x]] = "done" /\ active # target[x]
               /\ pc'[x] # "stopping" <=> draft'[target[x]].closed
               /\ pc'[x] \in Busy => lockq'[target[x]][Len(lockq'[target[x]])] = x
    <3>1. /\ target[x] \in Handles /\ target[x] # h /\ pc[target[x]] = "done" /\ active # target[x]
          /\ pc[x] # "stopping" <=> draft[target[x]].closed
          /\ pc[x] \in Busy => lockq[target[x]][Len(lockq[target[x]])] = x
      BY <2>2 DEF DraftInv, CloseInv, ClosersOK
    <3>2. x # l /\ pc'[x] = pc[x] /\ target[x] # l
      BY <1>2, <1>3, <1>11, <2>2, <3>1
    <3>3. target[x] # t
      BY <3>1
    <3>4. target[x] \in Tasks
      BY <3>1, TaskNames
    <3> QED
      BY <1>3, <1>7, <3>1, <3>2, <3>3, <3>4
  <2> QED
    BY <1>3, <1>6, <1>10, <2>1, <2>2 DEF ClosersOK, Busy
<1>15. ClosedOK'
  <2>1. ASSUME NEW k \in Handles, k # h, draft'[k].closed
        PROVE  /\ pc'[k] = "done" /\ ~TrailLive(k)' /\ active' # k
               /\ k \in Events => ~LoopLive(k)'
               /\ k \in Streams => asker'[k] \in {"closing", "done"}
               /\ lockq'[k] # <<>> => \E x \in Tasks : Ending(x)' /\ target'[x] = k
    <3>1. /\ draft[k].closed /\ k # t /\ k # l /\ k \in Tasks /\ Trail(k) # l
          /\ Trail(k) # t /\ Trail(k) \in Tasks
          /\ Loop(k) # l /\ Loop(k) # t
      BY <1>2, <2>1, TaskNames DEF DraftInv, CloseInv, ClosedOK
    <3>2. pc'[k] = "done" /\ ~TrailLive(k)' /\ active' # k
      BY <1>3, <3>1 DEF DraftInv, CloseInv, ClosedOK, TrailLive
    <3>3. k \in Events => ~LoopLive(k)'
      BY <1>3, <3>1, TaskNames DEF DraftInv, CloseInv, ClosedOK, LoopLive
    <3>4. k \in Streams => asker'[k] \in {"closing", "done"}
      BY <1>2, <2>1, <3>1 DEF DraftInv, CloseInv, ClosedOK, DraftsTypeOK
    <3>5. ASSUME lockq'[k] # <<>> PROVE \E x \in Tasks : Ending(x)' /\ target'[x] = k
      <4>1. PICK x \in Tasks : Ending(x) /\ target[x] = k
        BY <1>7, <2>1, <3>1, <3>5 DEF DraftInv, CloseInv, ClosedOK
      <4>2. x # t /\ x # l
        BY <1>11, <2>1, <4>1
      <4> QED
        BY <1>6, <1>10, <4>1, <4>2
    <3> QED
      BY <3>2, <3>3, <3>4, <3>5
  <2>2. pc'[h] = "done" /\ ~TrailLive(h)' /\ active' # h
    BY <1>2, <1>3, <1>4 DEF TrailLive, l
  <2>3. h \in Events => ~LoopLive(h)'
    BY <1>2, <1>3, TaskNames DEF LoopLive
  <2>4. \E x \in Tasks : Ending(x)' /\ target'[x] = h
    BY <1>6, <1>11
  <2> QED
    BY <2>1, <2>2, <2>3, <2>4 DEF ClosedOK
<1>16. CardOK'
  BY <1>2, <1>3, TaskNames DEF DraftInv, CloseInv, CardOK, DraftsTypeOK, Handles
<1>17. ShownOK'
  <2>1. ASSUME NEW k \in Handles, chat'[k].final
        PROVE  /\ draft'[k].closed /\ chat'[k].text = draft'[k].text
               /\ \A x \in Tasks : Ending(x)' => target'[x] # k
    <3>1. chat[k].final /\ chat'[k].text = chat[k].text
      BY <1>5, <2>1 DEF Still
    <3>2. /\ draft[k].closed /\ chat[k].text = draft[k].text
          /\ \A x \in Tasks : Ending(x) => target[x] # k
      BY <3>1 DEF DraftInv, CloseInv, ShownOK
    <3>3. k # h
      BY <3>2
    <3> QED
      BY <1>6, <1>10, <3>1, <3>2, <3>3
  <2> QED
    BY <2>1 DEF ShownOK
<1>18. InboxOK'
  BY <1>2, <1>3, TaskNames DEF DraftInv, CloseInv, InboxOK, Handles
<1> QED
  BY <1>8, <1>9, <1>12, <1>13, <1>14, <1>15, <1>16, <1>17, <1>18 DEF CloseInv

\* The dashboard closes its card: close() after the final text.
LEMMA StopClosesKeeps ==
  ASSUME DraftInv, NEW e \in Events, StopCloses(e), UNCHANGED inbox
  PROVE  DraftInv'
<1> DEFINE h == target[e]
<1>1. /\ pc[e] = "stopping" /\ ~LoopLive(h)
      /\ draft' = [draft EXCEPT ![h].text = @ + 1, ![h].closed = TRUE]
      /\ Cancelled(h)
      /\ pc' = [Quiet(h, pc) EXCEPT ![e] = "closing"]
      /\ UNCHANGED <<asker, active, target>>
  BY DEF StopCloses
<1>2. /\ e \in Tasks /\ e \in Handles /\ Ending(e) /\ Closing(e)
      /\ target \in [Tasks -> Handles \cup {None}] /\ pc \in [Tasks -> Stages]
      /\ draft \in [Handles -> DraftStates] /\ h \in Events
  BY <1>1, TaskNames, ClosingTasks DEF Ending, DraftInv, DraftsTypeOK, TaskInv, Handles
<1>3. /\ h \in Handles /\ ~draft[h].closed /\ pc[h] = "done" /\ active # h
      /\ \A x \in Tasks : Ending(x) /\ target[x] = h => x = e
  BY <1>1, <1>2 DEF DraftInv, CloseInv, ClosersOK, OneCloser
<1>4. target' = [target EXCEPT ![e] = h]
  BY <1>1, <1>2
<1> HIDE DEF h
<1>5. /\ draft' \in [Handles -> DraftStates] /\ draft'[h].closed
      /\ \A k \in Handles \ {h} : draft'[k] = draft[k]
  <2> DEFINE new == [draft[h] EXCEPT !.text = @ + 1, !.closed = TRUE]
  <2>1. draft' = [draft EXCEPT ![h] = new]
    BY <1>1, <1>2, <1>3
  <2>2. new \in DraftStates /\ new.closed
    <3> DEFINE n == draft[h].text + 1
    <3>1. draft[h] \in DraftStates /\ new = [draft[h] EXCEPT !.text = n, !.closed = TRUE]
      BY <1>2, <1>3
    <3>2. n \in Nat
      BY <3>1 DEF DraftStates
    <3> HIDE DEF new, n
    <3> QED
      BY <3>1, <3>2 DEF DraftStates
  <2> HIDE DEF new
  <2> QED
    BY <1>2, <1>3, <2>1, <2>2
<1>6. DraftsTypeOK' /\ LockInv' /\ FrameInv' /\ CloseInv'
  <2>1. h \notin Streams /\ e \in Events
    BY <1>1, <1>2, TasksAssumption DEF h
  <2>2. ~LoopLive(h)
    BY <1>1 DEF h
  <2>3. Cancelled(h) /\ pc' = [Quiet(h, pc) EXCEPT ![e] = "closing"] /\ target[e] = h
    BY <1>1 DEF h
  <2> QED
    BY <1>1, <1>2, <1>3, <1>4, <1>5, <2>1, <2>2, <2>3, CloseKeeps
<1>7. TaskInv'
  <2>1. /\ Trail(h) \in Tasks /\ Trail(h) # e
        /\ \A k \in Handles : Trail(h) # Loop(k) /\ Trail(h) # Closer(k) /\ Trail(h) # k
        /\ \A k \in Handles : e # Loop(k) /\ e # Closer(k) /\ e # Trail(k)
        /\ Trail(h) \notin Updates /\ e \notin Updates /\ e \notin Streams
    BY <1>2, <1>3, TaskNames, TasksAssumption
  <2>2. /\ pc'[e] = "closing" /\ \A x \in Tasks \ {e, Trail(h)} : pc'[x] = pc[x]
        /\ pc'[Trail(h)] \in {pc[Trail(h)], "done"}
    BY <1>1, <1>2, <2>1 DEF Quiet, h
  <2>3. target' = target /\ asker' = asker
    BY <1>1
  <2> QED
    BY <1>1, <1>2, <2>1, <2>2, <2>3, TaskNames DEF DraftInv, TaskInv, Busy, LoopLive, Handles
<1> QED
  BY <1>6, <1>7 DEF DraftInv

\* close_draft closes the draft of a stream.
LEMMA AskCloseKeeps ==
  ASSUME DraftInv, NEW s \in Streams, AskClose(s), UNCHANGED inbox
  PROVE  DraftInv'
<1> DEFINE t == Closer(s)
<1>1. /\ asker[s] = "open" /\ asker' = [asker EXCEPT ![s] = "closing"]
      /\ draft' = [draft EXCEPT ![s].closed = TRUE]
      /\ Cancelled(s)
      /\ target' = [target EXCEPT ![t] = s]
      /\ pc' = [Quiet(s, pc) EXCEPT ![t] = "closing"]
      /\ UNCHANGED active
  BY DEF AskClose
<1>2. /\ t \in Tasks /\ s \in Handles /\ s \in Tasks /\ t \notin Events /\ s \notin Events /\ Closing(t)
      /\ target \in [Tasks -> Handles \cup {None}] /\ pc \in [Tasks -> Stages]
      /\ draft \in [Handles -> DraftStates]
      /\ asker \in [Streams -> {"idle", "away", "opening", "open", "closing", "done"}]
      /\ active \in Events \cup {None} /\ None \notin Handles
  BY TaskNames, ClosingTasks, TasksAssumption DEF DraftInv, DraftsTypeOK, Handles
<1>3. pc[t] = "idle" /\ pc[s] = "done" /\ ~draft[s].closed /\ active # s
  BY <1>1, <1>2 DEF DraftInv, TaskInv, CloseInv, ClosedOK
<1>4. ~Ending(t)
  BY <1>3 DEF Ending, Busy
<1>5. \A x \in Tasks : Ending(x) /\ target[x] = s => x = t
  BY <1>2, EndingTask DEF DraftInv
<1>6. /\ draft' \in [Handles -> DraftStates] /\ draft'[s].closed
      /\ \A k \in Handles \ {s} : draft'[k] = draft[k]
  <2> DEFINE new == [draft[s] EXCEPT !.closed = TRUE]
  <2>1. draft' = [draft EXCEPT ![s] = new]
    BY <1>1, <1>2
  <2>2. new \in DraftStates /\ new.closed
    <3>1. draft[s] \in DraftStates
      BY <1>2
    <3> QED
      BY <3>1 DEF DraftStates
  <2> HIDE DEF new
  <2> QED
    BY <1>2, <2>1, <2>2
<1> HIDE DEF t
<1>7. DraftsTypeOK' /\ LockInv' /\ FrameInv' /\ CloseInv'
  <2>1. asker'[s] = "closing"
    BY <1>1, <1>2
  <2> QED
    BY <1>1, <1>2, <1>3, <1>4, <1>5, <1>6, <2>1, CloseKeeps
<1>8. TaskInv'
  <2>1. /\ Trail(s) \in Tasks /\ Trail(s) # t
        /\ \A k \in Handles : Trail(s) # Loop(k) /\ Trail(s) # Closer(k) /\ Trail(s) # k
        /\ \A k \in Handles : t # Loop(k) /\ t # Trail(k) /\ t # k /\ (t = Closer(k) => k = s)
        /\ Trail(s) \notin Updates /\ t \notin Updates
    BY <1>2, TaskNames, TasksAssumption DEF t
  <2>2. /\ pc'[t] = "closing" /\ \A x \in Tasks \ {t, Trail(s)} : pc'[x] = pc[x]
        /\ pc'[Trail(s)] \in {"done", pc[Trail(s)]}
        /\ pc'[Trail(s)] \in Busy => pc[Trail(s)] \in Busy
    BY <1>1, <1>2, <2>1 DEF Quiet, Busy
  <2>3. /\ target'[t] = s /\ \A x \in Tasks \ {t} : target'[x] = target[x]
        /\ asker'[s] = "closing" /\ \A k \in Streams \ {s} : asker'[k] = asker[k]
    BY <1>1, <1>2
  <2>4. ASSUME NEW k \in Streams
        PROVE  /\ pc'[k] = pc[k] /\ target'[k] = target[k]
               /\ k # s => pc'[Closer(k)] = pc[Closer(k)] /\ target'[Closer(k)] = target[Closer(k)]
    BY <1>2, <2>1, <2>2, <2>3, TaskNames DEF Handles
  <2>5. \A k \in Streams :
          /\ pc'[k] \in {"idle", "opening", "done"}
          /\ pc'[k] = "opening" => target'[k] = k
          /\ asker'[k] \in {"idle", "away"} => pc'[k] = "idle"
          /\ asker'[k] \in {"open", "closing"} => pc'[k] = "done"
          /\ asker'[k] \notin {"closing", "done"} => pc'[Closer(k)] = "idle"
          /\ pc'[Closer(k)] # "idle" => pc'[Closer(k)] \in {"closing", "closed"} \cup Busy /\ target'[Closer(k)] = k
    BY <1>1, <1>3, <2>2, <2>3, <2>4 DEF DraftInv, TaskInv, t
  <2>6. ASSUME NEW x \in Tasks, x # t, x # Trail(s) PROVE pc'[x] = pc[x] /\ target'[x] = target[x]
    BY <2>2, <2>3, <2>6
  <2>7. \A u \in Updates : pc'[u] \in {"idle", "done"} \cup Busy
    BY <2>1, <2>6, TaskNames DEF DraftInv, TaskInv
  <2>8. \A k \in Handles :
          /\ pc'[Trail(k)] \in {"idle", "sleep", "done"} \cup Busy
          /\ pc'[Trail(k)] \in Busy => target'[Trail(k)] = k
    BY <2>1, <2>2, <2>3, <2>6, TaskNames DEF DraftInv, TaskInv
  <2>9. \A e \in Events : /\ pc'[Loop(e)] = pc[Loop(e)] /\ target'[Loop(e)] = target[Loop(e)]
                          /\ pc'[e] = pc[e] /\ target'[e] = target[e]
    BY <2>1, <2>6, TaskNames DEF Handles
  <2> QED
    BY <2>5, <2>7, <2>8, <2>9 DEF DraftInv, TaskInv, LoopLive
<1> QED
  BY <1>7, <1>8 DEF DraftInv

\* _stop is over: the dashboard opens a new card or is done.
LEMMA StoppedKeeps ==
  ASSUME DraftInv, NEW e \in Events, Stopped(e), inbox \in [Events -> {"no", "hinting", "done"}], UNCHANGED inbox
  PROVE  DraftInv'
<1>1. pc[e] = "closed" /\ UNCHANGED <<lockq, chat, asker, active>>
  BY DEF Stopped
<1>2. CASE OpenWith(e, [pc EXCEPT ![e] = "opening"])
  <2>1. e \in Handles /\ e \notin Streams
    BY TasksAssumption DEF Handles
  <2>2. asker' \in [Streams -> {"idle", "away", "opening", "open", "closing", "done"}]
    BY <1>1 DEF DraftInv, DraftsTypeOK
  <2> QED
    BY <1>1, <1>2, <2>1, <2>2, OpenKeeps
<1>3. CASE pc' = [pc EXCEPT ![e] = "done"] /\ UNCHANGED <<draft, call, target>>
  BY <1>1, <1>3, MessageKeeps
<1> QED
  BY <1>2, <1>3 DEF Stopped

\* A message reaches the dashboard.
LEMMA OnEventKeeps ==
  ASSUME DraftInv, NEW e \in Events, OnEvent(e), inbox \in [Events -> {"no", "hinting", "done"}], UNCHANGED inbox
  PROVE  DraftInv'
<1>1. pc[e] = "come" /\ UNCHANGED asker
  BY DEF OnEvent
<1>2. CASE active # None /\ StopBegins(e)
  BY <1>1, <1>2, StopBeginsKeeps
<1>3. CASE OpenWith(e, [pc EXCEPT ![e] = "opening"]) /\ UNCHANGED <<lockq, chat, active>>
  <2>1. e \in Handles /\ e \notin Streams
    BY TasksAssumption DEF Handles
  <2>2. asker' \in [Streams -> {"idle", "away", "opening", "open", "closing", "done"}]
    BY <1>1 DEF DraftInv, DraftsTypeOK
  <2> QED
    BY <1>1, <1>3, <2>1, <2>2, OpenKeeps
<1>4. CASE pc' = [pc EXCEPT ![e] = "done"] /\ UNCHANGED <<draft, lockq, call, chat, active, target>>
  BY <1>1, <1>4, MessageKeeps
<1> QED
  BY <1>2, <1>3, <1>4 DEF OnEvent

\* The gate lets a message through.
LEMMA DeliverKeeps ==
  ASSUME DraftInv, NEW m \in Events, Deliver(m), inbox \in [Events -> {"no", "hinting", "done"}]
  PROVE  DraftInv'
<1>1. /\ inbox[m] = "no" /\ pc' = [pc EXCEPT ![m] = "come"] /\ inbox' = [inbox EXCEPT ![m] = "done"]
      /\ UNCHANGED <<draft, lockq, call, chat, asker, active, target>>
  BY DEF Deliver, Publish
<1>2. pc[m] = "idle"
  BY <1>1 DEF DraftInv, CloseInv, InboxOK
<1> QED
  BY <1>1, <1>2, MessageKeeps

\* What only moves a message on.
LEMMA InboxKeeps ==
  ASSUME DraftInv, UNCHANGED dvars, \A m \in Events : inbox'[m] = "no" => inbox[m] = "no"
  PROVE  DraftInv'
<1>1. UNCHANGED <<draft, lockq, pc, call, chat, asker, active, target>>
  BY DEF dvars
<1>2. DraftsTypeOK'
  BY <1>1 DEF DraftInv, DraftsTypeOK
<1>3. LockInv'
  BY <1>1 DEF DraftInv, LockInv
<1>4. FrameInv'
  BY <1>1 DEF DraftInv, FrameInv
<1>5. TaskInv'
  BY <1>1 DEF DraftInv, TaskInv, LoopLive
<1>6. OneCloser' /\ ClosersOK'
  BY <1>1 DEF DraftInv, CloseInv, OneCloser, ClosersOK, Ending
<1>7. ClosedOK'
  BY <1>1 DEF DraftInv, CloseInv, ClosedOK, Ending, TrailLive, LoopLive
<1>8. CardOK' /\ ShownOK' /\ InboxOK'
  BY <1>1 DEF DraftInv, CloseInv, CardOK, ShownOK, InboxOK, Ending
<1> QED
  BY <1>2, <1>3, <1>4, <1>5, <1>6, <1>7, <1>8 DEF DraftInv, CloseInv

\* No step of the drafts breaks their invariant.
LEMMA DraftStepsKeep ==
  ASSUME DraftInv, DraftSteps, inbox \in [Events -> {"no", "hinting", "done"}], UNCHANGED inbox
  PROVE  DraftInv'
<1>1. ASSUME NEW t \in Tasks, Flush(t) PROVE DraftInv'
  BY <1>1, FlushKeeps
<1>2. ASSUME NEW t \in Tasks, CloseQueues(t) PROVE DraftInv'
  BY <1>2, CloseQueuesKeeps
<1>3. ASSUME NEW t \in Tasks, NEW r \in Results, RenderEnds(t, r) PROVE DraftInv'
  BY <1>3, RenderEndsKeeps
<1>4. ASSUME NEW h \in Handles, TrailWakes(h) PROVE DraftInv'
  BY <1>4, TrailWakesKeeps
<1>5. ASSUME NEW h \in Handles, OpenRaises(h) PROVE DraftInv'
  BY <1>5, OpenRaisesKeeps
<1>6. ASSUME NEW s \in Streams, Ask(s) PROVE DraftInv'
  BY <1>6, AskKeeps
<1>7. ASSUME NEW s \in Streams, AskTimesOut(s) \/ AskClosed(s) PROVE DraftInv'
  BY <1>7, AskerKeeps
<1>8. ASSUME NEW s \in Streams, AskClose(s) PROVE DraftInv'
  BY <1>8, AskCloseKeeps
<1>9. ASSUME NEW s \in Streams, NEW r \in Results, OpenEnds(s, r) PROVE DraftInv'
  BY <1>9, OpenEndsKeeps
<1>10. ASSUME NEW u \in Updates, NEW s \in Streams, Update(u, s) PROVE DraftInv'
  BY <1>10, UpdateKeeps
<1>11. ASSUME NEW e \in Events, OnEvent(e) PROVE DraftInv'
  BY <1>11, OnEventKeeps
<1>12. ASSUME NEW e \in Events, LoopCancelled(e) PROVE DraftInv'
  BY <1>12, LoopCancelledKeeps
<1>13. ASSUME NEW e \in Events, StopCloses(e) PROVE DraftInv'
  BY <1>13, StopClosesKeeps
<1>14. ASSUME NEW e \in Events, Stopped(e) PROVE DraftInv'
  BY <1>14, StoppedKeeps
<1>15. ASSUME NEW e \in Events, Refresh(e) PROVE DraftInv'
  BY <1>15, RefreshKeeps
<1>16. ASSUME NEW e \in Events, NEW r \in Results, Opened(e, r) PROVE DraftInv'
  BY <1>16, OpenedKeeps
<1> QED
  BY <1>1, <1>2, <1>3, <1>4, <1>5, <1>6, <1>7, <1>8, <1>9, <1>10, <1>11, <1>12, <1>13, <1>14,
     <1>15, <1>16 DEF DraftSteps

\* Where the task of a message may be.
InboxTypeOK == inbox \in [Events -> {"no", "hinting", "done"}]

\* No step of the gateway breaks the invariant of the drafts.
LEMMA DraftInvKept ==
  ASSUME DraftInv, InboxTypeOK, [Next]_vars
  PROVE  DraftInv' /\ InboxTypeOK'
<1>1. CASE DraftSteps /\ UNCHANGED gvars
  BY <1>1, DraftStepsKeep DEF InboxTypeOK, gvars
<1>2. ASSUME NEW m \in Events, Deliver(m) PROVE DraftInv' /\ InboxTypeOK'
  BY <1>2, DeliverKeeps DEF InboxTypeOK, Deliver, Publish
<1>3. ASSUME UNCHANGED dvars, InboxTypeOK', \A m \in Events : inbox'[m] = "no" => inbox[m] = "no"
      PROVE  DraftInv' /\ InboxTypeOK'
  BY <1>3, InboxKeeps
<1>4. ASSUME UNCHANGED <<dvars, inbox>> PROVE DraftInv' /\ InboxTypeOK'
  BY <1>3, <1>4 DEF InboxTypeOK
<1>5. ASSUME NEW m \in Events, Cancel(m) \/ Hold(m) \/ Hinted(m) PROVE DraftInv' /\ InboxTypeOK'
  <2>1. UNCHANGED dvars /\ \E x \in {"hinting", "done"} : inbox' = [inbox EXCEPT ![m] = x]
    BY <1>5 DEF Cancel, Hold, Hinted, Publish
  <2> QED
    BY <1>3, <2>1 DEF InboxTypeOK
<1>6. CASE DiskCut \/ DiskPut \/ DiskStat \/ Poll \/ Reload
  BY <1>4, <1>6 DEF DiskCut, DiskPut, DiskStat, Poll, Reload
<1>7. ASSUME NEW a \in Admins, CliLoads(a) \/ CliCuts(a) \/ CliWrites(a) \/ PairOp(a)
      PROVE  DraftInv' /\ InboxTypeOK'
  BY <1>4, <1>7 DEF CliLoads, CliCuts, CliWrites, PairOp
<1>8. CASE UNCHANGED vars
  BY <1>4, <1>8 DEF vars, gvars
<1> QED
  BY <1>1, <1>2, <1>5, <1>6, <1>7, <1>8 DEF Next

\* At boot no draft is open and no message has come.
LEMMA InitDraftInv ==
  ASSUME Init
  PROVE  DraftInv /\ InboxTypeOK
<1>1. /\ draft = [h \in Handles |-> [opened |-> FALSE, closed |-> FALSE, text |-> 0, sent |-> 0, msg |-> FALSE]]
      /\ active = None /\ lockq = [h \in Handles |-> <<>>]
      /\ pc = [t \in Tasks |-> "idle"] /\ call = [t \in Tasks |-> None]
      /\ chat = [h \in Handles |-> [posts |-> 0, text |-> 0, final |-> FALSE]]
      /\ asker \in [Streams -> {"idle", "away"}] /\ target = [t \in Tasks |-> None]
      /\ inbox = [m \in Events |-> "no"]
  BY DEF Init, InitDrafts
<1>2. DraftsTypeOK
  BY <1>1 DEF DraftsTypeOK, DraftStates, Shown, Stages
<1>3. \A h \in Handles : Once(lockq[h]) /\ \A t \in Tasks : ~In(t, lockq[h])
  BY <1>1 DEF Once, In
<1>4. \A t \in Tasks : pc[t] = "idle" /\ call[t] = None
  BY <1>1
<1>5. LockInv /\ FrameInv
  BY <1>3, <1>4 DEF LockInv, FrameInv, Busy
<1>6. TaskInv
  BY <1>1, <1>4, TaskNames DEF TaskInv, LoopLive, Busy, Handles
<1>7. \A h \in Handles : ~draft[h].closed /\ ~chat[h].final
  BY <1>1
<1>8. \A t \in Tasks : ~Ending(t)
  BY <1>4 DEF Ending, Busy
<1>9. CloseInv
  BY <1>1, <1>4, <1>7, <1>8, TaskNames DEF CloseInv, OneCloser, ClosersOK, ClosedOK, CardOK, ShownOK, InboxOK, Handles
<1> QED
  BY <1>1, <1>2, <1>5, <1>6, <1>9 DEF DraftInv, InboxTypeOK

\* What the invariant says of a chat that shows its final frame: the lock has no queue,
\* and whoever has a call under way is in a queue or opens another handle.
LEMMA LastOfAll ==
  ASSUME DraftInv
  PROVE  FinalIsLast
<1> SUFFICES ASSUME NEW h \in Handles, chat[h].final
             PROVE  chat[h].text = draft[h].text /\ \A t \in Renderers(h) : FALSE
  BY DEF FinalIsLast
<1>1. /\ draft[h].closed /\ chat[h].text = draft[h].text
      /\ \A t \in Tasks : Ending(t) => target[t] # h
  BY DEF DraftInv, CloseInv, ShownOK
<1>2. lockq[h] = <<>> /\ pc[h] = "done"
  BY <1>1 DEF DraftInv, CloseInv, ClosedOK
<1>3. ASSUME NEW t \in Tasks, call[t] # None, call[t].h = h PROVE FALSE
  <2>1. pc[t] \in {"opening", "render"} /\ target[t] = h
    BY <1>3 DEF DraftInv, FrameInv
  <2>2. CASE pc[t] = "opening"
    BY <1>2, <2>1, <2>2, OpeningTask DEF DraftInv
  <2>3. CASE pc[t] = "render"
    <3>1. In(t, lockq[h])
      BY <2>1, <2>3 DEF DraftInv, LockInv, Busy
    <3> QED
      BY <1>2, <3>1, Someone
  <2> QED
    BY <2>1, <2>2, <2>3
<1> QED
  BY <1>1, <1>3 DEF Renderers

\* close() has the last word: whatever updates, flushes, refreshes, cancellations, timeouts and
\* lost answers come in its way, the final frame of a draft, once shown, is the text the draft
\* ended with, and no call is under way that could replace it.
THEOREM FinalFrameStays == Spec => []FinalIsLast
<1> DEFINE Inv == DraftInv /\ InboxTypeOK
<1>1. Init => Inv
  BY InitDraftInv
<1>2. Inv /\ [Next]_vars => Inv'
  BY DraftInvKept
<1>3. Inv => FinalIsLast
  BY LastOfAll
<1> QED
  BY <1>1, <1>2, <1>3, PTL DEF Spec
=============================================================================
