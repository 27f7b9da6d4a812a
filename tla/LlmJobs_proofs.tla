--------------------------- MODULE LlmJobs_proofs ---------------------------
(***************************************************************************)
(* Proofs about the path of a model call and the jobs on it, for any jobs, *)
(* scripts, pool size and number of retries, whatever times out and is     *)
(* asked again: an iteration is paid for once, a compressor loses no       *)
(* document without saying so, a judge names the candidate most of the     *)
(* replies it counted meant, and a request answers the tool calls it shows.*)
(***************************************************************************)
EXTENDS LlmJobs, FiniteSetTheorems, SequenceTheorems, WellFoundedInduction, TLAPS

-----------------------------------------------------------------------------
(* One logical call, one debit. *)

\* The fields of a turn and of a request that the argument needs.
TurnRecord(t) ==
    t \in [st : {"none", "call", "sleep", "tools", "done"}, msgs : {t.msgs}, it : Nat, try : Nat,
           tokens : {t.tokens}, todo : {t.todo}, stop : {t.stop}, content : {t.content}]

CallRecord(c) == c \in [job : Jobs, n : 1..MaxSteps, it : Nat, try : Nat, st : {c.st}, msgs : {c.msgs}]

Of(x, j, n) == x.job = j /\ x.n = n

\* One turn: its request under way, and what has been paid for it.
Paid(j, n) ==
    LET t == turn[j][n] IN
    /\ TurnRecord(t)
    /\ \A c \in calls : Of(c, j, n) => t.st \in {"call", "done"} /\ (t.st = "call" => c.it = t.it /\ c.try = t.try)
    /\ \A c, d \in calls : Of(c, j, n) /\ Of(d, j, n) => c = d
    /\ \A e \in ledger : Of(e, j, n) =>
         /\ t.st # "none"
         /\ t.st \in {"call", "sleep"} => e.it < t.it
         /\ t.st = "tools" => e.it <= t.it
         /\ \A c \in calls : Of(c, j, n) => e.it < c.it
         /\ \A f \in ledger : Of(f, j, n) /\ e.it = f.it => e = f

\* All turns, and what is under way and paid for belongs to one of them.
TurnInv ==
    /\ turn = [j \in Jobs |-> [n \in 1..MaxSteps |-> turn[j][n]]]
    /\ \A c \in calls : CallRecord(c)
    /\ \A e \in ledger : e.job \in Jobs /\ e.n \in 1..MaxSteps /\ e.it \in Nat
    /\ \A j \in Jobs, n \in 1..MaxSteps : Paid(j, n)

\* The record of a job.
JobRecord(b) ==
    b \in [st : {b.st}, n : Nat \ {0}, hist : {b.hist}, flip : {b.flip}, got : {b.got},
           out : {b.out}, told : {b.told}]

\* The turns ahead of a job have not been asked for.
JobInv ==
    /\ script \in Scripts
    /\ job = [j \in Jobs |-> job[j]]
    /\ \A j \in Jobs :
         /\ JobRecord(job[j])
         /\ job[j].st = "wait" => job[j].n <= Len(Steps(j))
         /\ \A n \in 1..MaxSteps : n > job[j].n \/ (n = job[j].n /\ job[j].st = "ready") => turn[j][n].st = "none"

PaidInv == TurnInv /\ JobInv

\* What is known of each turn says that an iteration is paid for once.
LEMMA OnceEach == TurnInv => OneDebit
BY DEF TurnInv, Paid, OneDebit, Of

\* A step of one turn.
LEMMA OneTurn ==
  ASSUME TurnInv, NEW j \in Jobs, NEW n \in 1..MaxSteps, NEW t,
         turn' = [turn EXCEPT ![j][n] = t],
         \A c \in calls' : c \in calls \/ (CallRecord(c) /\ Of(c, j, n)),
         \A e \in ledger' : e \in ledger \/ (Of(e, j, n) /\ e.it \in Nat),
         Paid(j, n)'
  PROVE  /\ TurnInv' /\ turn'[j][n] = t
         /\ \A k \in Jobs, m \in 1..MaxSteps : k # j \/ m # n => turn'[k][m] = turn[k][m]
<1>1. /\ turn' = [k \in Jobs |-> [m \in 1..MaxSteps |-> turn'[k][m]]] /\ turn'[j][n] = t
      /\ \A k \in Jobs, m \in 1..MaxSteps : k # j \/ m # n => turn'[k][m] = turn[k][m]
  BY DEF TurnInv
<1>2. ASSUME NEW k \in Jobs, NEW m \in 1..MaxSteps, k # j \/ m # n PROVE Paid(k, m)'
  <2>1. turn'[k][m] = turn[k][m]
    BY <1>1, <1>2
  <2>2. \A c \in calls' : Of(c, k, m) => c \in calls
    BY <1>2 DEF Of
  <2>3. \A e \in ledger' : Of(e, k, m) => e \in ledger
    BY <1>2 DEF Of
  <2>4. Paid(k, m)
    BY DEF TurnInv
  <2> QED
    BY <2>1, <2>2, <2>3, <2>4 DEF Paid
<1>3. \A k \in Jobs, m \in 1..MaxSteps : Paid(k, m)'
  BY <1>2
<1>4. \A c \in calls' : CallRecord(c)
  BY DEF TurnInv
<1>5. \A e \in ledger' : e.job \in Jobs /\ e.n \in 1..MaxSteps /\ e.it \in Nat
  BY DEF TurnInv, Of
<1> QED
  BY <1>1, <1>3, <1>4, <1>5 DEF TurnInv

\* The request of a turn names its turn, iteration and attempt.
LEMMA CallMade ==
  ASSUME NEW j \in Jobs, NEW n \in 1..MaxSteps, NEW t, TurnRecord(t)
  PROVE  CallRecord(Call(j, n, t)) /\ Of(Call(j, n, t), j, n) /\ Call(j, n, t).it = t.it /\ Call(j, n, t).try = t.try
BY DEF CallRecord, Call, Of, TurnRecord

\* A turn asks: it had no request under way.
LEMMA AsksKeeps ==
  ASSUME TurnInv, NEW j \in Jobs, NEW n \in 1..MaxSteps, NEW t, TurnRecord(t), t.st = "call",
         turn[j][n].st \in {"none", "sleep", "tools"},
         turn[j][n].st = "sleep" => t.it >= turn[j][n].it,
         turn[j][n].st = "tools" => t.it > turn[j][n].it,
         turn' = [turn EXCEPT ![j][n] = t], calls' = calls \cup {Call(j, n, t)}, ledger' = ledger
  PROVE  /\ TurnInv' /\ turn'[j][n] = t
         /\ \A k \in Jobs, m \in 1..MaxSteps : k # j \/ m # n => turn'[k][m] = turn[k][m]
<1> DEFINE c == Call(j, n, t)
<1>1. CallRecord(c) /\ Of(c, j, n) /\ c.it = t.it /\ c.try = t.try
  BY CallMade
<1>2. turn'[j][n] = t
  BY DEF TurnInv
<1>3. \A d \in calls : ~Of(d, j, n)
  BY DEF TurnInv, Paid
<1> HIDE DEF c
<1>4. calls' = calls \cup {c}
  BY DEF c
<1>5. \A e \in ledger : Of(e, j, n) => e.it < t.it
  <2>1. Paid(j, n) /\ turn[j][n].it \in Nat /\ t.it \in Nat /\ \A e \in ledger : e.it \in Nat
    BY DEF TurnInv, Paid, TurnRecord
  <2> QED
    BY <2>1 DEF Paid
<1>6. Paid(j, n)'
  <2>1. \A d \in calls' : Of(d, j, n) => d = c
    BY <1>3, <1>4
  <2>2. \A e, f \in ledger : Of(e, j, n) /\ Of(f, j, n) /\ e.it = f.it => e = f
    BY DEF TurnInv, Paid
  <2> QED
    BY <1>1, <1>2, <1>5, <2>1, <2>2 DEF Paid
<1>7. \A d \in calls' : d \in calls \/ (CallRecord(d) /\ Of(d, j, n))
  BY <1>1, <1>4
<1> QED
  BY <1>6, <1>7, OneTurn

\* A turn goes on without a new request: calls may end, nothing is paid.
LEMMA MovesKeeps ==
  ASSUME TurnInv, NEW j \in Jobs, NEW n \in 1..MaxSteps, NEW t, TurnRecord(t), t.st \in {"sleep", "tools", "done"},
         turn[j][n].st # "none",
         t.st = "done" \/ (t.st = turn[j][n].st /\ t.it = turn[j][n].it)
             \/ (t.st = "sleep" /\ turn[j][n].st = "call" /\ t.it = turn[j][n].it),
         t.st = "done" \/ \A c \in calls' : ~Of(c, j, n),
         turn' = [turn EXCEPT ![j][n] = t], calls' \subseteq calls, ledger' = ledger
  PROVE  /\ TurnInv' /\ turn'[j][n] = t
         /\ \A k \in Jobs, m \in 1..MaxSteps : k # j \/ m # n => turn'[k][m] = turn[k][m]
<1>1. turn'[j][n] = t
  BY DEF TurnInv
<1>2. Paid(j, n)'
  BY <1>1 DEF TurnInv, Paid
<1> QED
  BY <1>2, OneTurn

\* What a driver makes of an answer, and of a refusal.
LEMMA AfterAnswer ==
  ASSUME NEW j, NEW t, TurnRecord(t), NEW reply, NEW kind
  PROVE  /\ TurnRecord(OnReply(j, t, reply)) /\ OnReply(j, t, reply).st \in {"tools", "done"}
         /\ OnReply(j, t, reply).it = t.it
         /\ TurnRecord(OnRefusal(t, kind)) /\ OnRefusal(t, kind).st \in {"sleep", "done"}
         /\ OnRefusal(t, kind).it = t.it
<1>1. /\ TurnRecord(OnRefusal(t, kind)) /\ OnRefusal(t, kind).st \in {"sleep", "done"}
      /\ OnRefusal(t, kind).it = t.it
  BY DEF OnRefusal, Ended, TurnRecord
<1> DEFINE s == [t EXCEPT !.msgs = Append(@, AssistantMessage(reply)), !.content = reply.content, !.tokens = @ + 1]
<1>2. TurnRecord(s) /\ s.it = t.it
  BY DEF TurnRecord
<1>3. \/ OnReply(j, t, reply) = Ended(s, "complete")
      \/ OnReply(j, t, reply) = Ended(s, "token_budget")
      \/ OnReply(j, t, reply) = [s EXCEPT !.st = "tools", !.todo = reply.calls]
  BY DEF OnReply
<1> HIDE DEF s
<1>4. \A x : TurnRecord(Ended(s, x)) /\ Ended(s, x).st = "done" /\ Ended(s, x).it = t.it
  BY <1>2 DEF Ended, TurnRecord
<1>5. /\ TurnRecord([s EXCEPT !.st = "tools", !.todo = reply.calls])
      /\ [s EXCEPT !.st = "tools", !.todo = reply.calls].st = "tools"
      /\ [s EXCEPT !.st = "tools", !.todo = reply.calls].it = t.it
  BY <1>2 DEF TurnRecord
<1> QED
  BY <1>1, <1>3, <1>4, <1>5

\* A call ends: with an answer that is paid for, or without.
LEMMA CloseKeeps ==
  ASSUME TurnInv, NEW c \in calls, NEW u, Close(c, u), TurnRecord(u), u.it = turn[c.job][c.n].it,
         \/ ledger' = ledger /\ u.st \in {"sleep", "done"}
         \/ u.st \in {"tools", "done"} /\ \E e : ledger' = ledger \cup {e} /\ Of(e, c.job, c.n) /\ e.it = c.it
  PROVE  /\ TurnInv'
         /\ \A k \in Jobs, m \in 1..MaxSteps : turn[k][m].st = "none" => turn'[k][m].st = "none"
<1> DEFINE j == c.job
           n == c.n
           t == turn[j][n]
           w == IF Waited(c) THEN u ELSE t
<1>1. /\ CallRecord(c) /\ j \in Jobs /\ n \in 1..MaxSteps /\ Paid(j, n) /\ TurnRecord(t) /\ Of(c, j, n)
      /\ \A e \in ledger : e.it \in Nat
  <2>1. CallRecord(c) /\ c.job \in Jobs /\ c.n \in 1..MaxSteps
    BY DEF TurnInv, CallRecord
  <2> QED
    BY <2>1 DEF TurnInv, Paid, Of
<1>2. t.st \in {"call", "done"} /\ (Waited(c) <=> t.st = "call") /\ (t.st = "call" => c.it = t.it)
  BY <1>1 DEF Paid, Waited
<1>3. turn' = [turn EXCEPT ![j][n] = w]
  BY <1>1 DEF Close, TurnInv
<1>4. calls' = calls \ {c} /\ \A d \in calls' : ~Of(d, j, n)
  BY <1>1 DEF Close, Paid
<1>5. /\ TurnRecord(w)
      /\ w.st = "done" \/ (w.st \in {"sleep", "tools"} /\ w.it = t.it /\ t.it = c.it)
      /\ w.st = "sleep" => ledger' = ledger
  BY <1>1, <1>2
<1>6. /\ \A e \in ledger' : e \in ledger \/ (Of(e, j, n) /\ e.it = c.it)
      /\ \A e, f \in ledger' : e \notin ledger /\ f \notin ledger => e = f
  OBVIOUS
<1>7. turn'[j][n] = w
  BY <1>1, <1>3 DEF TurnInv
<1> HIDE DEF w, t, j, n
<1>8. \A e \in ledger : Of(e, j, n) => e.it < c.it
  BY <1>1 DEF Paid
<1>9. Paid(j, n)'
  <2>1. \A e \in ledger' : Of(e, j, n) => e.it <= c.it /\ (e \in ledger => e.it < c.it)
    BY <1>1, <1>6, <1>8 DEF CallRecord
  <2>2. \A e, f \in ledger' : Of(e, j, n) /\ Of(f, j, n) /\ e.it = f.it => e = f
    <3>1. \A e, f \in ledger : Of(e, j, n) /\ Of(f, j, n) /\ e.it = f.it => e = f
      BY <1>1 DEF Paid
    <3>2. \A e \in ledger, f \in ledger' : Of(e, j, n) /\ f \notin ledger => e.it # f.it
      BY <1>1, <1>6, <1>8 DEF CallRecord
    <3> QED
      BY <1>6, <3>1, <3>2
  <2>3. \A e \in ledger' : Of(e, j, n) =>
          /\ w.st # "none"
          /\ w.st \in {"call", "sleep"} => e.it < w.it
          /\ w.st = "tools" => e.it <= w.it
    BY <1>5, <2>1
  <2> QED
    BY <1>4, <1>5, <1>7, <2>2, <2>3 DEF Paid
<1>10. /\ \A d \in calls' : d \in calls \/ (CallRecord(d) /\ Of(d, j, n))
       /\ \A e \in ledger' : e \in ledger \/ (Of(e, j, n) /\ e.it \in Nat)
  BY <1>1, <1>4, <1>6 DEF CallRecord
<1>11. /\ TurnInv'
       /\ \A k \in Jobs, m \in 1..MaxSteps : k # j \/ m # n => turn'[k][m] = turn[k][m]
  BY <1>1, <1>3, <1>9, <1>10, OneTurn
<1> QED
  BY <1>2, <1>11 DEF t

\* No step of the service makes a turn pay twice.
LEMMA ServiceKeeps ==
  ASSUME TurnInv, ServiceStep
  PROVE  /\ TurnInv' /\ script' = script
         /\ \A k \in Jobs, m \in 1..MaxSteps : turn[k][m].st = "none" => turn'[k][m].st = "none"
<1>1. PICK c \in calls : Refuse(c) \/ Send(c) \/ Reply(c) \/ Fail(c)
  BY DEF ServiceStep
<1>2. TurnRecord(turn[c.job][c.n]) /\ CallRecord(c)
  BY DEF TurnInv, Paid, CallRecord
<1>3. CASE Refuse(c) \/ Fail(c)
  <2>1. PICK kind : Close(c, OnRefusal(turn[c.job][c.n], kind)) /\ ledger' = ledger
    BY <1>3 DEF Refuse, Fail
  <2> QED
    BY <1>2, <2>1, AfterAnswer, CloseKeeps DEF Close
<1>4. CASE Reply(c)
  <2>1. PICK answer : /\ Close(c, OnReply(c.job, turn[c.job][c.n], Normalize(c, answer)))
                      /\ ledger' = ledger \cup {[job |-> c.job, n |-> c.n, it |-> c.it, try |-> c.try,
                                                 shown |-> Last(c.msgs).text, said |-> answer.text]}
    BY <1>4 DEF Reply
  <2>2. \E e : ledger' = ledger \cup {e} /\ Of(e, c.job, c.n) /\ e.it = c.it
    <3> DEFINE e == [job |-> c.job, n |-> c.n, it |-> c.it, try |-> c.try, shown |-> Last(c.msgs).text, said |-> answer.text]
    <3>1. ledger' = ledger \cup {e} /\ Of(e, c.job, c.n) /\ e.it = c.it
      BY <2>1 DEF Of
    <3> QED
      BY <3>1
  <2> QED
    BY <1>2, <2>1, <2>2, AfterAnswer, CloseKeeps, ZenonT(40) DEF Close
<1>5. CASE Send(c)
  <2> DEFINE d == [c EXCEPT !.st = "sent"]
  <2>1. CallRecord(d) /\ d.job = c.job /\ d.n = c.n /\ d.it = c.it /\ d.try = c.try
    BY <1>2 DEF CallRecord
  <2>2. calls' = (calls \ {c}) \cup {d} /\ UNCHANGED <<script, turn, ledger>>
    BY <1>5 DEF Send
  <2> HIDE DEF d
  <2>3. ASSUME NEW j \in Jobs, NEW n \in 1..MaxSteps PROVE Paid(j, n)'
    <3>1. Paid(j, n)
      BY DEF TurnInv
    <3>2. Of(d, j, n) <=> Of(c, j, n)
      BY <2>1 DEF Of
    <3> QED
      BY <2>1, <2>2, <3>1, <3>2 DEF Paid
  <2> QED
    BY <2>1, <2>2, <2>3 DEF TurnInv
<1> QED
  BY <1>1, <1>3, <1>4, <1>5

\* Nor a step of the driver.
LEMMA DriverKeeps ==
  ASSUME TurnInv, DriverStep
  PROVE  /\ TurnInv' /\ script' = script
         /\ \A k \in Jobs, m \in 1..MaxSteps : turn[k][m].st = "none" => turn'[k][m].st = "none"
<1>1. PICK j \in Jobs, n \in 1..MaxSteps : Retry(j, n) \/ CallTimeout(j, n) \/ RunTool(j, n)
  BY DEF DriverStep
<1> DEFINE t == turn[j][n]
<1>2. TurnRecord(t) /\ Paid(j, n)
  BY DEF TurnInv, Paid
<1>3. ASSUME t.st # "none", TurnInv', script' = script,
             \A k \in Jobs, m \in 1..MaxSteps : k # j \/ m # n => turn'[k][m] = turn[k][m]
      PROVE  /\ TurnInv' /\ script' = script
             /\ \A k \in Jobs, m \in 1..MaxSteps : turn[k][m].st = "none" => turn'[k][m].st = "none"
  BY <1>3
<1>4. CASE Retry(j, n)
  <2> DEFINE u == [t EXCEPT !.st = "call", !.try = @ + 1]
  <2>1. t.st = "sleep" /\ turn' = [turn EXCEPT ![j][n] = u] /\ calls' = calls \cup {Call(j, n, u)}
        /\ UNCHANGED <<script, ledger>>
    BY <1>4 DEF Retry
  <2>2. TurnRecord(u) /\ u.st = "call" /\ u.it = t.it /\ t.it \in Nat
    <3> DEFINE k == t.try + 1
    <3>1. k \in Nat /\ u = [t EXCEPT !.st = "call", !.try = k]
      BY <1>2 DEF TurnRecord
    <3> HIDE DEF k, u
    <3> QED
      BY <1>2, <3>1 DEF TurnRecord
  <2>3. u.it >= t.it
    BY <2>2
  <2> HIDE DEF u
  <2>4. /\ TurnInv'
        /\ \A k \in Jobs, m \in 1..MaxSteps : k # j \/ m # n => turn'[k][m] = turn[k][m]
    BY <2>1, <2>2, <2>3, AsksKeeps, ZenonT(40)
  <2> QED
    BY <1>3, <2>1, <2>4
<1>5. CASE CallTimeout(j, n)
  <2> DEFINE u == Ended(t, "error")
  <2>1. t.st = "call" /\ turn' = [turn EXCEPT ![j][n] = u] /\ UNCHANGED <<script, calls, ledger>>
    BY <1>5 DEF CallTimeout
  <2>2. TurnRecord(u) /\ u.st = "done"
    BY <1>2 DEF TurnRecord, Ended
  <2> HIDE DEF u
  <2> QED
    BY <1>3, <2>1, <2>2, MovesKeeps
<1>6. CASE RunTool(j, n)
  <2> DEFINE id == Min(t.todo)
             rest == t.todo \ {id}
             next == IF t.it = JobOf(j).max THEN Ended(t, "max_iter")
                     ELSE [t EXCEPT !.st = "call", !.it = @ + 1, !.try = 0]
             s(x) == [(IF rest = {} THEN next ELSE t) EXCEPT !.todo = rest, !.msgs = Append(@, ToolMessage(id, x))]
  <2>1. t.st = "tools" /\ UNCHANGED <<script, ledger>>
    BY <1>6 DEF RunTool
  <2>2. PICK x : /\ turn' = [turn EXCEPT ![j][n] = s(x)]
                 /\ calls' = calls \cup (IF s(x).st = "call" THEN {Call(j, n, s(x))} ELSE {})
    BY <1>6 DEF RunTool
  <2>3. TurnRecord(next) /\ (next.st = "done" \/ (next.st = "call" /\ next.it > t.it))
    <3> DEFINE k == t.it + 1
               again == [t EXCEPT !.st = "call", !.it = k, !.try = 0]
    <3>1. k \in Nat /\ k > t.it /\ next \in {Ended(t, "max_iter"), again}
      BY <1>2 DEF TurnRecord
    <3> HIDE DEF k, next
    <3>2. TurnRecord(Ended(t, "max_iter")) /\ Ended(t, "max_iter").st = "done"
      BY <1>2 DEF TurnRecord, Ended
    <3>3. TurnRecord(again) /\ again.st = "call" /\ again.it = k
      BY <1>2, <3>1 DEF TurnRecord
    <3> QED
      BY <3>1, <3>2, <3>3
  <2>4. TurnRecord(s(x)) /\ (s(x).st = "done" \/ (s(x).st = "call" /\ s(x).it > t.it) \/ (s(x).st = t.st /\ s(x).it = t.it))
    <3> HIDE DEF next, id, rest
    <3> QED
      BY <1>2, <2>3 DEF TurnRecord
  <2> DEFINE u == s(x)
  <2>5. TurnRecord(u) /\ (u.st = "done" \/ (u.st = "call" /\ u.it > t.it) \/ (u.st = t.st /\ u.it = t.it))
    BY <2>4
  <2>6. turn' = [turn EXCEPT ![j][n] = u] /\ calls' = calls \cup (IF u.st = "call" THEN {Call(j, n, u)} ELSE {})
    BY <2>2
  <2>7. \A d \in calls : ~Of(d, j, n)
    BY <1>2, <2>1 DEF Paid
  <2> HIDE DEF u
  <2>8. CASE u.st = "call"
    <3>1. calls' = calls \cup {Call(j, n, u)} /\ u.it > t.it
      BY <2>1, <2>5, <2>6, <2>8
    <3>2. /\ TurnInv'
          /\ \A k \in Jobs, m \in 1..MaxSteps : k # j \/ m # n => turn'[k][m] = turn[k][m]
      BY <2>1, <2>5, <2>6, <2>8, <3>1, AsksKeeps
    <3> QED
      BY <1>3, <2>1, <3>2
  <2>9. CASE u.st # "call"
    BY <1>3, <2>1, <2>5, <2>6, <2>7, <2>9, MovesKeeps, ZenonT(40)
  <2> QED
    BY <2>8, <2>9
<1> QED
  BY <1>1, <1>4, <1>5, <1>6

\* A job moves: its turns ahead are untouched.
LEMMA JobMoves ==
  ASSUME PaidInv, NEW j \in Jobs, NEW b, JobRecord(b), job' = [job EXCEPT ![j] = b], script' = script,
         b.n >= job[j].n, b.st = "wait" => b.n <= Len(Steps(j)),
         \A k \in Jobs, m \in 1..MaxSteps : k # j => turn'[k][m] = turn[k][m],
         \A m \in 1..MaxSteps : m > b.n \/ (m = b.n /\ b.st = "ready") => turn'[j][m].st = "none"
  PROVE  JobInv'
<1>1. job' = [k \in Jobs |-> job'[k]] /\ job'[j] = b /\ \A k \in Jobs : k # j => job'[k] = job[k]
  BY DEF PaidInv, JobInv
<1>2. ASSUME NEW k \in Jobs
      PROVE  /\ JobRecord(job'[k])
             /\ job'[k].st = "wait" => job'[k].n <= Len(script'[k].steps)
             /\ \A m \in 1..MaxSteps : m > job'[k].n \/ (m = job'[k].n /\ job'[k].st = "ready") => turn'[k][m].st = "none"
  <2>1. CASE k = j
    BY <1>1, <2>1 DEF Steps, JobOf
  <2>2. CASE k # j
    BY <1>1, <2>2 DEF PaidInv, JobInv, Steps, JobOf
  <2> QED
    BY <2>1, <2>2
<1> QED
  BY <1>1, <1>2 DEF PaidInv, JobInv, Steps, JobOf

\* A step asks for its turn.
LEMMA StepAsks ==
  ASSUME PaidInv, NEW j \in Jobs, job[j].st = "ready", job[j].n <= Len(Steps(j)), NEW b, JobRecord(b),
         job' = [job EXCEPT ![j] = b], b.st = "wait", b.n = job[j].n, NEW msgs, Request(j, job[j].n, msgs)
  PROVE  PaidInv'
<1> DEFINE n == job[j].n
           t == [NoTurn EXCEPT !.st = "call", !.msgs = msgs, !.it = 1]
<1>1. n \in 1..MaxSteps /\ turn[j][n].st = "none" /\ n \in Nat
  <2>1. Len(Steps(j)) <= MaxSteps /\ Len(Steps(j)) \in Nat
    BY ScriptsAssumption DEF PaidInv, JobInv, Steps, JobOf
  <2>2. n \in Nat \ {0}
    BY DEF PaidInv, JobInv, JobRecord
  <2>3. n \in 1..MaxSteps
    BY <2>1, <2>2, LlmAssumption
  <2> QED
    BY <2>2, <2>3 DEF PaidInv, JobInv
<1>2. TurnRecord(t) /\ t.st = "call"
  BY DEF TurnRecord, NoTurn
<1>3. turn' = [turn EXCEPT ![j][n] = t] /\ calls' = calls \cup {Call(j, n, t)} /\ ledger' = ledger /\ script' = script
  BY DEF Request
<1> HIDE DEF t
<1>4. /\ TurnInv'
      /\ \A k \in Jobs, m \in 1..MaxSteps : k # j \/ m # n => turn'[k][m] = turn[k][m]
  BY <1>1, <1>2, <1>3, AsksKeeps DEF PaidInv
<1>5. \A m \in 1..MaxSteps : m > n => turn'[j][m].st = "none"
  BY <1>1, <1>4 DEF PaidInv, JobInv
<1>6. b.n >= job[j].n
  BY <1>1
<1>7. JobInv'
  BY <1>3, <1>4, <1>5, <1>6, JobMoves
<1> QED
  BY <1>4, <1>7 DEF PaidInv

\* A step goes on without its turn, or the job ends.
LEMMA StepGoes ==
  ASSUME PaidInv, NEW j \in Jobs, NEW b, JobRecord(b), job' = [job EXCEPT ![j] = b],
         b.n > job[j].n \/ (b.n = job[j].n /\ b.st = "done"), b.st # "wait", UNCHANGED turnVars
  PROVE  PaidInv'
<1>1. TurnInv'
  BY DEF PaidInv, TurnInv, turnVars, Paid
<1>2. job[j].n \in Nat /\ b.n \in Nat
  BY DEF PaidInv, JobInv, JobRecord
<1>3. script' = script /\ turn' = turn
  BY DEF turnVars
<1>4. \A m \in 1..MaxSteps : m > b.n \/ (m = b.n /\ b.st = "ready") => turn'[j][m].st = "none"
  BY <1>2, <1>3 DEF PaidInv, JobInv
<1>5. b.n >= job[j].n
  BY <1>2
<1>6. JobInv'
  BY <1>3, <1>4, <1>5, JobMoves
<1> QED
  BY <1>1, <1>6 DEF PaidInv

\* A job has a bounded number of steps and is at a position.
LEMMA StepLength ==
  ASSUME PaidInv, NEW j \in Jobs
  PROVE  Len(Steps(j)) \in Nat /\ Len(Steps(j)) <= MaxSteps /\ job[j].n \in Nat \ {0} /\ JobRecord(job[j])
<1>1. Len(Steps(j)) \in Nat /\ Len(Steps(j)) <= MaxSteps
  BY ScriptsAssumption DEF PaidInv, JobInv, Steps, JobOf
<1>2. JobRecord(job[j])
  BY DEF PaidInv, JobInv
<1> QED
  BY <1>1, <1>2 DEF JobRecord

\* What a step makes of its turn moves the job on.
LEMMA TookMoves ==
  ASSUME PaidInv, NEW j \in Jobs, job[j].st = "wait", NEW content, NEW t
  PROVE  /\ JobRecord(Took(j, content, t)) /\ Took(j, content, t).st = "ready"
         /\ Took(j, content, t).n > job[j].n
<1>1. /\ Len(Steps(j)) \in Nat /\ job[j].n \in Nat \ {0} /\ JobRecord(job[j])
      /\ job[j].n <= Len(Steps(j))
  BY StepLength DEF PaidInv, JobInv
<1> DEFINE Fit(b) == JobRecord(b) /\ b.st = "ready" /\ b.n > job[j].n
           k == job[j].n + 1
           m == Len(Steps(j)) + 1
           s == [job[j] EXCEPT !.st = "ready", !.n = k]
<1>2. k \in Nat \ {0} /\ m \in Nat \ {0} /\ k > job[j].n /\ m > job[j].n
  BY <1>1
<1>3. \A stage : Failed(j, stage) = [job[j] EXCEPT !.st = "ready", !.n = m, !.out = stage]
  BY DEF Failed
<1>4. \A name : [job[j] EXCEPT !.st = "ready", !.n = @ + 1, !.got = name] = [job[j] EXCEPT !.st = "ready", !.n = k, !.got = name]
  OBVIOUS
<1>5. [job[j] EXCEPT !.st = "ready", !.n = @ + 1, !.out = "written"] = [job[j] EXCEPT !.st = "ready", !.n = k, !.out = "written"]
  OBVIOUS
<1>6. s = [job[j] EXCEPT !.st = "ready", !.n = @ + 1]
  OBVIOUS
<1> HIDE DEF k, m
<1>7. \A x : Fit(Failed(j, x))
  <2> TAKE x
  <2> DEFINE d == [job[j] EXCEPT !.st = "ready", !.n = m, !.out = x]
  <2>1. Fit(d)
    BY <1>1, <1>2 DEF JobRecord
  <2>2. Failed(j, x) = d
    BY <1>3
  <2> HIDE DEF d, Fit
  <2> QED
    BY <2>1, <2>2
<1>8. \A x : Fit([job[j] EXCEPT !.st = "ready", !.n = k, !.got = x]) /\ Fit([job[j] EXCEPT !.st = "ready", !.n = k, !.out = x])
  BY <1>1, <1>2 DEF JobRecord
<1>9. \A x : Fit([s EXCEPT !.hist = x]) /\ Fit([s EXCEPT !.got = x]) /\ Fit([s EXCEPT !.out = x])
  BY <1>1, <1>2 DEF JobRecord
<1> HIDE DEF Fit, s
<1>10. Fit(TookClass(j, content))
  <2>1. \/ TookClass(j, content) = Failed(j, "classify_intent") \/ TookClass(j, content) = Failed(j, "conflict")
        \/ TookClass(j, content) = [job[j] EXCEPT !.st = "ready", !.n = @ + 1, !.got = ClassifyIntent(content)]
    BY DEF TookClass
  <2> DEFINE d == [job[j] EXCEPT !.st = "ready", !.n = k, !.got = ClassifyIntent(content)]
  <2>2. Fit(d)
    BY <1>8
  <2>3. d = [job[j] EXCEPT !.st = "ready", !.n = @ + 1, !.got = ClassifyIntent(content)]
    BY <1>4
  <2> HIDE DEF d
  <2> QED
    BY <1>7, <2>1, <2>2, <2>3
<1>11. Fit(TookText(j, content))
  <2>1. \/ TookText(j, content) = Failed(j, "generate_agent_md") \/ TookText(j, content) = Failed(j, "write")
        \/ TookText(j, content) = [job[j] EXCEPT !.st = "ready", !.n = @ + 1, !.out = "written"]
    BY DEF TookText
  <2>2. Fit(Failed(j, "generate_agent_md")) /\ Fit(Failed(j, "write"))
    BY <1>7
  <2>3. Fit([job[j] EXCEPT !.st = "ready", !.n = @ + 1, !.out = "written"])
    BY <1>5, <1>8
  <2> QED
    BY <2>1, <2>2, <2>3
<1>12. Fit(Took(j, content, t))
  BY <1>6, <1>9, <1>10, <1>11 DEF Took
<1> QED
  BY <1>12 DEF Fit

\* An update of three fields of a job is one update of the job.
LEMMA ThreeFields ==
  ASSUME NEW j \in Jobs, job = [k \in Jobs |-> job[k]], JobRecord(job[j]), NEW x, NEW y, NEW z
  PROVE  [job EXCEPT ![j].st = x, ![j].out = y, ![j].told = z]
           = [job EXCEPT ![j] = [job[j] EXCEPT !.st = x, !.out = y, !.told = z]]
BY DEF JobRecord

\* No step of a job makes a turn pay twice, or touches a turn ahead.
LEMMA JobKeeps ==
  ASSUME PaidInv, JobStep
  PROVE  PaidInv'
<1>1. PICK j \in Jobs :
        \/ Answered(j)
        \/ Vote(j) \/ Score(j) \/ MapStep(j) \/ ReduceStep(j) \/ Ask(j) \/ Micro(j) \/ Full(j)
        \/ NewAgent(j) \/ Generate(j) \/ StartAgent(j) \/ JobTimeout(j) \/ Conclude(j)
  BY DEF JobStep
<1>2. /\ JobRecord(job[j]) /\ job[j].n \in Nat \ {0} /\ job = [k \in Jobs |-> job[k]]
      /\ Len(Steps(j)) \in Nat
  BY StepLength DEF PaidInv, JobInv
<1> DEFINE w == [job[j] EXCEPT !.st = "wait"]
           k == job[j].n + 1
           b == [job[j] EXCEPT !.n = k]
<1>3. JobRecord(w) /\ w.st = "wait" /\ w.n = job[j].n
  BY <1>2 DEF JobRecord
<1>4. JobRecord(b) /\ b.n = k /\ k > job[j].n /\ b.st = job[j].st
  <2>1. k \in Nat \ {0} /\ k > job[j].n
    BY <1>2
  <2> HIDE DEF k
  <2> QED
    BY <1>2, <2>1 DEF JobRecord
<1>5. \A x : /\ JobRecord([b EXCEPT !.hist = x]) /\ [b EXCEPT !.hist = x].n = k /\ [b EXCEPT !.hist = x].st = job[j].st
             /\ JobRecord([b EXCEPT !.got = x]) /\ [b EXCEPT !.got = x].n = k /\ [b EXCEPT !.got = x].st = job[j].st
             /\ JobRecord([b EXCEPT !.out = x]) /\ [b EXCEPT !.out = x].n = k /\ [b EXCEPT !.out = x].st = job[j].st
  <2> HIDE DEF k, b
  <2> QED
    BY <1>4 DEF JobRecord
<1>6. \A x : /\ JobRecord([w EXCEPT !.hist = x]) /\ [w EXCEPT !.hist = x].n = job[j].n /\ [w EXCEPT !.hist = x].st = "wait"
             /\ JobRecord([w EXCEPT !.flip = x]) /\ [w EXCEPT !.flip = x].n = job[j].n /\ [w EXCEPT !.flip = x].st = "wait"
  <2> HIDE DEF w
  <2> QED
    BY <1>3 DEF JobRecord
<1>7. \A x, y : LET d == [job[j] EXCEPT !.st = "done", !.out = x, !.told = y]
               IN  JobRecord(d) /\ d.n = job[j].n /\ d.st = "done"
  BY <1>2 DEF JobRecord
<1>8. CASE Vote(j)
  <2>1. PICK flip : /\ job' = [job EXCEPT ![j].st = "wait", ![j].flip = flip]
                    /\ Request(j, job[j].n, <<User(IF flip THEN "ba" ELSE "ab")>>)
                    /\ job[j].st = "ready" /\ job[j].n <= Len(Steps(j))
    BY <1>8 DEF Vote, Ready
  <2>2. job' = [job EXCEPT ![j] = [w EXCEPT !.flip = flip]]
    BY <1>2, <2>1
  <2> HIDE DEF w
  <2> QED
    BY <1>6, <2>1, <2>2, StepAsks, ZenonT(40)
<1>9. CASE Score(j) \/ NewAgent(j) \/ Generate(j)
  <2>1. PICK msgs : /\ job' = [job EXCEPT ![j].st = "wait"] /\ Request(j, job[j].n, msgs)
                    /\ job[j].st = "ready" /\ job[j].n <= Len(Steps(j))
    BY <1>9 DEF Score, NewAgent, Generate, Ready
  <2>2. job' = [job EXCEPT ![j] = w]
    BY <1>2, <2>1
  <2> QED
    BY <1>3, <2>1, <2>2, StepAsks
<1>10. CASE Ask(j)
  <2> DEFINE hist == Append(job[j].hist, User("ask"))
  <2>1. /\ job' = [job EXCEPT ![j].st = "wait", ![j].hist = hist] /\ Request(j, job[j].n, hist)
        /\ job[j].st = "ready" /\ job[j].n <= Len(Steps(j))
    BY <1>10 DEF Ask, Ready
  <2> HIDE DEF hist
  <2>2. job' = [job EXCEPT ![j] = [w EXCEPT !.hist = hist]]
    BY <1>2, <2>1
  <2> HIDE DEF w
  <2> QED
    BY <1>6, <2>1, <2>2, StepAsks, ZenonT(40)
<1>11. CASE MapStep(j)
  <2>1. job[j].st = "ready" /\ job[j].n <= Len(Steps(j))
    BY <1>11 DEF MapStep, Ready
  <2>2. CASE \E x, y : job' = [job EXCEPT ![j].st = "done", ![j].out = x, ![j].told = y] /\ UNCHANGED turnVars
    <3>1. PICK x, y : job' = [job EXCEPT ![j].st = "done", ![j].out = x, ![j].told = y] /\ UNCHANGED turnVars
      BY <2>2
    <3> DEFINE d == [job[j] EXCEPT !.st = "done", !.out = x, !.told = y]
    <3>2. job' = [job EXCEPT ![j] = d]
      BY <1>2, <3>1, ThreeFields
    <3>3. JobRecord(d) /\ d.n = job[j].n /\ d.st = "done"
      BY <1>7
    <3> HIDE DEF d
    <3> QED
      BY <3>1, <3>2, <3>3, StepGoes
  <2>3. CASE \E x : job' = [job EXCEPT ![j].n = @ + 1, ![j].got = x] /\ UNCHANGED turnVars
    <3>1. PICK x : job' = [job EXCEPT ![j] = [b EXCEPT !.got = x]] /\ UNCHANGED turnVars
      BY <1>2, <2>3
    <3> HIDE DEF b, k
    <3> QED
      BY <1>4, <1>5, <2>1, <3>1, StepGoes
  <2>4. CASE \E msgs : job' = [job EXCEPT ![j].st = "wait"] /\ Request(j, job[j].n, msgs)
    <3>1. PICK msgs : job' = [job EXCEPT ![j] = w] /\ Request(j, job[j].n, msgs)
      BY <1>2, <2>4
    <3> QED
      BY <1>3, <2>1, <3>1, StepAsks
  <2> QED
    BY <1>11, <2>2, <2>3, <2>4 DEF MapStep
<1>12. CASE ReduceStep(j)
  <2>1. job[j].st = "ready" /\ job[j].n <= Len(Steps(j))
    BY <1>12 DEF ReduceStep, Ready
  <2>2. CASE \E x : job' = [job EXCEPT ![j].n = @ + 1, ![j].out = x] /\ UNCHANGED turnVars
    <3>1. PICK x : job' = [job EXCEPT ![j] = [b EXCEPT !.out = x]] /\ UNCHANGED turnVars
      BY <1>2, <2>2
    <3> HIDE DEF b, k
    <3> QED
      BY <1>4, <1>5, <2>1, <3>1, StepGoes
  <2>3. CASE \E msgs : job' = [job EXCEPT ![j].st = "wait"] /\ Request(j, job[j].n, msgs)
    <3>1. PICK msgs : job' = [job EXCEPT ![j] = w] /\ Request(j, job[j].n, msgs)
      BY <1>2, <2>3
    <3> QED
      BY <1>3, <2>1, <3>1, StepAsks
  <2> QED
    BY <1>12, <2>2, <2>3 DEF ReduceStep
<1>13. CASE Micro(j)
  <2>1. job[j].st = "ready" /\ \E x : job' = [job EXCEPT ![j].n = @ + 1, ![j].hist = x] /\ UNCHANGED turnVars
    BY <1>13 DEF Micro, Ready
  <2>2. PICK x : job' = [job EXCEPT ![j] = [b EXCEPT !.hist = x]] /\ UNCHANGED turnVars
    BY <1>2, <2>1
  <2> HIDE DEF b, k
  <2> QED
    BY <1>4, <1>5, <2>1, <2>2, StepGoes
<1>14. CASE Full(j)
  <2>1. job[j].st = "ready" /\ job[j].n <= Len(Steps(j))
    BY <1>14 DEF Full, Ready
  <2>2. CASE job' = [job EXCEPT ![j].n = @ + 1] /\ UNCHANGED turnVars
    <3>1. job' = [job EXCEPT ![j] = b]
      BY <1>2, <2>2
    <3> HIDE DEF b, k
    <3> QED
      BY <1>4, <2>1, <2>2, <3>1, StepGoes
  <2>3. CASE \E msgs : job' = [job EXCEPT ![j].st = "wait"] /\ Request(j, job[j].n, msgs)
    <3>1. PICK msgs : job' = [job EXCEPT ![j] = w] /\ Request(j, job[j].n, msgs)
      BY <1>2, <2>3
    <3> QED
      BY <1>3, <2>1, <3>1, StepAsks
  <2> QED
    BY <1>14, <2>2, <2>3 DEF Full
<1>15. CASE StartAgent(j)
  <2>1. job[j].st = "ready" /\ \E x : job' = [job EXCEPT ![j].n = @ + 1, ![j].out = x] /\ UNCHANGED turnVars
    BY <1>15 DEF StartAgent, Ready
  <2>2. PICK x : job' = [job EXCEPT ![j] = [b EXCEPT !.out = x]] /\ UNCHANGED turnVars
    BY <1>2, <2>1
  <2> HIDE DEF b, k
  <2> QED
    BY <1>4, <1>5, <2>1, <2>2, StepGoes
<1>16. CASE Conclude(j)
  <2>1. \E x, y : job' = [job EXCEPT ![j].st = "done", ![j].out = x, ![j].told = y] /\ UNCHANGED turnVars
    BY <1>16 DEF Conclude
  <2>2. PICK x, y : job' = [job EXCEPT ![j].st = "done", ![j].out = x, ![j].told = y] /\ UNCHANGED turnVars
    BY <2>1
  <2> DEFINE d == [job[j] EXCEPT !.st = "done", !.out = x, !.told = y]
  <2>3. job' = [job EXCEPT ![j] = d]
    BY <1>2, <2>2, ThreeFields
  <2>4. JobRecord(d) /\ d.n = job[j].n /\ d.st = "done"
    BY <1>7
  <2> HIDE DEF d
  <2> QED
    BY <2>2, <2>3, <2>4, StepGoes
<1>17. CASE JobTimeout(j)
  <2> DEFINE d == Took(j, "", NoTurn)
  <2>1. job[j].st = "wait" /\ job' = [job EXCEPT ![j] = d] /\ UNCHANGED turnVars
    BY <1>17 DEF JobTimeout
  <2>2. JobRecord(d) /\ d.st = "ready" /\ d.n > job[j].n
    BY <2>1, TookMoves
  <2> HIDE DEF d
  <2> QED
    BY <2>1, <2>2, StepGoes
<1>18. CASE Answered(j)
  <2> DEFINE n == job[j].n
             t == turn[j][n]
             content == IF t.stop = "complete" THEN t.content ELSE ""
             d == Took(j, content, t)
             u == [NoTurn EXCEPT !.st = "done"]
  <2>1. /\ job[j].st = "wait" /\ t.st = "done" /\ job' = [job EXCEPT ![j] = d]
        /\ turn' = [turn EXCEPT ![j][n] = u] /\ UNCHANGED <<script, calls, ledger>>
    BY <1>18 DEF Answered
  <2>2. JobRecord(d) /\ d.st = "ready" /\ d.n > n /\ d.n \in Nat
    <3>1. JobRecord(d) /\ d.st = "ready" /\ d.n > n
      BY <2>1, TookMoves
    <3> QED
      BY <3>1 DEF JobRecord
  <2>3. n \in 1..MaxSteps
    <3>1. n <= Len(Steps(j)) /\ Len(Steps(j)) <= MaxSteps
      BY <2>1, StepLength DEF PaidInv, JobInv
    <3> QED
      BY <1>2, <3>1, LlmAssumption
  <2>4. TurnRecord(u) /\ u.st = "done"
    BY DEF TurnRecord, NoTurn
  <2> HIDE DEF u, d
  <2>5. t.st # "none" /\ calls' \subseteq calls /\ ledger' = ledger
    BY <2>1
  <2>6. /\ TurnInv'
        /\ \A i \in Jobs, m \in 1..MaxSteps : i # j \/ m # n => turn'[i][m] = turn[i][m]
    BY <2>1, <2>3, <2>4, <2>5, MovesKeeps, ZenonT(40) DEF PaidInv
  <2>7. \A m \in 1..MaxSteps : m > d.n \/ (m = d.n /\ d.st = "ready") => turn'[j][m].st = "none"
    <3>1. \A m \in 1..MaxSteps : m > n => turn[j][m].st = "none"
      BY DEF PaidInv, JobInv
    <3>2. \A m \in 1..MaxSteps : m > d.n \/ m = d.n => m > n
      BY <1>2, <2>2
    <3> QED
      BY <2>6, <3>1, <3>2
  <2>8. d.n >= job[j].n
    BY <1>2, <2>2
  <2>9. \A i \in Jobs, m \in 1..MaxSteps : i # j => turn'[i][m] = turn[i][m]
    BY <2>6
  <2>10. JobInv'
    BY <2>1, <2>2, <2>7, <2>8, <2>9, JobMoves
  <2> QED
    BY <2>6, <2>10 DEF PaidInv
<1> QED
  BY <1>1, <1>8, <1>9, <1>10, <1>11, <1>12, <1>13, <1>14, <1>15, <1>16, <1>17, <1>18

\* At first no turn has asked.
LEMMA PaidStart == Init => PaidInv
<1> SUFFICES ASSUME Init PROVE PaidInv
  OBVIOUS
<1>1. TurnRecord(NoTurn) /\ NoTurn.st = "none"
  BY DEF TurnRecord, NoTurn
<1>2. \A j \in Jobs, n \in 1..MaxSteps : turn[j][n] = NoTurn
  BY DEF Init, TurnInit
<1>3. \A j \in Jobs, n \in 1..MaxSteps : Paid(j, n)
  BY <1>1, <1>2 DEF Init, TurnInit, Paid
<1>4. TurnInv
  BY <1>3 DEF Init, TurnInit, TurnInv
<1>5. \A j \in Jobs : JobRecord(job[j]) /\ job[j].st = "ready"
  <2> DEFINE b == [st |-> "ready", n |-> 1, hist |-> <<>>, flip |-> FALSE, got |-> <<>>, out |-> None, told |-> None]
  <2>1. JobRecord(b) /\ b.st = "ready"
    BY DEF JobRecord
  <2>2. \A j \in Jobs : job[j] = b
    BY DEF Init
  <2> QED
    BY <2>1, <2>2
<1>6. JobInv
  BY <1>1, <1>2, <1>5 DEF Init, TurnInit, JobInv
<1> QED
  BY <1>4, <1>6 DEF PaidInv

\* Every step keeps the turns and their payments in order.
LEMMA PaidStep == PaidInv /\ [Next]_vars => PaidInv'
<1> SUFFICES ASSUME PaidInv, [Next]_vars PROVE PaidInv'
  OBVIOUS
<1>1. CASE JobStep
  BY <1>1, JobKeeps
<1>2. CASE (ServiceStep \/ DriverStep) /\ UNCHANGED <<job, disk>>
  <2>1. /\ TurnInv' /\ script' = script
        /\ \A k \in Jobs, m \in 1..MaxSteps : turn[k][m].st = "none" => turn'[k][m].st = "none"
    BY <1>2, ServiceKeeps, DriverKeeps DEF PaidInv
  <2>2. JobInv'
    BY <1>2, <2>1 DEF PaidInv, JobInv, Steps, JobOf
  <2> QED
    BY <2>1, <2>2 DEF PaidInv
<1>3. CASE UNCHANGED vars
  BY <1>3 DEF vars, PaidInv, TurnInv, Paid, JobInv, Steps, JobOf
<1> QED
  BY <1>1, <1>2, <1>3 DEF Next

\* One logical call is debited at most once.
THEOREM OneDebitEach == Spec => []OneDebit
<1>1. PaidInv => OneDebit
  BY OnceEach DEF PaidInv
<1> QED
  BY <1>1, PaidStart, PaidStep, PTL DEF Spec

-----------------------------------------------------------------------------
(* No document is lost silently. *)

\* What becomes of document i: summary p covers it, or a fallback was due and not allowed.
Summary == [docs : SUBSET Nat, fallback : BOOLEAN]
Docs(j) == Len(JobOf(j).bodies)
Covered(j, i, p) == i \in Bodies(j) => i \in p.docs \/ (p.fallback /\ ~JobOf(j).fallback)

\* A compressor: one summary for each document so far, and the merge keeps them all.
SummedUp(j, b) ==
    /\ b.st # "done" =>
         /\ b.got \in Seq(Summary)
         /\ Len(b.got) = IF b.n <= Docs(j) THEN b.n - 1 ELSE Docs(j)
         /\ \A i \in 1..Len(b.got) : Covered(j, i, b.got[i])
         /\ Docs(j) # 1 /\ b.n > Docs(j) + 1 => \A i \in 1..Len(b.got) : b.got[i].docs \subseteq b.out.docs
    /\ b.st = "done" =>
         LET missing == Bodies(j) \ b.out.docs
         IN  missing = {} \/ (b.out.fallback /\ ~JobOf(j).fallback)

SumInv == \A j \in Jobs : Steps(j)[1] = "map" => SummedUp(j, job[j])

\* The steps of a compressor.
LEMMA SumSteps ==
  ASSUME PaidInv, NEW j \in Jobs, Steps(j)[1] = "map"
  PROVE  /\ Docs(j) \in Nat \ {0} /\ Bodies(j) \subseteq 1..Docs(j)
         /\ Len(Steps(j)) = Docs(j) + (IF Docs(j) = 1 THEN 0 ELSE 1)
         /\ \A i \in 1..Len(Steps(j)) : Steps(j)[i] = (IF i <= Docs(j) THEN "map" ELSE "reduce")
<1>1. script \in Scripts
  BY DEF PaidInv, JobInv
<1>2. JobOf(j).bodies \in Seq(BOOLEAN)
  BY <1>1, JobsAssumption DEF JobOf
<1>3. /\ Len(Steps(j)) = Docs(j) + (IF Docs(j) = 1 THEN 0 ELSE 1)
      /\ \A i \in 1..Len(Steps(j)) : Steps(j)[i] = (IF i <= Docs(j) THEN "map" ELSE "reduce")
  BY <1>1, JobsAssumption DEF JobOf, Steps, Docs
<1>4. Docs(j) \in Nat /\ Bodies(j) \subseteq 1..Docs(j)
  BY <1>2 DEF Docs, Bodies
<1>5. Docs(j) # 0
  BY <1>3, <1>4
<1> QED
  BY <1>3, <1>4, <1>5

\* The summary of a document covers it, or says a fallback would have.
LEMMA MapCovers ==
  ASSUME NEW j, NEW n \in Nat, NEW content
  PROVE  MapOne(j, n, content) \in Summary /\ Covered(j, n, MapOne(j, n, content))
BY DEF MapOne, Partial, Summary, Covered

\* The fields of a partial summary.
LEMMA PartialFields == \A x, y : Partial(x, y).docs = x /\ Partial(x, y).fallback = y
BY DEF Partial

\* A merge keeps what the summaries cover.
LEMMA ReduceCovers ==
  ASSUME NEW got \in Seq(Summary), NEW content
  PROVE  \A i \in 1..Len(got) : got[i].docs \subseteq ReduceOf(got, content).docs
<1> DEFINE usable == Usable(got)
<1>1. DOMAIN got = 1..Len(got) /\ IsFiniteSet(1..Len(got)) /\ usable \subseteq 1..Len(got)
  <2>1. DOMAIN got = 1..Len(got) /\ Len(got) \in Nat
    OBVIOUS
  <2>2. IsFiniteSet(1..Len(got))
    BY <2>1, FS_Interval
  <2> QED
    BY <2>1, <2>2 DEF Usable
<1>2. IsFiniteSet(usable)
  BY <1>1, FS_Subset
<1>3. SUFFICES ASSUME NEW i \in usable PROVE got[i].docs \subseteq ReduceOf(got, content).docs
  BY <1>1 DEF Usable
<1>4. CASE Cardinality(usable) = 1
  <2>1. PICK x : usable = {x}
    BY <1>2, <1>4, FS_Singleton
  <2>2. ReduceOf(got, content) = got[CHOOSE k \in usable : TRUE]
    BY <1>3, <1>4 DEF ReduceOf
  <2>3. (CHOOSE k \in usable : TRUE) \in usable
    BY <1>3
  <2> QED
    BY <1>3, <2>1, <2>2, <2>3
<1>5. CASE Cardinality(usable) # 1
  <2>1. ReduceOf(got, content) = Partial(UNION {got[k].docs : k \in usable}, content = "")
    BY <1>3, <1>5 DEF ReduceOf
  <2> QED
    <3> DEFINE all == UNION {got[k].docs : k \in usable}
    <3> HIDE DEF all
    <3>0. \E f : ReduceOf(got, content) = Partial(all, f)
      BY <2>1, Zenon DEF all
    <3>1. ReduceOf(got, content).docs = all
      BY <3>0, PartialFields
    <3>2. got[i].docs \in {got[k].docs : k \in usable}
      OBVIOUS
    <3> QED
      BY <3>1, <3>2 DEF all
<1> QED
  BY <1>4, <1>5

\* One more document.
LEMMA SumAppends ==
  ASSUME PaidInv, NEW j \in Jobs, Steps(j)[1] = "map", SummedUp(j, job[j]), job[j].st # "done", job[j].n <= Docs(j),
         NEW content, NEW d, d.st # "done", d.n = job[j].n + 1, d.got = Append(job[j].got, MapOne(j, job[j].n, content))
  PROVE  SummedUp(j, d)
<1> DEFINE b == job[j]
           n == job[j].n
           p == MapOne(j, n, content)
<1>1. n \in Nat \ {0} /\ Docs(j) \in Nat \ {0}
  BY SumSteps, StepLength
<1>2. p \in Summary /\ Covered(j, n, p)
  BY <1>1, MapCovers
<1>3. b.got \in Seq(Summary) /\ Len(b.got) = n - 1 /\ \A i \in 1..Len(b.got) : Covered(j, i, b.got[i])
  BY DEF SummedUp
<1> HIDE DEF p
<1>4. /\ d.got \in Seq(Summary) /\ Len(d.got) = n /\ d.got[n] = p
      /\ \A i \in 1..n - 1 : d.got[i] = b.got[i]
  BY <1>1, <1>2, <1>3 DEF p
<1>5. \A i \in 1..Len(d.got) : Covered(j, i, d.got[i])
  BY <1>1, <1>2, <1>3, <1>4
<1>6. Len(d.got) = (IF d.n <= Docs(j) THEN d.n - 1 ELSE Docs(j)) /\ ~(d.n > Docs(j) + 1)
  BY <1>1, <1>4
<1> QED
  BY <1>4, <1>5, <1>6 DEF SummedUp

\* The merge.
LEMMA SumMerges ==
  ASSUME PaidInv, NEW j \in Jobs, Steps(j)[1] = "map", SummedUp(j, job[j]), job[j].st # "done", job[j].n > Docs(j),
         NEW content, NEW d, d.st # "done", d.n = job[j].n + 1, d.got = job[j].got, d.out = ReduceOf(job[j].got, content)
  PROVE  SummedUp(j, d)
<1>1. job[j].n \in Nat \ {0} /\ Docs(j) \in Nat \ {0}
  BY SumSteps, StepLength
<1>2. /\ d.got \in Seq(Summary) /\ Len(d.got) = Docs(j) /\ ~(d.n <= Docs(j))
      /\ \A i \in 1..Len(d.got) : Covered(j, i, d.got[i])
  BY <1>1 DEF SummedUp
<1>3. \A i \in 1..Len(d.got) : d.got[i].docs \subseteq d.out.docs
  BY <1>2, ReduceCovers
<1> QED
  BY <1>2, <1>3 DEF SummedUp

\* The result.
LEMMA SumConcludes ==
  ASSUME PaidInv, NEW j \in Jobs, Steps(j)[1] = "map", SummedUp(j, job[j]), job[j].st = "ready",
         job[j].n > Len(Steps(j)), NEW d, d.st = "done",
         d.out = Summarized(job[j].got, IF Len(job[j].got) = 1 THEN job[j].got[1] ELSE job[j].out)
  PROVE  SummedUp(j, d)
<1> DEFINE got == job[j].got
           merged == IF Len(got) = 1 THEN got[1] ELSE job[j].out
<1>1. job[j].n \in Nat \ {0} /\ Docs(j) \in Nat \ {0} /\ Bodies(j) \subseteq 1..Docs(j)
      /\ Len(Steps(j)) = Docs(j) + (IF Docs(j) = 1 THEN 0 ELSE 1)
  BY SumSteps, StepLength
<1>2. /\ got \in Seq(Summary) /\ Len(got) = Docs(j) /\ DOMAIN got = 1..Docs(j)
      /\ \A i \in 1..Docs(j) : Covered(j, i, got[i])
      /\ Docs(j) # 1 => \A i \in 1..Docs(j) : got[i].docs \subseteq job[j].out.docs
  BY <1>1 DEF SummedUp
<1>3. \A i \in 1..Docs(j) : got[i].docs \subseteq merged.docs
  BY <1>1, <1>2
<1> HIDE DEF merged
<1>4. d.out.docs = merged.docs /\ ((\E i \in DOMAIN got : got[i].fallback) => d.out.fallback)
  <2>1. d.out = [docs |-> merged.docs, fallback |-> merged.fallback \/ \E i \in DOMAIN got : got[i].fallback]
    BY DEF Summarized, merged
  <2>2. d.out.docs = merged.docs /\ d.out.fallback = (merged.fallback \/ \E i \in DOMAIN got : got[i].fallback)
    BY <2>1, PartialFields DEF Partial
  <2> QED
    BY <2>2
<1>5. ASSUME NEW i \in Bodies(j), i \notin d.out.docs PROVE d.out.fallback /\ ~JobOf(j).fallback
  BY <1>1, <1>2, <1>3, <1>4, <1>5 DEF Covered
<1> QED
  BY <1>5 DEF SummedUp

\* What a step makes of its answer, or of none.
LEMMA SumTook ==
  ASSUME PaidInv, NEW j \in Jobs, Steps(j)[1] = "map", SummedUp(j, job[j]), job[j].st = "wait", NEW content, NEW t
  PROVE  SummedUp(j, Took(j, content, t))
<1>1. /\ JobRecord(job[j]) /\ job[j].n \in 1..Len(Steps(j)) /\ Docs(j) \in Nat
      /\ Step(j) = (IF job[j].n <= Docs(j) THEN "map" ELSE "reduce")
  <2>1. job[j].n \in 1..Len(Steps(j))
    BY StepLength DEF PaidInv, JobInv
  <2> QED
    BY <2>1, StepLength, SumSteps DEF Step
<1> DEFINE k == job[j].n + 1
           s == [job[j] EXCEPT !.st = "ready", !.n = k]
<1>2. CASE job[j].n <= Docs(j)
  <2> DEFINE got == Append(job[j].got, MapOne(j, job[j].n, content))
             d == [s EXCEPT !.got = got]
  <2>1. Took(j, content, t) = d
    BY <1>1, <1>2 DEF Took
  <2> HIDE DEF got
  <2>2. d.st = "ready" /\ d.n = job[j].n + 1 /\ d.got = got
    BY <1>1 DEF JobRecord
  <2> HIDE DEF d
  <2> QED
    BY <1>2, <2>1, <2>2, SumAppends DEF got
<1>3. CASE ~(job[j].n <= Docs(j))
  <2> DEFINE out == ReduceOf(job[j].got, content)
             d == [s EXCEPT !.out = out]
  <2>1. Took(j, content, t) = d
    BY <1>1, <1>3 DEF Took
  <2> HIDE DEF out
  <2>2. d.st = "ready" /\ d.n = job[j].n + 1 /\ d.got = job[j].got /\ d.out = out
    BY <1>1 DEF JobRecord
  <2>3. job[j].n > Docs(j)
    BY <1>1, <1>3
  <2> HIDE DEF d
  <2> QED
    BY <2>1, <2>2, <2>3, SumMerges DEF out
<1> QED
  BY <1>2, <1>3

\* The steps of a compressor keep every document accounted for.
LEMMA SumKeeps ==
  ASSUME PaidInv, NEW j \in Jobs, Steps(j)[1] = "map", SummedUp(j, job[j]),
         \/ Answered(j)
         \/ Vote(j) \/ Score(j) \/ MapStep(j) \/ ReduceStep(j) \/ Ask(j) \/ Micro(j) \/ Full(j)
         \/ NewAgent(j) \/ Generate(j) \/ StartAgent(j) \/ JobTimeout(j) \/ Conclude(j)
  PROVE  SummedUp(j, job'[j])
<1>1. /\ JobRecord(job[j]) /\ job = [k \in Jobs |-> job[k]] /\ job[j].n \in Nat \ {0}
      /\ Docs(j) \in Nat \ {0} /\ Bodies(j) \subseteq 1..Docs(j)
      /\ Len(Steps(j)) \in Nat
  BY StepLength, SumSteps DEF PaidInv, JobInv
<1>2. \A step : Ready(j, step) =>
        /\ job[j].st = "ready" /\ step = (IF job[j].n <= Docs(j) THEN "map" ELSE "reduce")
        /\ job[j].n \in 1..Len(Steps(j))
  <2>1. job[j].n <= Len(Steps(j)) => job[j].n \in 1..Len(Steps(j))
    BY <1>1
  <2> QED
    BY <2>1, SumSteps DEF Ready, Step
<1>3. MapStep(j) \/ ReduceStep(j) \/ Answered(j) \/ JobTimeout(j) \/ Conclude(j)
  <2>1. /\ ~Ready(j, "vote") /\ ~Ready(j, "score") /\ ~Ready(j, "ask") /\ ~Ready(j, "micro")
        /\ ~Ready(j, "full") /\ ~Ready(j, "classify") /\ ~Ready(j, "generate") /\ ~Ready(j, "start")
    BY <1>2
  <2> QED
    BY <2>1 DEF Vote, Score, Ask, Micro, Full, NewAgent, Generate, StartAgent
<1> DEFINE k == job[j].n + 1
           b == [job[j] EXCEPT !.n = k]
           w == [job[j] EXCEPT !.st = "wait"]
<1>4. SummedUp(j, w) \/ job[j].st = "done"
  <2>1. w.st = "wait" /\ w.n = job[j].n /\ w.got = job[j].got /\ w.out = job[j].out
    BY <1>1 DEF JobRecord
  <2> HIDE DEF w
  <2> QED
    BY <2>1 DEF SummedUp
<1>5. CASE Answered(j) \/ JobTimeout(j)
  <2>1. job[j].st = "wait" /\ \E content, t : job' = [job EXCEPT ![j] = Took(j, content, t)]
    <3>1. CASE JobTimeout(j)
      BY <3>1 DEF JobTimeout
    <3>2. CASE Answered(j)
      <4> DEFINE t == turn[j][job[j].n]
                 content == IF t.stop = "complete" THEN t.content ELSE ""
      <4>1. job[j].st = "wait" /\ job' = [job EXCEPT ![j] = Took(j, content, t)]
        BY <3>2 DEF Answered
      <4> QED
        BY <4>1
    <3> QED
      BY <1>5, <3>1, <3>2
  <2>2. \E content, t : job'[j] = Took(j, content, t)
    BY <1>1, <2>1
  <2> QED
    BY <2>1, <2>2, SumTook
<1>6. CASE MapStep(j)
  <2>1. job[j].st = "ready" /\ job[j].n <= Docs(j)
    BY <1>1, <1>2, <1>6 DEF MapStep
  <2>2. CASE job' = [job EXCEPT ![j].st = "done", ![j].out = Partial(Bodies(j), FALSE), ![j].told = CompressedEvent]
    <3> DEFINE out == Partial(Bodies(j), FALSE)
               d == [job[j] EXCEPT !.st = "done", !.out = out, !.told = CompressedEvent]
    <3>1. job' = [job EXCEPT ![j] = d]
      BY <1>1, <2>2, ThreeFields
    <3> HIDE DEF out
    <3>2. d.st = "done" /\ d.out = out /\ job'[j] = d
      BY <1>1, <3>1 DEF JobRecord
    <3> HIDE DEF d
    <3>3. out.docs = Bodies(j)
      BY PartialFields DEF out
    <3> QED
      BY <3>2, <3>3 DEF SummedUp
  <2>3. CASE job' = [job EXCEPT ![j].n = @ + 1, ![j].got = Append(@, MapOne(j, job[j].n, ""))]
    <3> DEFINE got == Append(job[j].got, MapOne(j, job[j].n, ""))
               d == [b EXCEPT !.got = got]
    <3> HIDE DEF got
    <3>1. job' = [job EXCEPT ![j] = d]
      BY <1>1, <2>3 DEF got
    <3>2. job'[j] = d /\ d.st = "ready" /\ d.n = job[j].n + 1 /\ d.got = got
      BY <1>1, <2>1, <3>1 DEF JobRecord
    <3> HIDE DEF d
    <3> QED
      BY <2>1, <3>2, SumAppends DEF got
  <2>4. CASE job' = [job EXCEPT ![j].st = "wait"]
    <3>1. job'[j] = w
      BY <1>1, <2>4
    <3> HIDE DEF w
    <3> QED
      BY <1>4, <2>1, <3>1
  <2> QED
    BY <1>6, <2>2, <2>3, <2>4 DEF MapStep
<1>7. CASE ReduceStep(j)
  <2>1. job[j].st = "ready" /\ job[j].n > Docs(j)
    BY <1>1, <1>2, <1>7 DEF ReduceStep
  <2>2. CASE job' = [job EXCEPT ![j].n = @ + 1, ![j].out = ReduceOf(job[j].got, "")]
    <3> DEFINE out == ReduceOf(job[j].got, "")
               d == [b EXCEPT !.out = out]
    <3> HIDE DEF out
    <3>1. job' = [job EXCEPT ![j] = d]
      BY <1>1, <2>2 DEF out
    <3>2. job'[j] = d /\ d.st = "ready" /\ d.n = job[j].n + 1 /\ d.got = job[j].got /\ d.out = out
      BY <1>1, <2>1, <3>1 DEF JobRecord
    <3> HIDE DEF d
    <3> QED
      BY <2>1, <3>2, SumMerges DEF out
  <2>3. CASE job' = [job EXCEPT ![j].st = "wait"]
    <3>1. job'[j] = w
      BY <1>1, <2>3
    <3> HIDE DEF w
    <3> QED
      BY <1>4, <2>1, <3>1
  <2> QED
    BY <1>7, <2>2, <2>3 DEF ReduceStep
<1>8. CASE Conclude(j)
  <2> DEFINE out == Summarized(job[j].got, IF Len(job[j].got) = 1 THEN job[j].got[1] ELSE job[j].out)
             d == [job[j] EXCEPT !.st = "done", !.out = out, !.told = CompressedEvent]
  <2>1. job[j].st = "ready" /\ job[j].n > Len(Steps(j))
    BY <1>8 DEF Conclude
  <2>2. job' = [job EXCEPT ![j].st = "done", ![j].out = out, ![j].told = CompressedEvent]
    BY <1>8 DEF Conclude
  <2> HIDE DEF out
  <2>3. job' = [job EXCEPT ![j] = d]
    BY <1>1, <2>2, ThreeFields
  <2>4. job'[j] = d /\ d.st = "done" /\ d.out = out
    BY <1>1, <2>3 DEF JobRecord
  <2> HIDE DEF d
  <2> QED
    BY <2>1, <2>4, SumConcludes DEF out
<1> QED
  BY <1>3, <1>5, <1>6, <1>7, <1>8

\* At first nothing is summarized.
LEMMA SumStart == Init => SumInv
<1> SUFFICES ASSUME Init, NEW j \in Jobs, Steps(j)[1] = "map" PROVE SummedUp(j, job[j])
  BY DEF SumInv
<1>1. PaidInv
  BY PaidStart
<1>2. Docs(j) \in Nat \ {0}
  BY <1>1, SumSteps
<1>3. job[j].st = "ready" /\ job[j].n = 1 /\ job[j].got = <<>>
  BY DEF Init
<1> QED
  BY <1>2, <1>3 DEF SummedUp

\* Every step of the system keeps every document accounted for.
LEMMA SumStep == PaidInv /\ SumInv /\ [Next]_vars => SumInv'
<1> SUFFICES ASSUME PaidInv, SumInv, [Next]_vars, NEW k \in Jobs, (Steps(k)[1] = "map")' PROVE SummedUp(k, job[k])'
  BY DEF SumInv
<1>1. script' = script
  <2>1. CASE JobStep
    BY <2>1, ZenonT(40) DEF JobStep, Answered, Vote, Score, MapStep, ReduceStep, Ask, Micro, Full, NewAgent, Generate, StartAgent,
               JobTimeout, Conclude, Request, turnVars
  <2>2. CASE ServiceStep \/ DriverStep
    BY <2>2, ServiceKeeps, DriverKeeps DEF PaidInv
  <2> QED
    BY <2>1, <2>2 DEF Next, vars
<1>2. Steps(k)[1] = "map" /\ SummedUp(k, job[k])
  BY <1>1 DEF SumInv, Steps, JobOf
<1>3. SummedUp(k, job'[k])
  <2>1. CASE UNCHANGED job
    BY <1>2, <2>1
  <2>2. CASE JobStep
    <3>1. PICK j \in Jobs :
            \/ Answered(j)
            \/ Vote(j) \/ Score(j) \/ MapStep(j) \/ ReduceStep(j) \/ Ask(j) \/ Micro(j) \/ Full(j)
            \/ NewAgent(j) \/ Generate(j) \/ StartAgent(j) \/ JobTimeout(j) \/ Conclude(j)
      BY <2>2 DEF JobStep
    <3>2. CASE k = j
      BY <1>2, <3>1, <3>2, SumKeeps
    <3>3. CASE k # j
      <4>1. job'[k] = job[k]
        BY <3>1, <3>3 DEF PaidInv, JobInv, Answered, Vote, Score, MapStep, ReduceStep, Ask, Micro, Full, NewAgent,
                          Generate, StartAgent, JobTimeout, Conclude
      <4> QED
        BY <1>2, <4>1
    <3> QED
      BY <3>2, <3>3
  <2> QED
    BY <2>1, <2>2 DEF Next, vars
<1> QED
  BY <1>1, <1>3 DEF SummedUp, Docs, Covered, Bodies, JobOf

\* A document missing from a result is empty, or the result says a fallback was used.
THEOREM NothingLostSilently == Spec => []NoSilentLoss
<1>1. SumInv => NoSilentLoss
  BY DEF SumInv, SummedUp, NoSilentLoss
<1>2. Init => PaidInv /\ SumInv
  BY PaidStart, SumStart
<1>3. PaidInv /\ SumInv /\ [Next]_vars => (PaidInv /\ SumInv)'
  BY PaidStep, SumStep
<1> QED
  BY <1>1, <1>2, <1>3, PTL DEF Spec

-----------------------------------------------------------------------------
(* The verdict: first the count as such, then the votes as what the replies meant. *)

Winners == {"a", "b", "tie"}
Counted == [n : Nat, vote : Winners]

\* The least of some numbers is one of them.
LEMMA MinIn ==
  ASSUME NEW S, S \subseteq Nat, S # {}
  PROVE  Min(S) \in S
<1>1. PICK x \in S : \A y \in S : ~(<<y, x>> \in OpToRel(<, Nat))
  BY NatLessThanWellFounded, WFMin
<1>2. \A y \in S : ~(y < x)
  BY <1>1 DEF OpToRel
<1>3. \A y \in S : x =< y
  BY <1>2
<1> QED
  BY <1>3 DEF Min

\* The votes for a winner are a number, 0 if nobody named it.
LEMMA VotesNumber ==
  ASSUME NEW got \in Seq(Counted), NEW w
  PROVE  /\ IsFiniteSet({i \in DOMAIN got : got[i].vote = w}) /\ Votes(got, w) \in Nat
         /\ Votes(got, w) = 0 <=> \A i \in DOMAIN got : got[i].vote # w
<1> DEFINE S == {i \in DOMAIN got : got[i].vote = w}
<1>1. IsFiniteSet(S)
  <2>1. DOMAIN got = 1..Len(got) /\ Len(got) \in Nat
    OBVIOUS
  <2>2. IsFiniteSet(1..Len(got))
    BY <2>1, FS_Interval
  <2> QED
    BY <2>1, <2>2, FS_Subset
<1>2. Cardinality(S) \in Nat /\ (Cardinality(S) = 0 <=> S = {})
  BY <1>1, FS_CardinalityType, FS_EmptySet
<1> QED
  BY <1>1, <1>2 DEF Votes

\* The most frequent winner is one that was named, and nobody has more votes.
LEMMA MostVotes ==
  ASSUME NEW got \in Seq(Counted), got # <<>>
  PROVE  /\ \E i \in DOMAIN got : got[i].vote = MostCommon(got)
         /\ \A k \in DOMAIN got : Votes(got, got[k].vote) <= Votes(got, MostCommon(got))
<1> DEFINE top == {i \in DOMAIN got : \A k \in DOMAIN got : Votes(got, got[k].vote) <= Votes(got, got[i].vote)}
<1>1. DOMAIN got \subseteq Nat /\ 1 \in DOMAIN got /\ \A i \in DOMAIN got : got[i].vote \in Winners
  <2>1. \A i \in DOMAIN got : got[i] \in Counted
    OBVIOUS
  <2>2. DOMAIN got \subseteq Nat /\ 1 \in DOMAIN got
    OBVIOUS
  <2> QED
    BY <2>1, <2>2 DEF Counted
<1>2. \A w \in Winners : Votes(got, w) \in Nat
  BY VotesNumber
<1>3. PICK w \in Winners : \A v \in Winners : Votes(got, v) <= Votes(got, w)
  BY <1>2 DEF Winners
<1>4. \E i \in DOMAIN got : got[i].vote = w
  <2>1. Votes(got, got[1].vote) # 0
    BY <1>1, VotesNumber
  <2>2. Votes(got, w) # 0
    BY <1>1, <1>2, <1>3, <2>1
  <2> QED
    BY <2>2, VotesNumber
<1>5. top # {}
  BY <1>1, <1>3, <1>4
<1>6. Min(top) \in top
  BY <1>1, <1>5, MinIn
<1> QED
  BY <1>6 DEF MostCommon

\* compare names a candidate exactly if it has more votes than anything else.
LEMMA CompareCounts ==
  ASSUME NEW got \in Seq(Counted), got # <<>>, NEW w \in {"a", "b"}
  PROVE  AggregateCompare(got).winner = w <=> \A v \in Winners \ {w} : Votes(got, w) > Votes(got, v)
<1> DEFINE top == MostCommon(got)
           drawn == \E i \in DOMAIN got : got[i].vote # top /\ Votes(got, got[i].vote) = Votes(got, top)
<1>1. /\ \E i \in DOMAIN got : got[i].vote = top
      /\ \A k \in DOMAIN got : Votes(got, got[k].vote) <= Votes(got, top)
      /\ \A i \in DOMAIN got : got[i].vote \in Winners
  <2>1. \A i \in DOMAIN got : got[i] \in Counted
    OBVIOUS
  <2> QED
    BY <2>1, MostVotes DEF Counted
<1>2. \A v \in Winners : Votes(got, v) \in Nat /\ (Votes(got, v) = 0 <=> \A i \in DOMAIN got : got[i].vote # v)
  BY VotesNumber
<1>3. AggregateCompare(got).winner = IF drawn /\ top # "tie" THEN "tie" ELSE top
  BY DEF AggregateCompare
<1> HIDE DEF top
<1>4. top \in Winners /\ Votes(got, top) > 0
  BY <1>1, <1>2
<1>5. ASSUME \A v \in Winners \ {w} : Votes(got, w) > Votes(got, v) PROVE AggregateCompare(got).winner = w
  <2>1. \E i \in DOMAIN got : got[i].vote = w
    <3>1. \E v \in Winners : v # w /\ Votes(got, v) \in Nat /\ Votes(got, w) > Votes(got, v)
      BY <1>2, <1>5 DEF Winners
    <3> QED
      BY <1>2, <3>1 DEF Winners
  <2>2. top = w
    BY <1>1, <1>2, <1>4, <1>5, <2>1 DEF Winners
  <2>3. ~drawn
    BY <1>1, <1>2, <1>5, <2>2
  <2> QED
    BY <1>3, <2>2, <2>3
<1>6. ASSUME AggregateCompare(got).winner = w, NEW v \in Winners, v # w PROVE Votes(got, w) > Votes(got, v)
  <2>1. top = w /\ ~drawn
    BY <1>3, <1>6
  <2>2. CASE \E i \in DOMAIN got : got[i].vote = v
    BY <1>1, <1>2, <1>4, <1>6, <2>1, <2>2
  <2>3. CASE \A i \in DOMAIN got : got[i].vote # v
    BY <1>2, <1>4, <2>1, <2>3
  <2> QED
    BY <2>2, <2>3
<1> QED
  BY <1>5, <1>6

-----------------------------------------------------------------------------
\* A judge; what its current turn shows, and the candidate a label of the reply stands for.
Voting(j) == Steps(j)[1] = "vote"
Shown(j) == IF job[j].flip THEN "ba" ELSE "ab"
As(j, w) == IF job[j].flip THEN Relabel(w) ELSE w

\* A paid reply to turn n meant w.
Backed(j, n, w) == \E e \in ledger : Of(e, j, n) /\ Meant(e) = w
Waits(j, n) == job[j].st = "wait" /\ job[j].n = n

\* A turn of a judge: one iteration; what it shows is what the job says.
VoteTurn(j, n) ==
    LET t == turn[j][n] IN
    /\ t.st # "none" => n <= Len(Steps(j))
    /\ t.st # "tools" /\ (t.st \in {"call", "sleep"} => t.it = 1)
    /\ \A c \in calls : Of(c, j, n) => c.it = 1
    /\ \A e \in ledger : Of(e, j, n) => e.it = 1
    /\ Waits(j, n) =>
         /\ t.st \in {"call", "sleep"} => t.msgs = <<User(Shown(j))>>
         /\ \A c \in calls : Of(c, j, n) => Last(c.msgs).text = Shown(j)
         /\ t.st = "done" /\ t.stop = "complete" /\ ParseCompareVote(t.content) # <<>> =>
                Backed(j, n, As(j, ParseCompareVote(t.content)[1]))

\* The votes of a judge: each is what one paid reply meant, each of another turn.
VotesKept(j) ==
    LET b == job[j] IN
    /\ b.flip \in BOOLEAN /\ b.got \in Seq(Counted)
    /\ \A i \in DOMAIN b.got : b.got[i].n < b.n /\ b.got[i].n \in 1..MaxSteps /\ Backed(j, b.got[i].n, b.got[i].vote)
    /\ \A i, k \in DOMAIN b.got : b.got[i].n = b.got[k].n => i = k
    /\ b.st = "done" /\ b.got # <<>> => b.out = AggregateCompare(b.got)

VoteInv == \A j \in Jobs : Voting(j) => VotesKept(j) /\ \A n \in 1..MaxSteps : VoteTurn(j, n)

\* The counted replies and the votes are in one-to-one correspondence.
LEMMA OneEach ==
  ASSUME PaidInv, VoteInv, NEW j \in Jobs, Voting(j), NEW w
  PROVE  LET counted == {e \in ledger : e.job = j /\ \E i \in DOMAIN job[j].got : job[j].got[i].n = e.n}
         IN  Cardinality({e \in counted : Meant(e) = w}) = Votes(job[j].got, w)
<1> DEFINE got == job[j].got
           S == {i \in DOMAIN got : got[i].vote = w}
           T == {e \in {e \in ledger : e.job = j /\ \E i \in DOMAIN got : got[i].n = e.n} : Meant(e) = w}
           f == [i \in S |-> CHOOSE e \in ledger : Of(e, j, got[i].n) /\ Meant(e) = got[i].vote]
<1>1. VotesKept(j) /\ \A n \in 1..MaxSteps : VoteTurn(j, n)
  BY DEF VoteInv
<1>2. /\ \A i \in DOMAIN got : got[i].n \in 1..MaxSteps /\ Backed(j, got[i].n, got[i].vote)
      /\ \A i, k \in DOMAIN got : got[i].n = got[k].n => i = k
      /\ got \in Seq(Counted)
  BY <1>1 DEF VotesKept
<1>3. ASSUME NEW n \in 1..MaxSteps, NEW d \in ledger, NEW e \in ledger, Of(d, j, n), Of(e, j, n) PROVE d = e
  <2>1. d.it = 1 /\ e.it = 1
    BY <1>1, <1>3 DEF VoteTurn
  <2>2. Paid(j, n)
    BY DEF PaidInv, TurnInv
  <2> QED
    BY <1>3, <2>1, <2>2 DEF Paid
<1>4. \A i \in S : f[i] \in ledger /\ Of(f[i], j, got[i].n) /\ Meant(f[i]) = got[i].vote
  BY <1>2 DEF Backed
<1> HIDE DEF f
<1>5. \A i \in S : f[i] \in T
  BY <1>4 DEF Of
<1>6. \A i, k \in S : f[i] = f[k] => i = k
  BY <1>2, <1>4 DEF Of
<1>7. \A e \in T : \E i \in S : f[i] = e
  <2> TAKE e \in T
  <2>1. PICK i \in DOMAIN got : got[i].n = e.n
    OBVIOUS
  <2>2. e \in ledger /\ Of(e, j, got[i].n) /\ Meant(e) = w
    BY <2>1 DEF Of
  <2>3. PICK d \in ledger : Of(d, j, got[i].n) /\ Meant(d) = got[i].vote
    BY <1>2 DEF Backed
  <2>4. d = e
    BY <1>2, <1>3, <2>2, <2>3
  <2>5. i \in S
    BY <2>2, <2>3, <2>4
  <2> QED
    BY <1>2, <1>3, <1>4, <2>2, <2>5
<1>8. f \in [S -> T]
  <2> HIDE DEF S, T
  <2>1. DOMAIN f = S /\ f = [i \in S |-> f[i]]
    BY DEF f
  <2> QED
    BY <1>5, <2>1
<1> HIDE DEF S, T
<1>9. f \in Bijection(S, T)
  BY <1>6, <1>7, <1>8 DEF Bijection, Injection, Surjection, IsInjective
<1>10. IsFiniteSet(S) /\ Votes(got, w) = Cardinality(S)
  BY <1>2, VotesNumber DEF S, Votes
<1>11. Cardinality(T) = Cardinality(S)
  BY <1>9, <1>10, FS_Bijection DEF ExistsBijection
<1> QED
  BY <1>10, <1>11 DEF T

\* The correspondence makes the verdict the majority of what was meant.
LEMMA VotesDecide == PaidInv /\ VoteInv => VerdictIsMajority
<1> SUFFICES ASSUME PaidInv, VoteInv, NEW j \in Jobs, job[j].st = "done", Voting(j), job[j].got # <<>>,
                    NEW w \in {"a", "b"}
             PROVE  LET counted == {e \in ledger : e.job = j /\ \E i \in DOMAIN job[j].got : job[j].got[i].n = e.n}
                        meaning(v) == Cardinality({e \in counted : Meant(e) = v})
                    IN  job[j].out.winner = w <=> \A v \in Winners \ {w} : meaning(w) > meaning(v)
  BY DEF VerdictIsMajority, Voting, Winners
<1>1. job[j].out = AggregateCompare(job[j].got) /\ job[j].got \in Seq(Counted)
  BY DEF VoteInv, VotesKept
<1> DEFINE counted == {e \in ledger : e.job = j /\ \E i \in DOMAIN job[j].got : job[j].got[i].n = e.n}
           meaning(v) == Cardinality({e \in counted : Meant(e) = v})
<1>2. \A v : meaning(v) = Votes(job[j].got, v)
  BY OneEach
<1>3. job[j].out.winner = w <=> \A v \in Winners \ {w} : Votes(job[j].got, w) > Votes(job[j].got, v)
  BY <1>1, CompareCounts
<1> HIDE DEF meaning
<1>4. job[j].out.winner = w <=> \A v \in Winners \ {w} : meaning(w) > meaning(v)
  BY <1>2, <1>3
<1> QED
  BY <1>4 DEF meaning

-----------------------------------------------------------------------------
(* No step disturbs the votes. *)

\* A turn nobody touches stays as it was.
LEMMA VoteFrame ==
  ASSUME NEW j, NEW n, VoteTurn(j, n), turn'[j][n] = turn[j][n], script' = script,
         \A c \in calls' : Of(c, j, n) => c \in calls,
         \A e \in ledger' : Of(e, j, n) => e \in ledger, ledger \subseteq ledger',
         job'[j] = job[j] \/ ~Waits(j, n)'
  PROVE  VoteTurn(j, n)'
<1>1. CASE job'[j] = job[j]
  <2>1. Waits(j, n)' = Waits(j, n) /\ Shown(j)' = Shown(j) /\ \A w : As(j, w)' = As(j, w)
    BY <1>1 DEF Waits, Shown, As
  <2>2. \A w : Backed(j, n, w) => Backed(j, n, w)'
    BY DEF Backed
  <2> QED
    BY <2>1, <2>2 DEF VoteTurn, Steps, JobOf
<1>2. CASE ~Waits(j, n)'
  BY <1>2 DEF VoteTurn, Steps, JobOf
<1> QED
  BY <1>1, <1>2

\* So do the votes of a job that nobody touches.
LEMMA KeptFrame ==
  ASSUME NEW j, VotesKept(j), job'[j] = job[j], ledger \subseteq ledger'
  PROVE  VotesKept(j)'
<1>1. \A n, w : Backed(j, n, w) => Backed(j, n, w)'
  BY DEF Backed
<1> QED
  BY <1>1 DEF VotesKept

\* The last message of a request is the last of the turn's list.
LEMMA LastShown ==
  ASSUME NEW a, NEW x
  PROVE  Last(ApiMessages(a, <<User(x)>>)).text = x
<1> DEFINE s == ApiMessages(a, <<User(x)>>)
<1>1. \A m : Last(<<m>>) = m /\ \A u : Last(<<u>> \o <<>> \o <<m>>) = m /\ \A v : Last(<<u>> \o <<v>> \o <<m>>) = m
  BY DEF Last
<1>2. Last(s) = User(x)
  BY <1>1 DEF ApiMessages
<1> QED
  BY <1>2 DEF User, Message

\* What a reply says is what the turn keeps of it, or nothing.
LEMMA VoteAnswer ==
  ASSUME NEW c, Steps(c.job)[c.n] = "vote", NEW answer \in Answers(c)
  PROVE  /\ Normalize(c, answer).calls = {} /\ Normalize(c, answer).content \in {answer.text, ""}
         /\ answer.text \in {"first", "second", "tie", "prose"}
<1>1. Texts(c) = {"first", "second", "tie", "prose"}
  BY DEF Texts
<1>2. answer.calls = {} /\ answer.text \in Texts(c)
  <2>1. (IF Steps(c.job)[c.n] = "ask" THEN {{}, {1}, {1, 2}} ELSE {{}}) = {{}}
    OBVIOUS
  <2> QED
    BY <2>1 DEF Answers
<1> QED
  BY <1>1, <1>2 DEF Normalize, NormalizeOpenai, ParseAnthropic, StripThinking

\* The winner the reply names, relabelled, is the candidate it meant.
LEMMA VoteMeans ==
  \A j, e, content :
     /\ job[j].flip \in BOOLEAN /\ e.shown = Shown(j) /\ e.said \in {"first", "second", "tie", "prose"}
     /\ content = e.said \/ content = ""
     /\ ParseCompareVote(content) # <<>>
     => Meant(e) = As(j, ParseCompareVote(content)[1])
<1> TAKE j, e, content
<1> HAVE /\ job[j].flip \in BOOLEAN /\ e.shown = Shown(j) /\ e.said \in {"first", "second", "tie", "prose"}
         /\ content = e.said \/ content = ""
         /\ ParseCompareVote(content) # <<>>
<1>1. content \in {"first", "second", "tie"} /\ content = e.said
  BY DEF ParseCompareVote
<1>2. CASE content = "tie"
  BY <1>1, <1>2 DEF ParseCompareVote, Meant, As, Relabel
<1>3. CASE content = "first"
  BY <1>1, <1>3 DEF ParseCompareVote, Meant, As, Relabel, Shown
<1>4. CASE content = "second"
  BY <1>1, <1>4 DEF ParseCompareVote, Meant, As, Relabel, Shown
<1> QED
  BY <1>1, <1>2, <1>3, <1>4

\* A step of one turn, and of its job at most.
LEMMA VoteOne ==
  ASSUME VoteInv, script' = script, NEW j \in Jobs, NEW n \in 1..MaxSteps,
         \A k \in Jobs, m \in 1..MaxSteps : k # j \/ m # n => turn'[k][m] = turn[k][m],
         \A c \in calls' : c \in calls \/ Of(c, j, n),
         \A e \in ledger' : e \in ledger \/ Of(e, j, n), ledger \subseteq ledger',
         \A k \in Jobs : k # j => job'[k] = job[k],
         job'[j] = job[j] \/ \A m \in 1..MaxSteps : m # n => ~Waits(j, m)',
         Voting(j) => VotesKept(j)' /\ VoteTurn(j, n)'
  PROVE  VoteInv'
<1>1. \A k : Voting(k)' = Voting(k)
  BY DEF Voting, Steps, JobOf
<1>2. ASSUME NEW k \in Jobs, NEW m \in 1..MaxSteps, Voting(k), k # j \/ m # n PROVE VoteTurn(k, m)'
  <2>1. VoteTurn(k, m) /\ turn'[k][m] = turn[k][m]
    BY <1>2 DEF VoteInv
  <2>2. job'[k] = job[k] \/ ~Waits(k, m)'
    BY <1>2
  <2>3. /\ \A c \in calls' : Of(c, k, m) => c \in calls
        /\ \A e \in ledger' : Of(e, k, m) => e \in ledger
    BY <1>2 DEF Of
  <2> QED
    BY <2>1, <2>2, <2>3, VoteFrame
<1>3. ASSUME NEW k \in Jobs, Voting(k), k # j PROVE VotesKept(k)'
  BY <1>3, KeptFrame DEF VoteInv
<1> QED
  BY <1>1, <1>2, <1>3 DEF VoteInv

\* A turn that is refused, or asked again.
LEMMA VoteMoves ==
  ASSUME VoteInv, script' = script, job' = job, ledger' = ledger, NEW j \in Jobs, NEW n \in 1..MaxSteps, NEW t,
         turn[j][n].st # "none", turn'[j][n] = t,
         \A k \in Jobs, m \in 1..MaxSteps : k # j \/ m # n => turn'[k][m] = turn[k][m],
         \A c \in calls' : \/ c \in calls
                           \/ /\ Of(c, j, n) /\ c.it = t.it /\ t.st = "call"
                              /\ \A x : t.msgs = <<User(x)>> => Last(c.msgs).text = x,
         \/ t = turn[j][n]
         \/ t.st = "done" /\ t.stop = "error"
         \/ t.st \in {"call", "sleep"} /\ t.it = turn[j][n].it /\ t.msgs = turn[j][n].msgs /\ turn[j][n].st \in {"call", "sleep"}
  PROVE  VoteInv'
<1>1. /\ job'[j] = job[j] /\ ledger \subseteq ledger'
      /\ \A c \in calls' : c \in calls \/ Of(c, j, n)
      /\ \A e \in ledger' : e \in ledger
      /\ \A k \in Jobs : k # j => job'[k] = job[k]
  OBVIOUS
<1>2. ASSUME Voting(j) PROVE VotesKept(j)' /\ VoteTurn(j, n)'
  <2>1. VotesKept(j) /\ VoteTurn(j, n)
    BY <1>2 DEF VoteInv
  <2>2. VotesKept(j)'
    BY <1>1, <2>1, KeptFrame
  <2>3. Waits(j, n)' = Waits(j, n) /\ Shown(j)' = Shown(j) /\ (\A w : As(j, w)' = As(j, w)) /\ \A w : Backed(j, n, w)' = Backed(j, n, w)
    BY DEF Waits, Shown, As, Backed
  <2>4. VoteTurn(j, n)'
    BY <2>1, <2>3 DEF VoteTurn, Steps, JobOf
  <2> QED
    BY <2>2, <2>4
<1> QED
  BY <1>1, <1>2, VoteOne

\* So the provider sees last what the judge asked.
LEMMA CallShows ==
  ASSUME NEW j, NEW n, NEW t, NEW x, t.msgs = <<User(x)>>
  PROVE  Last(Call(j, n, t).msgs).text = x
BY LastShown DEF Call

\* No step of the driver disturbs a judge.
LEMMA VoteDriver ==
  ASSUME PaidInv, VoteInv, DriverStep, UNCHANGED <<job, disk>>
  PROVE  VoteInv'
<1>1. PICK j \in Jobs, n \in 1..MaxSteps : Retry(j, n) \/ CallTimeout(j, n) \/ RunTool(j, n)
  BY DEF DriverStep
<1> DEFINE t == turn[j][n]
<1>2. TurnRecord(t) /\ turn = [k \in Jobs |-> [m \in 1..MaxSteps |-> turn[k][m]]]
  BY DEF PaidInv, TurnInv, Paid
<1>3. CASE Retry(j, n)
  <2> DEFINE u == [t EXCEPT !.st = "call", !.try = @ + 1]
  <2>1. t.st = "sleep" /\ turn' = [turn EXCEPT ![j][n] = u] /\ calls' = calls \cup {Call(j, n, u)}
        /\ UNCHANGED <<script, ledger>>
    BY <1>3 DEF Retry
  <2>2. u.st = "call" /\ u.it = t.it /\ u.msgs = t.msgs
    BY <1>2 DEF TurnRecord
  <2> HIDE DEF u
  <2>3. /\ turn'[j][n] = u
        /\ \A k \in Jobs, m \in 1..MaxSteps : k # j \/ m # n => turn'[k][m] = turn[k][m]
    BY <1>2, <2>1
  <2>4. Of(Call(j, n, u), j, n) /\ Call(j, n, u).it = u.it
    BY DEF Call, Of
  <2>5. \A c \in calls' : \/ c \in calls
                          \/ /\ Of(c, j, n) /\ c.it = u.it /\ u.st = "call"
                             /\ \A x : u.msgs = <<User(x)>> => Last(c.msgs).text = x
    BY <2>1, <2>2, <2>4, CallShows
  <2>6. /\ job' = job /\ ledger' = ledger /\ script' = script /\ t.st # "none"
        /\ u.st \in {"call", "sleep"} /\ u.it = t.it /\ u.msgs = t.msgs /\ t.st \in {"call", "sleep"}
    BY <2>1, <2>2
  <2> HIDE DEF t
  <2> QED
    BY <2>3, <2>5, <2>6, VoteMoves, SMTT(30) DEF t
<1>4. CASE CallTimeout(j, n)
  <2> DEFINE u == Ended(t, "error")
  <2>1. t.st = "call" /\ turn' = [turn EXCEPT ![j][n] = u] /\ UNCHANGED <<script, calls, ledger>>
    BY <1>4 DEF CallTimeout
  <2>2. u.st = "done" /\ u.stop = "error"
    BY <1>2 DEF Ended, TurnRecord
  <2> HIDE DEF u
  <2>3. /\ turn'[j][n] = u
        /\ \A k \in Jobs, m \in 1..MaxSteps : k # j \/ m # n => turn'[k][m] = turn[k][m]
    BY <1>2, <2>1
  <2> QED
    BY <2>1, <2>2, <2>3, VoteMoves
<1>5. CASE RunTool(j, n)
  <2>1. t.st = "tools" /\ UNCHANGED <<script, ledger>>
    BY <1>5 DEF RunTool
  <2>2. ~Voting(j)
    BY <2>1 DEF VoteInv, VoteTurn
  <2> DEFINE id == Min(t.todo)
             rest == t.todo \ {id}
             next == IF t.it = JobOf(j).max THEN Ended(t, "max_iter")
                     ELSE [t EXCEPT !.st = "call", !.it = @ + 1, !.try = 0]
             s(x) == [(IF rest = {} THEN next ELSE t) EXCEPT !.todo = rest, !.msgs = Append(@, ToolMessage(id, x))]
  <2>9. PICK x : /\ turn' = [turn EXCEPT ![j][n] = s(x)]
                 /\ calls' = calls \cup (IF s(x).st = "call" THEN {Call(j, n, s(x))} ELSE {})
    BY <1>5 DEF RunTool
  <2> DEFINE u == s(x)
  <2>3. /\ turn' = [turn EXCEPT ![j][n] = u]
        /\ calls' = calls \cup (IF u.st = "call" THEN {Call(j, n, u)} ELSE {})
    BY <2>9
  <2> HIDE DEF u
  <2>4. \A k \in Jobs, m \in 1..MaxSteps : k # j \/ m # n => turn'[k][m] = turn[k][m]
    BY <1>2, <2>3
  <2>5. Of(Call(j, n, u), j, n)
    BY DEF Call, Of
  <2>6. /\ \A c \in calls' : c \in calls \/ Of(c, j, n)
        /\ \A e \in ledger' : e \in ledger
        /\ ledger \subseteq ledger' /\ job'[j] = job[j] /\ \A k \in Jobs : k # j => job'[k] = job[k]
    BY <2>1, <2>3, <2>5
  <2> QED
    BY <2>1, <2>2, <2>4, <2>6, VoteOne
<1> QED
  BY <1>1, <1>3, <1>4, <1>5

\* The service brings a judge what the provider said, once.
LEMMA VoteService ==
  ASSUME PaidInv, VoteInv, ServiceStep, UNCHANGED <<job, disk>>
  PROVE  VoteInv'
<1>1. PICK c \in calls : Refuse(c) \/ Send(c) \/ Reply(c) \/ Fail(c)
  BY DEF ServiceStep
<1> DEFINE j == c.job
           n == c.n
           t == turn[j][n]
<1>2. /\ j \in Jobs /\ n \in 1..MaxSteps /\ CallRecord(c) /\ Of(c, j, n)
      /\ turn = [k \in Jobs |-> [m \in 1..MaxSteps |-> turn[k][m]]]
  BY DEF PaidInv, TurnInv, CallRecord, Of
<1>3. TurnRecord(t) /\ t.st \in {"call", "done"} /\ (t.st = "call" => c.it = t.it) /\ (Waited(c) <=> t.st = "call")
  BY <1>2 DEF PaidInv, TurnInv, Paid, Waited
<1>4. ASSUME NEW u, Close(c, u)
      PROVE  /\ turn'[j][n] = IF t.st = "call" THEN u ELSE t
             /\ \A k \in Jobs, m \in 1..MaxSteps : k # j \/ m # n => turn'[k][m] = turn[k][m]
             /\ script' = script /\ calls' = calls \ {c}
  BY <1>2, <1>3, <1>4, ZenonT(40) DEF Close
<1>5. CASE Refuse(c) \/ Fail(c)
  <2>1. PICK kind : Close(c, OnRefusal(t, kind)) /\ ledger' = ledger
    BY <1>5 DEF Refuse, Fail
  <2> DEFINE u == OnRefusal(t, kind)
             w == IF t.st = "call" THEN u ELSE t
  <2>2. /\ (u.st = "done" /\ u.stop = "error") \/ (u.st = "sleep" /\ u.it = t.it /\ u.msgs = t.msgs)
        /\ Close(c, u)
    BY <1>3, <2>1 DEF OnRefusal, Ended, TurnRecord
  <2> HIDE DEF u
  <2>3. /\ turn'[j][n] = w /\ script' = script /\ calls' = calls \ {c}
        /\ \A k \in Jobs, m \in 1..MaxSteps : k # j \/ m # n => turn'[k][m] = turn[k][m]
    BY <1>4, <2>2
  <2>4. \/ w = t
        \/ w.st = "done" /\ w.stop = "error"
        \/ w.st \in {"call", "sleep"} /\ w.it = t.it /\ w.msgs = t.msgs /\ t.st \in {"call", "sleep"}
    BY <2>2
  <2>5. t.st # "none" /\ \A d \in calls' : d \in calls
    BY <1>3, <2>3
  <2> HIDE DEF w, t, j, n
  <2> QED
    BY <1>2, <2>1, <2>3, <2>4, <2>5, VoteMoves DEF t
<1>6. CASE Send(c)
  <2> DEFINE d == [c EXCEPT !.st = "sent"]
  <2>1. d.job = c.job /\ d.n = c.n /\ d.it = c.it /\ d.msgs = c.msgs
    BY <1>2 DEF CallRecord
  <2>2. calls' = (calls \ {c}) \cup {d} /\ UNCHANGED <<script, turn, ledger>>
    BY <1>6 DEF Send
  <2> HIDE DEF d
  <2>3. Of(d, j, n) /\ \A e \in calls' : e \in calls \/ e = d
    BY <1>2, <2>1, <2>2 DEF Of
  <2>4. ASSUME Voting(j) PROVE VotesKept(j)' /\ VoteTurn(j, n)'
    <3>1. VotesKept(j) /\ VoteTurn(j, n)
      BY <1>2, <2>4 DEF VoteInv
    <3>2. VotesKept(j)'
      BY <2>2, <3>1, KeptFrame
    <3>3. Waits(j, n)' = Waits(j, n) /\ Shown(j)' = Shown(j) /\ (\A w : As(j, w)' = As(j, w)) /\ \A w : Backed(j, n, w)' = Backed(j, n, w)
      BY <2>2 DEF Waits, Shown, As, Backed
    <3>4. VoteTurn(j, n)'
      BY <1>2, <2>1, <2>2, <2>3, <3>1, <3>3 DEF VoteTurn, Steps, JobOf
    <3> QED
      BY <3>2, <3>4
  <2>5. /\ \A e \in calls' : e \in calls \/ Of(e, j, n)
        /\ \A e \in ledger' : e \in ledger
        /\ ledger \subseteq ledger' /\ job'[j] = job[j] /\ \A k \in Jobs : k # j => job'[k] = job[k]
        /\ script' = script
        /\ \A k \in Jobs, m \in 1..MaxSteps : k # j \/ m # n => turn'[k][m] = turn[k][m]
    BY <2>2, <2>3
  <2> QED
    BY <1>2, <2>4, <2>5, VoteOne
<1>7. CASE Reply(c)
  <2>1. PICK answer \in Answers(c) :
           /\ Close(c, OnReply(c.job, t, Normalize(c, answer)))
           /\ ledger' = ledger \cup {[job |-> c.job, n |-> c.n, it |-> c.it, try |-> c.try,
                                      shown |-> Last(c.msgs).text, said |-> answer.text]}
    BY <1>7 DEF Reply
  <2> DEFINE e == [job |-> c.job, n |-> c.n, it |-> c.it, try |-> c.try, shown |-> Last(c.msgs).text, said |-> answer.text]
             reply == Normalize(c, answer)
             u == OnReply(j, t, reply)
             w == IF t.st = "call" THEN u ELSE t
  <2>2. ledger' = ledger \cup {e} /\ Of(e, j, n) /\ e.it = c.it /\ e.shown = Last(c.msgs).text /\ e.said = answer.text
    BY <2>1 DEF Of
  <2> HIDE DEF e
  <2>3. /\ turn'[j][n] = w /\ script' = script /\ calls' = calls \ {c}
        /\ \A k \in Jobs, m \in 1..MaxSteps : k # j \/ m # n => turn'[k][m] = turn[k][m]
    BY <1>4, <2>1
  <2>4. ASSUME reply.calls = {} PROVE u.st = "done" /\ u.content = reply.content
    <3> DEFINE s == [t EXCEPT !.msgs = Append(@, AssistantMessage(reply)), !.content = reply.content, !.tokens = @ + 1]
    <3>1. TurnRecord(s) /\ s.content = reply.content
      BY <1>3 DEF TurnRecord
    <3>2. u = Ended(s, "complete")
      BY <2>4 DEF OnReply
    <3> HIDE DEF s, u
    <3> QED
      BY <3>1, <3>2 DEF Ended, TurnRecord
  <2> HIDE DEF u, reply
  <2>9. \/ w = t /\ t.st = "done"
        \/ w.st = "done" /\ w.content = reply.content
        \/ reply.calls # {}
    BY <1>3, <2>4
  <2>7. t = turn[j][n] /\ c.job = j /\ c.n = n
    OBVIOUS
  <2> HIDE DEF w, t, j, n
  <2>5. ASSUME Voting(j) PROVE VotesKept(j)' /\ VoteTurn(j, n)'
    <3>1. VotesKept(j) /\ VoteTurn(j, n) /\ job[j].flip \in BOOLEAN
      BY <2>7, <1>2, <2>5 DEF VoteInv, VotesKept
    <3>2. VotesKept(j)'
      BY <2>2, <3>1, KeptFrame
    <3>3. /\ Waits(j, n)' = Waits(j, n) /\ Shown(j)' = Shown(j) /\ (\A x : As(j, x)' = As(j, x))
          /\ \A x : Backed(j, n, x) => Backed(j, n, x)'
      BY <2>2 DEF Waits, Shown, As, Backed
    <3>4. Steps(j)[n] = "vote"
      <4>1. n \in 1..Len(Steps(j))
        <5>1. n \in Nat \ {0} /\ Len(Steps(j)) \in Nat
          BY <1>2, StepLength, LlmAssumption
        <5>2. n <= Len(Steps(j))
          BY <2>7, <1>3, <3>1 DEF VoteTurn
        <5> QED
          BY <5>1, <5>2
      <4>2. script \in Scripts
        BY DEF PaidInv, JobInv
      <4> QED
        BY <1>2, <2>5, <4>1, <4>2, JobsAssumption DEF Voting, Steps, JobOf
    <3>5. reply.calls = {} /\ reply.content \in {e.said, ""} /\ e.said \in {"first", "second", "tie", "prose"}
      BY <2>7, <2>2, <3>4, VoteAnswer DEF reply
    <3>6. \/ w = t /\ t.st = "done"
          \/ w.st = "done" /\ w.content = reply.content
      BY <2>9, <3>5
    <3>7. Waits(j, n) /\ ParseCompareVote(reply.content) # <<>> =>
             \E x \in ledger' : Of(x, j, n) /\ Meant(x) = As(j, ParseCompareVote(reply.content)[1])
      <4>1. Waits(j, n) => e.shown = Shown(j)
        BY <1>2, <2>2, <3>1 DEF VoteTurn
      <4>2. ASSUME Waits(j, n), ParseCompareVote(reply.content) # <<>> PROVE Meant(e) = As(j, ParseCompareVote(reply.content)[1])
        <5> DEFINE y == reply.content
        <5>1. e.shown = Shown(j) /\ (y = e.said \/ y = "") /\ ParseCompareVote(y) # <<>>
          BY <3>5, <4>1, <4>2
        <5> HIDE DEF y
        <5>2. job[j].flip \in BOOLEAN /\ e.said \in {"first", "second", "tie", "prose"}
          BY <3>1, <3>5
        <5>3. Meant(e) = As(j, ParseCompareVote(y)[1])
          BY <5>1, <5>2, VoteMeans
        <5> QED
          BY <5>3 DEF y
      <4> QED
        BY <2>2, <4>2
    <3>8. c.it = 1 /\ e.it = 1 /\ \A x \in ledger' : x \in ledger \/ x = e
      BY <1>2, <2>2, <3>1 DEF VoteTurn
    <3>9. /\ w.st # "none" => n <= Len(Steps(j))'
          /\ w.st # "tools" /\ (w.st \in {"call", "sleep"} => w.it = 1)
      BY <2>7, <1>3, <2>3, <3>1, <3>6 DEF VoteTurn, Steps, JobOf
    <3>10. /\ \A d \in calls' : Of(d, j, n) => d.it = 1
           /\ \A x \in ledger' : Of(x, j, n) => x.it = 1
           /\ Waits(j, n)' => \A d \in calls' : Of(d, j, n) => Last(d.msgs).text = Shown(j)'
      BY <2>3, <3>1, <3>3, <3>8 DEF VoteTurn
    <3>11. Waits(j, n) /\ w.stop = "complete" /\ ParseCompareVote(w.content) # <<>> =>
             \E x \in ledger' : Of(x, j, n) /\ Meant(x) = As(j, ParseCompareVote(w.content)[1])
      <4>1. CASE w = t /\ t.st = "done"
        BY <2>2, <2>7, <3>1, <4>1 DEF VoteTurn, Backed
      <4>2. CASE w.st = "done" /\ w.content = reply.content
        BY <3>7, <4>2
      <4> QED
        BY <3>6, <4>1, <4>2
    <3>12. w.st = "done"
      BY <3>6
    <3>13. turn'[j][n] = w
      BY <2>3, <2>7
    <3>14. (Waits(j, n) /\ turn[j][n].stop = "complete" /\ ParseCompareVote(turn[j][n].content) # <<>> =>
              Backed(j, n, As(j, ParseCompareVote(turn[j][n].content)[1])))'
      BY <3>3, <3>11, <3>13 DEF Backed
    <3>15. VoteTurn(j, n)'
      BY <3>9, <3>10, <3>12, <3>13, <3>14 DEF VoteTurn
    <3> QED
      BY <3>2, <3>15
  <2>6. /\ \A d \in calls' : d \in calls
        /\ \A x \in ledger' : x \in ledger \/ Of(x, j, n)
        /\ ledger \subseteq ledger' /\ job'[j] = job[j] /\ \A k \in Jobs : k # j => job'[k] = job[k]
    BY <2>2, <2>3
  <2> QED
    BY <2>7, <1>2, <2>3, <2>5, <2>6, VoteOne
<1> QED
  BY <1>1, <1>5, <1>6, <1>7

\* A job that is no judge.
LEMMA VoteOther ==
  ASSUME PaidInv, VoteInv, NEW j \in Jobs, ~Voting(j),
         \/ Answered(j)
         \/ Vote(j) \/ Score(j) \/ MapStep(j) \/ ReduceStep(j) \/ Ask(j) \/ Micro(j) \/ Full(j)
         \/ NewAgent(j) \/ Generate(j) \/ StartAgent(j) \/ JobTimeout(j) \/ Conclude(j)
  PROVE  VoteInv'
<1>1. turn = [k \in Jobs |-> [m \in 1..MaxSteps |-> turn[k][m]]] /\ job = [k \in Jobs |-> job[k]]
  BY DEF PaidInv, TurnInv, JobInv
<1>2. \A k \in Jobs : k # j => job'[k] = job[k]
  BY <1>1 DEF Answered, Vote, Score, MapStep, ReduceStep, Ask, Micro, Full, NewAgent, Generate, StartAgent, JobTimeout, Conclude
<1>3. \A n, msgs : Request(j, n, msgs) =>
         /\ UNCHANGED <<script, ledger>> /\ \A k \in Jobs : k # j => turn'[k] = turn[k]
         /\ \A c \in calls' : c \in calls \/ c.job = j
  <2> TAKE n, msgs
  <2> DEFINE t == [NoTurn EXCEPT !.st = "call", !.msgs = msgs, !.it = 1]
  <2>1. Call(j, n, t).job = j
    BY DEF Call
  <2> HIDE DEF t
  <2>2. Request(j, n, msgs) => turn' = [turn EXCEPT ![j][n] = t] /\ calls' = calls \cup {Call(j, n, t)} /\ UNCHANGED <<script, ledger>>
    BY DEF Request, t
  <2> QED
    BY <1>1, <2>1, <2>2
<1>4. \/ \E n, msgs : Request(j, n, msgs)
      \/ UNCHANGED turnVars
      \/ UNCHANGED <<script, calls, ledger>> /\ \A k \in Jobs : k # j => turn'[k] = turn[k]
  BY <1>1 DEF Answered, Vote, Score, MapStep, ReduceStep, Ask, Micro, Full, NewAgent, Generate, StartAgent, JobTimeout, Conclude
<1>5. /\ script' = script /\ ledger' = ledger
      /\ \A k \in Jobs : k # j => turn'[k] = turn[k]
      /\ \A c \in calls' : c \in calls \/ c.job = j
  BY <1>3, <1>4 DEF turnVars
<1>6. ASSUME NEW k \in Jobs, Voting(k) PROVE VotesKept(k)' /\ \A m \in 1..MaxSteps : VoteTurn(k, m)'
  <2>1. k # j /\ VotesKept(k) /\ (\A m \in 1..MaxSteps : VoteTurn(k, m)) /\ ledger \subseteq ledger'
    BY <1>5, <1>6 DEF VoteInv
  <2>2. \A m : /\ \A c \in calls' : Of(c, k, m) => c \in calls
               /\ \A e \in ledger' : Of(e, k, m) => e \in ledger
    BY <1>5, <2>1 DEF Of
  <2>3. job'[k] = job[k] /\ turn'[k] = turn[k]
    BY <1>2, <1>5, <2>1
  <2>4. ASSUME NEW m \in 1..MaxSteps PROVE VoteTurn(k, m)'
    BY <1>5, <2>1, <2>2, <2>3, VoteFrame
  <2> QED
    BY <2>1, <2>3, <2>4, KeptFrame
<1> QED
  BY <1>5, <1>6 DEF VoteInv, Voting, Steps, JobOf

\* The list of votes after an answer.
LEMMA VoteTaken ==
  ASSUME PaidInv, VoteInv, NEW j \in Jobs, Voting(j), job[j].st = "wait", NEW content,
         ParseCompareVote(content) # <<>> => Backed(j, job[j].n, As(j, ParseCompareVote(content)[1])),
         NEW d, d.st = "ready", d.flip = job[j].flip, d.n = job[j].n + 1, d.got = TookVote(j, content)
  PROVE  /\ d.flip \in BOOLEAN /\ d.got \in Seq(Counted)
         /\ \A i \in DOMAIN d.got : d.got[i].n < d.n /\ d.got[i].n \in 1..MaxSteps /\ Backed(j, d.got[i].n, d.got[i].vote)
         /\ \A i, k \in DOMAIN d.got : d.got[i].n = d.got[k].n => i = k
<1> DEFINE got == job[j].got
           n == job[j].n
           parsed == ParseCompareVote(content)
           x == [n |-> n, vote |-> As(j, parsed[1])]
<1>1. VotesKept(j)
  BY DEF VoteInv
<1>2. n \in Nat \ {0} /\ n \in 1..MaxSteps /\ Step(j) = "vote"
  <2>1. n \in 1..Len(Steps(j)) /\ Len(Steps(j)) <= MaxSteps /\ n \in Nat \ {0}
    BY StepLength DEF PaidInv, JobInv
  <2>2. n \in 1..MaxSteps
    BY <2>1, StepLength, LlmAssumption
  <2>3. script \in Scripts
    BY DEF PaidInv, JobInv
  <2> QED
    BY <2>1, <2>2, <2>3, JobsAssumption, ZenonT(40) DEF Voting, Step, Steps, JobOf
<1>3. d.got = IF parsed = <<>> THEN got ELSE Append(got, x)
  BY <1>2 DEF TookVote, As
<1>4. /\ d.flip \in BOOLEAN /\ got \in Seq(Counted)
      /\ \A i \in DOMAIN got : got[i].n < n /\ got[i].n \in 1..MaxSteps /\ Backed(j, got[i].n, got[i].vote)
      /\ \A i, k \in DOMAIN got : got[i].n = got[k].n => i = k
  BY <1>1 DEF VotesKept
<1>5. \A m \in 1..MaxSteps : m \in Nat
  BY LlmAssumption
<1>6. CASE parsed = <<>>
  BY <1>2, <1>3, <1>4, <1>5, <1>6
<1>7. CASE parsed # <<>>
  <2>1. x \in Counted /\ x.n = n /\ Backed(j, n, x.vote)
    <3>1. parsed \in {<<"a">>, <<"b">>, <<"tie">>}
      BY <1>7 DEF ParseCompareVote
    <3>2. parsed[1] \in Winners
      BY <3>1 DEF Winners
    <3>3. As(j, parsed[1]) \in Winners
      BY <3>2 DEF As, Relabel, Winners
    <3> HIDE DEF parsed
    <3> QED
      BY <1>2, <1>7, <3>3 DEF Counted, parsed
  <2> HIDE DEF x
  <2>2. d.got = Append(got, x)
    BY <1>3, <1>7
  <2>3. /\ d.got \in Seq(Counted) /\ Len(got) \in Nat /\ DOMAIN d.got = 1..(Len(got) + 1) /\ DOMAIN got = 1..Len(got)
        /\ d.got[Len(got) + 1] = x /\ \A i \in DOMAIN got : d.got[i] = got[i]
    BY <1>4, <2>1, <2>2
  <2>4. \A i \in DOMAIN d.got : i = Len(got) + 1 \/ i \in DOMAIN got
    BY <2>3
  <2> HIDE DEF got, n
  <2>5. \A i \in DOMAIN d.got : d.got[i].n < d.n /\ d.got[i].n \in 1..MaxSteps /\ Backed(j, d.got[i].n, d.got[i].vote)
    BY <1>2, <1>4, <1>5, <2>1, <2>3, <2>4 DEF n
  <2>6. \A i, k \in DOMAIN d.got : d.got[i].n = d.got[k].n => i = k
    BY <1>2, <1>4, <1>5, <2>1, <2>3, <2>4
  <2> QED
    BY <1>4, <2>3, <2>5, <2>6
<1> QED
  BY <1>6, <1>7

\* The steps of a judge: it asks, counts the answer or goes on without, and concludes.
LEMMA VoteJob ==
  ASSUME PaidInv, VoteInv, NEW j \in Jobs, Voting(j),
         \/ Answered(j)
         \/ Vote(j) \/ Score(j) \/ MapStep(j) \/ ReduceStep(j) \/ Ask(j) \/ Micro(j) \/ Full(j)
         \/ NewAgent(j) \/ Generate(j) \/ StartAgent(j) \/ JobTimeout(j) \/ Conclude(j)
  PROVE  VoteInv'
<1>1. /\ turn = [k \in Jobs |-> [m \in 1..MaxSteps |-> turn[k][m]]] /\ job = [k \in Jobs |-> job[k]]
      /\ JobRecord(job[j]) /\ job[j].n \in Nat \ {0} /\ Len(Steps(j)) \in Nat /\ Len(Steps(j)) <= MaxSteps
  BY StepLength DEF PaidInv, TurnInv, JobInv
<1>2. \A m \in 1..Len(Steps(j)) : Steps(j)[m] = "vote"
  <2>1. script \in Scripts
    BY DEF PaidInv, JobInv
  <2> QED
    BY <2>1, JobsAssumption DEF Voting, Steps, JobOf
<1>3. \A step : Ready(j, step) => step = "vote" /\ job[j].n \in 1..Len(Steps(j))
  BY <1>1, <1>2 DEF Ready, Step
<1>4. Vote(j) \/ Answered(j) \/ JobTimeout(j) \/ Conclude(j)
  <2>1. /\ ~Ready(j, "map") /\ ~Ready(j, "score") /\ ~Ready(j, "ask") /\ ~Ready(j, "micro") /\ ~Ready(j, "reduce")
        /\ ~Ready(j, "full") /\ ~Ready(j, "classify") /\ ~Ready(j, "generate") /\ ~Ready(j, "start")
    BY <1>3
  <2> QED
    BY <2>1 DEF MapStep, ReduceStep, Score, Ask, Micro, Full, NewAgent, Generate, StartAgent
<1>5. VotesKept(j) /\ \A m \in 1..MaxSteps : VoteTurn(j, m)
  BY DEF VoteInv
<1>6. job[j].n <= Len(Steps(j)) => job[j].n \in 1..MaxSteps
  BY <1>1, LlmAssumption
<1>7. CASE Vote(j)
  <2>0. PICK n : n = job[j].n
    OBVIOUS
  <2>1. PICK flip \in BOOLEAN : /\ job' = [job EXCEPT ![j].st = "wait", ![j].flip = flip]
                                /\ Request(j, job[j].n, <<User(IF flip THEN "ba" ELSE "ab")>>)
    BY <1>7 DEF Vote
  <2>2. job[j].st = "ready" /\ n \in 1..MaxSteps /\ n <= Len(Steps(j)) /\ turn[j][n].st = "none"
    BY <1>6, <1>7, <2>0 DEF Vote, Ready, PaidInv, JobInv
  <2> DEFINE d == [job[j] EXCEPT !.st = "wait", !.flip = flip]
             x == IF flip THEN "ba" ELSE "ab"
             t == [NoTurn EXCEPT !.st = "call", !.msgs = <<User(x)>>, !.it = 1]
             c == Call(j, n, t)
  <2>3. job' = [job EXCEPT ![j] = d]
    BY <1>1, <2>1
  <2>4. /\ job'[j] = d /\ d.st = "wait" /\ d.flip = flip /\ d.n = n /\ d.got = job[j].got
        /\ \A k \in Jobs : k # j => job'[k] = job[k]
    BY <1>1, <2>0, <2>3 DEF JobRecord
  <2>5. turn' = [turn EXCEPT ![j][n] = t] /\ calls' = calls \cup {c} /\ UNCHANGED <<script, ledger>>
    BY <2>0, <2>1 DEF Request
  <2>6. t.st = "call" /\ t.msgs = <<User(x)>> /\ t.it = 1
    BY DEF NoTurn
  <2> HIDE DEF d, t, x
  <2>7. Of(c, j, n) /\ c.it = 1 /\ Last(c.msgs).text = x
    <3>1. Of(c, j, n) /\ c.it = t.it
      BY DEF Call, Of
    <3> QED
      BY <2>6, <3>1, CallShows
  <2> HIDE DEF c
  <2>8. turn'[j][n] = t /\ \A k \in Jobs, m \in 1..MaxSteps : k # j \/ m # n => turn'[k][m] = turn[k][m]
    BY <1>1, <2>2, <2>5
  <2>9. (\A e \in calls : ~Of(e, j, n)) /\ \A e \in ledger : ~Of(e, j, n)
    BY <2>2 DEF PaidInv, TurnInv, Paid
  <2>10. Shown(j)' = x
    BY <2>4 DEF Shown, x
  <2>11. VotesKept(j)'
    <3>1. \A m, w : Backed(j, m, w) = Backed(j, m, w)'
      BY <2>5 DEF Backed
    <3> QED
      BY <1>5, <2>0, <2>4, <3>1 DEF VotesKept
  <2>12. VoteTurn(j, n)'
    <3>1. n <= Len(Steps(j))'
      BY <2>2, <2>5 DEF Steps, JobOf
    <3>2. \A e \in calls' : Of(e, j, n) => e = c
      BY <2>5, <2>9
    <3>3. \A e \in ledger' : ~Of(e, j, n)
      BY <2>5, <2>9
    <3> QED
      BY <2>6, <2>7, <2>8, <2>10, <3>1, <3>2, <3>3 DEF VoteTurn
  <2>13. /\ \A m \in 1..MaxSteps : m # n => ~Waits(j, m)'
         /\ \A e \in calls' : e \in calls \/ Of(e, j, n)
         /\ \A e \in ledger' : e \in ledger
         /\ ledger \subseteq ledger' /\ script' = script
    BY <2>4, <2>5, <2>7 DEF Waits
  <2> QED
    BY <2>2, <2>4, <2>8, <2>11, <2>12, <2>13, VoteOne
<1>8. CASE Answered(j) \/ JobTimeout(j)
  <2>0. PICK n : n = job[j].n
    OBVIOUS
  <2> DEFINE t == turn[j][n]
  <2>1. /\ job[j].st = "wait" /\ n \in 1..MaxSteps /\ n <= Len(Steps(j)) /\ Waits(j, n)
    BY <1>6, <1>8, <2>0 DEF Answered, JobTimeout, PaidInv, JobInv, Waits
  <2>2. PICK content, r :
          /\ job' = [job EXCEPT ![j] = Took(j, content, r)]
          /\ content = "" \/ (content = t.content /\ t.st = "done" /\ t.stop = "complete")
    <3>1. CASE JobTimeout(j)
      BY <3>1 DEF JobTimeout
    <3>2. CASE Answered(j)
      <4> DEFINE content == IF t.stop = "complete" THEN t.content ELSE ""
      <4>1. job' = [job EXCEPT ![j] = Took(j, content, t)] /\ t.st = "done"
        BY <2>0, <3>2 DEF Answered
      <4>2. content = "" \/ (content = t.content /\ t.stop = "complete")
        OBVIOUS
      <4> HIDE DEF content
      <4> QED
        BY <4>1, <4>2
    <3> QED
      BY <1>8, <3>1, <3>2
  <2> DEFINE got == TookVote(j, content)
             k == n + 1
             d == [job[j] EXCEPT !.st = "ready", !.n = k, !.got = got]
  <2>3. Took(j, content, r) = d
    <3>1. Step(j) = "vote"
      BY <1>1, <1>2, <2>0, <2>1 DEF Step
    <3> HIDE DEF got
    <3>2. Took(j, content, r) = [[job[j] EXCEPT !.st = "ready", !.n = k] EXCEPT !.got = got]
      BY <2>0, <3>1 DEF Took, got
    <3> QED
      BY <3>2
  <2> HIDE DEF got
  <2>4. d.st = "ready" /\ d.n = job[j].n + 1 /\ d.got = got /\ d.flip = job[j].flip
    BY <1>1, <2>0 DEF JobRecord
  <2> HIDE DEF d
  <2>5. job'[j] = d /\ \A i \in Jobs : i # j => job'[i] = job[i]
    BY <1>1, <2>2, <2>3
  <2>6. ParseCompareVote(content) # <<>> => Backed(j, n, As(j, ParseCompareVote(content)[1]))
    <3>1. ParseCompareVote("") = <<>>
      BY DEF ParseCompareVote
    <3> QED
      BY <1>5, <2>1, <2>2, <3>1 DEF VoteTurn
  <2>7. /\ d.flip \in BOOLEAN /\ d.got \in Seq(Counted)
        /\ \A i \in DOMAIN d.got : d.got[i].n < d.n /\ d.got[i].n \in 1..MaxSteps /\ Backed(j, d.got[i].n, d.got[i].vote)
        /\ \A i, m \in DOMAIN d.got : d.got[i].n = d.got[m].n => i = m
    BY <2>0, <2>1, <2>4, <2>6, VoteTaken DEF got
  <2>8. UNCHANGED <<script, calls, ledger>>
    BY <1>8 DEF Answered, JobTimeout, turnVars
  <2>9. VotesKept(j)'
    <3>1. \A m, w : Backed(j, m, w) = Backed(j, m, w)'
      BY <2>8 DEF Backed
    <3> QED
      BY <2>4, <2>5, <2>7, <3>1 DEF VotesKept
  <2>10. \A m : ~Waits(j, m)'
    BY <2>4, <2>5 DEF Waits
  <2>11. /\ turn'[j][n].st # "tools" /\ (turn'[j][n].st \in {"call", "sleep"} => turn'[j][n].it = 1)
         /\ \A i \in Jobs, m \in 1..MaxSteps : i # j \/ m # n => turn'[i][m] = turn[i][m]
    <3>1. CASE JobTimeout(j)
      BY <1>5, <2>1, <3>1 DEF JobTimeout, turnVars, VoteTurn
    <3>2. CASE Answered(j)
      <4> DEFINE u == [NoTurn EXCEPT !.st = "done"]
      <4>1. turn' = [turn EXCEPT ![j][n] = u]
        BY <2>0, <3>2 DEF Answered
      <4>2. u.st = "done"
        BY DEF NoTurn
      <4> HIDE DEF u
      <4> QED
        BY <1>1, <2>1, <4>1, <4>2
    <3> QED
      BY <1>8, <3>1, <3>2
  <2>12. VoteTurn(j, n)'
    BY <1>5, <2>1, <2>8, <2>10, <2>11 DEF VoteTurn, Steps, JobOf
  <2>13. /\ \A e \in calls' : e \in calls
         /\ \A e \in ledger' : e \in ledger
         /\ ledger \subseteq ledger' /\ script' = script
    BY <2>8
  <2> QED
    BY <2>1, <2>5, <2>9, <2>10, <2>11, <2>12, <2>13, VoteOne
<1>9. CASE Conclude(j)
  <2> DEFINE out == Verdict(j, job[j].got)
             d == [job[j] EXCEPT !.st = "done", !.out = out, !.told = VerdictEvent(j)]
  <2>1. job' = [job EXCEPT ![j].st = "done", ![j].out = out, ![j].told = VerdictEvent(j)] /\ UNCHANGED turnVars
    BY <1>9 DEF Conclude, Voting
  <2> HIDE DEF out
  <2>2. job' = [job EXCEPT ![j] = d]
    BY <1>1, <2>1, ThreeFields
  <2>3. /\ job'[j] = d /\ d.st = "done" /\ d.out = out /\ d.got = job[j].got /\ d.flip = job[j].flip /\ d.n = job[j].n
        /\ \A k \in Jobs : k # j => job'[k] = job[k]
    BY <1>1, <2>2 DEF JobRecord
  <2> HIDE DEF d
  <2>4. job[j].got # <<>> => out = AggregateCompare(job[j].got)
    BY DEF Verdict, out
  <2>5. VotesKept(j)'
    <3>1. \A m, w : Backed(j, m, w) = Backed(j, m, w)'
      BY <2>1 DEF Backed, turnVars
    <3> QED
      BY <1>5, <2>3, <2>4, <3>1 DEF VotesKept
  <2>6. \A m : ~Waits(j, m)'
    BY <2>3 DEF Waits
  <2>7. 1 \in 1..MaxSteps
    BY LlmAssumption
  <2>8. VoteTurn(j, 1)'
    BY <1>5, <2>1, <2>6, <2>7 DEF VoteTurn, Steps, JobOf, turnVars
  <2>9. /\ \A e \in calls' : e \in calls
        /\ \A e \in ledger' : e \in ledger
        /\ ledger \subseteq ledger' /\ script' = script
        /\ \A k \in Jobs, m \in 1..MaxSteps : turn'[k][m] = turn[k][m]
    BY <2>1 DEF turnVars
  <2> QED
    BY <2>3, <2>5, <2>6, <2>7, <2>8, <2>9, VoteOne
<1> QED
  BY <1>4, <1>7, <1>8, <1>9

\* At first there are no votes.
LEMMA VoteStart == Init => VoteInv
<1> SUFFICES ASSUME Init, NEW j \in Jobs PROVE VotesKept(j) /\ \A n \in 1..MaxSteps : VoteTurn(j, n)
  BY DEF VoteInv
<1>1. NoTurn.st = "none"
  BY DEF NoTurn
<1>2. /\ \A n \in 1..MaxSteps : turn[j][n].st = "none"
      /\ calls = {} /\ ledger = {}
  BY <1>1 DEF Init, TurnInit
<1>3. job[j].st = "ready" /\ job[j].got = <<>> /\ job[j].flip = FALSE
  BY DEF Init
<1>4. VotesKept(j)
  <2>1. job[j].got \in Seq(Counted) /\ DOMAIN job[j].got = {} /\ job[j].st # "done"
    BY <1>3
  <2> QED
    BY <1>3, <2>1 DEF VotesKept
<1> QED
  BY <1>2, <1>3, <1>4 DEF VoteTurn, Waits

\* Every step keeps the votes what the replies meant.
LEMMA VoteStep == PaidInv /\ VoteInv /\ [Next]_vars => VoteInv'
<1> SUFFICES ASSUME PaidInv, VoteInv, [Next]_vars PROVE VoteInv'
  OBVIOUS
<1>1. CASE (ServiceStep \/ DriverStep) /\ UNCHANGED <<job, disk>>
  BY <1>1, VoteService, VoteDriver
<1>2. CASE JobStep
  BY <1>2, VoteOther, VoteJob DEF JobStep
<1>3. CASE UNCHANGED vars
  BY <1>3 DEF vars, VoteInv, Voting, VotesKept, VoteTurn, Backed, Waits, Shown, As, Steps, JobOf
<1> QED
  BY <1>1, <1>2, <1>3 DEF Next

\* compare names a winner exactly if more of the counted replies meant it than anything else.
THEOREM MajorityDecides == Spec => []VerdictIsMajority
<1>1. Init => PaidInv /\ VoteInv
  BY PaidStart, VoteStart
<1>2. PaidInv /\ VoteInv /\ [Next]_vars => (PaidInv /\ VoteInv)'
  BY PaidStep, VoteStep
<1> QED
  BY <1>1, <1>2, VotesDecide, PTL DEF Spec

-----------------------------------------------------------------------------
(* Message lists: every tool call answered right after the message that made it. *)

Roles == {"system", "user", "assistant", "tool"}

\* The texts: of the requests, of the compactor, of the provider, of the tools.
Asked == {"prompt", "reminder", "ask", "ab", "ba", "candidate", "document", "partials", "rendered", "description", "produce"}
Edited == {"summary", "boundary", "cleared", "cut", "error", "tagged"}
Spoken == {"", "say", "first", "second", "tie", "prose", "high", "low", "blank", "x", "y", "agent_md", "summary"}
Output == UNION {s[j].tool : s \in Scripts, j \in Jobs}
Words == Asked \cup Edited \cup Spoken \cup Output

CallSets == {S \in SUBSET Nat : IsFiniteSet(S)}
Speech == [role : Roles, text : Words, calls : CallSets, id : Nat]

\* A message of the user or of the system, with a known text.
LEMMA SaidBySome ==
  ASSUME NEW text \in Words
  PROVE  /\ User(text) \in Speech /\ User(text).role = "user"
         /\ System(text) \in Speech /\ System(text).role = "system"
<1>1. {} \in CallSets /\ "user" \in Roles /\ "system" \in Roles
  BY FS_EmptySet DEF CallSets, Roles
<1> QED
  BY <1>1 DEF User, System, Message, Speech

\* The results of the calls C, and nothing else, from after position i to position e.
Results(m, i, e, C) ==
    /\ e \in i..Len(m)
    /\ \A k \in (i + 1)..e : m[k].role = "tool"
    /\ {m[k].id : k \in (i + 1)..e} = C
    /\ e - i = Cardinality(C)

\* The calls of message i have their results, and no other result follows.
Closed(m, i) ==
    \E e \in i..Len(m) : Results(m, i, e, m[i].calls) /\ (e = Len(m) \/ m[e + 1].role # "tool")

\* A result answers a call of the last message that was not a result.
Owned(m, k) ==
    \E i \in Positions(m, "assistant") :
        i < k /\ m[k].id \in m[i].calls /\ \A n \in (i + 1)..k : m[n].role = "tool"

AllOwned(m) == \A k \in Positions(m, "tool") : Owned(m, k)

Settled(m) == m \in Seq(Speech) /\ AllOwned(m) /\ \A i \in Positions(m, "assistant") : Closed(m, i)

\* All is settled but the calls T of the last assistant message.
Open(m, T) ==
    /\ m \in Seq(Speech) /\ AllOwned(m)
    /\ \E i \in Positions(m, "assistant") :
         /\ T \subseteq m[i].calls /\ Results(m, i, Len(m), m[i].calls \ T)
         /\ \A k \in Positions(m, "assistant") \ {i} : Closed(m, k)

\* A list from whose front something was cut, and put in front of which something else
\* was put, as long as neither contains half of an exchange.
LEMMA Spliced ==
  ASSUME NEW m, Settled(m), NEW r \in Seq(Speech), NEW d \in Nat, NEW o \in 0..Len(m),
         Len(r) = d + Len(m) - o,
         \A k \in 1..d : r[k].role \notin {"tool", "assistant"},
         \A k \in (d + 1)..Len(r) : r[k] = m[k - d + o],
         o = Len(m) \/ m[o + 1].role # "tool"
  PROVE  Settled(r)
<1> DEFINE L == Len(m)
           R == Len(r)
<1>0. L \in Nat /\ R \in Nat /\ DOMAIN r = 1..R /\ DOMAIN m = 1..L
  BY DEF Settled
<1>1. L \in Nat /\ R \in Nat /\ R = d + L - o /\ o \in 0..L
  BY <1>0
<1>s. \A k \in (d + 1)..R : r[k] = m[k - d + o]
  OBVIOUS
<1>c. o = L \/ m[o + 1].role # "tool"
  OBVIOUS
<1> HIDE DEF L, R
<1>2. ASSUME NEW k \in 1..R, r[k].role \in {"tool", "assistant"}
      PROVE  k > d /\ k - d + o \in 1..L /\ r[k] = m[k - d + o]
  <2>1. ~(k \in 1..d)
    BY <1>2
  <2>2. k \in (d + 1)..R
    BY <1>1, <2>1
  <2>3. k > d /\ k - d + o \in 1..L
    BY <1>1, <2>2
  <2> QED
    BY <1>s, <2>2, <2>3
<1>3. ASSUME NEW k \in Positions(r, "tool") PROVE Owned(r, k)
  <2>1. k \in 1..R /\ r[k].role = "tool"
    BY <1>0 DEF Positions
  <2> DEFINE kk == k - d + o
  <2>2. k > d /\ kk \in 1..L /\ r[k] = m[kk]
    BY <1>2, <2>1
  <2>3. PICK ii \in Positions(m, "assistant") :
          ii < kk /\ m[kk].id \in m[ii].calls /\ \A n \in (ii + 1)..kk : m[n].role = "tool"
    BY <1>0, <2>1, <2>2 DEF Settled, AllOwned, Owned, Positions
  <2>4. ii \in 1..L /\ m[ii].role = "assistant"
    BY <1>0 DEF Positions
  <2>n. ii < kk /\ kk = k - d + o
    BY <2>3
  <2> HIDE DEF kk
  <2>5. ii > o
    <3>1. o # L
      BY <1>1, <2>1, <2>2, <2>4, <2>n
    <3>2. ~(o + 1 \in (ii + 1)..kk)
      BY <1>c, <2>3, <3>1
    <3> QED
      BY <1>1, <2>1, <2>2, <2>4, <2>n, <3>2
  <2> DEFINE i == ii + d - o
  <2>6. i \in (d + 1)..R /\ i - d + o = ii /\ i \in 1..R
    BY <1>1, <2>4, <2>5
  <2>7. r[i] = m[ii]
    <3> HIDE DEF i
    <3> QED
      BY <1>s, <2>6
  <2>8. \A n \in (i + 1)..k : n - d + o \in (ii + 1)..kk /\ n \in (d + 1)..R
    BY <1>1, <2>1, <2>n, <2>4, <2>5
  <2>9. \A n \in (i + 1)..k : r[n].role = "tool"
    BY <1>s, <2>3, <2>8
  <2>10. i < k
    BY <1>1, <2>1, <2>n, <2>4
  <2> HIDE DEF i
  <2> QED
    BY <1>0, <2>2, <2>3, <2>4, <2>6, <2>7, <2>9, <2>10 DEF Owned, Positions
<1>4. ASSUME NEW i \in Positions(r, "assistant") PROVE Closed(r, i)
  <2>1. i \in 1..R /\ r[i].role = "assistant"
    BY <1>0 DEF Positions
  <2> DEFINE ii == i - d + o
  <2>2. i > d /\ ii \in 1..L /\ r[i] = m[ii]
    BY <1>2, <2>1
  <2>3. PICK ee \in ii..L : Results(m, ii, ee, m[ii].calls) /\ (ee = L \/ m[ee + 1].role # "tool")
    BY <1>0, <2>1, <2>2 DEF Settled, Closed, Positions, L
  <2>n. ii = i - d + o
    OBVIOUS
  <2> HIDE DEF ii
  <2> DEFINE e == ee + d - o
  <2>4. e \in i..R /\ e - d + o = ee /\ e - i = ee - ii /\ e \in Int
    BY <1>1, <2>1, <2>2, <2>n
  <2>5. \A k \in (i + 1)..e : k - d + o \in (ii + 1)..ee /\ k \in (d + 1)..R
    BY <1>1, <2>1, <2>2, <2>n
  <2>6. \A k \in (ii + 1)..ee : k + d - o \in (i + 1)..e /\ (k + d - o) - d + o = k
    BY <1>1, <2>1, <2>2, <2>n
  <2>e. e + 1 = (ee + 1) + d - o
    BY <1>1, <2>1, <2>2, <2>n
  <2> HIDE DEF e
  <2>7. {r[k].id : k \in (i + 1)..e} = {m[k].id : k \in (ii + 1)..ee}
    <3>1. \A k \in (i + 1)..e : r[k].id \in {m[n].id : n \in (ii + 1)..ee}
      BY <1>s, <2>5
    <3>2. \A n \in (ii + 1)..ee : m[n].id \in {r[k].id : k \in (i + 1)..e}
      <4>1. ASSUME NEW n \in (ii + 1)..ee PROVE r[n + d - o] = m[n]
        <5>1. n + d - o \in (i + 1)..e /\ (n + d - o) - d + o = n
          BY <2>6
        <5>2. n + d - o \in (d + 1)..R
          BY <2>5, <5>1
        <5> QED
          BY <1>s, <5>1, <5>2
      <4> QED
        BY <2>6, <4>1
    <3> QED
      BY <3>1, <3>2
  <2>8. e = R \/ r[e + 1].role # "tool"
    <3>1. CASE ee = L
      BY <1>1, <2>4, <3>1
    <3>2. CASE ee # L
      <4>1. e + 1 \in (d + 1)..R /\ (e + 1) - d + o = ee + 1
        BY <1>1, <2>1, <2>2, <2>n, <2>4, <3>2
      <4>2. r[e + 1] = m[ee + 1]
        BY <1>s, <4>1
      <4> QED
        BY <2>3, <3>2, <4>2
    <3> QED
      BY <3>1, <3>2
  <2>9. \A k \in (i + 1)..e : r[k].role = "tool"
    BY <1>s, <2>3, <2>5, ZenonT(40) DEF Results
  <2>10. Results(r, i, e, r[i].calls)
    BY <2>2, <2>3, <2>4, <2>7, <2>9 DEF Results, R
  <2> QED
    BY <2>4, <2>8, <2>10 DEF Closed, R
<1> QED
  BY <1>3, <1>4 DEF Settled, AllOwned

\* One more message, which is not a result: nothing that was settled is disturbed.
LEMMA SettledStays ==
  ASSUME NEW m, Settled(m), NEW x \in Speech, x.role # "tool"
  PROVE  LET r == Append(m, x) IN
         /\ r \in Seq(Speech) /\ Len(r) = Len(m) + 1 /\ r[Len(m) + 1] = x
         /\ Positions(r, "assistant") \ {Len(m) + 1} = Positions(m, "assistant")
         /\ AllOwned(r)
         /\ \A i \in Positions(m, "assistant") : Closed(r, i)
<1> DEFINE r == Append(m, x)
           L == Len(m)
<1>1. /\ m \in Seq(Speech) /\ L \in Nat /\ DOMAIN m = 1..L
      /\ r \in Seq(Speech) /\ Len(r) = L + 1 /\ DOMAIN r = 1..(L + 1) /\ r[L + 1] = x
  BY DEF Settled
<1>2. \A k \in 1..L : r[k] = m[k]
  BY <1>1
<1> HIDE DEF r
<1>3. \A role : Positions(r, role) \ {L + 1} = Positions(m, role)
  <2>1. \A k : k \in (1..(L + 1)) \ {L + 1} <=> k \in 1..L
    BY <1>1
  <2> HIDE DEF L
  <2> QED
    BY <1>1, <1>2, <2>1 DEF Positions
<1>4. ASSUME NEW k \in Positions(r, "tool") PROVE Owned(r, k)
  <2>1. k \in Positions(m, "tool") /\ k \in 1..L
    BY <1>1, <1>3 DEF Positions
  <2>2. PICK i \in Positions(m, "assistant") :
          i < k /\ m[k].id \in m[i].calls /\ \A n \in (i + 1)..k : m[n].role = "tool"
    BY <2>1 DEF Settled, AllOwned, Owned
  <2>3. i \in 1..L /\ i \in Positions(r, "assistant")
    BY <1>1, <1>3, <2>2, ZenonT(40) DEF Positions
  <2>4. \A n \in (i + 1)..k : n \in 1..L
    BY <1>1, <2>1, <2>3
  <2> QED
    BY <1>2, <2>1, <2>2, <2>3, <2>4 DEF Owned
<1>5. ASSUME NEW i \in Positions(m, "assistant") PROVE Closed(r, i)
  <2>1. i \in 1..L
    BY <1>1 DEF Positions
  <2>2. PICK e \in i..L : Results(m, i, e, m[i].calls) /\ (e = L \/ m[e + 1].role # "tool")
    BY DEF Settled, Closed
  <2>3. e \in i..(L + 1) /\ \A k \in (i + 1)..e : k \in 1..L
    BY <1>1, <2>1
  <2>4. Results(r, i, e, r[i].calls)
    <3>1. {r[k].id : k \in (i + 1)..e} = {m[k].id : k \in (i + 1)..e}
      BY <1>2, <2>3
    <3> QED
      BY <1>1, <1>2, <2>1, <2>2, <2>3, <3>1 DEF Results
  <2>5. r[e + 1].role # "tool"
    <3>1. CASE e = L
      BY <1>1, <3>1
    <3>2. CASE e # L
      <4>1. e + 1 \in 1..L
        BY <1>1, <2>1, <3>2
      <4> QED
        BY <1>2, <2>2, <3>2, <4>1
    <3> QED
      BY <3>1, <3>2
  <2> QED
    BY <1>1, <2>3, <2>4, <2>5 DEF Closed
<1> QED
  BY <1>1, <1>3, <1>4, <1>5 DEF r, L, AllOwned

\* A message of the user, or of the system.
LEMMA Said ==
  ASSUME NEW m, Settled(m), NEW x \in Speech, x.role \notin {"tool", "assistant"}
  PROVE  Settled(Append(m, x))
<1> DEFINE r == Append(m, x)
<1>1. /\ r \in Seq(Speech) /\ r[Len(m) + 1] = x /\ AllOwned(r)
      /\ Positions(r, "assistant") \ {Len(m) + 1} = Positions(m, "assistant")
      /\ \A i \in Positions(m, "assistant") : Closed(r, i)
  BY SettledStays
<1> HIDE DEF r
<1>2. Len(m) + 1 \notin Positions(r, "assistant")
  BY <1>1 DEF Positions
<1>3. Settled(r)
  BY <1>1, <1>2 DEF Settled
<1> QED
  BY <1>3 DEF r

\* A message of the model leaves its calls open, ...
LEMMA Replied ==
  ASSUME NEW m, Settled(m), NEW x \in Speech, x.role = "assistant"
  PROVE  Open(Append(m, x), x.calls)
<1> DEFINE r == Append(m, x)
           i == Len(m) + 1
<1>1. /\ r \in Seq(Speech) /\ Len(r) = i /\ r[i] = x /\ AllOwned(r)
      /\ Positions(r, "assistant") \ {i} = Positions(m, "assistant")
      /\ \A k \in Positions(m, "assistant") : Closed(r, k)
  BY SettledStays
<1>2. i \in Nat \ {0}
  BY DEF Settled
<1> HIDE DEF r, i
<1>3. i \in Positions(r, "assistant")
  BY <1>1, <1>2 DEF Positions
<1>4. Results(r, i, i, {})
  <2>1. (i + 1)..i = {} /\ i \in i..i /\ i - i = 0
    BY <1>2
  <2>2. {r[k].id : k \in (i + 1)..i} = {}
    BY <2>1
  <2> QED
    BY <1>1, <2>1, <2>2, FS_EmptySet DEF Results
<1>5. Open(r, x.calls)
  <2>1. x.calls \subseteq r[i].calls /\ r[i].calls \ x.calls = {}
    BY <1>1
  <2>2. Results(r, i, Len(r), r[i].calls \ x.calls)
    BY <1>1, <1>4, <2>1
  <2> QED
    BY <1>1, <1>3, <2>1, <2>2 DEF Open
<1> QED
  BY <1>5 DEF r

\* ... each result closes one of them, ...
LEMMA ToolAnswered ==
  ASSUME NEW m, NEW T, Open(m, T), NEW id \in T, NEW x \in Speech, x.role = "tool", x.id = id
  PROVE  Open(Append(m, x), T \ {id})
<1> DEFINE r == Append(m, x)
           L == Len(m)
<1>1. /\ m \in Seq(Speech) /\ L \in Nat /\ DOMAIN m = 1..L
      /\ r \in Seq(Speech) /\ Len(r) = L + 1 /\ DOMAIN r = 1..(L + 1) /\ r[L + 1] = x
  BY DEF Open
<1>2. \A k \in 1..L : r[k] = m[k]
  BY <1>1
<1> HIDE DEF r
<1>3. PICK i \in Positions(m, "assistant") :
         /\ T \subseteq m[i].calls /\ Results(m, i, L, m[i].calls \ T)
         /\ \A k \in Positions(m, "assistant") \ {i} : Closed(m, k)
  BY DEF Open
<1>4. i \in 1..L /\ m[i].role = "assistant" /\ r[i] = m[i] /\ i \in Positions(r, "assistant")
  <2>1. i \in 1..L /\ m[i].role = "assistant"
    BY <1>1 DEF Positions
  <2> QED
    BY <1>1, <1>2, <2>1 DEF Positions
<1>5. Positions(r, "assistant") = Positions(m, "assistant")
  <2>1. ASSUME NEW k PROVE k \in Positions(r, "assistant") <=> k \in Positions(m, "assistant")
    <3>1. k \in 1..(L + 1) <=> k \in 1..L \/ k = L + 1
      BY <1>1
    <3> QED
      BY <1>1, <1>2, <3>1 DEF Positions
  <2> QED
    BY <2>1
<1>6. ASSUME NEW k \in Positions(r, "tool") PROVE Owned(r, k)
  <2>1. k \in 1..(L + 1) /\ r[k].role = "tool"
    BY <1>1 DEF Positions
  <2>2. CASE k = L + 1
    <3>1. i < k /\ r[k].id \in r[i].calls
      BY <1>1, <1>3, <1>4, <2>2
    <3>2. ASSUME NEW n \in (i + 1)..k PROVE r[n].role = "tool"
      <4>1. n = L + 1 \/ (n \in (i + 1)..L /\ n \in 1..L)
        BY <1>1, <1>4, <2>2
      <4> QED
        BY <1>1, <1>2, <1>3, <4>1 DEF Results
    <3> QED
      BY <1>4, <3>1, <3>2 DEF Owned
  <2>3. CASE k # L + 1
    <3>1. k \in 1..L
      BY <1>1, <2>1, <2>3
    <3>2. k \in Positions(m, "tool")
      BY <1>1, <1>2, <2>1, <3>1 DEF Positions
    <3>3. PICK o \in Positions(m, "assistant") :
            o < k /\ m[k].id \in m[o].calls /\ \A n \in (o + 1)..k : m[n].role = "tool"
      BY <3>2 DEF Open, AllOwned, Owned
    <3>4. o \in 1..L
      BY <1>1 DEF Positions
    <3>5. \A n \in (o + 1)..k : n \in 1..L
      BY <1>1, <3>1, <3>4
    <3> QED
      BY <1>2, <1>5, <3>1, <3>3, <3>4, <3>5 DEF Owned
  <2> QED
    BY <2>2, <2>3
<1>7. Results(r, i, L + 1, r[i].calls \ (T \ {id}))
  <2> DEFINE C == m[i].calls \ T
  <2>1. r[i].calls \ (T \ {id}) = C \cup {id} /\ id \notin C
    BY <1>3, <1>4
  <2>2. IsFiniteSet(C)
    <3>1. m[i] \in Speech
      BY <1>1, <1>4
    <3>2. IsFiniteSet(m[i].calls)
      BY <3>1 DEF Speech, CallSets
    <3> QED
      BY <3>2, FS_Subset
  <2>3. Results(m, i, L, C)
    BY <1>3
  <2> HIDE DEF C
  <2>4. Cardinality(C \cup {id}) = Cardinality(C) + 1 /\ Cardinality(C) \in Nat
    BY <2>1, <2>2, FS_AddElement, FS_CardinalityType
  <2>5. L + 1 \in i..(L + 1) /\ \A k : k \in (i + 1)..(L + 1) <=> k \in (i + 1)..L \/ k = L + 1
    BY <1>1, <1>4
  <2>6. \A k \in (i + 1)..L : r[k] = m[k]
    BY <1>2, <1>4
  <2>7. {r[k].id : k \in (i + 1)..(L + 1)} = C \cup {id}
    <3>1. \A k \in (i + 1)..(L + 1) : r[k].id \in C \cup {id}
      BY <1>1, <2>3, <2>5, <2>6 DEF Results
    <3>2. \A c \in C : \E k \in (i + 1)..(L + 1) : r[k].id = c
      BY <2>3, <2>5, <2>6 DEF Results
    <3>3. r[L + 1].id = id /\ L + 1 \in (i + 1)..(L + 1)
      BY <1>1, <1>4
    <3> QED
      BY <3>1, <3>2, <3>3
  <2>8. \A k \in (i + 1)..(L + 1) : r[k].role = "tool"
    BY <1>1, <2>3, <2>5, <2>6 DEF Results
  <2>9. (L + 1) - i = Cardinality(C) + 1
    <3>1. L - i = Cardinality(C)
      BY <2>3 DEF Results
    <3> QED
      BY <1>1, <1>4, <2>4, <3>1
  <2> QED
    BY <1>1, <2>1, <2>4, <2>5, <2>7, <2>8, <2>9 DEF Results
<1>8. ASSUME NEW k \in Positions(r, "assistant") \ {i} PROVE Closed(r, k)
  <2>1. k \in 1..L /\ k # i /\ m[k].role = "assistant" /\ r[k] = m[k] /\ Closed(m, k)
    BY <1>1, <1>2, <1>3, <1>5 DEF Positions
  <2>2. PICK e \in k..L : Results(m, k, e, m[k].calls) /\ (e = L \/ m[e + 1].role # "tool")
    BY <2>1 DEF Closed
  <2>3. e # L
    <3>1. CASE k < i
      <4>1. ~(i \in (k + 1)..e)
        BY <1>4, <2>2 DEF Results
      <4>2. i \in (k + 1)..L
        BY <1>1, <1>4, <2>1, <3>1
      <4> QED
        BY <4>1, <4>2
    <3>2. CASE k > i
      <4>1. k \in (i + 1)..L
        BY <1>1, <1>4, <2>1, <3>2
      <4> QED
        BY <1>3, <2>1, <4>1 DEF Results
    <3> QED
      BY <1>4, <2>1, <3>1, <3>2
  <2>4. e \in k..(L + 1) /\ e + 1 \in 1..L /\ \A n \in (k + 1)..e : n \in 1..L
    BY <1>1, <2>1, <2>3
  <2>5. {r[n].id : n \in (k + 1)..e} = {m[n].id : n \in (k + 1)..e}
    BY <1>2, <2>4
  <2>6. Results(r, k, e, r[k].calls)
    BY <1>1, <1>2, <2>1, <2>2, <2>4, <2>5 DEF Results
  <2>7. r[e + 1].role # "tool"
    BY <1>2, <2>2, <2>3, <2>4
  <2> QED
    BY <1>1, <2>4, <2>6, <2>7 DEF Closed
<1>9. T \ {id} \subseteq r[i].calls
  BY <1>3, <1>4
<1>10. Open(r, T \ {id})
  <2>1. Results(r, i, Len(r), r[i].calls \ (T \ {id}))
    BY <1>1, <1>7
  <2>2. AllOwned(r)
    BY <1>6 DEF AllOwned
  <2>3. r \in Seq(Speech)
    BY <1>1
  <2> QED
    BY <1>4, <1>8, <1>9, <2>1, <2>2, <2>3 DEF Open
<1> QED
  BY <1>10 DEF r

\* ... and after the last the list is settled again.
LEMMA AllAnswered ==
  ASSUME NEW m, Open(m, {})
  PROVE  Settled(m)
<1>1. PICK i \in Positions(m, "assistant") :
         /\ Results(m, i, Len(m), m[i].calls \ {})
         /\ \A k \in Positions(m, "assistant") \ {i} : Closed(m, k)
  BY DEF Open
<1>2. Closed(m, i)
  <2>1. m[i].calls \ {} = m[i].calls
    OBVIOUS
  <2> QED
    BY <1>1, <2>1 DEF Closed, Results
<1> QED
  BY <1>1, <1>2 DEF Open, Settled

-----------------------------------------------------------------------------
(* Positions by their rank, and what the compactor and the request keep. *)

\* Sets that grow with the elements they belong to: each size occurs.
LEMMA RankOnto ==
  ASSUME NEW S, IsFiniteSet(S), NEW U \in [S -> SUBSET S],
         \A i \in S : i \in U[i],
         \A i, k \in S : i # k => (U[i] \subseteq U[k] /\ k \notin U[i]) \/ (U[k] \subseteq U[i] /\ i \notin U[k])
  PROVE  \A n \in 1..Cardinality(S) : \E i \in S : Cardinality(U[i]) = n
<1> DEFINE f == [i \in S |-> Cardinality(U[i])]
           C == Cardinality(S)
<1>1. C \in Nat
  BY FS_CardinalityType
<1>2. \A i \in S : IsFiniteSet(U[i]) /\ Cardinality(U[i]) \in Nat /\ Cardinality(U[i]) <= C /\ U[i] # {}
  BY FS_Subset, FS_CardinalityType
<1>3. \A i \in S : Cardinality(U[i]) \in 1..C
  BY <1>1, <1>2, FS_EmptySet
<1>4. ASSUME NEW i \in S, NEW k \in S, i # k PROVE Cardinality(U[i]) # Cardinality(U[k])
  <2>1. CASE U[i] \subseteq U[k] /\ k \notin U[i]
    BY <1>2, <2>1, FS_Subset
  <2>2. CASE U[k] \subseteq U[i] /\ i \notin U[k]
    BY <1>2, <2>2, FS_Subset
  <2> QED
    BY <1>4, <2>1, <2>2
<1>5. f \in Injection(S, 1..C)
  BY <1>3, <1>4 DEF Injection, IsInjective
<1>6. IsFiniteSet(1..C) /\ Cardinality(1..C) = C
  BY <1>1, FS_Interval
<1> HIDE DEF f
<1>7. f \in Surjection(S, 1..C)
  BY <1>5, <1>6, FS_Injection
<1>8. \A n \in 1..C : \E i \in S : f[i] = n
  BY <1>7 DEF Surjection
<1> QED
  BY <1>8 DEF f

\* There is a position that has so many at or before it, and one that has so many from it on.
LEMMA RankFrom ==
  ASSUME NEW S \in SUBSET Nat, IsFiniteSet(S), NEW n \in 1..Cardinality(S)
  PROVE  /\ \E i \in S : Cardinality({k \in S : k <= i}) = n
         /\ \E i \in S : Cardinality({k \in S : k >= i}) = n
<1> DEFINE U == [i \in S |-> {k \in S : k <= i}]
           V == [i \in S |-> {k \in S : k >= i}]
<1>1. \E i \in S : Cardinality(U[i]) = n
  <2>1. U \in [S -> SUBSET S] /\ \A i \in S : i \in U[i]
    OBVIOUS
  <2>2. ASSUME NEW i \in S, NEW k \in S, i # k
        PROVE  (U[i] \subseteq U[k] /\ k \notin U[i]) \/ (U[k] \subseteq U[i] /\ i \notin U[k])
    <3>1. i \in Nat /\ k \in Nat /\ \A x \in S : x \in Nat
      OBVIOUS
    <3>2. CASE i < k
      <4>1. ~(k <= i) /\ \A x \in S : x <= i => x <= k
        BY <3>1, <3>2
      <4> QED
        BY <4>1
    <3>3. CASE k < i
      <4>1. ~(i <= k) /\ \A x \in S : x <= k => x <= i
        BY <3>1, <3>3
      <4> QED
        BY <4>1
    <3> QED
      BY <2>2, <3>1, <3>2, <3>3
  <2> HIDE DEF U
  <2>3. \A i, k \in S : i # k => (U[i] \subseteq U[k] /\ k \notin U[i]) \/ (U[k] \subseteq U[i] /\ i \notin U[k])
    BY <2>2
  <2>4. U \in [S -> SUBSET S]
    BY <2>1
  <2>5. \A i \in S : i \in U[i]
    BY <2>1
  <2> QED
    <3>1. \A x \in 1..Cardinality(S) : \E i \in S : Cardinality(U[i]) = x
      BY <2>3, <2>4, <2>5, RankOnto, ZenonT(40)
    <3> QED
      BY <3>1
<1>2. \E i \in S : Cardinality(V[i]) = n
  <2>1. V \in [S -> SUBSET S] /\ \A i \in S : i \in V[i]
    OBVIOUS
  <2>2. ASSUME NEW i \in S, NEW k \in S, i # k
        PROVE  (V[i] \subseteq V[k] /\ k \notin V[i]) \/ (V[k] \subseteq V[i] /\ i \notin V[k])
    <3>1. i \in Nat /\ k \in Nat /\ \A x \in S : x \in Nat
      OBVIOUS
    <3>2. CASE i > k
      <4>1. ~(k >= i) /\ \A x \in S : x >= i => x >= k
        BY <3>1, <3>2
      <4> QED
        BY <4>1
    <3>3. CASE k > i
      <4>1. ~(i >= k) /\ \A x \in S : x >= k => x >= i
        BY <3>1, <3>3
      <4> QED
        BY <4>1
    <3> QED
      BY <2>2, <3>1, <3>2, <3>3
  <2> HIDE DEF V
  <2>3. \A i, k \in S : i # k => (V[i] \subseteq V[k] /\ k \notin V[i]) \/ (V[k] \subseteq V[i] /\ i \notin V[k])
    BY <2>2
  <2>4. V \in [S -> SUBSET S]
    BY <2>1
  <2>5. \A i \in S : i \in V[i]
    BY <2>1
  <2> QED
    <3>1. \A x \in 1..Cardinality(S) : \E i \in S : Cardinality(V[i]) = x
      BY <2>3, <2>4, <2>5, RankOnto, ZenonT(40)
    <3> QED
      BY <3>1
<1> QED
  BY <1>1, <1>2

\* Micro-compaction empties texts and moves nothing.
LEMMA MicroSettled ==
  ASSUME NEW m, Settled(m), NEW keep
  PROVE  Settled(Microcompact(m, keep))
<1> DEFINE r == Microcompact(m, keep)
<1>1. m \in Seq(Speech) /\ DOMAIN m = 1..Len(m) /\ Len(m) \in Nat
  BY DEF Settled
<1>2. DOMAIN r = DOMAIN m /\ \A i \in DOMAIN m : r[i] = m[i] \/ r[i] = [m[i] EXCEPT !.text = "cleared"]
  BY DEF Microcompact
<1> HIDE DEF r
<1>3. ASSUME NEW i \in DOMAIN m
      PROVE  r[i] \in Speech /\ r[i].role = m[i].role /\ r[i].id = m[i].id /\ r[i].calls = m[i].calls
  <2>1. m[i] \in Speech
    BY <1>1
  <2>2. PICK x : x = m[i]
    OBVIOUS
  <2>3. r[i] = x \/ r[i] = [x EXCEPT !.text = "cleared"]
    BY <1>2, <2>2
  <2>4. "cleared" \in Words
    BY DEF Words, Asked, Edited, Spoken
  <2>5. /\ [x EXCEPT !.text = "cleared"] \in Speech
        /\ [x EXCEPT !.text = "cleared"].role = x.role /\ [x EXCEPT !.text = "cleared"].id = x.id
        /\ [x EXCEPT !.text = "cleared"].calls = x.calls
    BY <2>1, <2>2, <2>4 DEF Speech
  <2> QED
    BY <2>1, <2>2, <2>3, <2>5
<1>4. r \in Seq(Speech) /\ Len(r) = Len(m)
  <2>1. r = [i \in 1..Len(m) |-> r[i]]
    BY <1>1 DEF Microcompact, r
  <2>2. r \in [1..Len(m) -> Speech]
    BY <1>1, <1>3, <2>1
  <2> QED
    BY <1>1, <2>2, SeqDef, LenProperties
<1>5. \A role : Positions(r, role) = Positions(m, role)
  BY <1>2, <1>3 DEF Positions
<1>6. ASSUME NEW k \in Positions(r, "tool") PROVE Owned(r, k)
  <2>1. PICK i \in Positions(m, "assistant") :
          i < k /\ m[k].id \in m[i].calls /\ \A n \in (i + 1)..k : m[n].role = "tool"
    BY <1>5 DEF Settled, AllOwned, Owned
  <2>2. k \in DOMAIN m /\ i \in DOMAIN m
    BY <1>5 DEF Positions
  <2>3. \A n \in (i + 1)..k : n \in DOMAIN m
    BY <1>1, <2>2
  <2> QED
    BY <1>3, <1>5, <2>1, <2>2, <2>3 DEF Owned
<1>7. ASSUME NEW i \in Positions(r, "assistant") PROVE Closed(r, i)
  <2>1. PICK e \in i..Len(m) : Results(m, i, e, m[i].calls) /\ (e = Len(m) \/ m[e + 1].role # "tool")
    BY <1>5 DEF Settled, Closed
  <2>2. i \in DOMAIN m /\ i \in 1..Len(m)
    BY <1>1, <1>5 DEF Positions
  <2>3. \A n \in (i + 1)..e : n \in DOMAIN m
    BY <1>1, <2>2
  <2>4. {r[k].id : k \in (i + 1)..e} = {m[k].id : k \in (i + 1)..e}
    BY <1>3, <2>3
  <2>5. Results(r, i, e, r[i].calls)
    BY <1>3, <1>4, <2>1, <2>2, <2>3, <2>4 DEF Results
  <2>6. e = Len(r) \/ r[e + 1].role # "tool"
    <3>1. CASE e = Len(m)
      BY <1>4, <3>1
    <3>2. CASE e # Len(m)
      <4>1. e + 1 \in DOMAIN m
        <5> DEFINE L == Len(m)
        <5>2. e \in i..L /\ e # L /\ L \in Nat /\ i \in 1..L
          BY <1>1, <2>2, <3>2
        <5> HIDE DEF L
        <5>3. e + 1 \in 1..L
          BY <5>2
        <5>1. e + 1 \in 1..Len(m)
          BY <5>3 DEF L
        <5> QED
          BY <1>1, <5>1
      <4> QED
        BY <1>3, <2>1, <3>2, <4>1
    <3> QED
      BY <3>1, <3>2
  <2> QED
    BY <1>4, <2>5, <2>6 DEF Closed
<1>8. Settled(r)
  BY <1>4, <1>6, <1>7 DEF Settled, AllOwned
<1> QED
  BY <1>8 DEF r

\* Full compaction cuts before a message of the user, or keeps nothing.
LEMMA FullSettled ==
  ASSUME NEW m, Settled(m), NEW keep \in Nat, NeedsSummary(m, keep)
  PROVE  Settled(FullCompact(m, keep))
<1> DEFINE c == Cut(m, keep)
           L == Len(m)
           r == FullCompact(m, keep)
           head == <<User("summary"), System("boundary")>>
           tail == SubSeq(m, c, L)
<1>1. m \in Seq(Speech) /\ DOMAIN m = 1..L /\ L \in Nat
  BY DEF Settled
<1>2. c \in 1..(L + 1) /\ (c = L + 1 \/ m[c].role # "tool")
  <2>1. CASE keep = 0
    BY <1>1, <2>1 DEF Cut
  <2>2. CASE keep # 0
    <3> DEFINE S == TurnIndex(m)
    <3>1. S \subseteq 1..L /\ S \in SUBSET Nat /\ \A i \in S : m[i].role = "user"
      BY <1>1 DEF TurnIndex, Positions
    <3>2. IsFiniteSet(S) /\ Cardinality(S) \in Nat /\ Cardinality(S) > keep
      <4>1. IsFiniteSet(1..L)
        BY <1>1, FS_Interval
      <4>2. IsFiniteSet(S)
        BY <3>1, <4>1, FS_Subset
      <4> QED
        BY <4>2, FS_CardinalityType DEF NeedsSummary
    <3>3. keep \in 1..Cardinality(S)
      BY <2>2, <3>2
    <3>4. c = CHOOSE i \in S : Cardinality({k \in S : k >= i}) = keep
      BY <2>2 DEF Cut
    <3> HIDE DEF S, c
    <3>5. \E i \in S : Cardinality({k \in S : k >= i}) = keep
      BY <3>1, <3>2, <3>3, RankFrom
    <3>6. c \in S
      BY <3>4, <3>5
    <3> QED
      BY <1>1, <3>1, <3>6
  <2> QED
    BY <2>1, <2>2
<1>3. r = head \o tail
  BY DEF FullCompact
<1> HIDE DEF c, r
<1>4. head \in Seq(Speech) /\ Len(head) = 2 /\ head[1].role = "user" /\ head[2].role = "system"
  <2> DEFINE x == User("summary")
             y == System("boundary")
  <2>1. x \in Speech /\ y \in Speech /\ x.role = "user" /\ y.role = "system"
    <3>1. "summary" \in Words /\ "boundary" \in Words
      BY DEF Words, Asked, Edited, Spoken
    <3> QED
      BY <3>1, SaidBySome
  <2> HIDE DEF x, y
  <2>2. head = <<x, y>>
    BY DEF x, y
  <2> QED
    BY <2>1, <2>2
<1>5. tail \in Seq(Speech) /\ Len(tail) = L - c + 1 /\ \A k \in 1..(L - c + 1) : tail[k] = m[c + k - 1]
  <2>1. c \in 1..(L + 1) /\ L \in 0..L
    BY <1>1, <1>2
  <2>2. c..L \subseteq DOMAIN m
    BY <1>1, <1>2
  <2> HIDE DEF L
  <2>3. tail = [k \in 1..(L - c + 1) |-> m[c + k - 1]]
    BY <2>1 DEF SubSeq
  <2>4. \A k \in 1..(L - c + 1) : m[c + k - 1] \in Speech
    BY <1>1, <1>2 DEF L
  <2>5. L - c + 1 \in Nat
    BY <1>1, <1>2
  <2> HIDE DEF tail
  <2> QED
    BY <2>3, <2>4, <2>5, SeqDef, LenProperties
<1> HIDE DEF head, tail
<1>6. r \in Seq(Speech) /\ Len(r) = 2 + L - (c - 1)
  <2>1. r \in Seq(Speech) /\ Len(r) = Len(head) + Len(tail)
    BY <1>3, <1>4, <1>5, ConcatProperties
  <2>2. 2 + (L - c + 1) = 2 + L - (c - 1)
    BY <1>1, <1>2
  <2> QED
    BY <1>4, <1>5, <2>1, <2>2
<1>7. \A k \in 1..2 : r[k].role \notin {"tool", "assistant"}
  <2>1. \A k \in 1..(Len(head) + Len(tail)) :
           (head \o tail)[k] = IF k <= Len(head) THEN head[k] ELSE tail[k - Len(head)]
    BY <1>4, <1>5, ConcatProperties
  <2>2. Len(tail) \in Nat /\ Len(head) = 2
    BY <1>4, <1>5
  <2>3. \A k \in 1..2 : r[k] = head[k]
    BY <1>3, <2>1, <2>2
  <2>4. \A k \in 1..2 : k = 1 \/ k = 2
    OBVIOUS
  <2> QED
    BY <1>4, <2>3, <2>4
<1>8. \A k \in (2 + 1)..Len(r) : r[k] = m[k - 2 + (c - 1)]
  <2> SUFFICES ASSUME NEW k \in (2 + 1)..Len(r) PROVE r[k] = m[k - 2 + (c - 1)]
    OBVIOUS
  <2>1. r[k] = tail[k - 2]
    BY <1>1, <1>2, <1>3, <1>4, <1>5, <1>6
  <2>2. k - 2 \in 1..(L - c + 1) /\ c + (k - 2) - 1 = k - 2 + (c - 1)
    BY <1>1, <1>2, <1>6
  <2> QED
    BY <1>5, <2>1, <2>2
<1> DEFINE o == c - 1
<1>9. o \in 0..L /\ (o = L \/ m[o + 1].role # "tool") /\ Len(r) = 2 + L - o
  BY <1>1, <1>2, <1>6
<1>10. \A k \in (2 + 1)..Len(r) : r[k] = m[k - 2 + o]
  BY <1>8
<1> HIDE DEF o
<1>11. Settled(r)
  BY <1>6, <1>7, <1>9, <1>10, Spliced
<1> QED
  BY <1>11 DEF r

\* What the request puts in front.
LEMMA ApiSettled ==
  ASSUME NEW m, Settled(m), NEW attached
  PROVE  Settled(ApiMessages(attached, m))
<1> DEFINE head == <<System("prompt")>> \o (IF attached THEN <<User("reminder")>> ELSE <<>>)
           d == Len(head)
           r == head \o m
<1>1. m \in Seq(Speech) /\ Len(m) \in Nat
  BY DEF Settled
<1>2. head \in Seq(Speech) /\ d \in Nat /\ \A k \in 1..d : head[k].role \notin {"tool", "assistant"}
  <2> DEFINE x == System("prompt")
             y == User("reminder")
  <2>1. x \in Speech /\ y \in Speech /\ x.role = "system" /\ y.role = "user"
    <3>1. "prompt" \in Words /\ "reminder" \in Words
      BY DEF Words, Asked, Edited, Spoken
    <3> QED
      BY <3>1, SaidBySome
  <2>2. head = <<x>> \o (IF attached THEN <<y>> ELSE <<>>)
    OBVIOUS
  <2> HIDE DEF head, x, y
  <2>3. CASE attached
    <3>1. head = <<x>> \o <<y>>
      BY <2>2, <2>3
    <3> QED
      BY <2>1, <3>1 DEF d
  <2>4. CASE ~attached
    <3>1. head = <<x>>
      BY <2>1, <2>2, <2>4
    <3> QED
      BY <2>1, <3>1 DEF d
  <2> QED
    BY <2>3, <2>4
<1>3. r = ApiMessages(attached, m)
  BY <1>1, <1>2 DEF ApiMessages
<1> HIDE DEF head
<1>4. r \in Seq(Speech) /\ Len(r) = d + Len(m) - 0 /\ 0 \in 0..Len(m)
  BY <1>1, <1>2
<1>5. \A k \in 1..d : r[k].role \notin {"tool", "assistant"}
  BY <1>1, <1>2
<1>6. \A k \in (d + 1)..Len(r) : r[k] = m[k - d + 0]
  BY <1>1, <1>2, <1>4
<1>7. 0 = Len(m) \/ m[0 + 1].role # "tool"
  <2>1. CASE Len(m) = 0
    BY <2>1
  <2>2. CASE Len(m) # 0 /\ m[1].role = "tool"
    <3>1. 1 \in Positions(m, "tool")
      BY <1>1, <2>2 DEF Positions
    <3>2. PICK i \in Positions(m, "assistant") : i < 1
      BY <3>1 DEF Settled, AllOwned, Owned
    <3> QED
      BY <1>1, <3>2 DEF Positions
  <2> QED
    BY <2>1, <2>2
<1> HIDE DEF r, d
<1>8. Settled(r)
  BY <1>2, <1>4, <1>5, <1>6, <1>7, Spliced
<1> QED
  BY <1>3, <1>8

-----------------------------------------------------------------------------
(* A settled list is paired, in both dialects. *)

\* The least of some numbers, once it is known.
LEMMA MinIs ==
  ASSUME NEW S \in SUBSET Int, NEW x \in S, \A y \in S : x <= y
  PROVE  Min(S) = x
<1> DEFINE least == CHOOSE z \in S : \A y \in S : z <= y
<1>1. least \in S /\ \A y \in S : least <= y
  OBVIOUS
<1>2. least = x
  <2>1. least <= x /\ x <= least /\ least \in Int /\ x \in Int
    BY <1>1
  <2> HIDE DEF least
  <2> QED
    BY <2>1
<1> QED
  BY <1>2 DEF Min

\* In the OpenAI dialect the list goes over the wire as it is.
LEMMA SettledOpenai ==
  ASSUME NEW m, Settled(m)
  PROVE  PairedOpenai(m)
<1> DEFINE L == Len(m)
<1>1. L \in Nat /\ DOMAIN m = 1..L
  BY DEF Settled
<1>2. ASSUME NEW i \in Positions(m, "assistant")
      PROVE  LET next == {k \in (i + 1)..Len(m) : m[k].role # "tool"}
                 end == IF next = {} THEN Len(m) ELSE Min(next) - 1
             IN  /\ {m[k].id : k \in (i + 1)..end} = m[i].calls
                 /\ end - i = Cardinality(m[i].calls)
  <2> DEFINE next == {k \in (i + 1)..L : m[k].role # "tool"}
             end == IF next = {} THEN L ELSE Min(next) - 1
  <2>1. i \in 1..L
    BY <1>1 DEF Positions
  <2>2. PICK e \in i..L : Results(m, i, e, m[i].calls) /\ (e = L \/ m[e + 1].role # "tool")
    BY DEF Settled, Closed
  <2>3. end = e
    <3>1. CASE e = L
      <4>1. next = {}
        BY <2>2, <3>1 DEF Results
      <4> QED
        BY <3>1, <4>1
    <3>2. CASE e # L
      <4> HIDE DEF L
      <4>1. e + 1 \in next
        BY <1>1, <2>1, <2>2, <3>2
      <4>2. ASSUME NEW k \in next PROVE e + 1 <= k
        <5>1. k \in (i + 1)..L /\ ~(k \in (i + 1)..e)
          BY <2>2 DEF Results
        <5> QED
          BY <1>1, <2>1, <5>1
      <4>3. next \in SUBSET Int
        BY <1>1, <2>1
      <4> HIDE DEF next
      <4>4. Min(next) = e + 1
        BY <4>1, <4>2, <4>3, MinIs
      <4>5. next # {}
        BY <4>1
      <4> QED
        BY <1>1, <2>1, <4>4, <4>5
    <3> QED
      BY <3>1, <3>2
  <2> HIDE DEF end
  <2>4. {m[k].id : k \in (i + 1)..end} = m[i].calls /\ end - i = Cardinality(m[i].calls)
    BY <2>2, <2>3 DEF Results
  <2> QED
    BY <2>4 DEF end
<1> QED
  BY <1>2 DEF PairedOpenai, Settled, AllOwned, Owned

Rank(S, i) == Cardinality({k \in S : k <= i})

\* The positions of a finite set are numbered by their rank.
LEMMA NthRank ==
  ASSUME NEW S \in SUBSET Nat, IsFiniteSet(S)
  PROVE  /\ \A n \in 1..Cardinality(S) : Nth(S, n) \in S /\ Rank(S, Nth(S, n)) = n
         /\ \A i \in S : Rank(S, i) \in 1..Cardinality(S) /\ Nth(S, Rank(S, i)) = i
<1>1. ASSUME NEW n \in 1..Cardinality(S) PROVE Nth(S, n) \in S /\ Rank(S, Nth(S, n)) = n
  <2>1. \E i \in S : Rank(S, i) = n
    BY RankFrom DEF Rank
  <2>2. Nth(S, n) = CHOOSE i \in S : Rank(S, i) = n
    BY DEF Nth, Rank
  <2> QED
    BY <2>1, <2>2
<1>2. Cardinality(S) \in Nat
  BY FS_CardinalityType
<1>3. ASSUME NEW i \in S PROVE Rank(S, i) \in 1..Cardinality(S)
  <2> DEFINE B == {k \in S : k <= i}
  <2>1. B \in SUBSET S /\ i \in B
    OBVIOUS
  <2> HIDE DEF B
  <2>2. IsFiniteSet(B) /\ Cardinality(B) <= Cardinality(S) /\ Cardinality(B) \in Nat /\ Cardinality(B) # 0
    BY <2>1, FS_Subset, FS_CardinalityType, FS_EmptySet
  <2>3. Cardinality(B) \in 1..Cardinality(S)
    BY <1>2, <2>2
  <2> QED
    BY <2>3 DEF B, Rank
<1>4. ASSUME NEW i \in S, NEW k \in S, i < k PROVE Rank(S, i) # Rank(S, k)
  <2> DEFINE A == {x \in S : x <= i}
             B == {x \in S : x <= k}
  <2>1. A \in SUBSET B /\ k \in B /\ k \notin A /\ B \in SUBSET S
    <3>1. ~(k <= i) /\ k <= k /\ \A x \in S : x <= i => x <= k
      BY <1>4
    <3> QED
      BY <3>1
  <2> HIDE DEF A, B
  <2>2. IsFiniteSet(B)
    BY <2>1, FS_Subset
  <2>3. Cardinality(A) # Cardinality(B)
    BY <2>1, <2>2, FS_Subset
  <2> QED
    BY <2>3 DEF A, B, Rank
<1>5. ASSUME NEW i \in S PROVE Nth(S, Rank(S, i)) = i
  <2> DEFINE k == Nth(S, Rank(S, i))
  <2>1. k \in S /\ Rank(S, k) = Rank(S, i)
    BY <1>1, <1>3
  <2> HIDE DEF k
  <2>2. ~(i < k) /\ ~(k < i) /\ i \in Nat /\ k \in Nat
    BY <1>4, <2>1
  <2>3. k = i
    BY <2>2
  <2> QED
    BY <2>3 DEF k
<1> QED
  BY <1>1, <1>3, <1>5

\* Two that follow each other have ranks that do.
LEMMA RankNext ==
  ASSUME NEW S \in SUBSET Nat, IsFiniteSet(S), NEW i \in S, NEW k \in S, i < k, \A x \in S : ~(i < x /\ x < k)
  PROVE  Rank(S, k) = Rank(S, i) + 1
<1> DEFINE A == {x \in S : x <= i}
           B == {x \in S : x <= k}
<1>1. B = A \cup {k} /\ k \notin A
  <2>1. ASSUME NEW x \in S PROVE x <= k <=> x <= i \/ x = k
    BY <2>1
  <2>2. ~(k <= i)
    OBVIOUS
  <2> QED
    BY <2>1, <2>2
<1>2. IsFiniteSet(A)
  BY FS_Subset
<1>3. Cardinality(B) = Cardinality(A) + 1
  BY <1>1, <1>2, FS_AddElement
<1> QED
  BY <1>3 DEF Rank

\* What a wire message is made of.
LEMMA WireParts ==
  ASSUME NEW m, NEW i
  PROVE  /\ m[i].role = "assistant" => ConvertMessage(m, i).uses = m[i].calls /\ ConvertMessage(m, i).results = {}
         /\ m[i].role = "tool" =>
              /\ ConvertMessage(m, i).uses = {}
              /\ ConvertMessage(m, i).results = {m[k].id : k \in ToolRun(m, i)}
         /\ m[i].role \notin {"assistant", "tool"} =>
              ConvertMessage(m, i).uses = {} /\ ConvertMessage(m, i).results = {}
BY DEF ConvertMessage, Wire

\* Wire messages begin at finitely many positions of the list.
LEMMA BeginsFinite ==
  ASSUME NEW m, m \in Seq(Speech)
  PROVE  Begins(m) \subseteq DOMAIN m /\ Begins(m) \in SUBSET Nat /\ IsFiniteSet(Begins(m))
<1> DEFINE L == Len(m)
<1>1. DOMAIN m = 1..L /\ L \in Nat
  OBVIOUS
<1>2. Begins(m) \subseteq DOMAIN m
  BY DEF Begins
<1> HIDE DEF L
<1>3. IsFiniteSet(1..L) /\ 1..L \subseteq Nat
  BY <1>1, FS_Interval
<1> QED
  BY <1>1, <1>2, <1>3, FS_Subset

\* An assistant message with calls has their results in the wire message that follows its own.
LEMMA CallsFollowed ==
  ASSUME NEW m, Settled(m), NEW i \in Positions(m, "assistant"), m[i].calls # {}
  PROVE  /\ i \in Begins(m) /\ i + 1 \in Begins(m) /\ m[i + 1].role = "tool"
         /\ {m[k].id : k \in ToolRun(m, i + 1)} = m[i].calls
         /\ Rank(Begins(m), i + 1) = Rank(Begins(m), i) + 1
<1> DEFINE L == Len(m)
           B == Begins(m)
<1>1. L \in Nat /\ DOMAIN m = 1..L /\ i \in 1..L /\ m[i].role = "assistant"
  BY DEF Settled, Positions
<1>2. PICK e \in i..L : Results(m, i, e, m[i].calls) /\ (e = L \/ m[e + 1].role # "tool")
  BY DEF Settled, Closed
<1>3. e # i
  <2>1. CASE e = i
    <3>1. (i + 1)..e = {}
      BY <1>1, <2>1
    <3> QED
      BY <1>2, <3>1 DEF Results
  <2> QED
    BY <2>1
<1> HIDE DEF L
<1>4. i + 1 \in (i + 1)..e /\ i + 1 \in 1..L /\ i + 1 # 1 /\ (i + 1) - 1 = i
  BY <1>1, <1>2, <1>3
<1>5. m[i + 1].role = "tool"
  BY <1>2, <1>4 DEF Results
<1>6. i \in B /\ i + 1 \in B
  <2>1. m[(i + 1) - 1].role # "tool"
    BY <1>1, <1>4
  <2>2. i + 1 \in B
    BY <1>1, <1>4, <1>5, <2>1 DEF Begins
  <2>3. i \in B
    BY <1>1 DEF Begins
  <2> QED
    BY <2>2, <2>3
<1>7. ToolRun(m, i + 1) = (i + 1)..e
  <2>1. ASSUME NEW k \in (i + 1)..e PROVE k \in ToolRun(m, i + 1)
    <3>1. k \in (i + 1)..L /\ \A n \in (i + 1)..k : n \in (i + 1)..e
      BY <1>1, <1>2
    <3> QED
      BY <1>2, <3>1 DEF ToolRun, Results, L
  <2>2. ASSUME NEW k \in ToolRun(m, i + 1) PROVE k \in (i + 1)..e
    <3>1. k \in (i + 1)..L /\ \A n \in (i + 1)..k : m[n].role = "tool"
      BY DEF ToolRun, L
    <3>2. CASE e = L
      BY <3>1, <3>2
    <3>3. CASE e # L
      <4>1. ~(e + 1 \in (i + 1)..k)
        BY <1>2, <3>1, <3>3
      <4> QED
        BY <1>1, <1>2, <3>1, <4>1
    <3> QED
      BY <3>2, <3>3
  <2> QED
    BY <2>1, <2>2
<1>8. B \in SUBSET Nat /\ IsFiniteSet(B)
  BY BeginsFinite DEF Settled
<1> HIDE DEF B
<1>9. i < i + 1 /\ \A x \in B : ~(i < x /\ x < i + 1)
  <2>1. i \in Nat /\ \A x \in B : x \in Nat
    BY <1>1, <1>8
  <2>2. \A x \in Nat : ~(i < x /\ x < i + 1)
    BY <2>1
  <2> QED
    BY <2>1, <2>2
<1>10. Rank(B, i + 1) = Rank(B, i) + 1
  BY <1>6, <1>8, <1>9, RankNext
<1>11. {m[k].id : k \in ToolRun(m, i + 1)} = m[i].calls
  BY <1>2, <1>7 DEF Results
<1> QED
  BY <1>5, <1>6, <1>10, <1>11 DEF B

\* In the Anthropic dialect the results follow the calls in the next wire message.
LEMMA SettledAnthropic ==
  ASSUME NEW m, Settled(m)
  PROVE  PairedAnthropic(ConvertMessages(m))
<1> DEFINE L == Len(m)
           B == Begins(m)
           C == Cardinality(B)
           w == ConvertMessages(m)
<1>1. L \in Nat /\ DOMAIN m = 1..L
  BY DEF Settled
<1>2. B \in SUBSET Nat /\ IsFiniteSet(B) /\ C \in Nat /\ B \subseteq 1..L
  BY <1>1, BeginsFinite, FS_CardinalityType DEF Settled
<1>3. w = [n \in 1..C |-> ConvertMessage(m, Nth(B, n))]
  BY DEF ConvertMessages
<1>4. /\ DOMAIN w = 1..C /\ Len(w) = C
      /\ \A n \in 1..C : w[n] = ConvertMessage(m, Nth(B, n))
  BY <1>2, <1>3, LenProperties
<1>5. /\ \A n \in 1..C : Nth(B, n) \in B /\ Rank(B, Nth(B, n)) = n
      /\ \A i \in B : Rank(B, i) \in 1..C /\ Nth(B, Rank(B, i)) = i
  BY <1>2, NthRank
<1> HIDE DEF w, C
<1>6. ASSUME NEW n \in 1..C, NEW i, i = Nth(B, n), i \in Positions(m, "assistant"), m[i].calls # {}
      PROVE  n < C /\ w[n].uses = m[i].calls /\ w[n + 1].results = m[i].calls
  <2>1. /\ i + 1 \in B /\ m[i + 1].role = "tool" /\ m[i].role = "assistant"
        /\ {m[k].id : k \in ToolRun(m, i + 1)} = m[i].calls
        /\ Rank(B, i + 1) = Rank(B, i) + 1
    BY <1>6, CallsFollowed DEF Positions
  <2>2. Rank(B, i) = n
    BY <1>5, <1>6
  <2>3. n + 1 \in 1..C /\ Nth(B, n + 1) = i + 1
    BY <1>5, <2>1, <2>2
  <2>4. w[n + 1] = ConvertMessage(m, i + 1) /\ w[n] = ConvertMessage(m, i)
    BY <1>4, <1>6, <2>3
  <2>5. n < C
    BY <1>2, <2>3
  <2>6. w[n].uses = m[i].calls
    BY <2>1, <2>4, WireParts
  <2>7. w[n + 1].results = {m[k].id : k \in ToolRun(m, i + 1)}
    BY <2>1, <2>4, WireParts
  <2> QED
    BY <2>1, <2>5, <2>6, <2>7
<1>7. ASSUME NEW n \in 1..C
      PROVE  /\ w[n].uses # {} => n < Len(w) /\ w[n + 1].results = w[n].uses
             /\ w[n].results # {} => n > 1 /\ w[n - 1].uses = w[n].results
  <2>0. PICK i : i = Nth(B, n)
    OBVIOUS
  <2>1. i \in B /\ i \in DOMAIN m /\ Rank(B, i) = n /\ w[n] = ConvertMessage(m, i) /\ i \in 1..L
    BY <1>1, <1>2, <1>4, <1>5, <2>0
  <2>2. CASE w[n].uses # {}
    <3>1. m[i].role = "assistant" /\ m[i].calls = w[n].uses
      BY <2>1, <2>2, WireParts
    <3>2. i \in Positions(m, "assistant") /\ m[i].calls # {}
      BY <2>1, <2>2, <3>1 DEF Positions
    <3>3. n < C /\ w[n + 1].results = m[i].calls
      BY <1>6, <2>0, <3>2
    <3>4. w[n].results = {}
      BY <2>1, <3>1, WireParts
    <3> QED
      BY <1>4, <3>1, <3>3, <3>4
  <2>3. CASE w[n].results # {}
    <3>1. m[i].role = "tool" /\ w[n].uses = {}
      BY <2>1, <2>3, WireParts
    <3>2. i = 1 \/ m[i - 1].role # "tool"
      BY <2>1, <3>1 DEF Begins
    <3>3. PICK o \in Positions(m, "assistant") :
            o < i /\ m[i].id \in m[o].calls /\ \A k \in (o + 1)..i : m[k].role = "tool"
      BY <2>1, <3>1 DEF Settled, AllOwned, Owned, Positions
    <3>4. o \in 1..L /\ m[o].calls # {}
      BY <1>1, <3>3 DEF Positions
    <3>5. o = i - 1 /\ i = o + 1
      <4>1. i # 1
        BY <1>1, <2>1, <3>3, <3>4
      <4>2. ~(i - 1 \in (o + 1)..i)
        BY <3>2, <3>3, <4>1
      <4> HIDE DEF L
      <4> QED
        BY <1>1, <2>1, <3>3, <3>4, <4>2
    <3>6. o \in B /\ Rank(B, i) = Rank(B, o) + 1
      BY <3>4, <3>5, CallsFollowed
    <3>7. PICK p : p = Rank(B, o)
      OBVIOUS
    <3>8. p \in 1..C /\ Nth(B, p) = o /\ n = p + 1
      BY <1>5, <2>1, <3>6, <3>7
    <3>9. p < C /\ w[p].uses = m[o].calls /\ w[p + 1].results = m[o].calls
      BY <1>6, <3>4, <3>8
    <3>10. n > 1 /\ n - 1 = p
      BY <1>2, <3>8
    <3> QED
      BY <3>1, <3>8, <3>9, <3>10
  <2> QED
    BY <2>2, <2>3
<1>8. PairedAnthropic(w)
  BY <1>4, <1>7 DEF PairedAnthropic
<1> QED
  BY <1>8 DEF w

-----------------------------------------------------------------------------
(* Every list on its way is settled, or open in the calls that still run. *)

\* The list of a turn.  A turn that ran out of its budget stopped before its
\* tools: nobody takes its list.
TurnTalk(t) ==
    /\ t.st \in {"none", "call", "sleep"} => Settled(t.msgs)
    /\ t.st = "tools" => t.todo # {} /\ Open(t.msgs, t.todo)
    /\ t.st = "done" /\ t.stop # "token_budget" => Settled(t.msgs)

\* The history of a job, which is shortened at a turn that is there.
JobTalk(j) ==
    /\ Settled(job[j].hist)
    /\ job[j].st = "wait" /\ Step(j) = "full" => NeedsSummary(job[j].hist, JobOf(j).keep)

TalkInv ==
    /\ \A j \in Jobs, n \in 1..MaxSteps : TurnTalk(turn[j][n])
    /\ \A c \in calls : Settled(c.msgs)
    /\ \A j \in Jobs : JobTalk(j)

\* One step of one turn, with the requests it makes or ends.
LEMMA TurnTalks ==
  ASSUME PaidInv, TalkInv, NEW j \in Jobs, NEW n \in 1..MaxSteps, NEW t, TurnTalk(t),
         turn' = [turn EXCEPT ![j][n] = t],
         \A c \in calls' : c \in calls \/ Settled(c.msgs)
  PROVE  /\ \A k \in Jobs, m \in 1..MaxSteps : TurnTalk(turn'[k][m])
         /\ \A c \in calls' : Settled(c.msgs)
<1>1. turn'[j][n] = t /\ \A k \in Jobs, m \in 1..MaxSteps : k # j \/ m # n => turn'[k][m] = turn[k][m]
  BY DEF PaidInv, TurnInv
<1>2. ASSUME NEW k \in Jobs, NEW m \in 1..MaxSteps PROVE TurnTalk(turn'[k][m])
  <2>1. CASE k = j /\ m = n
    BY <1>1, <2>1
  <2>2. CASE k # j \/ m # n
    <3>1. turn'[k][m] = turn[k][m] /\ TurnTalk(turn[k][m])
      BY <1>1, <2>2 DEF TalkInv
    <3> QED
      BY <3>1
  <2> QED
    BY <2>1, <2>2
<1>3. \A c \in calls' : Settled(c.msgs)
  BY DEF TalkInv
<1> QED
  BY <1>2, <1>3

\* Without a step of a job the histories stay what they are.
LEMMA JobsTalk ==
  ASSUME TalkInv, UNCHANGED <<job, script>>
  PROVE  \A j \in Jobs : JobTalk(j)'
<1> SUFFICES ASSUME NEW j \in Jobs PROVE JobTalk(j)'
  OBVIOUS
<1>1. JobTalk(j)
  BY DEF TalkInv
<1> QED
  BY <1>1 DEF JobTalk, Step, Steps, JobOf

\* The list of a request is settled if that of its turn is.
LEMMA CallSettled ==
  ASSUME NEW j, NEW n, NEW t, Settled(t.msgs)
  PROVE  Settled(Call(j, n, t).msgs)
<1>1. Settled(ApiMessages(JobOf(j).attach, t.msgs))
  BY ApiSettled
<1>2. Call(j, n, t).msgs = ApiMessages(JobOf(j).attach, t.msgs)
  BY DEF Call
<1> QED
  BY <1>1, <1>2

\* The lists the jobs ask with.
LEMMA OneSettled ==
    /\ Settled(<<>>)
    /\ \A text \in Words : Settled(<<User(text)>>)
<1>1. Settled(<<>>)
  <2>1. <<>> \in Seq(Speech) /\ DOMAIN <<>> = {}
    OBVIOUS
  <2>2. \A role : Positions(<<>>, role) = {}
    BY <2>1 DEF Positions
  <2> QED
    BY <2>1, <2>2 DEF Settled, AllOwned
<1>2. ASSUME NEW text \in Words PROVE Settled(<<User(text)>>)
  <2> DEFINE x == User(text)
  <2>1. x \in Speech /\ x.role \notin {"tool", "assistant"}
    BY SaidBySome
  <2> HIDE DEF x
  <2>2. Settled(Append(<<>>, x))
    BY <1>1, <2>1, Said
  <2>3. Append(<<>>, x) = <<x>>
    OBVIOUS
  <2> QED
    BY <2>2, <2>3 DEF x
<1> QED
  BY <1>1, <1>2

\* What the driver makes of a reply, ...
LEMMA ReplyTalks ==
  ASSUME NEW j, NEW t, TurnRecord(t), Settled(t.msgs), NEW reply, reply.calls \in CallSets,
         AssistantMessage(reply) \in Speech
  PROVE  TurnTalk(OnReply(j, t, reply))
<1> DEFINE x == AssistantMessage(reply)
           k == t.tokens + 1
           s == [t EXCEPT !.msgs = Append(t.msgs, x), !.content = reply.content, !.tokens = k]
<1>1. x.role = "assistant" /\ x.calls = reply.calls
  BY DEF AssistantMessage, Message
<1>2. Open(Append(t.msgs, x), reply.calls)
  BY <1>1, Replied
<1>3. OnReply(j, t, reply) =
        CASE reply.calls = {} -> Ended(s, "complete")
          [] reply.calls # {} /\ s.tokens >= JobOf(j).budget -> Ended(s, "token_budget")
          [] OTHER -> [s EXCEPT !.st = "tools", !.todo = reply.calls]
  BY DEF OnReply
<1> HIDE DEF x, k
<1>4. /\ \A y : Ended(s, y).st = "done" /\ Ended(s, y).stop = y /\ Ended(s, y).msgs = Append(t.msgs, x)
      /\ [s EXCEPT !.st = "tools", !.todo = reply.calls].st = "tools"
      /\ [s EXCEPT !.st = "tools", !.todo = reply.calls].todo = reply.calls
      /\ [s EXCEPT !.st = "tools", !.todo = reply.calls].msgs = Append(t.msgs, x)
  BY DEF TurnRecord, Ended
<1> HIDE DEF s
<1> DEFINE u == OnReply(j, t, reply)
<1>5. CASE reply.calls = {}
  <2>1. u = Ended(s, "complete")
    BY <1>3, <1>5
  <2>2. Settled(Append(t.msgs, x))
    BY <1>2, <1>5, AllAnswered
  <2> HIDE DEF u
  <2>3. TurnTalk(u)
    BY <1>4, <2>1, <2>2 DEF TurnTalk
  <2> QED
    BY <2>3 DEF u
<1>6. CASE reply.calls # {}
  <2>1. u = Ended(s, "token_budget") \/ u = [s EXCEPT !.st = "tools", !.todo = reply.calls]
    BY <1>3, <1>6
  <2> HIDE DEF u
  <2>2. TurnTalk(u)
    <3>1. CASE u = Ended(s, "token_budget")
      BY <1>4, <3>1 DEF TurnTalk
    <3>2. CASE u = [s EXCEPT !.st = "tools", !.todo = reply.calls]
      BY <1>2, <1>4, <1>6, <3>2 DEF TurnTalk
    <3> QED
      BY <2>1, <3>1, <3>2
  <2> QED
    BY <2>2 DEF u
<1> QED
  BY <1>5, <1>6

\* ... and of a refusal.
LEMMA RefusalTalks ==
  ASSUME NEW t, TurnRecord(t), Settled(t.msgs), NEW kind
  PROVE  TurnTalk(OnRefusal(t, kind)) /\ TurnTalk(Ended(t, "error"))
BY DEF OnRefusal, Ended, TurnTalk, TurnRecord

\* What the provider says has a place in a list.
LEMMA AnswerFits ==
  ASSUME NEW c, NEW answer \in Answers(c)
  PROVE  /\ AssistantMessage(Normalize(c, answer)) \in Speech
         /\ Normalize(c, answer).calls \in CallSets
<1> DEFINE reply == IF JobOf(c.job).api = "openai" THEN NormalizeOpenai(answer) ELSE ParseAnthropic(answer)
           norm == Normalize(c, answer)
<1>1. answer.text \in Words /\ answer.calls \in {{}, {1}, {1, 2}}
  <2>1. answer.text \in Texts(c) /\ answer.calls \in {{}, {1}, {1, 2}}
    BY DEF Answers
  <2>2. Texts(c) \subseteq Words
    <3>1. Texts(c) \subseteq Spoken
      BY DEF Texts, Spoken
    <3> QED
      BY <3>1 DEF Words
  <2> QED
    BY <2>1, <2>2
<1>2. answer.calls \in CallSets
  <2>1. IsFiniteSet({}) /\ IsFiniteSet({1}) /\ IsFiniteSet({1} \cup {2})
    BY FS_EmptySet, FS_Singleton, FS_AddElement
  <2>2. {1, 2} = {1} \cup {2}
    OBVIOUS
  <2> QED
    BY <1>1, <2>1, <2>2 DEF CallSets
<1>3. reply \in [content : Words, think : {reply.think}, calls : {answer.calls}]
  BY <1>1 DEF NormalizeOpenai, ParseAnthropic
<1>4. norm = IF JobOf(c.job).strip THEN StripThinking(reply) ELSE reply
  BY DEF Normalize
<1> HIDE DEF norm, reply
<1>5. "" \in Words /\ "tagged" \in Words
  BY DEF Words, Asked, Edited, Spoken
<1>6. norm.content \in Words /\ norm.calls = answer.calls
  <2>1. StripThinking(reply).content \in Words /\ StripThinking(reply).calls = answer.calls
    BY <1>3, <1>5 DEF StripThinking
  <2> QED
    BY <1>3, <1>4, <2>1
<1>7. AssistantMessage(norm) \in Speech
  <2>1. "assistant" \in Roles
    BY DEF Roles
  <2> QED
    BY <1>2, <1>5, <1>6, <2>1 DEF AssistantMessage, Message, Speech
<1> QED
  BY <1>2, <1>6, <1>7 DEF norm

\* The service leaves every list settled or open.
LEMMA TalkService ==
  ASSUME PaidInv, TalkInv, ServiceStep, UNCHANGED job
  PROVE  TalkInv'
<1>1. PICK c \in calls : Refuse(c) \/ Send(c) \/ Reply(c) \/ Fail(c)
  BY DEF ServiceStep
<1> DEFINE j == c.job
           n == c.n
           t == turn[j][n]
<1>2. CallRecord(c) /\ j \in Jobs /\ n \in 1..MaxSteps /\ TurnRecord(t) /\ Settled(c.msgs) /\ TurnTalk(t)
  <2>1. CallRecord(c)
    BY DEF PaidInv, TurnInv
  <2>2. j \in Jobs /\ n \in 1..MaxSteps
    BY <2>1 DEF CallRecord
  <2>3. TurnRecord(t)
    BY <2>2 DEF PaidInv, TurnInv, Paid
  <2>4. Settled(c.msgs) /\ TurnTalk(t)
    BY <2>2 DEF TalkInv
  <2> QED
    BY <2>1, <2>2, <2>3, <2>4
<1>3. \A k \in Jobs : JobTalk(k)'
  <2>1. script' = script
    BY ServiceKeeps DEF PaidInv
  <2> QED
    BY <2>1, JobsTalk
<1>4. ASSUME NEW u, Close(c, u), Waited(c) => TurnTalk(u) PROVE TalkInv'
  <2> DEFINE w == IF Waited(c) THEN u ELSE t
  <2>1. turn' = [turn EXCEPT ![j][n] = w] /\ calls' \subseteq calls
    BY <1>2, <1>4 DEF Close, PaidInv, TurnInv
  <2>2. TurnTalk(w)
    BY <1>2, <1>4
  <2> HIDE DEF w, j, n
  <2>3. /\ \A k \in Jobs, m \in 1..MaxSteps : TurnTalk(turn'[k][m])
        /\ \A d \in calls' : Settled(d.msgs)
    BY <1>2, <2>1, <2>2, TurnTalks
  <2>4. \A k \in Jobs, m \in 1..MaxSteps : TurnTalk(turn[k][m])'
    BY <2>3 DEF TurnTalk
  <2> QED
    BY <1>3, <2>3, <2>4 DEF TalkInv
<1>5. Waited(c) => Settled(t.msgs)
  BY <1>2 DEF Waited, TurnTalk
<1>6. CASE Refuse(c) \/ Fail(c)
  <2>1. PICK kind : Close(c, OnRefusal(t, kind))
    BY <1>6 DEF Refuse, Fail
  <2>2. Waited(c) => TurnTalk(OnRefusal(t, kind))
    BY <1>2, <1>5, RefusalTalks
  <2> QED
    BY <1>4, <2>1, <2>2
<1>7. CASE Reply(c)
  <2>1. PICK answer \in Answers(c) : Close(c, OnReply(j, t, Normalize(c, answer)))
    BY <1>7 DEF Reply
  <2>2. Waited(c) => TurnTalk(OnReply(j, t, Normalize(c, answer)))
    BY <1>2, <1>5, AnswerFits, ReplyTalks
  <2> QED
    BY <1>4, <2>1, <2>2
<1>8. CASE Send(c)
  <2> DEFINE d == [c EXCEPT !.st = "sent"]
  <2>1. d.msgs = c.msgs
    BY <1>2 DEF CallRecord
  <2>2. calls' = (calls \ {c}) \cup {d} /\ turn' = turn
    BY <1>8 DEF Send
  <2> HIDE DEF d
  <2>3. \A x \in calls' : Settled(x.msgs)
    BY <1>2, <2>1, <2>2 DEF TalkInv
  <2>4. \A k \in Jobs, m \in 1..MaxSteps : TurnTalk(turn[k][m])'
    BY <2>2 DEF TalkInv, TurnTalk
  <2> QED
    BY <1>3, <2>3, <2>4 DEF TalkInv
<1> QED
  BY <1>1, <1>6, <1>7, <1>8

\* What a tool said is a message of the list.
LEMMA ToolSpeaks ==
  ASSUME NEW j \in Jobs, script \in Scripts, NEW outcome \in JobOf(j).tool, NEW id \in Nat
  PROVE  LET x == ToolMessage(id, outcome) IN x \in Speech /\ x.role = "tool" /\ x.id = id
<1> DEFINE text == Capped(ToolOutput(outcome))
<1>1. outcome \in Words
  <2>1. outcome \in script[j].tool
    BY DEF JobOf
  <2>2. outcome \in Output
    BY <2>1 DEF Output
  <2> QED
    BY <2>2 DEF Words
<1>2. "error" \in Words /\ "cut" \in Words
  BY DEF Words, Asked, Edited, Spoken
<1>3. text \in Words
  BY <1>1, <1>2 DEF Capped, ToolOutput
<1>4. {} \in CallSets /\ "tool" \in Roles
  BY FS_EmptySet DEF CallSets, Roles
<1>5. ToolMessage(id, outcome) = [role |-> "tool", text |-> text, calls |-> {}, id |-> id]
  BY DEF ToolMessage, Message
<1> HIDE DEF text
<1> QED
  BY <1>3, <1>4, <1>5 DEF Speech

\* The driver too.
LEMMA TalkDriver ==
  ASSUME PaidInv, TalkInv, DriverStep, UNCHANGED job
  PROVE  TalkInv'
<1>1. PICK j \in Jobs, n \in 1..MaxSteps : Retry(j, n) \/ CallTimeout(j, n) \/ RunTool(j, n)
  BY DEF DriverStep
<1> DEFINE t == turn[j][n]
<1>2. TurnRecord(t) /\ TurnTalk(t) /\ script \in Scripts
  BY DEF PaidInv, JobInv, TurnInv, Paid, TalkInv
<1>3. \A k \in Jobs : JobTalk(k)'
  <2>1. script' = script
    BY DriverKeeps DEF PaidInv
  <2> QED
    BY <2>1, JobsTalk
<1>4. ASSUME NEW u, TurnTalk(u), turn' = [turn EXCEPT ![j][n] = u],
             \A c \in calls' : c \in calls \/ Settled(c.msgs)
      PROVE  TalkInv'
  <2>1. /\ \A k \in Jobs, m \in 1..MaxSteps : TurnTalk(turn'[k][m])
        /\ \A d \in calls' : Settled(d.msgs)
    BY <1>4, TurnTalks
  <2>2. \A k \in Jobs, m \in 1..MaxSteps : TurnTalk(turn[k][m])'
    BY <2>1 DEF TurnTalk
  <2> QED
    BY <1>3, <2>1, <2>2 DEF TalkInv
<1>5. CASE Retry(j, n)
  <2> DEFINE k == t.try + 1
             u == [t EXCEPT !.st = "call", !.try = k]
  <2>1. t.st = "sleep" /\ turn' = [turn EXCEPT ![j][n] = u] /\ calls' = calls \cup {Call(j, n, u)}
    BY <1>5 DEF Retry
  <2> HIDE DEF k
  <2>2. u.st = "call" /\ u.msgs = t.msgs
    BY <1>2 DEF TurnRecord
  <2> HIDE DEF u, t
  <2>3. Settled(u.msgs)
    BY <1>2, <2>1, <2>2 DEF TurnTalk
  <2>4. TurnTalk(u) /\ Settled(Call(j, n, u).msgs)
    BY <2>2, <2>3, CallSettled DEF TurnTalk
  <2>5. \A c \in calls' : c \in calls \/ Settled(c.msgs)
    BY <2>1, <2>4
  <2> QED
    BY <1>4, <2>1, <2>4, <2>5
<1>6. CASE CallTimeout(j, n)
  <2> DEFINE u == Ended(t, "error")
  <2>1. t.st = "call" /\ turn' = [turn EXCEPT ![j][n] = u] /\ calls' = calls
    BY <1>6 DEF CallTimeout
  <2>2. TurnTalk(u)
    <3>1. Settled(t.msgs)
      BY <1>2, <2>1 DEF TurnTalk
    <3> QED
      BY <1>2, <3>1, RefusalTalks
  <2> HIDE DEF u
  <2> QED
    BY <1>4, <2>1, <2>2
<1>7. CASE RunTool(j, n)
  <2> DEFINE id == Min(t.todo)
             rest == t.todo \ {id}
             next == IF t.it = JobOf(j).max THEN Ended(t, "max_iter")
                     ELSE [t EXCEPT !.st = "call", !.it = @ + 1, !.try = 0]
             list(x) == Append(t.msgs, ToolMessage(id, x))
             base == IF rest = {} THEN next ELSE t
             s(x) == [base EXCEPT !.todo = rest, !.msgs = Append(@, ToolMessage(id, x))]
  <2>1. t.st = "tools" /\ t.todo # {} /\ Open(t.msgs, t.todo)
    BY <1>2, <1>7 DEF RunTool, TurnTalk
  <2>2. PICK x \in JobOf(j).tool :
           /\ turn' = [turn EXCEPT ![j][n] = s(x)]
           /\ calls' = calls \cup (IF s(x).st = "call" THEN {Call(j, n, s(x))} ELSE {})
    BY <1>7 DEF RunTool
  <2>3. id \in t.todo /\ id \in Nat
    <3>1. t.todo \subseteq Nat
      <4>1. PICK i \in Positions(t.msgs, "assistant") : t.todo \subseteq t.msgs[i].calls
        BY <2>1 DEF Open
      <4>2. t.msgs \in Seq(Speech) /\ i \in DOMAIN t.msgs
        BY <2>1, <4>1 DEF Open, Positions
      <4>3. t.msgs[i] \in Speech
        BY <4>2
      <4>4. t.msgs[i].calls \subseteq Nat
        BY <4>3 DEF Speech, CallSets
      <4> QED
        BY <4>1, <4>4
    <3> QED
      BY <2>1, <3>1, MinIn
  <2>4. /\ TurnRecord(next) /\ next.msgs = t.msgs
        /\ next.st = "call" \/ (next.st = "done" /\ next.stop = "max_iter")
    <3> DEFINE k == t.it + 1
               again == [t EXCEPT !.st = "call", !.it = k, !.try = 0]
    <3>1. k \in Nat /\ next \in {Ended(t, "max_iter"), again}
      BY <1>2 DEF TurnRecord
    <3> HIDE DEF k, next
    <3>2. TurnRecord(Ended(t, "max_iter")) /\ Ended(t, "max_iter").st = "done"
          /\ Ended(t, "max_iter").stop = "max_iter" /\ Ended(t, "max_iter").msgs = t.msgs
      BY <1>2 DEF TurnRecord, Ended
    <3>3. TurnRecord(again) /\ again.st = "call" /\ again.msgs = t.msgs
      BY <1>2, <3>1 DEF TurnRecord
    <3> QED
      BY <3>1, <3>2, <3>3
  <2>5. Open(list(x), rest)
    <3>1. LET y == ToolMessage(id, x) IN y \in Speech /\ y.role = "tool" /\ y.id = id
      BY <1>2, <2>2, <2>3, ToolSpeaks
    <3> DEFINE y == ToolMessage(id, x)
    <3>2. y \in Speech /\ y.role = "tool" /\ y.id = id
      BY <3>1
    <3> HIDE DEF y, id
    <3>3. Open(Append(t.msgs, y), t.todo \ {id})
      BY <2>1, <2>3, <3>2, ToolAnswered
    <3> QED
      BY <3>3 DEF y
  <2> DEFINE u == s(x)
  <2> HIDE DEF next, id, rest
  <2>6. TurnRecord(base) /\ base.msgs = t.msgs
    BY <1>2, <2>4
  <2> HIDE DEF base
  <2>7. u.st = base.st /\ u.stop = base.stop /\ u.todo = rest /\ u.msgs = list(x)
    BY <2>6 DEF TurnRecord
  <2>8. TurnTalk(u) /\ (u.st = "call" => Settled(u.msgs))
    <3>1. CASE rest = {}
      <4>1. Settled(u.msgs)
        BY <2>5, <2>7, <3>1, AllAnswered
      <4>2. u.st \in {"call", "done"}
        BY <2>4, <2>7, <3>1 DEF base
      <4> HIDE DEF u
      <4> QED
        BY <4>1, <4>2 DEF TurnTalk
    <3>2. CASE rest # {}
      <4>1. u.st = "tools"
        BY <2>1, <2>7, <3>2 DEF base
      <4>2. Open(u.msgs, u.todo) /\ u.todo # {}
        BY <2>5, <2>7, <3>2
      <4> HIDE DEF u
      <4> QED
        BY <4>1, <4>2 DEF TurnTalk
    <3> QED
      BY <3>1, <3>2
  <2>9. turn' = [turn EXCEPT ![j][n] = u] /\ calls' = calls \cup (IF u.st = "call" THEN {Call(j, n, u)} ELSE {})
    BY <2>2
  <2> HIDE DEF u
  <2>10. \A c \in calls' : c \in calls \/ Settled(c.msgs)
    BY <2>8, <2>9, CallSettled
  <2> QED
    BY <1>4, <2>8, <2>9, <2>10
<1> QED
  BY <1>1, <1>5, <1>6, <1>7

\* One job moves, with a settled history.
LEMMA JobTalks ==
  ASSUME PaidInv, TalkInv, NEW j \in Jobs, NEW b, job' = [job EXCEPT ![j] = b], script' = script,
         Settled(b.hist),
         b.st = "wait" /\ Steps(j)[b.n] = "full" => NeedsSummary(b.hist, JobOf(j).keep)
  PROVE  \A k \in Jobs : JobTalk(k)'
<1>1. job'[j] = b /\ \A k \in Jobs : k # j => job'[k] = job[k]
  BY DEF PaidInv, JobInv
<1>2. ASSUME NEW k \in Jobs PROVE JobTalk(k)'
  <2>1. CASE k = j
    BY <1>1, <2>1 DEF JobTalk, Step, Steps, JobOf
  <2>2. CASE k # j
    <3>1. JobTalk(k) /\ job'[k] = job[k]
      BY <1>1, <2>2 DEF TalkInv
    <3> QED
      BY <3>1 DEF JobTalk, Step, Steps, JobOf
  <2> QED
    BY <2>1, <2>2
<1> QED
  BY <1>2

\* A step asks with a settled list, ...
LEMMA StepSpeaks ==
  ASSUME PaidInv, TalkInv, NEW j \in Jobs, job[j].n <= Len(Steps(j)), NEW b,
         job' = [job EXCEPT ![j] = b], Settled(b.hist),
         Steps(j)[b.n] = "full" => NeedsSummary(b.hist, JobOf(j).keep),
         NEW msgs, Settled(msgs), Request(j, job[j].n, msgs)
  PROVE  TalkInv'
<1> DEFINE n == job[j].n
           t == [NoTurn EXCEPT !.st = "call", !.msgs = msgs, !.it = 1]
<1>1. n \in 1..MaxSteps
  <2>1. n \in Nat \ {0} /\ Len(Steps(j)) \in Nat /\ Len(Steps(j)) <= MaxSteps
    BY StepLength
  <2> QED
    BY <2>1, LlmAssumption
<1>2. turn' = [turn EXCEPT ![j][n] = t] /\ calls' = calls \cup {Call(j, n, t)} /\ script' = script
  BY DEF Request
<1>3. t.st = "call" /\ t.msgs = msgs
  BY DEF NoTurn
<1> HIDE DEF t
<1>4. TurnTalk(t) /\ Settled(Call(j, n, t).msgs)
  BY <1>3, CallSettled DEF TurnTalk
<1>5. \A c \in calls' : c \in calls \/ Settled(c.msgs)
  BY <1>2, <1>4
<1>6. /\ \A k \in Jobs, m \in 1..MaxSteps : TurnTalk(turn'[k][m])
      /\ \A c \in calls' : Settled(c.msgs)
  BY <1>1, <1>2, <1>4, <1>5, TurnTalks
<1>7. \A k \in Jobs, m \in 1..MaxSteps : TurnTalk(turn[k][m])'
  BY <1>6 DEF TurnTalk
<1>8. \A k \in Jobs : JobTalk(k)'
  BY <1>2, JobTalks
<1> QED
  BY <1>6, <1>7, <1>8 DEF TalkInv

\* ... or goes on without asking.
LEMMA StepSilent ==
  ASSUME PaidInv, TalkInv, NEW j \in Jobs, NEW b, job' = [job EXCEPT ![j] = b],
         Settled(b.hist), b.st # "wait", UNCHANGED turnVars
  PROVE  TalkInv'
<1>1. \A k \in Jobs : JobTalk(k)'
  BY JobTalks DEF turnVars
<1>2. \A k \in Jobs, m \in 1..MaxSteps : TurnTalk(turn[k][m])'
  BY DEF TalkInv, TurnTalk, turnVars
<1> QED
  BY <1>1, <1>2 DEF TalkInv, turnVars

\* What a step makes of its turn leaves the history settled.
LEMMA TookTalks ==
  ASSUME PaidInv, TalkInv, NEW j \in Jobs, job[j].st = "wait", NEW content, NEW t,
         t.stop \notin {None, "token_budget"} => Settled(t.msgs)
  PROVE  Settled(Took(j, content, t).hist)
<1>1. JobRecord(job[j]) /\ Settled(job[j].hist) /\ script \in Scripts
      /\ (Step(j) = "full" => NeedsSummary(job[j].hist, JobOf(j).keep))
  BY DEF PaidInv, JobInv, TalkInv, JobTalk
<1> DEFINE k == job[j].n + 1
           s == [job[j] EXCEPT !.st = "ready", !.n = k]
           Fit(b) == b.hist = job[j].hist
<1>2. s = [job[j] EXCEPT !.st = "ready", !.n = @ + 1]
  OBVIOUS
<1>3. \A x : /\ Fit([s EXCEPT !.got = x]) /\ Fit([s EXCEPT !.out = x])
             /\ Fit([job[j] EXCEPT !.st = "ready", !.n = k, !.got = x])
             /\ Fit([job[j] EXCEPT !.st = "ready", !.n = k, !.out = x])
             /\ [s EXCEPT !.hist = x].hist = x
  BY <1>1 DEF JobRecord
<1>4. \A x : Fit(Failed(j, x))
  BY <1>1 DEF Failed, JobRecord
<1>5. s.hist = job[j].hist
  BY <1>1 DEF JobRecord
<1>6. Fit(TookClass(j, content))
  <2>1. \/ TookClass(j, content) = Failed(j, "classify_intent") \/ TookClass(j, content) = Failed(j, "conflict")
        \/ TookClass(j, content) = [job[j] EXCEPT !.st = "ready", !.n = k, !.got = ClassifyIntent(content)]
    BY DEF TookClass
  <2> HIDE DEF k, s
  <2> QED
    BY <1>3, <1>4, <2>1, ZenonT(40)
<1>7. Fit(TookText(j, content))
  <2>1. \/ TookText(j, content) = Failed(j, "generate_agent_md") \/ TookText(j, content) = Failed(j, "write")
        \/ TookText(j, content) = [job[j] EXCEPT !.st = "ready", !.n = k, !.out = "written"]
    BY DEF TookText
  <2> HIDE DEF k, s
  <2> QED
    BY <1>3, <1>4, <2>1, ZenonT(40)
<1> DEFINE d == Took(j, content, t)
           full == IF content = "" THEN job[j].hist ELSE FullCompact(job[j].hist, JobOf(j).keep)
           asked == IF t.stop \in {None, "token_budget"} THEN job[j].hist ELSE t.msgs
<1>8. Settled(asked)
  BY <1>1
<1>9. Step(j) = "full" => Settled(full)
  <2>1. JobOf(j).keep \in Nat
    BY <1>1, ScriptsAssumption DEF JobOf
  <2> QED
    BY <1>1, <2>1, FullSettled
<1> HIDE DEF k, s, Fit, full, asked
<1>10. CASE Step(j) = "ask"
  <2>1. d = [s EXCEPT !.hist = asked]
    BY <1>2, <1>5, <1>10 DEF Took, asked
  <2> HIDE DEF d
  <2>2. d.hist = asked
    BY <1>3, <2>1
  <2> QED
    BY <1>8, <2>2 DEF d
<1>11. CASE Step(j) = "full"
  <2>1. d = [s EXCEPT !.hist = full]
    BY <1>2, <1>5, <1>11 DEF Took, full
  <2> HIDE DEF d
  <2>2. d.hist = full
    BY <1>3, <2>1
  <2> QED
    BY <1>9, <1>11, <2>2 DEF d
<1>12. CASE Step(j) \notin {"ask", "full"}
  <2>1. Fit(d)
    BY <1>2, <1>3, <1>6, <1>7, <1>12 DEF Took
  <2> QED
    BY <1>1, <2>1 DEF Fit
<1> QED
  BY <1>10, <1>11, <1>12

\* Nor does a step of a job break a list in two.
LEMMA TalkJob ==
  ASSUME PaidInv, TalkInv, JobStep
  PROVE  TalkInv'
<1>1. PICK j \in Jobs :
        \/ Answered(j)
        \/ Vote(j) \/ Score(j) \/ MapStep(j) \/ ReduceStep(j) \/ Ask(j) \/ Micro(j) \/ Full(j)
        \/ NewAgent(j) \/ Generate(j) \/ StartAgent(j) \/ JobTimeout(j) \/ Conclude(j)
  BY DEF JobStep
<1>2. /\ JobRecord(job[j]) /\ job = [k \in Jobs |-> job[k]] /\ Settled(job[j].hist) /\ JobTalk(j)
  BY DEF PaidInv, JobInv, TalkInv, JobTalk
<1> DEFINE w == [job[j] EXCEPT !.st = "wait"]
           k == job[j].n + 1
           b == [job[j] EXCEPT !.n = k]
<1>3. JobRecord(w) /\ w.st = "wait" /\ w.n = job[j].n /\ w.hist = job[j].hist
  BY <1>2 DEF JobRecord
<1>4. b.hist = job[j].hist /\ b.st = job[j].st
  BY <1>2 DEF JobRecord
<1>5. \A x : /\ [b EXCEPT !.hist = x].hist = x /\ [b EXCEPT !.hist = x].st = job[j].st
             /\ [b EXCEPT !.got = x].hist = job[j].hist /\ [b EXCEPT !.got = x].st = job[j].st
             /\ [b EXCEPT !.out = x].hist = job[j].hist /\ [b EXCEPT !.out = x].st = job[j].st
  BY <1>2 DEF JobRecord
<1>6. \A x : /\ [w EXCEPT !.hist = x].hist = x /\ [w EXCEPT !.hist = x].n = job[j].n
             /\ [w EXCEPT !.flip = x].hist = job[j].hist /\ [w EXCEPT !.flip = x].n = job[j].n
  BY <1>2 DEF JobRecord
<1>7. \A x, y : LET d == [job[j] EXCEPT !.st = "done", !.out = x, !.told = y]
               IN  d.hist = job[j].hist /\ d.st = "done"
  BY <1>2 DEF JobRecord
<1> HIDE DEF b
\* A step that asks with one message of the user, ...
<1>8. ASSUME NEW step, Ready(j, step), step # "full", NEW x, job' = [job EXCEPT ![j] = x],
             x.hist = job[j].hist, x.n = job[j].n, NEW text \in Words, Request(j, job[j].n, <<User(text)>>)
      PROVE  TalkInv'
  <2>1. job[j].n <= Len(Steps(j)) /\ Steps(j)[x.n] # "full"
    BY <1>8 DEF Ready, Step
  <2>2. Settled(<<User(text)>>)
    BY OneSettled
  <2> QED
    BY <1>2, <1>8, <2>1, <2>2, StepSpeaks
\* ... one that goes on, and one that ends.
<1>9. ASSUME NEW x, job' = [job EXCEPT ![j] = x], x.hist = job[j].hist, x.st # "wait", UNCHANGED turnVars
      PROVE  TalkInv'
  BY <1>2, <1>9, StepSilent
<1>10. ASSUME NEW x, NEW y, job' = [job EXCEPT ![j].st = "done", ![j].out = x, ![j].told = y], UNCHANGED turnVars
       PROVE  TalkInv'
  <2> DEFINE d == [job[j] EXCEPT !.st = "done", !.out = x, !.told = y]
  <2>1. job' = [job EXCEPT ![j] = d]
    BY <1>2, <1>10, ThreeFields
  <2>2. d.hist = job[j].hist /\ d.st = "done"
    BY <1>7
  <2> HIDE DEF d
  <2> QED
    BY <1>9, <1>10, <2>1, <2>2
<1>11. /\ "ab" \in Words /\ "ba" \in Words /\ "candidate" \in Words /\ "document" \in Words
       /\ "partials" \in Words /\ "rendered" \in Words /\ "description" \in Words
       /\ "produce" \in Words /\ "ask" \in Words
  BY DEF Words, Asked
<1>12. CASE Vote(j)
  <2>1. PICK flip : /\ job' = [job EXCEPT ![j].st = "wait", ![j].flip = flip]
                    /\ Request(j, job[j].n, <<User(IF flip THEN "ba" ELSE "ab")>>)
                    /\ Ready(j, "vote")
    BY <1>12 DEF Vote
  <2>2. job' = [job EXCEPT ![j] = [w EXCEPT !.flip = flip]]
    BY <1>2, <2>1
  <2> DEFINE text == IF flip THEN "ba" ELSE "ab"
             x == [w EXCEPT !.flip = flip]
  <2>3. text \in Words /\ Request(j, job[j].n, <<User(text)>>)
    BY <1>11, <2>1
  <2>4. x.hist = job[j].hist /\ x.n = job[j].n /\ job' = [job EXCEPT ![j] = x]
    BY <1>6, <2>2
  <2> HIDE DEF text, x, w
  <2> QED
    BY <1>8, <2>1, <2>3, <2>4
<1>13. CASE Score(j) \/ NewAgent(j) \/ Generate(j)
  <2>1. PICK step \in {"score", "classify", "generate"}, text \in Words :
           /\ Ready(j, step) /\ job' = [job EXCEPT ![j].st = "wait"]
           /\ Request(j, job[j].n, <<User(text)>>)
    BY <1>11, <1>13 DEF Score, NewAgent, Generate
  <2>2. job' = [job EXCEPT ![j] = w]
    BY <1>2, <2>1
  <2> HIDE DEF w
  <2> QED
    BY <1>3, <1>8, <2>1, <2>2
<1>14. CASE Ask(j)
  <2> DEFINE hist == Append(job[j].hist, User("ask"))
             x == [w EXCEPT !.hist = hist]
  <2>1. /\ job' = [job EXCEPT ![j].st = "wait", ![j].hist = hist] /\ Request(j, job[j].n, hist)
        /\ Ready(j, "ask")
    BY <1>14 DEF Ask
  <2>2. Settled(hist)
    <3> DEFINE y == User("ask")
    <3>1. y \in Speech /\ y.role \notin {"tool", "assistant"}
      BY <1>11, SaidBySome
    <3> HIDE DEF y
    <3>2. Settled(Append(job[j].hist, y))
      BY <1>2, <3>1, Said
    <3> QED
      BY <3>2 DEF y
  <2> HIDE DEF hist
  <2>3. job' = [job EXCEPT ![j] = x]
    BY <1>2, <2>1
  <2>4. x.hist = hist /\ x.n = job[j].n
    BY <1>6
  <2> HIDE DEF x, w
  <2>5. job[j].n <= Len(Steps(j)) /\ Steps(j)[x.n] # "full"
    BY <2>1, <2>4 DEF Ready, Step
  <2> QED
    BY <2>1, <2>2, <2>3, <2>4, <2>5, StepSpeaks
<1>15. CASE MapStep(j)
  <2>1. Ready(j, "map") /\ job[j].st = "ready"
    BY <1>15 DEF MapStep, Ready
  <2>2. CASE \E x, y : job' = [job EXCEPT ![j].st = "done", ![j].out = x, ![j].told = y] /\ UNCHANGED turnVars
    BY <1>10, <2>2
  <2>3. CASE \E x : job' = [job EXCEPT ![j].n = @ + 1, ![j].got = x] /\ UNCHANGED turnVars
    <3>1. PICK x : job' = [job EXCEPT ![j] = [b EXCEPT !.got = x]] /\ UNCHANGED turnVars
      BY <1>2, <2>3 DEF b
    <3> QED
      BY <1>5, <1>9, <2>1, <3>1, ZenonT(40)
  <2>4. CASE job' = [job EXCEPT ![j].st = "wait"] /\ Request(j, job[j].n, <<User("document")>>)
    <3>1. job' = [job EXCEPT ![j] = w]
      BY <1>2, <2>4
    <3> HIDE DEF w
    <3> QED
      BY <1>3, <1>8, <1>11, <2>1, <2>4, <3>1
  <2> QED
    BY <1>15, <2>2, <2>3, <2>4 DEF MapStep
<1>16. CASE ReduceStep(j)
  <2>1. Ready(j, "reduce") /\ job[j].st = "ready"
    BY <1>16 DEF ReduceStep, Ready
  <2>2. CASE \E x : job' = [job EXCEPT ![j].n = @ + 1, ![j].out = x] /\ UNCHANGED turnVars
    <3>1. PICK x : job' = [job EXCEPT ![j] = [b EXCEPT !.out = x]] /\ UNCHANGED turnVars
      BY <1>2, <2>2 DEF b
    <3> QED
      BY <1>5, <1>9, <2>1, <3>1, ZenonT(40)
  <2>3. CASE job' = [job EXCEPT ![j].st = "wait"] /\ Request(j, job[j].n, <<User("partials")>>)
    <3>1. job' = [job EXCEPT ![j] = w]
      BY <1>2, <2>3
    <3> HIDE DEF w
    <3> QED
      BY <1>3, <1>8, <1>11, <2>1, <2>3, <3>1
  <2> QED
    BY <1>16, <2>2, <2>3 DEF ReduceStep
<1>17. CASE Micro(j)
  <2> DEFINE x == Microcompact(job[j].hist, JobOf(j).keep)
             d == [b EXCEPT !.hist = x]
  <2>1. job[j].st = "ready" /\ job' = [job EXCEPT ![j].n = @ + 1, ![j].hist = x] /\ UNCHANGED turnVars
    BY <1>2, <1>17 DEF Micro, Ready, JobRecord
  <2>2. Settled(x)
    BY <1>2, MicroSettled
  <2> HIDE DEF x
  <2>3. job' = [job EXCEPT ![j] = d]
    BY <1>2, <2>1 DEF b
  <2>4. d.hist = x /\ d.st = "ready"
    BY <1>5, <2>1
  <2> HIDE DEF d
  <2> QED
    BY <2>1, <2>2, <2>3, <2>4, StepSilent
<1>18. CASE Full(j)
  <2>1. Ready(j, "full") /\ job[j].st = "ready" /\ job[j].n <= Len(Steps(j))
    BY <1>18 DEF Full, Ready
  <2>2. CASE job' = [job EXCEPT ![j].n = @ + 1] /\ UNCHANGED turnVars
    <3>1. job' = [job EXCEPT ![j] = b]
      BY <1>2, <2>2 DEF b
    <3> QED
      BY <1>4, <1>9, <2>1, <2>2, <3>1
  <2>3. CASE /\ NeedsSummary(job[j].hist, JobOf(j).keep)
             /\ job' = [job EXCEPT ![j].st = "wait"] /\ Request(j, job[j].n, <<User("rendered")>>)
    <3>1. job' = [job EXCEPT ![j] = w]
      BY <1>2, <2>3
    <3>2. Settled(<<User("rendered")>>)
      BY <1>11, OneSettled
    <3> HIDE DEF w
    <3> QED
      BY <1>2, <1>3, <2>1, <2>3, <3>1, <3>2, StepSpeaks
  <2> QED
    BY <1>18, <2>2, <2>3 DEF Full
<1>19. CASE StartAgent(j)
  <2>1. job[j].st = "ready" /\ \E x : job' = [job EXCEPT ![j].n = @ + 1, ![j].out = x] /\ UNCHANGED turnVars
    BY <1>19 DEF StartAgent, Ready
  <2>2. PICK x : job' = [job EXCEPT ![j] = [b EXCEPT !.out = x]] /\ UNCHANGED turnVars
    BY <1>2, <2>1 DEF b
  <2>3. UNCHANGED turnVars
    BY <1>19 DEF StartAgent
  <2>4. [b EXCEPT !.out = x].hist = job[j].hist /\ [b EXCEPT !.out = x].st # "wait"
    BY <1>5, <2>1
  <2> QED
    BY <1>9, <2>2, <2>3, <2>4
<1>20. CASE Conclude(j)
  <2>1. \E x, y : job' = [job EXCEPT ![j].st = "done", ![j].out = x, ![j].told = y] /\ UNCHANGED turnVars
    BY <1>20 DEF Conclude
  <2> QED
    BY <1>10, <2>1
<1>21. CASE JobTimeout(j)
  <2> DEFINE d == Took(j, "", NoTurn)
  <2>1. job[j].st = "wait" /\ job' = [job EXCEPT ![j] = d] /\ UNCHANGED turnVars
    BY <1>21 DEF JobTimeout
  <2>2. NoTurn.stop = None
    BY DEF NoTurn
  <2>3. d.st = "ready" /\ Settled(d.hist)
    BY <2>1, <2>2, TookMoves, TookTalks
  <2> HIDE DEF d
  <2> QED
    BY <2>1, <2>3, StepSilent
<1>22. CASE Answered(j)
  <2> DEFINE n == job[j].n
             t == turn[j][n]
             content == IF t.stop = "complete" THEN t.content ELSE ""
             d == Took(j, content, t)
             u == [NoTurn EXCEPT !.st = "done"]
  <2>1. /\ job[j].st = "wait" /\ t.st = "done" /\ job' = [job EXCEPT ![j] = d]
        /\ turn' = [turn EXCEPT ![j][n] = u] /\ UNCHANGED <<script, calls, ledger>>
    BY <1>22 DEF Answered
  <2>2. n \in 1..MaxSteps
    <3>1. n <= Len(Steps(j)) /\ Len(Steps(j)) <= MaxSteps /\ Len(Steps(j)) \in Nat /\ n \in Nat \ {0}
      BY <2>1, StepLength DEF PaidInv, JobInv
    <3> QED
      BY <3>1, LlmAssumption
  <2>3. t.stop \notin {None, "token_budget"} => Settled(t.msgs)
    <3>1. TurnTalk(t)
      BY <2>2 DEF TalkInv
    <3> QED
      BY <2>1, <3>1 DEF TurnTalk
  <2> HIDE DEF content
  <2>4. d.st = "ready" /\ Settled(d.hist)
    BY <2>1, <2>3, TookMoves, TookTalks
  <2>5. TurnTalk(u)
    <3>1. u.st = "done" /\ u.msgs = <<>>
      BY DEF NoTurn
    <3> HIDE DEF u
    <3> QED
      BY <3>1, OneSettled DEF TurnTalk
  <2> HIDE DEF u, d
  <2>6. \A c \in calls' : c \in calls
    BY <2>1
  <2>7. /\ \A i \in Jobs, m \in 1..MaxSteps : TurnTalk(turn'[i][m])
        /\ \A c \in calls' : Settled(c.msgs)
    BY <2>1, <2>2, <2>5, <2>6, TurnTalks
  <2>8. \A i \in Jobs : JobTalk(i)'
    BY <2>1, <2>4, JobTalks
  <2>9. \A i \in Jobs, m \in 1..MaxSteps : TurnTalk(turn[i][m])'
    BY <2>7 DEF TurnTalk
  <2> QED
    BY <2>7, <2>8, <2>9 DEF TalkInv
<1> QED
  BY <1>1, <1>12, <1>13, <1>14, <1>15, <1>16, <1>17, <1>18, <1>19, <1>20, <1>21, <1>22

\* At first nothing has been said.
LEMMA TalkStart == Init => TalkInv
<1> SUFFICES ASSUME Init PROVE TalkInv
  OBVIOUS
<1>1. NoTurn.st = "none" /\ NoTurn.msgs = <<>>
  BY DEF NoTurn
<1>2. TurnTalk(NoTurn)
  BY <1>1, OneSettled DEF TurnTalk
<1>3. \A j \in Jobs, n \in 1..MaxSteps : turn[j][n] = NoTurn
  BY DEF Init, TurnInit
<1>4. \A j \in Jobs : job[j].hist = <<>> /\ job[j].st = "ready"
  BY DEF Init
<1>5. \A j \in Jobs : JobTalk(j)
  BY <1>4, OneSettled DEF JobTalk
<1> QED
  BY <1>2, <1>3, <1>5 DEF TalkInv, Init, TurnInit

\* Every step keeps every list settled, or open in the calls that still run.
LEMMA TalkStep == PaidInv /\ TalkInv /\ [Next]_vars => TalkInv'
<1> SUFFICES ASSUME PaidInv, TalkInv, [Next]_vars PROVE TalkInv'
  OBVIOUS
<1>1. CASE (ServiceStep \/ DriverStep) /\ UNCHANGED <<job, disk>>
  BY <1>1, TalkService, TalkDriver
<1>2. CASE JobStep
  BY <1>2, TalkJob
<1>3. CASE UNCHANGED vars
  <2>1. \A j \in Jobs : JobTalk(j)'
    BY <1>3, JobsTalk DEF vars
  <2> QED
    BY <1>3, <2>1 DEF vars, TalkInv, TurnTalk
<1> QED
  BY <1>1, <1>2, <1>3 DEF Next

\* A settled list is paired in the dialect of whatever account it goes to.
LEMMA TalkPairs == TalkInv => PairedRequests
<1> SUFFICES ASSUME TalkInv, NEW c \in calls
             PROVE  IF JobOf(c.job).api = "openai" THEN PairedOpenai(Wired(c)) ELSE PairedAnthropic(Wired(c))
  BY DEF PairedRequests
<1>1. Settled(c.msgs)
  BY DEF TalkInv
<1>2. PairedOpenai(c.msgs) /\ PairedAnthropic(ConvertMessages(c.msgs))
  BY <1>1, SettledOpenai, SettledAnthropic
<1>3. Wired(c) = IF JobOf(c.job).api = "openai" THEN c.msgs ELSE ConvertMessages(c.msgs)
  BY DEF Wired, BuildAnthropicRequest
<1> QED
  BY <1>2, <1>3

\* Whatever the compactor cut and whatever the tools did, every request that reaches
\* the provider answers each tool call of the list, in both dialects.
THEOREM RequestsArePaired == Spec => []PairedRequests
<1>1. Init => PaidInv /\ TalkInv
  BY PaidStart, TalkStart
<1>2. PaidInv /\ TalkInv /\ [Next]_vars => (PaidInv /\ TalkInv)'
  BY PaidStep, TalkStep
<1> QED
  BY <1>1, <1>2, TalkPairs, PTL DEF Spec
=============================================================================
