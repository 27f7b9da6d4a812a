-------------------------- MODULE Approvals_proofs --------------------------
(***************************************************************************)
(* Proofs about the approval wall, for every set of edits, memory files    *)
(* any number of crashes and any entries that cannot be encoded, where the *)
(* record can be loaded at boot: an answered proposal is on record, and a  *)
(* memory file is written for an approval only when that is on record for  *)
(* good, and once at most; but for those whose own save was refused.       *)
(***************************************************************************)
EXTENDS Approvals, TLAPS

USE ApprovalsAssumption

LEMMA InitIInv == Init => IInv
BY DEF Init, IInv, TypeOK, OnRecord, Decided, Way, Recorded, AckedIsDurable, Status, Handler, Decisions

\* A crash keeps the types of what it resets.
LEMMA VolatileType ==
  ASSUME TypeOK, Volatile
  PROVE  /\ up' \in BOOLEAN /\ queue' \in [Edits -> Status] /\ disk' \in [Edits -> Status]
         /\ enq' \in [Edits -> Handler] /\ dec' \in [Edits -> Handler]
         /\ odd' \subseteq Edits /\ saves' \subseteq Edits \X Kinds
         /\ refused' \subseteq Edits \X Kinds
         /\ event' \in [Edits -> Decisions \cup {"none"}]
         /\ work' \in [Edits -> {"none", "rejecting", "approving", "gating", "over"}]
         /\ acked' \subseteq Edits /\ crashes' \in Nat
<1>1. enq' \in [Edits -> Handler]
  <2>1. enq' = [e \in Edits |-> IF enq[e] = "none" THEN "none" ELSE "raised"]
    BY DEF Volatile
  <2> QED
    BY <2>1 DEF Handler
<1>2. odd' \subseteq Edits /\ saves' \subseteq Edits \X Kinds /\ refused' \subseteq Edits \X Kinds
  BY DEF Volatile, TypeOK
<1>3. /\ event' \in [Edits -> Decisions \cup {"none"}]
      /\ work' \in [Edits -> {"none", "rejecting", "approving", "gating", "over"}]
  BY DEF Volatile
<1>4. acked' \subseteq Edits /\ up' \in BOOLEAN
  BY DEF TypeOK, Volatile
<1>6. crashes' \in Nat
  BY DEF TypeOK, Volatile
<1>5. /\ queue' \in [Edits -> Status] /\ disk' \in [Edits -> Status]
      /\ dec' \in [Edits -> Handler]
  BY DEF TypeOK, Volatile, Status, Handler
<1> QED
  BY <1>1, <1>2, <1>3, <1>4, <1>5, <1>6

\* Every step keeps the types.
LEMMA NextTypeOK == IInv /\ [Next]_vars => TypeOK'
<1> SUFFICES ASSUME IInv, [Next]_vars PROVE TypeOK'
  OBVIOUS
<1>0. TypeOK /\ Decided
  BY DEF IInv
<1> USE <1>0 DEF TypeOK, Status, Decisions, Handler, Kinds, queueVars, fileVars
<1>1. ASSUME NEW e \in Edits, Stage(e) PROVE TypeOK'
  BY <1>1 DEF Stage
<1>2. ASSUME NEW e \in Edits, Enqueue(e) PROVE TypeOK'
  BY <1>2 DEF Enqueue, Worded
<1>3. ASSUME NEW e \in Edits, EnqueueFails(e) PROVE TypeOK'
  BY <1>3 DEF EnqueueFails
<1>4. ASSUME NEW e \in Edits, EnqueueReplies(e) PROVE TypeOK'
  BY <1>4 DEF EnqueueReplies
<1>5. ASSUME NEW e \in Edits, DecisionGoesOut(e) PROVE TypeOK'
  BY <1>5 DEF DecisionGoesOut, Decided, Way, Recorded
<1>6. ASSUME NEW e \in Edits, OnDecided(e) PROVE TypeOK'
  BY <1>6 DEF OnDecided
<1>7. ASSUME NEW e \in Edits, Skip(e) PROVE TypeOK'
  BY <1>7 DEF Skip
<1>8. ASSUME NEW e \in Edits, ApplyRejection(e) PROVE TypeOK'
  BY <1>8 DEF ApplyRejection
<1>9. ASSUME NEW e \in Edits, CheckDraft(e) PROVE TypeOK'
  BY <1>9 DEF CheckDraft, Applicable
<1>10. ASSUME NEW e \in Edits, Write(e) PROVE TypeOK'
  BY <1>10 DEF Write
<1>11. ASSUME NEW e \in Edits, Gated(e) PROVE TypeOK'
  BY <1>11 DEF Gated
<1>12. ASSUME NEW e \in Edits, ApplyDraft(e) PROVE TypeOK'
  BY <1>12 DEF ApplyDraft, Applicable
<1>13. ASSUME NEW e \in Edits, NEW decision \in Decisions, Decide(e, decision) PROVE TypeOK'
  BY <1>13 DEF Decide, Worded
<1>14. ASSUME NEW e \in Edits, NEW kind \in Kinds, Save(e, kind) PROVE TypeOK'
  BY <1>14 DEF Save, Hears, Waits
<1>15. ASSUME NEW e \in Edits, SaveTimeout(e) PROVE TypeOK'
  BY <1>15 DEF SaveTimeout
<1>16. ASSUME NEW e \in Edits, CrashInWrite(e) PROVE TypeOK'
  BY <1>16, VolatileType DEF CrashInWrite
<1>17. ASSUME Crash PROVE TypeOK'
  BY <1>17, VolatileType DEF Crash
<1>18. ASSUME Restart PROVE TypeOK'
  BY <1>18 DEF Restart
<1>19. ASSUME UNCHANGED vars PROVE TypeOK'
  BY <1>19 DEF vars
<1> QED
  BY <1>1, <1>2, <1>3, <1>4, <1>5, <1>6, <1>7, <1>8, <1>9, <1>10, <1>11, <1>12, <1>13, <1>14, <1>15, <1>16, <1>17, <1>18, <1>19
     DEF Next, QueueStep, ApplierStep

\* What a step that touches one edit at most leaves of the ways of the others.
LEMMA OtherWays ==
  ASSUME Decided, NEW e \in Edits, up' = up,
         \A f \in Edits \ {e} : /\ queue'[f] = queue[f] /\ disk'[f] = disk[f]
                                /\ enq'[f] = enq[f] /\ dec'[f] = dec[f]
                                /\ event'[f] = event[f] /\ work'[f] = work[f]
                                /\ f \in applied' <=> f \in applied
                                /\ \A kind \in Kinds :
                                      <<f, kind>> \in refused' <=> <<f, kind>> \in refused
  PROVE  Way(e)' => Decided'
<1>1. ASSUME NEW f \in Edits \ {e} PROVE Way(f)'
  <2>1. Way(f)
    BY DEF Decided
  <2>2. /\ <<f, "enqueue">> \in refused' <=> <<f, "enqueue">> \in refused
        /\ <<f, "decide">> \in refused' <=> <<f, "decide">> \in refused
    BY DEF Kinds
  <2>3. Recorded(f)' <=> Recorded(f)
    BY DEF Recorded
  <2> QED
    BY <2>1, <2>2, <2>3 DEF Way
<1> QED
  BY <1>1 DEF Decided

\* What is decided is on record once its save was answered, or the save was refused.
LEMMA SaveStep ==
  ASSUME TypeOK, OnRecord, Decided, AckedIsDurable,
         NEW e \in Edits, NEW kind \in Kinds, Save(e, kind)
  PROVE  OnRecord' /\ Decided' /\ AckedIsDurable'
<1>0. /\ up /\ up' /\ UNCHANGED <<queue, odd, event, work, draft, applied, acked>>
      /\ enq \in [Edits -> Handler] /\ dec \in [Edits -> Handler]
      /\ disk \in [Edits -> Status] /\ queue \in [Edits -> Status]
  BY DEF Save, TypeOK, fileVars
<1>1. disk' \in {disk, queue}
  BY DEF Save
<1>2. \A f \in Edits : /\ disk[f] # "absent" => queue[f] # "absent"
                       /\ disk[f] \in Decisions => queue[f] = disk[f]
  BY <1>0 DEF OnRecord
<1>3. \A f \in Edits : /\ disk[f] # "absent" => disk'[f] # "absent"
                       /\ disk[f] \in Decisions => disk'[f] = disk[f]
                       /\ disk'[f] # "absent" => queue[f] # "absent"
                       /\ disk'[f] \in Decisions => queue[f] = disk'[f]
  BY <1>1, <1>2
<1>4. \A f \in Edits :
         /\ enq'[f] = enq[f] \/ (enq[f] = "saving" /\ enq'[f] \in {"answered", "raised"})
         /\ dec'[f] = dec[f] \/ (dec[f] = "saving" /\ dec'[f] \in {"answered", "raised"})
  BY <1>0 DEF Save, Hears, Waits
<1>5. refused \subseteq refused'
  BY DEF Save
<1>6. /\ enq'[e] = "answered" => enq[e] = "answered" \/ disk' = queue \/ <<e, "enqueue">> \in refused'
      /\ dec'[e] = "answered" => dec[e] = "answered" \/ disk' = queue \/ <<e, "decide">> \in refused'
  BY <1>0 DEF Save, Hears, Waits, Kinds
<1>7. \A f \in Edits \ {e} : enq'[f] = enq[f] /\ dec'[f] = dec[f]
  BY <1>0 DEF Save, Hears
<1>8. OnRecord'
  <2>1. \A f \in Edits : /\ draft[f] = "none" => enq[f] = "none"
                         /\ enq[f] \in {"none", "called"} => queue[f] = "absent" /\ disk[f] = "absent"
    BY DEF OnRecord
  <2>2. \A f \in Edits : /\ draft'[f] = "none" => enq'[f] = "none"
                         /\ enq'[f] \in {"none", "called"} => queue'[f] = "absent" /\ disk'[f] = "absent"
    BY <1>0, <1>1, <1>4, <2>1
  <2> QED
    BY <1>0, <1>3, <2>2 DEF OnRecord
<1>9. ASSUME NEW f \in Edits PROVE Way(f)'
  <2>0. Way(f)
    BY DEF Decided
  <2>1. /\ enq'[f] = "answered" => enq[f] = "answered" \/ disk' = queue \/ <<f, "enqueue">> \in refused'
        /\ dec'[f] = "answered" => dec[f] = "answered" \/ disk' = queue \/ <<f, "decide">> \in refused'
    BY <1>6, <1>7
  <2>2. enq[f] = "saving" => queue[f] # "absent"
    BY <2>0 DEF Way
  <2>3. enq'[f] = "answered" => disk'[f] # "absent" \/ <<f, "enqueue">> \in refused'
    <3>1. CASE enq[f] = "answered"
      BY <1>3, <1>5, <2>0, <3>1 DEF Way
    <3>2. CASE enq[f] # "answered" /\ enq'[f] = "answered"
      BY <1>4, <2>1, <2>2, <3>2
    <3> QED
      BY <3>1, <3>2
  <2>4. /\ dec'[f] \in {"saving", "answered"} => dec[f] \in {"saving", "answered"}
        /\ enq'[f] = "saving" => enq[f] = "saving"
    BY <1>4
  <2>5. /\ dec'[f] \in {"saving", "answered"}
              => queue'[f] \in Decisions /\ event'[f] = "none" /\ work'[f] = "none"
        /\ event'[f] # "none" => work'[f] = "none"
        /\ event'[f] # "none" \/ work'[f] # "none" => queue'[f] \in Decisions
        /\ enq'[f] = "saving" => queue'[f] # "absent"
    BY <1>0, <2>0, <2>2, <2>4 DEF Way
  <2>6. Recorded(f)' \/ <<f, "decide">> \in refused'
    <3>1. SUFFICES ASSUME Recorded(f), <<f, "decide">> \notin refused' PROVE Recorded(f)'
      BY <1>5, <2>0 DEF Way
    <3>2. dec'[f] = "answered" => disk'[f] = queue'[f]
      <4>1. CASE dec[f] = "answered"
        <5>1. disk[f] = queue[f] /\ queue[f] \in Decisions
          BY <2>0, <3>1, <4>1 DEF Recorded, Way
        <5> QED
          BY <1>0, <1>3, <5>1
      <4>2. CASE dec[f] # "answered" /\ dec'[f] = "answered"
        BY <1>0, <2>1, <3>1, <4>2
      <4> QED
        BY <4>1, <4>2
    <3>3. /\ dec'[f] \in {"saving", "answered"} \/ event'[f] # "none" => f \notin applied'
      BY <1>0, <2>4, <3>1 DEF Recorded
    <3>4. event[f] # "none" => disk[f] = event[f] /\ event[f] \in Decisions
      BY <3>1 DEF Recorded, TypeOK
    <3>5. /\ work[f] \in {"approving", "gating"} => disk[f] = "approved" /\ f \notin applied
          /\ work[f] # "none" => disk[f] \in Decisions
          /\ f \in applied => disk[f] = "approved"
      BY <3>1 DEF Recorded
    <3>6. event'[f] # "none" => disk'[f] = event'[f]
      BY <1>0, <1>3, <3>4
    <3>7. /\ work'[f] \in {"approving", "gating"} => disk'[f] = "approved" /\ f \notin applied'
          /\ work'[f] # "none" => disk'[f] \in Decisions
          /\ f \in applied' => disk'[f] = "approved"
      BY <1>0, <1>3, <3>5 DEF Decisions
    <3> QED
      BY <3>2, <3>3, <3>6, <3>7 DEF Recorded
  <2> QED
    BY <1>0, <2>3, <2>5, <2>6 DEF Way
<1>10. AckedIsDurable'
  BY <1>0, <1>3, <1>5 DEF AckedIsDurable, TypeOK
<1> QED
  BY <1>8, <1>9, <1>10 DEF Decided

\* Every step keeps the record and the ways of decisions.
LEMMA NextIInv == ASSUME LoadMayFail = FALSE PROVE IInv /\ [Next]_vars => IInv'
<1> SUFFICES ASSUME IInv, [Next]_vars PROVE IInv'
  OBVIOUS
<1> DEFINE Rest == OnRecord /\ Decided /\ AckedIsDurable
<1>0. TypeOK /\ TypeOK' /\ Rest
  BY NextTypeOK DEF IInv
<1> USE <1>0 DEF TypeOK, OnRecord, AckedIsDurable, Decisions, queueVars, fileVars
<1>1. ASSUME NEW e \in Edits, Stage(e) PROVE Rest'
  BY <1>1 DEF Stage, Decided, Way, Recorded
<1>2. ASSUME NEW e \in Edits, Enqueue(e) PROVE Rest'
  <2>0. enq[e] = "called" /\ UNCHANGED <<up, disk, dec, event, work, draft, applied, acked, refused>>
    BY <1>2 DEF Enqueue
  <2>1. Way(e)
    BY DEF Decided
  <2>2. up /\ up' /\ draft[e] # "none" /\ queue[e] = "absent" /\ disk[e] = "absent"
    BY <2>0, <2>1 DEF Way
  <2>3. \A f \in Edits : f # e => queue'[f] = queue[f] /\ enq'[f] = enq[f]
    BY <1>2 DEF Enqueue
  <2>4. queue'[e] = "pending" /\ enq'[e] = "saving"
    BY <1>2 DEF Enqueue
  <2>5. OnRecord'
    BY <2>0, <2>2, <2>3, <2>4
  <2>6. Way(e)'
    BY <2>0, <2>1, <2>2, <2>4 DEF Way, Recorded
  <2>7. Decided'
    BY <2>0, <2>3, <2>6, OtherWays
  <2> QED
    BY <2>0, <2>5, <2>7
<1>3. ASSUME NEW e \in Edits, EnqueueFails(e) PROVE Rest'
  BY <1>3 DEF EnqueueFails, Decided, Way, Recorded
<1>4. ASSUME NEW e \in Edits, EnqueueReplies(e) PROVE Rest'
  <2>0. /\ enq[e] = "answered" /\ enq' = [enq EXCEPT ![e] = "replied"] /\ acked' = acked \cup {e}
        /\ UNCHANGED <<up, queue, odd, saves, disk, dec, event, work, draft, applied, refused>>
    BY <1>4 DEF EnqueueReplies
  <2>1. Way(e)
    BY DEF Decided
  <2>2. OnRecord'
    BY <2>0
  <2>3. Way(e)'
    BY <2>0, <2>1 DEF Way, Recorded
  <2>4. Decided'
    BY <2>0, <2>3, OtherWays
  <2>5. AckedIsDurable'
    BY <2>0, <2>1 DEF Way
  <2> QED
    BY <2>2, <2>4, <2>5
<1>5. ASSUME NEW e \in Edits, DecisionGoesOut(e) PROVE Rest'
  BY <1>5 DEF DecisionGoesOut, Decided, Way, Recorded
<1>6. ASSUME NEW e \in Edits, OnDecided(e) PROVE Rest'
  BY <1>6 DEF OnDecided, Decided, Way, Recorded
<1>7. ASSUME NEW e \in Edits, Skip(e) PROVE Rest'
  BY <1>7 DEF Skip, Decided, Way, Recorded
<1>8. ASSUME NEW e \in Edits, ApplyRejection(e) PROVE Rest'
  BY <1>8 DEF ApplyRejection, Decided, Way, Recorded
<1>9. ASSUME NEW e \in Edits, CheckDraft(e) PROVE Rest'
  BY <1>9 DEF CheckDraft, Applicable, Decided, Way, Recorded
<1>10. ASSUME NEW e \in Edits, Write(e) PROVE Rest'
  BY <1>10 DEF Write, Decided, Way, Recorded
<1>11. ASSUME NEW e \in Edits, Gated(e) PROVE Rest'
  BY <1>11 DEF Gated, Decided, Way, Recorded
<1>12. ASSUME NEW e \in Edits, ApplyDraft(e) PROVE Rest'
  BY <1>12 DEF ApplyDraft, Applicable, Decided, Way, Recorded
<1>13. ASSUME NEW e \in Edits, NEW decision \in Decisions, Decide(e, decision) PROVE Rest'
  <2>0. /\ up /\ queue[e] = "pending" /\ queue' = [queue EXCEPT ![e] = decision]
        /\ dec' = [dec EXCEPT ![e] = "saving"]
        /\ UNCHANGED <<up, disk, enq, event, work, draft, applied, acked, refused>>
    BY <1>13 DEF Decide
  <2>1. Way(e) /\ (disk[e] \in Decisions => queue[e] = disk[e])
    BY <2>0 DEF Decided
  <2>2. disk[e] \notin Decisions
    BY <2>0, <2>1
  <2>3. OnRecord'
    BY <2>0, <2>2
  <2>4. event[e] = "none" /\ work[e] = "none"
    BY <2>0, <2>1 DEF Way
  <2>5. Recorded(e) => e \notin applied
    BY <2>2 DEF Recorded
  <2>6. Way(e)'
    BY <2>0, <2>1, <2>4, <2>5 DEF Way, Recorded
  <2>7. Decided'
    BY <2>0, <2>6, OtherWays
  <2> QED
    BY <2>0, <2>3, <2>7
<1>14. ASSUME NEW e \in Edits, NEW kind \in Kinds, Save(e, kind) PROVE Rest'
  BY <1>14, SaveStep
<1>15. ASSUME NEW e \in Edits, SaveTimeout(e) PROVE Rest'
  BY <1>15 DEF SaveTimeout, Decided, Way, Recorded
<1>16. ASSUME NEW e \in Edits, CrashInWrite(e) PROVE Rest'
  BY <1>16 DEF CrashInWrite, Volatile, Decided, Way, Recorded
<1>17. ASSUME Crash PROVE Rest'
  BY <1>17 DEF Crash, Volatile, Decided, Way, Recorded
<1>18. ASSUME Restart PROVE Rest'
  BY <1>18 DEF Restart, Decided, Way, Recorded
<1>19. ASSUME UNCHANGED vars PROVE Rest'
  BY <1>19 DEF vars, Decided, Way, Recorded
<1>20. Rest'
  <2> HIDE DEF Rest
  <2> QED
    BY <1>1, <1>2, <1>3, <1>4, <1>5, <1>6, <1>7, <1>8, <1>9, <1>10, <1>11, <1>12, <1>13, <1>14,
       <1>15, <1>16, <1>17, <1>18, <1>19
       DEF Next, QueueStep, ApplierStep
<1> QED
  BY <1>20 DEF IInv

-----------------------------------------------------------------------------
\* Types, the record and the way of a decision, for any edits, files and
\* crashes.
THEOREM Invariant == ASSUME LoadMayFail = FALSE PROVE Spec => []IInv
<1>1. Init => IInv
  BY InitIInv
<1>2. IInv /\ [Next]_vars => IInv'
  BY NextIInv
<1> QED
  BY <1>1, <1>2, PTL DEF Spec

\* A proposer that was answered finds its approval on record after any crash,
\* unless its own save was refused.
THEOREM AnsweredIsDurable == ASSUME LoadMayFail = FALSE PROVE Spec => []AckedIsDurable
<1>1. Spec => []IInv
  BY Invariant
<1>2. IInv => AckedIsDurable
  BY DEF IInv
<1> QED
  BY <1>1, <1>2, PTL

\* The approval wall implements Consent for the decisions whose own save was not
\* refused: a save records verdicts and changes none, a write follows its
\* approval, and no other step shows.
THEOREM WallImplementsConsent ==
  ASSUME LoadMayFail = FALSE PROVE Spec => ImplementsConsent
<1> DEFINE Verdict == [e \in Edits |-> IF disk[e] \in Decisions THEN disk[e] ELSE "open"]
           Acted == {e \in applied : <<e, "decide">> \notin refused}
<1>1. Init => Wall!Init
  BY DEF Init, Wall!Init, Decisions
<1>2. IInv /\ [Next]_vars => [Wall!Next]_(Wall!vars)
  <2> SUFFICES ASSUME IInv, [Next]_vars PROVE [Wall!Next]_(Wall!vars)
    OBVIOUS
  <2>0. TypeOK /\ OnRecord /\ Decided
    BY DEF IInv
  <2>1. ASSUME NEW e \in Edits, NEW kind \in Kinds, Save(e, kind) PROVE Wall!Record
    <3>1. UNCHANGED <<queue, applied>>
      BY <2>1 DEF Save, fileVars
    <3>2. /\ disk' \in [Edits -> Status]
          /\ \A f \in Edits : disk[f] \in Decisions => disk'[f] = disk[f]
      BY <2>0, <2>1 DEF Save, TypeOK, OnRecord
    <3>3. Verdict' \in [Edits -> {"open", "approved", "rejected"}]
      BY <3>2 DEF Decisions
    <3>4. \A f \in Edits : Verdict[f] # "open" => Verdict'[f] = Verdict[f]
      BY <3>2 DEF Decisions
    <3>5. \A f \in Edits : <<f, "decide">> \in refused' /\ <<f, "decide">> \notin refused
                             => f = e /\ dec[e] = "saving"
      BY <2>1 DEF Save, Waits
    <3>6. dec[e] = "saving" /\ <<e, "decide">> \notin refused => e \notin applied
      BY <2>0 DEF Decided, Way, Recorded
    <3>7. refused \subseteq refused'
      BY <2>1 DEF Save
    <3>8. Acted' = Acted
      <4>1. \A f \in Edits : f \in Acted' <=> f \in Acted
        BY <3>1, <3>5, <3>6, <3>7
      <4>2. applied \subseteq Edits /\ applied' \subseteq Edits
        BY <2>0, <3>1 DEF TypeOK
      <4> QED
        BY <4>1, <4>2
    <3> QED
      BY <3>3, <3>4, <3>8 DEF Wall!Record, Wall!Verdicts
  <2>2. ASSUME NEW e \in Edits, work[e] = "gating", applied' = applied \cup {e},
               UNCHANGED <<disk, refused>>
        PROVE [Wall!Next]_(Wall!vars)
    <3>1. CASE <<e, "decide">> \in refused
      <4>1. Acted' = Acted /\ Verdict' = Verdict
        BY <2>2, <3>1
      <4> QED
        BY <4>1 DEF Wall!vars
    <3>2. CASE <<e, "decide">> \notin refused
      <4>1. disk[e] = "approved" /\ e \notin applied
        BY <2>0, <2>2, <3>2 DEF Decided, Way, Recorded
      <4>2. Acted' = Acted \cup {e} /\ e \notin Acted /\ Verdict' = Verdict
        BY <2>2, <3>2, <4>1
      <4>3. Wall!Carry(e)
        BY <4>1, <4>2 DEF Wall!Carry, Decisions
      <4> QED
        BY <4>3 DEF Wall!Next
    <3> QED
      BY <3>1, <3>2
  <2>3. ASSUME UNCHANGED <<disk, applied, refused>> PROVE UNCHANGED Wall!vars
    BY <2>3 DEF Wall!vars
  <2>4. ASSUME NEW e \in Edits, Stage(e) \/ ApplyDraft(e) PROVE UNCHANGED <<disk, applied, refused>>
    BY <2>4 DEF Stage, ApplyDraft, queueVars
  <2>5. ASSUME NEW e \in Edits, NEW decision \in Decisions, Decide(e, decision)
        PROVE UNCHANGED <<disk, applied, refused>>
    BY <2>5 DEF Decide, fileVars
  <2>6. ASSUME NEW e \in Edits, CrashInWrite(e) \/ Write(e)
        PROVE work[e] = "gating" /\ applied' = applied \cup {e} /\ UNCHANGED <<disk, refused>>
    BY <2>6 DEF CrashInWrite, Volatile, Write, queueVars
  <2>7. ASSUME NEW e \in Edits,
               \/ Enqueue(e) \/ EnqueueFails(e) \/ SaveTimeout(e)
               \/ EnqueueReplies(e) \/ DecisionGoesOut(e)
        PROVE UNCHANGED <<disk, applied, refused>>
    BY <2>7 DEF Enqueue, EnqueueFails, SaveTimeout, EnqueueReplies, DecisionGoesOut, fileVars
  <2>8. ASSUME NEW e \in Edits,
               OnDecided(e) \/ Skip(e) \/ ApplyRejection(e) \/ CheckDraft(e) \/ Gated(e)
        PROVE UNCHANGED <<disk, applied, refused>>
    BY <2>8 DEF OnDecided, Skip, ApplyRejection, CheckDraft, Gated, queueVars, fileVars
  <2>9. ASSUME Crash \/ Restart PROVE UNCHANGED <<disk, applied, refused>>
    BY <2>9 DEF Crash, Volatile, Restart, fileVars
  <2>10. ASSUME UNCHANGED vars PROVE UNCHANGED <<disk, applied, refused>>
    BY <2>10 DEF vars, queueVars, fileVars
  <2> QED
    BY <2>1, <2>2, <2>3, <2>4, <2>5, <2>6, <2>7, <2>8, <2>9, <2>10
       DEF Next, QueueStep, ApplierStep, Wall!Next
<1>3. Spec => []IInv
  BY Invariant
<1> QED
  BY <1>1, <1>2, <1>3, PTL DEF Spec, ImplementsConsent, Wall!Spec
=============================================================================
