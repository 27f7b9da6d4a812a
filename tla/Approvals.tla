------------------------------ MODULE Approvals ------------------------------
(***************************************************************************)
(* The approval wall: bundled/approval_queue, which keeps its queue in one *)
(* record of bundled/checkpoint_store, and bundled/approval_applier, which *)
(* carries approved memory edits out.                                      *)
(*                                                                         *)
(* An edit is a draft file together with the approval that is asked for    *)
(* it.  Files survive a crash of the process; the queue, the handlers, the *)
(* events and the applier's work do not.  A step is what the event loop    *)
(* runs between two suspensions, unless a crash cuts it short.             *)
(***************************************************************************)
EXTENDS Naturals

CONSTANTS Edits,
          Targets,      \* memory files
          Target,       \* proposed_target
          Action,       \* proposed_action
          Nothing,      \* a memory file that does not exist
          Original,     \* the contents of one that existed before
          Before,       \* the memory files that did
          Odd,          \* requests that may carry what cannot be encoded
          LoadMayFail,  \* whether loading the record may time out or raise
          MaxCrashes    \* bound: the process crashes at most so often

ASSUME ApprovalsAssumption ==
    /\ Target \in [Edits -> Targets]
    /\ Action \in [Edits -> {"add", "update"}]
    /\ Before \subseteq Targets
    /\ Nothing \notin Edits /\ Original \notin Edits /\ Nothing # Original
    /\ Odd \subseteq Edits \X {"enqueue", "decide"}
    /\ LoadMayFail \in BOOLEAN
    /\ MaxCrashes \in Nat

VARIABLES up,       \* the process runs and the queue has loaded its record
          queue,    \* ApprovalQueue._queue
          disk,     \* the record of checkpoint_store
          enq,      \* the enqueue handler of each edit
          dec,      \* the approve or reject handler of each edit
          odd,      \* entries of the queue that cannot be encoded
          saves,    \* save requests that checkpoint_store has not handled yet
          event,    \* the undelivered approval_queue.decided of an edit
          work,     \* the applier's work on it
          draft,    \* the draft file
          memory,   \* the memory files
          acked,    \* history: edits whose enqueue was answered "pending"
          applied,  \* history: edits written because of an approval
          refused,  \* history: saves answered {ok: False} to the handler that asked
          crashes

queueVars == <<queue, odd, disk, enq, dec, saves, refused>>
fileVars == <<draft, memory, applied>>
vars == <<up, queueVars, event, work, fileVars, acked, crashes>>

Status == {"absent", "pending", "approved", "rejected"}
Decisions == {"approved", "rejected"}
Handler == {"none", "called", "saving", "answered", "replied", "raised"}
Kinds == {"enqueue", "decide"}

TypeOK == /\ up \in BOOLEAN
          /\ queue \in [Edits -> Status]
          /\ disk \in [Edits -> Status]
          /\ enq \in [Edits -> Handler]
          /\ dec \in [Edits -> Handler]
          /\ odd \subseteq Edits
          /\ saves \subseteq Edits \X Kinds
          /\ refused \subseteq Edits \X Kinds
          /\ event \in [Edits -> Decisions \cup {"none"}]
          /\ work \in [Edits -> {"none", "rejecting", "approving", "gating", "over"}]
          /\ draft \in [Edits -> {"none", "staged", "gone", "archived", "gated"}]
          /\ memory \in [Targets -> Edits \cup {Nothing, Original}]
          /\ acked \subseteq Edits
          /\ applied \subseteq Edits
          /\ crashes \in Nat

Init == /\ up = TRUE
        /\ queue = [e \in Edits |-> "absent"]
        /\ disk = [e \in Edits |-> "absent"]
        /\ enq = [e \in Edits |-> "none"]
        /\ dec = [e \in Edits |-> "none"]
        /\ odd = {}
        /\ saves = {}
        /\ refused = {}
        /\ event = [e \in Edits |-> "none"]
        /\ work = [e \in Edits |-> "none"]
        /\ draft = [e \in Edits |-> "none"]
        /\ memory = [t \in Targets |-> IF t \in Before THEN Original ELSE Nothing]
        /\ acked = {}
        /\ applied = {}
        /\ crashes = 0

-----------------------------------------------------------------------------
(* approval_queue and checkpoint_store *)

\* A proposer (memory_curator, reflection_agent) stages the draft and asks for
\* its approval.
Stage(e) == /\ up
            /\ draft[e] = "none"
            /\ draft' = [draft EXCEPT ![e] = "staged"]
            /\ enq' = [enq EXCEPT ![e] = "called"]
            /\ UNCHANGED <<up, queue, odd, disk, dec, saves, refused, event, work, memory,
                           applied, acked, crashes>>

\* The detail or reason given may be such that the entry cannot be encoded (half
\* of a surrogate pair, say).
Worded(e, kind) == \/ odd' = odd
                   \/ <<e, kind>> \in Odd /\ odd' = odd \cup {e}

\* enqueue up to the save.
Enqueue(e) == /\ enq[e] = "called"
              /\ enq' = [enq EXCEPT ![e] = "saving"]
              /\ queue' = [queue EXCEPT ![e] = "pending"]
              /\ Worded(e, "enqueue")
              /\ saves' = saves \cup {<<e, "enqueue">>}
              /\ UNCHANGED <<up, disk, dec, refused, event, work, fileVars, acked, crashes>>

\* Nobody handles the request: the proposer goes on, the draft stays.
EnqueueFails(e) == /\ enq[e] = "called"
                   /\ enq' = [enq EXCEPT ![e] = "raised"]
                   /\ UNCHANGED <<up, queue, odd, disk, dec, saves, refused, event, work,
                                  fileVars, acked, crashes>>

\* _decide up to the save.
Decide(e, decision) ==
    /\ up
    /\ queue[e] = "pending"
    /\ queue' = [queue EXCEPT ![e] = decision]
    /\ dec' = [dec EXCEPT ![e] = "saving"]
    /\ Worded(e, "decide")
    /\ saves' = saves \cup {<<e, "decide">>}
    /\ UNCHANGED <<up, disk, enq, refused, event, work, fileVars, acked, crashes>>

\* The handler that asked for a save has not given up.
Waits(e, kind) == (IF kind = "enqueue" THEN enq[e] ELSE dec[e]) = "saving"

\* It hears of its end.
Hears(e, kind, news) ==
    /\ enq' = IF kind = "enqueue" /\ Waits(e, kind) THEN [enq EXCEPT ![e] = news] ELSE enq
    /\ dec' = IF kind = "decide" /\ Waits(e, kind) THEN [dec EXCEPT ![e] = news] ELSE dec

\* checkpoint_store handles a save: what it writes is the queue of that moment,
\* for the message holds a reference to it.  If an entry cannot be encoded it
\* answers {ok: False}, which _persist does not look at: the handler goes on as
\* if it were saved.  Or it raises (no space, say).
Save(e, kind) ==
    /\ up
    /\ <<e, kind>> \in saves
    /\ saves' = saves \ {<<e, kind>>}
    /\ \/ /\ odd = {}
          /\ disk' = queue
          /\ Hears(e, kind, "answered")
          /\ UNCHANGED refused
       \/ /\ odd # {}
          /\ Hears(e, kind, "answered")
          /\ refused' = IF Waits(e, kind) THEN refused \cup {<<e, kind>>} ELSE refused
          /\ UNCHANGED disk
       \/ Hears(e, kind, "raised") /\ UNCHANGED <<disk, refused>>
    /\ UNCHANGED <<up, queue, odd, event, work, fileVars, acked, crashes>>

\* The save is not handled within five seconds: the handler raises, the entry
\* stays as it is and the message stays under way.
SaveTimeout(e) ==
    /\ \/ enq[e] = "saving" /\ enq' = [enq EXCEPT ![e] = "raised"] /\ UNCHANGED dec
       \/ dec[e] = "saving" /\ dec' = [dec EXCEPT ![e] = "raised"] /\ UNCHANGED enq
    /\ UNCHANGED <<up, queue, odd, disk, saves, refused, event, work, fileVars, acked,
                   crashes>>

\* Fault: the proposer is answered before the entry is known to be saved.
EnqueueRepliesAtOnce(e) == /\ enq[e] \in {"saving", "answered"}
                           /\ enq' = [enq EXCEPT ![e] = "replied"]
                           /\ acked' = acked \cup {e}
                           /\ UNCHANGED <<up, queue, odd, disk, dec, saves, refused, event,
                                          work, fileVars, crashes>>

\* The rest of enqueue: the event is published and the proposer answered.
EnqueueReplies(e) == /\ enq[e] = "answered"
                     /\ enq' = [enq EXCEPT ![e] = "replied"]
                     /\ acked' = acked \cup {e}
                     /\ UNCHANGED <<up, queue, odd, disk, dec, saves, refused, event, work,
                                    fileVars, crashes>>

\* Fault: the decision is published before it is known to be saved.
DecisionGoesOutAtOnce(e) == /\ dec[e] \in {"saving", "answered"}
                            /\ dec' = [dec EXCEPT ![e] = "replied"]
                            /\ event' = [event EXCEPT ![e] = queue[e]]
                            /\ UNCHANGED <<up, queue, odd, disk, enq, saves, refused, work,
                                           fileVars, acked, crashes>>

\* Fault: only approvals are published under .decided.
DecisionGoesOutIfApproved(e) ==
    /\ dec[e] = "answered"
    /\ dec' = [dec EXCEPT ![e] = "replied"]
    /\ event' = IF queue[e] = "approved" THEN [event EXCEPT ![e] = "approved"] ELSE event
    /\ UNCHANGED <<up, queue, odd, disk, enq, saves, refused, work, fileVars, acked,
                   crashes>>

\* The rest of _decide: both events are published and the caller is answered.
DecisionGoesOut(e) == /\ dec[e] = "answered"
                      /\ dec' = [dec EXCEPT ![e] = "replied"]
                      /\ event' = [event EXCEPT ![e] = queue[e]]
                      /\ UNCHANGED <<up, queue, odd, disk, enq, saves, refused, work,
                                     fileVars, acked, crashes>>

-----------------------------------------------------------------------------
(* approval_applier *)

\* _on_decided: the entry is asked for.
OnDecided(e) == /\ event[e] # "none"
                /\ event' = [event EXCEPT ![e] = "none"]
                /\ work' = [work EXCEPT ![e] = IF event[e] = "approved" THEN "approving"
                                                                      ELSE "rejecting"]
                /\ UNCHANGED <<up, queueVars, fileVars, acked, crashes>>

\* _skip, after a failed request, an unusable draft or target, or a failed write.
Skip(e) == /\ work[e] \in {"rejecting", "approving", "gating"}
           /\ work' = [work EXCEPT ![e] = "over"]
           /\ UNCHANGED <<up, queueVars, event, fileVars, acked, crashes>>

\* _apply_rejection: the draft, if it is still there, goes to the archive.
ApplyRejection(e) ==
    /\ work[e] = "rejecting"
    /\ work' = [work EXCEPT ![e] = "over"]
    /\ draft' = IF draft[e] = "staged" THEN [draft EXCEPT ![e] = "archived"] ELSE draft
    /\ UNCHANGED <<up, queueVars, event, memory, applied, acked, crashes>>

\* The draft exists and its target suits the action.
Applicable(e) == /\ draft[e] = "staged"
                 /\ (Action[e] = "add") <=> (memory[Target[e]] = Nothing)

\* _apply_approval up to the request to the admission gate.  Otherwise it skips.
CheckDraft(e) == /\ work[e] = "approving"
                 /\ Applicable(e)
                 /\ work' = [work EXCEPT ![e] = "gating"]
                 /\ UNCHANGED <<up, queueVars, event, fileVars, acked, crashes>>

\* The gate passed the entry, is not there or did not answer: the target is
\* written, whatever became of it meanwhile, and the draft deleted, if it can.
Write(e) ==
    /\ work[e] = "gating"
    /\ work' = [work EXCEPT ![e] = "over"]
    /\ memory' = [memory EXCEPT ![Target[e]] = e]
    /\ applied' = applied \cup {e}
    /\ \/ draft' = IF draft[e] = "staged" THEN [draft EXCEPT ![e] = "gone"] ELSE draft
       \/ UNCHANGED draft
    /\ UNCHANGED <<up, queueVars, event, acked, crashes>>

\* The gate refused it: the draft is archived.
Gated(e) ==
    /\ work[e] = "gating"
    /\ work' = [work EXCEPT ![e] = "over"]
    /\ \/ draft' = IF draft[e] = "staged" THEN [draft EXCEPT ![e] = "gated"] ELSE draft
       \/ UNCHANGED draft
    /\ UNCHANGED <<up, queueVars, event, memory, applied, acked, crashes>>

\* The operation apply_draft, which asks nobody and publishes nothing.
ApplyDraft(e) ==
    /\ up
    /\ Applicable(e)
    /\ memory' = [memory EXCEPT ![Target[e]] = e]
    /\ \/ draft' = [draft EXCEPT ![e] = "gone"]
       \/ UNCHANGED draft
    /\ UNCHANGED <<up, queueVars, event, work, applied, acked, crashes>>

-----------------------------------------------------------------------------
(* Crashes *)

Volatile == /\ up' = FALSE
            /\ crashes < MaxCrashes
            /\ crashes' = crashes + 1
            /\ queue' = [e \in Edits |-> "absent"]
            /\ enq' = [e \in Edits |-> IF enq[e] = "none" THEN "none" ELSE "raised"]
            /\ dec' = [e \in Edits |-> "none"]
            /\ odd' = {}
            /\ saves' = {}
            /\ event' = [e \in Edits |-> "none"]
            /\ work' = [e \in Edits |-> "none"]
            /\ UNCHANGED <<disk, refused, acked>>

Crash == /\ up
         /\ Volatile
         /\ UNCHANGED fileVars

\* The crash hits the applier after the write and before the draft is deleted.
CrashInWrite(e) == /\ work[e] = "gating"
                   /\ Volatile
                   /\ memory' = [memory EXCEPT ![Target[e]] = e]
                   /\ applied' = applied \cup {e}
                   /\ UNCHANGED draft

\* Boot: load_state.  If it fails the queue starts empty.
Restart == /\ ~up
           /\ up' = TRUE
           /\ \/ queue' = disk
              \/ LoadMayFail /\ UNCHANGED queue
           /\ UNCHANGED <<disk, odd, enq, dec, saves, refused, event, work, fileVars, acked,
                          crashes>>

ApplierStep(e) == \/ OnDecided(e) \/ Skip(e) \/ ApplyRejection(e) \/ CheckDraft(e)
                  \/ Write(e) \/ Gated(e)

QueueStep(e) == \/ \E kind \in Kinds : Save(e, kind)
                \/ Enqueue(e) \/ EnqueueFails(e) \/ SaveTimeout(e)
                \/ EnqueueReplies(e) \/ DecisionGoesOut(e)

Next == \/ \E e \in Edits : \/ Stage(e) \/ ApplyDraft(e) \/ CrashInWrite(e)
                            \/ \E decision \in Decisions : Decide(e, decision)
                            \/ QueueStep(e) \/ ApplierStep(e)
        \/ Crash \/ Restart

Spec == Init /\ [][Next]_vars

\* Tasks that can run run, and every request has its timeout.  Nobody need
\* propose, decide or crash.
Fairness == /\ \A e \in Edits : WF_vars(QueueStep(e)) /\ WF_vars(ApplierStep(e))
            /\ WF_vars(Restart)

-----------------------------------------------------------------------------
\* What the record says, and the queue that was loaded from it knows.
OnRecord ==
    /\ up => \A e \in Edits : /\ disk[e] # "absent" => queue[e] # "absent"
                              /\ disk[e] \in Decisions => queue[e] = disk[e]
    /\ ~up => saves = {} /\ odd = {} /\ \A e \in Edits : queue[e] = "absent"
    /\ \A e \in Edits : /\ draft[e] = "none" => enq[e] = "none"
                        /\ enq[e] \in {"none", "called"}
                              => queue[e] = "absent" /\ disk[e] = "absent"

\* A decision that is out is on record: at the save, with the subscribers, with
\* the applier and in the file.
Recorded(e) ==
    /\ dec[e] = "answered" => disk[e] = queue[e]
    /\ dec[e] \in {"saving", "answered"} \/ event[e] # "none" => e \notin applied
    /\ event[e] # "none" => disk[e] = event[e]
    /\ work[e] \in {"approving", "gating"} => disk[e] = "approved" /\ e \notin applied
    /\ work[e] # "none" => disk[e] \in Decisions
    /\ e \in applied => disk[e] = "approved"

\* The way of a decision: it is at one place at most, and on record once it is
\* out, unless its save was refused.
Way(e) ==
    /\ enq[e] \in {"called", "saving", "answered"} => up
    /\ enq[e] = "saving" => queue[e] # "absent"
    /\ enq[e] = "answered" => disk[e] # "absent" \/ <<e, "enqueue">> \in refused
    /\ dec[e] \in {"saving", "answered"} => up
    /\ dec[e] \in {"saving", "answered"}
          => queue[e] \in Decisions /\ event[e] = "none" /\ work[e] = "none"
    /\ event[e] # "none" => work[e] = "none"
    /\ event[e] # "none" \/ work[e] # "none" => queue[e] \in Decisions
    /\ Recorded(e) \/ <<e, "decide">> \in refused

Decided == \A e \in Edits : Way(e)

\* Whatever was answered "pending" is in the queue whenever the process is up.  Does not
\* hold: a save that is refused is taken for one that was done (_persist).
PendingSurvives == up => \A e \in acked : queue[e] # "absent"

\* An enqueue that was answered "pending" finds its approval on record after any
\* crash, whatever saves failed, were late or overtook each other, unless its own
\* save was answered {ok: False}.
AckedIsDurable == \A e \in acked : disk[e] # "absent" \/ <<e, "enqueue">> \in refused

\* The inductive invariant: types, the record and the way of a decision.
IInv == TypeOK /\ OnRecord /\ Decided /\ AckedIsDurable

\* The approval wall keeps what module Consent promises: a memory file is
\* written for an approval only when that approval is on record for good, and
\* once at most, whatever handlers time out and wherever the process crashes;
\* this for the approvals whose own decision was never answered {ok: False} by
\* checkpoint_store, whatever became of those of others.
Wall == INSTANCE Consent WITH
            Acts <- Edits,
            verdict <- [e \in Edits |-> IF disk[e] \in Decisions THEN disk[e] ELSE "open"],
            acted <- {e \in applied : <<e, "decide">> \notin refused}
ImplementsConsent == Wall!Spec

\* A decision gets to the applier and is carried out, archived or reported as
\* skipped, or whoever decided was told that it failed, unless the process
\* crashed.
DecisionsSettle ==
    \A e \in Edits :
        queue[e] \in Decisions ~> \/ work[e] = "over"
                                  \/ dec[e] = "raised"
                                  \/ crashes > 0

=============================================================================
