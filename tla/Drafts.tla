------------------------------- MODULE Drafts -------------------------------
(***************************************************************************)
(* Streaming drafts of the gateway (gateway/draft.py, the draft operations *)
(* of gateway/handler.py) and their two kinds of users: an agent that      *)
(* replies through reply_via_gateway, with updates of its draft on the     *)
(* way, and the dashboard plugin, whose card is refreshed by a loop until  *)
(* another message of the session closes it.                               *)
(*                                                                         *)
(* A handle is named after the task that opened it.  A text is a version   *)
(* number.  Several tasks may be inside one handle: the one that opened    *)
(* it, updates, a trailing flush, the refresh loop and the one that closes *)
(* it; all but the first render under the handle's lock, which is fair.    *)
(***************************************************************************)
EXTENDS Naturals, Sequences, SequencesExt, FiniteSets

CONSTANTS
    Streams,    \* agents that reply through a draft
    Updates,    \* update_draft requests
    Events,     \* messages of the session that reach the dashboard
    MaxText,    \* bound: versions the refresh loop writes
    None

ASSUME DraftsAssumption == MaxText \in Nat \ {0}

Handles == Streams \cup Events
Trail(h) == <<h, "trail">>      \* the coalesced flush of a handle
Loop(h)  == <<h, "loop">>       \* the refresh loop of a dashboard
Closer(s) == <<s, "close">>     \* the close_draft request of a stream
Tasks == Handles \cup Updates \cup {Trail(h) : h \in Handles}
         \cup {Loop(h) : h \in Events} \cup {Closer(s) : s \in Streams}

\* A task has one name.
ASSUME TasksAssumption ==
    /\ Streams \cap Updates = {} /\ Events \cap (Streams \cup Updates) = {} /\ None \notin Handles
    /\ \A h \in Handles : {Trail(h), Loop(h), Closer(h)} \cap (Handles \cup Updates) = {}

VARIABLES
    draft,      \* draft[h]: opened, closed, text, sent (last state key), msg (message id known)
    registry,   \* GatewayManager.drafts
    lockq,      \* lockq[h]: holder of the handle's lock, then its waiters
    pc,         \* pc[t]: where a task is suspended
    call,       \* call[t]: the render_draft call a task waits for, or None
    chat,       \* chat[h]: messages posted for a handle, text shown, whether it is final
    canEdit,    \* supports_edit of the adapter
    asker,      \* asker[s]: where reply_via_gateway of a stream is
    plain,      \* streams that fell back to a plain message
    active,     \* Dashboard._active of the session
    kind,       \* kind[e]: what the event asks of the dashboard
    target      \* target[t]: the handle a task works on

dvars == <<draft, registry, lockq, pc, call, chat, canEdit, asker, plain, active, kind, target>>

Busy == {"lock", "render"}
Render(h, final) == [h |-> h, text |-> draft[h].text, final |-> final, edit |-> draft[h].msg]
Waiting(t) == pc[t] = "lock" /\ Head(lockq[target[t]]) = t
TrailLive(h) == pc[Trail(h)] \in {"sleep"} \cup Busy
LoopLive(h) == pc[Loop(h)] \in {"ready"} \cup Busy

InitDrafts ==
    /\ draft = [h \in Handles |-> [opened |-> FALSE, closed |-> FALSE, text |-> 0, sent |-> 0, msg |-> FALSE]]
    /\ registry = {} /\ active = None /\ plain = {}
    /\ lockq = [h \in Handles |-> <<>>]
    /\ pc = [t \in Tasks |-> "idle"]
    /\ call = [t \in Tasks |-> None]
    /\ chat = [h \in Handles |-> [posts |-> 0, text |-> 0, final |-> FALSE]]
    /\ canEdit \in BOOLEAN
    /\ asker \in [Streams -> {"idle", "away"}]
    /\ kind = [e \in Events |-> None]
    /\ target = [t \in Tasks |-> None]

-----------------------------------------------------------------------------
(* DraftHandle *)

\* open_draft and handle.open() up to the first send, which takes no lock.
OpenWith(t, p) ==
    /\ draft' = [draft EXCEPT ![t].opened = TRUE, ![t].text = 1]
    /\ registry' = registry \cup {t}
    /\ call' = [call EXCEPT ![t] = [h |-> t, text |-> 1, final |-> FALSE, edit |-> FALSE]]
    /\ pc' = p /\ target' = [target EXCEPT ![t] = t]

\* Task t asks for the lock of h; p is the program counter it is then added to.
Queue(t, h, p) ==
    /\ lockq' = [lockq EXCEPT ![h] = Append(@, t)]
    /\ target' = [target EXCEPT ![t] = h]
    /\ pc' = [p EXCEPT ![t] = "lock"]

Closing(t) == t \in Events \cup {Closer(s) : s \in Streams}

\* Where a task goes when its flush is over.
After(t) == IF \E h \in Events : t = Loop(h) THEN "ready"
            ELSE IF Closing(t) THEN "closed" ELSE "done"

\* close() ends: the owner forgets the handle.
\* Fault: the owner is not told.
NeverDropped(t) == registry
Dropped(t) == IF Closing(t) THEN registry \ {target[t]} ELSE registry

\* _do_flush in the lock: an unchanged text is not sent again unless it is final.
Flush(t) ==
    LET h == target[t] IN
    /\ Waiting(t)
    /\ \/ /\ ~Closing(t) /\ draft[h].sent = draft[h].text
          /\ lockq' = [lockq EXCEPT ![h] = Tail(@)]
          /\ pc' = [pc EXCEPT ![t] = After(t)]
          /\ UNCHANGED <<draft, call>>
       \/ /\ Closing(t) \/ draft[h].sent # draft[h].text
          /\ draft' = [draft EXCEPT ![h].sent = draft[h].text]
          /\ call' = [call EXCEPT ![t] = Render(h, Closing(t))]
          /\ pc' = [pc EXCEPT ![t] = "render"]
          /\ UNCHANGED lockq
    /\ UNCHANGED <<registry, chat, canEdit, asker, plain, active, kind, target>>

\* What the chat shows once the platform has taken a call: an adapter that cannot
\* edit swallows every frame but the final one.
Taken(c) ==
    IF ~canEdit /\ ~c.final THEN chat
    ELSE [chat EXCEPT ![c.h] = [posts |-> @.posts + (IF c.edit THEN 0 ELSE 1),
                                text |-> c.text, final |-> @.final \/ c.final]]

Posted(c) == canEdit \/ c.final

\* The call ends: taken and confirmed, refused, or taken while the answer is lost
\* (a timeout of the client or of the final flush: wait_for gives up after five seconds).
Results == {"ok", "refused", "lost"}
Confirm(c, r) == IF r = "ok" /\ Posted(c) THEN [draft EXCEPT ![c.h].msg = TRUE] ELSE draft
Effect(c, r) == chat' = IF r = "refused" THEN chat ELSE Taken(c)

RenderEnds(t, r) ==
    LET c == call[t] h == target[t] IN
    /\ pc[t] = "render"
    /\ Effect(c, r)
    /\ draft' = Confirm(c, r)
    /\ call' = [call EXCEPT ![t] = None]
    /\ lockq' = [lockq EXCEPT ![h] = Tail(@)]
    /\ registry' = Dropped(t)
    /\ pc' = [pc EXCEPT ![t] = After(t)]
    /\ UNCHANGED <<canEdit, asker, plain, active, kind, target>>

\* set_content and its like raise once the handle is closed.
SetText(h) == [draft EXCEPT ![h].text = @ + 1]

\* The coalesced flush wakes up.
TrailWakes(h) ==
    /\ pc[Trail(h)] = "sleep"
    /\ Queue(Trail(h), h, pc)
    /\ UNCHANGED <<draft, registry, call, chat, canEdit, asker, plain, active, kind>>

\* close(), first part: no more updates; the trailing flush is cancelled where it is,
\* in its sleep, in the queue or in its call, which the platform may have taken.
Cancelled(h) ==
    LET t == Trail(h) IN
    /\ IF pc[t] = "render" THEN \E r \in {"refused", "lost"} : Effect(call[t], r) ELSE UNCHANGED chat
    /\ call' = [call EXCEPT ![t] = None]
    /\ lockq' = [lockq EXCEPT ![h] = RemoveFirst(@, t)]

Quiet(h, p) == IF TrailLive(h) THEN [p EXCEPT ![Trail(h)] = "done"] ELSE p

\* close(), second part: the final flush queues for the lock.
CloseQueues(t) ==
    /\ pc[t] = "closing"
    /\ Queue(t, target[t], pc)
    /\ UNCHANGED <<draft, registry, call, chat, canEdit, asker, plain, active, kind>>

-----------------------------------------------------------------------------
(* reply_via_gateway and the draft operations of the gateway *)

\* The request for open_draft: its handler opens the draft and waits for the first send.
Ask(s) ==
    /\ asker[s] = "idle"
    /\ asker' = [asker EXCEPT ![s] = "opening"]
    /\ OpenWith(s, [pc EXCEPT ![s] = "opening"])
    /\ UNCHANGED <<lockq, chat, canEdit, plain, active, kind>>

\* open() comes back, with or without a message id; the answer reaches whoever waits for it.
OpenEnds(s, r) ==
    /\ pc[s] = "opening" /\ s \in Streams
    /\ Effect(call[s], r) /\ draft' = Confirm(call[s], r)
    /\ call' = [call EXCEPT ![s] = None]
    /\ pc' = [pc EXCEPT ![s] = "done"]
    /\ asker' = [asker EXCEPT ![s] = IF @ = "opening" THEN "open" ELSE @]
    /\ UNCHANGED <<registry, lockq, canEdit, plain, active, kind, target>>

\* open() raises: the handle stays in the registry, and the agent or the dashboard goes on without.
OpenRaises(t) ==
    /\ pc[t] = "opening"
    /\ call' = [call EXCEPT ![t] = None]
    /\ pc' = [pc EXCEPT ![t] = "done"]
    /\ IF t \in Streams /\ asker[t] = "opening"
       THEN asker' = [asker EXCEPT ![t] = "done"] /\ plain' = plain \cup {t}
       ELSE UNCHANGED <<asker, plain>>
    /\ UNCHANGED <<draft, registry, lockq, chat, canEdit, active, kind, target>>

\* The request times out: plain text instead.  The handler goes on by itself.
AskTimesOut(s) ==
    /\ asker[s] = "opening"
    /\ asker' = [asker EXCEPT ![s] = "done"]
    /\ plain' = plain \cup {s}
    /\ UNCHANGED <<draft, registry, lockq, pc, call, chat, canEdit, active, kind, target>>

\* Fault: a handle that is being closed still takes an update.
UpdateLate(u, s) ==
    /\ pc[u] = "idle" /\ asker[s] \in {"open", "closing"}
    /\ draft' = SetText(s)
    /\ Queue(u, s, pc)
    /\ UNCHANGED <<registry, call, chat, canEdit, asker, plain, active, kind>>

\* update_draft: an unknown id and a closed handle are errors; else the text changes
\* and is flushed, now or later, as the throttle or flush_now say.
Update(u, s) ==
    /\ pc[u] = "idle" /\ asker[s] \in {"open", "closing"}
    /\ \/ /\ s \notin registry \/ draft[s].closed
          /\ pc' = [pc EXCEPT ![u] = "done"]
          /\ UNCHANGED <<draft, lockq, target>>
       \/ /\ s \in registry /\ ~draft[s].closed
          /\ draft' = SetText(s)
          /\ \/ Queue(u, s, pc)
             \/ /\ ~TrailLive(s)
                /\ pc' = [pc EXCEPT ![u] = "done", ![Trail(s)] = "sleep"]
                /\ UNCHANGED <<lockq, target>>
             \/ /\ TrailLive(s)
                /\ pc' = [pc EXCEPT ![u] = "done"]
                /\ UNCHANGED <<lockq, target>>
    /\ UNCHANGED <<registry, call, chat, canEdit, asker, plain, active, kind>>

\* close_draft: the handle leaves the registry, then close().
AskClose(s) ==
    /\ asker[s] = "open"
    /\ asker' = [asker EXCEPT ![s] = "closing"]
    /\ registry' = registry \ {s}
    /\ draft' = [draft EXCEPT ![s].closed = TRUE]
    /\ Cancelled(s)
    /\ target' = [target EXCEPT ![Closer(s)] = s]
    /\ pc' = [Quiet(s, pc) EXCEPT ![Closer(s)] = "closing"]
    /\ UNCHANGED <<canEdit, plain, active, kind>>

AskClosed(s) ==
    /\ asker[s] = "closing" /\ pc[Closer(s)] = "closed"
    /\ asker' = [asker EXCEPT ![s] = "done"]
    /\ UNCHANGED <<draft, registry, lockq, pc, call, chat, canEdit, plain, active, kind, target>>

-----------------------------------------------------------------------------
(* Dashboard *)

\* _stop, first part: the card is forgotten and its loop cancelled.
StopBegins(e) ==
    /\ target' = [target EXCEPT ![e] = active]
    /\ active' = None
    /\ pc' = [pc EXCEPT ![e] = "stopping"]
    /\ UNCHANGED <<draft, registry, lockq, call, chat>>

\* The subscriber's task runs: /dashboard opens a card, after closing the one there is;
\* any other message closes it.
OnEvent(e) ==
    /\ pc[e] = "come"
    /\ \/ active # None /\ StopBegins(e)
       \/ /\ active = None /\ kind[e] = "dashboard"
          /\ OpenWith(e, [pc EXCEPT ![e] = "opening"])
          /\ UNCHANGED <<lockq, chat, active>>
       \/ /\ active = None /\ kind[e] # "dashboard"
          /\ pc' = [pc EXCEPT ![e] = "done"]
          /\ UNCHANGED <<draft, registry, lockq, call, chat, active, target>>
    /\ UNCHANGED <<canEdit, asker, plain, kind>>

\* The cancelled loop ends wherever it waits and gives the lock back.
LoopCancelled(e) ==
    LET h == target[e] t == Loop(h) IN
    /\ pc[e] = "stopping" /\ LoopLive(h)
    /\ IF pc[t] = "render" THEN \E r \in {"refused", "lost"} : Effect(call[t], r) ELSE UNCHANGED chat
    /\ call' = [call EXCEPT ![t] = None]
    /\ lockq' = [lockq EXCEPT ![h] = RemoveFirst(@, t)]
    /\ pc' = [pc EXCEPT ![t] = "done"]
    /\ UNCHANGED <<draft, registry, canEdit, asker, plain, active, kind, target>>

\* _stop, second part: the final frame is written and close() begins.
StopCloses(e) ==
    LET h == target[e] IN
    /\ pc[e] = "stopping" /\ ~LoopLive(h)
    /\ draft' = [draft EXCEPT ![h].text = @ + 1, ![h].closed = TRUE]
    /\ Cancelled(h)
    /\ pc' = [Quiet(h, pc) EXCEPT ![e] = "closing"]
    /\ UNCHANGED <<registry, canEdit, asker, plain, active, kind, target>>

\* After _stop: /dashboard opens its own card, without looking at _active again.
Stopped(e) ==
    /\ pc[e] = "closed"
    /\ \/ /\ kind[e] = "dashboard"
          /\ OpenWith(e, [pc EXCEPT ![e] = "opening"])
       \/ /\ kind[e] # "dashboard"
          /\ pc' = [pc EXCEPT ![e] = "done"]
          /\ UNCHANGED <<draft, registry, call, target>>
    /\ UNCHANGED <<lockq, chat, canEdit, asker, plain, active, kind>>

\* draft.open() comes back: the loop starts and the card becomes the active one.
Opened(e, r) ==
    /\ pc[e] = "opening" /\ e \in Events
    /\ Effect(call[e], r) /\ draft' = Confirm(call[e], r)
    /\ call' = [call EXCEPT ![e] = None]
    /\ active' = e
    /\ pc' = [pc EXCEPT ![e] = "done", ![Loop(e)] = "ready"]
    /\ UNCHANGED <<registry, lockq, canEdit, asker, plain, kind, target>>

\* One round of the refresh loop; a snapshot may be the same as the last one.
Refresh(h) ==
    /\ pc[Loop(h)] = "ready" /\ ~draft[h].closed
    /\ \/ draft[h].text < MaxText /\ draft' = SetText(h)
       \/ UNCHANGED draft
    /\ Queue(Loop(h), h, pc)
    /\ UNCHANGED <<registry, call, chat, canEdit, asker, plain, active, kind>>

-----------------------------------------------------------------------------
DraftSteps ==
    \/ \E t \in Tasks : Flush(t) \/ CloseQueues(t)
    \/ \E t \in Tasks, r \in Results : RenderEnds(t, r)
    \/ \E h \in Handles : TrailWakes(h) \/ OpenRaises(h)
    \/ \E s \in Streams : Ask(s) \/ AskTimesOut(s) \/ AskClose(s) \/ AskClosed(s)
    \/ \E s \in Streams, r \in Results : OpenEnds(s, r)
    \/ \E u \in Updates, s \in Streams : Update(u, s)
    \/ \E e \in Events : OnEvent(e) \/ LoopCancelled(e) \/ StopCloses(e) \/ Stopped(e) \/ Refresh(e)
    \/ \E e \in Events, r \in Results : Opened(e, r)

\* The event loop runs what can run; adapters' calls end (they have timeouts).
DraftFairness ==
    /\ \A t \in Tasks :
         /\ WF_dvars(Flush(t)) /\ WF_dvars(CloseQueues(t))
         /\ WF_dvars(\E r \in Results : RenderEnds(t, r))
    /\ \A h \in Handles : WF_dvars(TrailWakes(h))
    /\ \A s \in Streams : WF_dvars(\E r \in Results : OpenEnds(s, r)) /\ WF_dvars(AskClosed(s))
    /\ \A e \in Events :
         /\ WF_dvars(OnEvent(e)) /\ WF_dvars(LoopCancelled(e)) /\ WF_dvars(StopCloses(e))
         /\ WF_dvars(Stopped(e)) /\ WF_dvars(\E r \in Results : Opened(e, r))

-----------------------------------------------------------------------------
(* Properties *)

Renderers(h) == {t \in Tasks : call[t] # None /\ call[t].h = h}

\* Once the platform has shown the final frame of a draft nothing replaces it, and it is
\* the text the draft ended with: no late update, flush or refresh overtakes close().
FinalIsLast ==
    \A h \in Handles : chat[h].final =>
        chat[h].text = draft[h].text /\ \A t \in Renderers(h) : FALSE

\* Every draft somebody closes is dropped by the gateway, and its lock is free.
ClosesEnd == \A h \in Handles : draft[h].closed ~> h \notin registry /\ lockq[h] = <<>>
=============================================================================
