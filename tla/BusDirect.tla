------------------------------ MODULE BusDirect ------------------------------
(***************************************************************************)
(* Direct messages of the in-process bus (core/bus.py): send, request and  *)
(* the dispatch task each of them creates.  The handler table is read when *)
(* the dispatch task runs, not when the message is sent; a handler is      *)
(* never cancelled because its caller gave up; the future of a request is  *)
(* settled at most once although the handler, the timer and the caller's   *)
(* own cancellation race for it.                                           *)
(*                                                                         *)
(* A step is what the event loop runs between two suspensions.             *)
(***************************************************************************)
CONSTANTS Names,      \* addressable agents
          Handlers,   \* handler objects that may be registered
          NoHandler,  \* an absent entry of the handler table
          Requests,   \* calls of Bus.request, each with its own request id
          Sends,      \* calls of Bus.send, which have none
          To          \* the addressee of each message

Messages == Requests \cup Sends

ASSUME BusAssumption == /\ NoHandler \notin Handlers
                        /\ Requests \cap Sends = {}
                        /\ To \in [Messages -> Names]

VARIABLES handlers,  \* Bus._handlers
          pending,   \* the keys of Bus._pending
          fut,       \* the future of each request
          task,      \* the _dispatch_direct task of each message
          ran,       \* the handler that task called
          caller     \* what the awaiting caller knows

vars == <<handlers, pending, fut, task, ran, caller>>

Settled == {"result", "error", "lookup", "cancelled"}

TypeOK == /\ handlers \in [Names -> Handlers \cup {NoHandler}]
          /\ pending \subseteq Requests
          /\ fut \in [Requests -> Settled \cup {"none", "open"}]
          /\ task \in [Messages -> {"none", "created", "running", "done"}]
          /\ ran \in [Messages -> Handlers \cup {NoHandler}]
          /\ caller \in [Requests -> {"idle", "waiting", "returned",
                                      "raised", "lookup", "gaveup"}]

Init == /\ handlers = [n \in Names |-> NoHandler]
        /\ pending = {}
        /\ fut = [r \in Requests |-> "none"]
        /\ task = [m \in Messages |-> "none"]
        /\ ran = [m \in Messages |-> NoHandler]
        /\ caller = [r \in Requests |-> "idle"]

\* register: a second registration silently replaces the first.
Register(n, h) == /\ handlers' = [handlers EXCEPT ![n] = h]
                  /\ UNCHANGED <<pending, fut, task, ran, caller>>

Unregister(n) == /\ handlers' = [handlers EXCEPT ![n] = NoHandler]
                 /\ UNCHANGED <<pending, fut, task, ran, caller>>

Send(m) == /\ task[m] = "none"
           /\ task' = [task EXCEPT ![m] = "created"]
           /\ UNCHANGED <<handlers, pending, fut, ran, caller>>

Request(r) == /\ caller[r] = "idle"
              /\ caller' = [caller EXCEPT ![r] = "waiting"]
              /\ fut' = [fut EXCEPT ![r] = "open"]
              /\ pending' = pending \cup {r}
              /\ task' = [task EXCEPT ![r] = "created"]
              /\ UNCHANGED <<handlers, ran>>

\* The guarded set_result / set_exception at each exit of _dispatch_direct.
Settle(m, value) ==
    fut' = IF m \in pending /\ fut[m] = "open"
           THEN [fut EXCEPT ![m] = value]
           ELSE fut

DispatchMissing(m) == /\ task[m] = "created"
                      /\ handlers[To[m]] = NoHandler
                      /\ task' = [task EXCEPT ![m] = "done"]
                      /\ Settle(m, "lookup")
                      /\ UNCHANGED <<handlers, pending, ran, caller>>

DispatchCall(m) == /\ task[m] = "created"
                   /\ handlers[To[m]] # NoHandler
                   /\ task' = [task EXCEPT ![m] = "running"]
                   /\ ran' = [ran EXCEPT ![m] = handlers[To[m]]]
                   /\ UNCHANGED <<handlers, pending, fut, caller>>

\* A handler returns or raises; what it raises is passed on as it is, so a LookupError
\* of its own looks to the caller like that of the bus.
Ends == {"result", "error", "lookup"}

HandlerEnds(m, value) == /\ task[m] = "running"
                         /\ task' = [task EXCEPT ![m] = "done"]
                         /\ Settle(m, value)
                         /\ UNCHANGED <<handlers, pending, ran, caller>>

\* Fault: the timeout covers the delivery of the message, not its handling.
GiveUpUndelivered(r) == /\ fut[r] = "open"
                        /\ task[r] = "created"
                        /\ fut' = [fut EXCEPT ![r] = "cancelled"]
                        /\ UNCHANGED <<handlers, pending, task, ran, caller>>

\* wait_for's timer fires, or the caller's own task is cancelled.
GiveUp(r) == /\ fut[r] = "open"
             /\ fut' = [fut EXCEPT ![r] = "cancelled"]
             /\ UNCHANGED <<handlers, pending, task, ran, caller>>

\* Fault: a timeout comes back as an ordinary, empty reply.
ToldNothing(value) == CASE value \in {"result", "cancelled"} -> "returned"
                        [] value = "error" -> "raised"
                        [] value = "lookup" -> "lookup"

Told(value) == CASE value = "result" -> "returned"
                 [] value = "error" -> "raised"
                 [] value = "lookup" -> "lookup"
                 [] value = "cancelled" -> "gaveup"

\* Fault: the entry is popped on success only, not in a finally clause.
ResumeLeaking(r) == /\ caller[r] = "waiting"
                    /\ fut[r] \in Settled
                    /\ caller' = [caller EXCEPT ![r] = Told(fut[r])]
                    /\ pending' = IF fut[r] = "result" THEN pending \ {r} ELSE pending
                    /\ UNCHANGED <<handlers, fut, task, ran>>

\* The caller wakes with its settled future; the finally clause cleans up.
Resume(r) == /\ caller[r] = "waiting"
             /\ fut[r] \in Settled
             /\ caller' = [caller EXCEPT ![r] = Told(fut[r])]
             /\ pending' = pending \ {r}
             /\ UNCHANGED <<handlers, fut, task, ran>>

Next == \/ \E n \in Names, h \in Handlers : Register(n, h)
        \/ \E n \in Names : Unregister(n)
        \/ \E m \in Sends : Send(m)
        \/ \E r \in Requests : Request(r) \/ GiveUp(r) \/ Resume(r)
        \/ \E m \in Messages :
              \/ DispatchMissing(m)
              \/ DispatchCall(m)
              \/ \E value \in Ends : HandlerEnds(m, value)

Spec == Init /\ [][Next]_vars

(***************************************************************************)
(* The event loop runs every created task and every woken caller, and each *)
(* wait_for has a timer.  A handler need not ever return.                  *)
(***************************************************************************)
Fairness == /\ \A r \in Requests : WF_vars(Resume(r)) /\ WF_vars(GiveUp(r))
            /\ \A m \in Messages :
                  WF_vars(DispatchMissing(m) \/ DispatchCall(m))

FairSpec == Spec /\ Fairness

-----------------------------------------------------------------------------
\* No entry of Bus._pending outlives its caller, whatever ended the call, and
\* no waiting caller loses its entry (a reply would then be dropped).
PendingMatchesCallers == pending = {r \in Requests : caller[r] = "waiting"}

\* A result or an error comes only from the end of the caller's own handler run.  A
\* LookupError comes from there too, or from the bus that found no handler; either
\* way nothing runs for the request any more: whoever asks again cannot overlap it.
OutcomeIsEarned ==
    \A r \in Requests :
        /\ caller[r] \in {"returned", "raised"}
              => task[r] = "done" /\ ran[r] # NoHandler
        /\ caller[r] = "lookup" => task[r] = "done"

\* A late handler, a timer and a cancellation race for one future: whoever
\* settles it first wins and the others leave it alone.
SettledOnce == [][\A r \in Requests : fut[r] \in Settled => fut'[r] = fut[r]]_vars

\* Every request comes back to its caller, even from a handler that hangs or
\* from an agent that is unregistered while the message is on its way.
RequestsReturn == \A r \in Requests :
                      caller[r] = "waiting" ~> caller[r] # "waiting"

\* The bus implements the call semantics of module Rpc.
Abstract == INSTANCE Rpc WITH
                outcome <- caller,
                served <- {r \in Requests : task[r] = "done" /\ ran[r] # NoHandler}
ImplementsRpc == Abstract!Spec

-----------------------------------------------------------------------------
\* Why the invariants above are inductive: how far a request's task, future
\* and caller may be apart.
Progress ==
    /\ \A r \in Requests :
          /\ (caller[r] = "idle") <=> (task[r] = "none")
          /\ (caller[r] = "idle") <=> (fut[r] = "none")
          /\ fut[r] \in {"result", "error"} => task[r] = "done" /\ ran[r] # NoHandler
          /\ fut[r] = "lookup" => task[r] = "done"
          /\ caller[r] \in {"returned", "raised", "lookup", "gaveup"}
                => fut[r] \in Settled /\ caller[r] = Told(fut[r])
    /\ \A m \in Messages :
          /\ task[m] = "running" => ran[m] # NoHandler
          /\ task[m] \in {"none", "created"} => ran[m] = NoHandler

\* The inductive invariant: types, progress and the reply table together.
IInv == TypeOK /\ Progress /\ PendingMatchesCallers
=============================================================================
