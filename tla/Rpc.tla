--------------------------------- MODULE Rpc ---------------------------------
(***************************************************************************)
(* What Bus.request promises, without futures, tasks or tables: a request  *)
(* is asked once, is served at most once, and its caller is told exactly   *)
(* one outcome.  An answer is given only for work that was done, and       *)
(* LookupError only where none is to be done any more: nobody was there,   *)
(* or whoever was there raised it.  A caller may give up at any time; the  *)
(* work it asked for may still be done afterwards.                         *)
(***************************************************************************)
CONSTANT Requests

VARIABLES outcome,   \* what each caller knows
          served     \* the requests whose handler ran to its end

vars == <<outcome, served>>

Answers  == {"returned", "raised"}
Outcomes == Answers \cup {"lookup", "gaveup"}

Init == /\ outcome = [r \in Requests |-> "idle"]
        /\ served = {}

Ask(r) == /\ outcome[r] = "idle"
          /\ outcome' = [outcome EXCEPT ![r] = "waiting"]
          /\ UNCHANGED served

Serve(r) == /\ outcome[r] \in {"waiting", "gaveup"}
            /\ r \notin served
            /\ served' = served \cup {r}
            /\ UNCHANGED outcome

Tell(r, o) == /\ outcome[r] = "waiting"
              /\ o \in Answers => r \in served
              /\ outcome' = [outcome EXCEPT ![r] = o]
              /\ UNCHANGED served

Next == \E r \in Requests :
            \/ Ask(r)
            \/ Serve(r)
            \/ \E o \in Outcomes : Tell(r, o)

Spec == Init /\ [][Next]_vars
=============================================================================
