------------------------------- MODULE Permits --------------------------------
(***************************************************************************)
(* What a rate-limit pool promises its callers: each is granted a permit   *)
(* of one account at most once, an account never has more than its limit   *)
(* of permits out, and a caller that is turned away got none.              *)
(***************************************************************************)
EXTENDS Naturals, FiniteSets

CONSTANTS Callers, Accounts, Limit,
          None    \* no limit, or no account

VARIABLES stage,  \* what a caller has been told
          permit  \* the account of the permit it holds

vars == <<stage, permit>>

Out(a) == {w \in Callers : permit[w] = a}

Init == /\ stage = [w \in Callers |-> "asking"]
        /\ permit = [w \in Callers |-> None]

Grant(w) == /\ stage[w] = "asking"
            /\ \E a \in Accounts :
                  /\ Limit # None => Cardinality(Out(a)) < Limit
                  /\ permit' = [permit EXCEPT ![w] = a]
            /\ stage' = [stage EXCEPT ![w] = "granted"]

TurnAway(w) == /\ stage[w] = "asking"
               /\ stage' = [stage EXCEPT ![w] = "over"]
               /\ UNCHANGED permit

\* The caller is done; its permit comes back, unless its return was cancelled.
GiveBack(w) == /\ stage[w] = "granted"
               /\ stage' = [stage EXCEPT ![w] = "over"]
               /\ permit' = [permit EXCEPT ![w] = None] \/ UNCHANGED permit

Next == \E w \in Callers : Grant(w) \/ TurnAway(w) \/ GiveBack(w)

Spec == Init /\ [][Next]_vars
=============================================================================
