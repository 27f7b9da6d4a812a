-------------------------------- MODULE Consent --------------------------------
(***************************************************************************)
(* What the approval wall promises about acts that cannot be undone: a     *)
(* verdict, once there, is final, whatever crashes; an act follows its     *)
(* approval, and no approval is acted upon twice.                          *)
(***************************************************************************)
CONSTANT Acts

VARIABLES verdict,  \* what is on record for each act
          acted     \* acts that were carried out

vars == <<verdict, acted>>

Verdicts == {"open", "approved", "rejected"}

TypeOK == /\ verdict \in [Acts -> Verdicts]
          /\ acted \subseteq Acts

Init == /\ verdict = [a \in Acts |-> "open"]
        /\ acted = {}

\* Verdicts are recorded, one or more at a time.
Record == /\ verdict' \in [Acts -> Verdicts]
          /\ \A a \in Acts : verdict[a] # "open" => verdict'[a] = verdict[a]
          /\ UNCHANGED acted

Carry(a) == /\ verdict[a] = "approved"
            /\ a \notin acted
            /\ acted' = acted \cup {a}
            /\ UNCHANGED verdict

Next == Record \/ \E a \in Acts : Carry(a)

Spec == Init /\ [][Next]_vars
=============================================================================
