----------------------------- MODULE MCApprovals ------------------------------
\* Approvals on two edits of one memory file.
EXTENDS Approvals, TLC

CONSTANTS e1, e2, note

MCEdits == {e1, e2}
MCTargets == {note}
MCTarget == [e \in MCEdits |-> note]
AddThenUpdate == [e \in MCEdits |-> IF e = e1 THEN "add" ELSE "update"]
Empty == {}
\* The detail of e2.
MCOdd == {<<e2, "enqueue">>}

\* Either the process crashes or something cannot be encoded.
MCNext == Next /\ (crashes' > 0 => odd \cup odd' = {} /\ refused' = {})
MCSpec == Init /\ [][MCNext]_vars /\ Fairness
=============================================================================
