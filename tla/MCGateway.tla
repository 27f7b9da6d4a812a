------------------------------ MODULE MCGateway ------------------------------
(* Instances of Gateway for TLC: the scripts of its runs. *)
EXTENDS Gateway

CONSTANTS u1, u2, m1, m2, m3, a1, a2, s1

Nothing == [allowed |-> {u1}, from |-> [m \in Events |-> u1], text |-> [m \in Events |-> "none"],
            does |-> [a \in Admins |-> [op |-> "none", user |-> u1]], asks |-> {}, edits |-> TRUE]
Three(x, y, z) == [m \in Events |-> IF m = m1 THEN x ELSE IF m = m2 THEN y ELSE z]
Does(op1, v1, op2, v2) == [a \in Admins |-> [op |-> IF a = a1 THEN op1 ELSE op2, user |-> IF a = a1 THEN v1 ELSE v2]]

\* Two strangers write while an admin approves one of them and another run revokes him;
\* or one writes and is rejected while somebody else is approved.
Approving == [Nothing EXCEPT !.allowed = {}, !.from = Three(u1, u2, u1), !.text = Three("message", "message", "none"),
                             !.does = Does("approve", u1, "revoke", u1)]
Rejecting == [Approving EXCEPT !.text = Three("none", "message", "none"), !.does = Does("approve", u1, "reject", u2)]
Strangers == {Approving, Rejecting}

\* A paired user opens a dashboard twice and writes; or opens one and runs a command.
Cards == {[Nothing EXCEPT !.text = Three("dashboard", "dashboard", "message")],
          [Nothing EXCEPT !.text = Three("dashboard", "command", "cancel"), !.edits = FALSE]}

\* An agent replies and updates its draft.
Replies == {[Nothing EXCEPT !.asks = {s1}, !.edits = e] : e \in BOOLEAN}

All == Strangers \cup Cards \cup Replies
=============================================================================
