----------------------------- MODULE MCScheduler -----------------------------
(* Instances of Scheduler for TLC: agents, schedules and scripts. *)
EXTENDS Scheduler

CONSTANTS ra, oa, s1, s2, s3

Floors == [a \in Agents |-> IF a = ra THEN 1 ELSE 0]
Sends(to, priority) == [target |-> to, interval |-> "ok", daily |-> "none", priority |-> priority]
Entries == [s \in Schedules |-> CASE s = s1 -> Sends(ra, "nice_to_have") [] s = s2 -> Sends(oa, "normal")
                                  [] OTHER -> [Sends(oa, "critical") EXCEPT !.daily = "ok"]]

Quiet == [runs |-> {}, gate |-> FALSE, polls |-> {}, calls |-> {}, costs |-> {}, ops |-> {}]
\* The throttle of one schedule: two refreshes at once, or an operator; the reservations
\* of a reserved agent and of another within an interval of the vendor; accounting.
Polling == {[Quiet EXCEPT !.runs = {s1}, !.polls = Refreshers]}
Throttling ==
    Polling \cup {[Quiet EXCEPT !.runs = {s}, !.polls = {"poll"}, !.ops = {"override", "restart", "reload"}] : s \in Schedules}
Reserving ==
    {[Quiet EXCEPT !.runs = r, !.gate = TRUE, !.polls = {"poll"}, !.calls = {ra}, !.costs = {0}] : r \in {{s1, s3}, {s2}}}
Accounting == {[Quiet EXCEPT !.calls = Agents, !.costs = Costs, !.ops = {"reset", "restart"}]}
All == Throttling \cup Reserving \cup Accounting
=============================================================================
