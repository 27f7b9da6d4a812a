------------------------------ MODULE Gateway ------------------------------
(***************************************************************************)
(* The inbound path of the gateway (gateway/handler.py) with its pairing   *)
(* registry (gateway/pairing.py): a message of an unpaired user is held,   *)
(* recorded and answered with a hint; the others reach the bus, where the  *)
(* dashboard of module Drafts listens.  The registry lives in memory and   *)
(* in pairings.yaml, which `yuxu pair` (cli/app.py) rewrites from another  *)
(* process; the daemon polls the file's mtime and reloads.                 *)
(*                                                                         *)
(* The daemon is one event loop: while it writes or reads the file nothing *)
(* else of it runs (disk # Idle), but the other process may.               *)
(***************************************************************************)
EXTENDS Drafts

CONSTANTS
    Users,      \* users of the platform that requires pairing
    Admins,     \* runs of the command line
    Scripts     \* what may happen to the gateway: see Init

\* A script names the users allowed at boot, the user and text of each message ("none": no
\* such message), what each run of the command line does to whom, the agents
\* that reply, and whether the platform can edit.
ASSUME ScriptsAssumption ==
    \A s \in Scripts :
        /\ s.allowed \subseteq Users
        /\ s.from \in [Events -> Users \cup {None}]
        /\ s.text \in [Events -> {"cancel", "dashboard", "command", "message", "none"}]
        /\ s.does \in [Admins -> [op : {"approve", "reject", "revoke", "none"}, user : Users]]
        /\ s.asks \subseteq Streams /\ s.edits \in BOOLEAN

ASSUME NoneAssumption == None \notin Users \cup {"user_message", "command_invoked", "pairing_requested"}

VARIABLES
    script,
    mem,        \* PairingRegistry of the daemon: allowed, pending, notified
    file,       \* pairings.yaml
    stamp,      \* its mtime
    seen,       \* _last_mtime of the daemon
    disk,       \* what the daemon is doing with the file
    cli,        \* cli[a]: stage of a run of the command line, its registry
    inbox,      \* inbox[m]: where the task of a message is
    heard,      \* messages that were published, and as what
    granted,    \* history: users an admin has ever approved
    missed      \* history: another process wrote between the daemon's write and its look at the mtime

gvars == <<script, mem, file, stamp, seen, disk, cli, inbox, heard, granted, missed>>
vars == <<dvars, gvars>>

Empty == [allowed |-> {}, pending |-> {}, notified |-> {}]
Idle == [stage |-> "idle", m |-> 0]

Init ==
    /\ InitDrafts
    /\ script \in Scripts
    /\ canEdit = script.edits
    /\ \A s \in Streams : asker[s] = "idle" <=> s \in script.asks
    /\ file = [Empty EXCEPT !.allowed = script.allowed]
    /\ mem = file /\ stamp = 1 /\ seen = 1 /\ disk = Idle
    /\ cli = [a \in Admins |-> [stage |-> "no", reg |-> Empty]]
    /\ inbox = [m \in Events |-> "no"]
    /\ heard = [m \in Events |-> None]
    /\ granted = script.allowed /\ missed = FALSE

-----------------------------------------------------------------------------
(* PairingRegistry *)

AddPending(r, u) == [r EXCEPT !.pending = @ \cup {u}]
ApprovePending(r, u) == [allowed |-> r.allowed \cup {u}, pending |-> r.pending \ {u}, notified |-> r.notified \ {u}]
RejectPending(r, u) == [r EXCEPT !.pending = @ \ {u}, !.notified = @ \ {u}]
RevokeAllowed(r, u) == [r EXCEPT !.allowed = @ \ {u}]
MarkNotified(r, u) == [r EXCEPT !.notified = @ \cup ({u} \cap r.pending)]

\* What an operation makes of a registry; it saves only if there was something to do.
Apply(r, op, u) ==
    CASE op = "approve" -> ApprovePending(r, u)
      [] op = "reject"  -> RejectPending(r, u)
      [] op = "revoke"  -> RevokeAllowed(r, u)
Saves(r, op, u) == op = "approve" \/ Apply(r, op, u) # r

\* save(): the file is cut to nothing, then written, then its mtime is remembered.
SaveBegins(r) == mem' = r /\ disk' = [Idle EXCEPT !.stage = "cut"]

DiskCut ==
    /\ disk.stage = "cut"
    /\ file' = Empty /\ stamp' = stamp + 1 /\ disk' = [disk EXCEPT !.stage = "put"]
    /\ UNCHANGED <<dvars, missed, script, mem, seen, cli, inbox, heard, granted>>

DiskPut ==
    /\ disk.stage = "put"
    /\ file' = mem /\ stamp' = stamp + 1 /\ disk' = [stage |-> "stat", m |-> stamp']
    /\ UNCHANGED <<dvars, missed, script, mem, seen, cli, inbox, heard, granted>>

DiskStat ==
    /\ disk.stage = "stat"
    /\ seen' = stamp /\ disk' = Idle
    /\ missed' = (missed \/ stamp # disk.m)
    /\ UNCHANGED <<dvars, script, mem, file, stamp, cli, inbox, heard, granted>>

\* Fault: what was loaded is added to what is known.
ReloadMerges ==
    /\ disk.stage = "load"
    /\ mem' = [allowed |-> mem.allowed \cup file.allowed, pending |-> mem.pending \cup file.pending,
               notified |-> mem.notified \cup file.notified]
    /\ seen' = disk.m /\ disk' = Idle
    /\ UNCHANGED <<dvars, missed, script, file, stamp, cli, inbox, heard, granted>>

\* reload_if_changed(), in the watch loop: the mtime first, then the content.
Poll ==
    /\ disk = Idle /\ stamp # seen
    /\ disk' = [stage |-> "load", m |-> stamp]
    /\ UNCHANGED <<dvars, missed, script, mem, file, stamp, seen, cli, inbox, heard, granted>>

Reload ==
    /\ disk.stage = "load"
    /\ mem' = file /\ seen' = disk.m /\ disk' = Idle
    /\ UNCHANGED <<dvars, missed, script, file, stamp, cli, inbox, heard, granted>>

-----------------------------------------------------------------------------
(* yuxu pair approve | reject | revoke: load, change, save, in a process of its own *)

CliLoads(a) ==
    /\ cli[a].stage = "no" /\ script.does[a].op # "none"
    /\ cli' = [cli EXCEPT ![a] = [stage |-> "loaded", reg |-> file]]
    /\ UNCHANGED <<dvars, missed, script, mem, file, stamp, seen, disk, inbox, heard, granted>>

CliCuts(a) ==
    LET d == script.does[a] r == cli[a].reg IN
    /\ cli[a].stage = "loaded"
    /\ \/ /\ Saves(r, d.op, d.user)
          /\ cli' = [cli EXCEPT ![a] = [stage |-> "cut", reg |-> Apply(r, d.op, d.user)]]
          /\ file' = Empty /\ stamp' = stamp + 1
          /\ granted' = IF d.op = "approve" THEN granted \cup {d.user} ELSE granted
       \/ /\ ~Saves(r, d.op, d.user)
          /\ cli' = [cli EXCEPT ![a].stage = "done"]
          /\ UNCHANGED <<file, stamp, granted>>
    /\ UNCHANGED <<dvars, missed, script, mem, seen, disk, inbox, heard>>

CliWrites(a) ==
    /\ cli[a].stage = "cut"
    /\ file' = cli[a].reg /\ stamp' = stamp + 1
    /\ cli' = [cli EXCEPT ![a].stage = "done"]
    /\ UNCHANGED <<dvars, missed, script, mem, seen, disk, inbox, heard, granted>>

\* The same by a request to the gateway (pair_approve, pair_reject, pair_revoke), which a
\* script may use instead of the command line.
PairOp(a) ==
    LET d == script.does[a] IN
    /\ disk = Idle /\ cli[a].stage = "no" /\ d.op # "none"
    /\ cli' = [cli EXCEPT ![a].stage = "done"]
    /\ granted' = IF d.op = "approve" THEN granted \cup {d.user} ELSE granted
    /\ IF Saves(mem, d.op, d.user) THEN SaveBegins(Apply(mem, d.op, d.user)) ELSE UNCHANGED <<mem, disk>>
    /\ UNCHANGED <<dvars, missed, script, file, stamp, seen, inbox, heard>>

-----------------------------------------------------------------------------
(* _on_inbound *)

\* Fault: only those already pending are held.
BlockedWhenPending(u) == u = None \/ u \in mem.pending
Blocked(u) == u = None \/ u \notin mem.allowed

Publish(m, what) ==
    /\ heard' = [heard EXCEPT ![m] = what]
    /\ inbox' = [inbox EXCEPT ![m] = "done"]

\* A cancel goes out before the gate is asked.
Cancel(m) ==
    /\ disk = Idle /\ inbox[m] = "no" /\ script.text[m] = "cancel"
    /\ Publish(m, "user_cancel")
    /\ UNCHANGED <<dvars, missed, script, mem, file, stamp, seen, disk, cli, granted>>

\* The gate holds the message: the user becomes pending (the first record is kept), the
\* admins are told, and the hint is sent.
Hold(m) ==
    LET u == script.from[m] IN
    /\ disk = Idle /\ inbox[m] = "no" /\ script.text[m] \notin {"cancel", "none"} /\ Blocked(u)
    /\ heard' = [heard EXCEPT ![m] = "pairing_requested"]
    /\ inbox' = [inbox EXCEPT ![m] = "hinting"]
    /\ IF u \in mem.pending THEN UNCHANGED <<mem, disk>> ELSE SaveBegins(AddPending(mem, u))
    /\ UNCHANGED <<dvars, missed, script, file, stamp, seen, cli, granted>>

\* The hint was sent: noted if the user is still pending.  Or the send failed.
Hinted(m) ==
    LET u == script.from[m] IN
    /\ disk = Idle /\ inbox[m] = "hinting"
    /\ inbox' = [inbox EXCEPT ![m] = "done"]
    /\ \/ u \in mem.pending /\ SaveBegins(MarkNotified(mem, u))
       \/ UNCHANGED <<mem, disk>>
    /\ UNCHANGED <<dvars, missed, script, file, stamp, seen, cli, heard, granted>>

\* The gate lets it through: a registered command or a message for the agents; the
\* dashboard subscribes to both.
Deliver(m) ==
    /\ disk = Idle /\ inbox[m] = "no" /\ script.text[m] \notin {"cancel", "none"} /\ ~Blocked(script.from[m])
    /\ Publish(m, IF script.text[m] = "message" THEN "user_message" ELSE "command_invoked")
    /\ kind' = [kind EXCEPT ![m] = script.text[m]]
    /\ pc' = [pc EXCEPT ![m] = "come"]
    /\ UNCHANGED <<missed, script, mem, file, stamp, seen, disk, cli, granted,
                   draft, registry, lockq, call, chat, canEdit, asker, plain, active, target>>

-----------------------------------------------------------------------------
Next ==
    \/ DiskCut \/ DiskPut \/ DiskStat \/ Poll \/ Reload
    \/ \E a \in Admins : CliLoads(a) \/ CliCuts(a) \/ CliWrites(a) \/ PairOp(a)
    \/ \E m \in Events : Cancel(m) \/ Hold(m) \/ Hinted(m) \/ Deliver(m)
    \/ disk = Idle /\ DraftSteps /\ UNCHANGED gvars

\* The daemon ends what it began with the file and its watch loop never stops; a run of
\* the command line that has begun ends.
Fairness ==
    /\ WF_vars(DiskCut) /\ WF_vars(DiskPut) /\ WF_vars(DiskStat) /\ WF_vars(Poll) /\ WF_vars(Reload)
    /\ \A a \in Admins : WF_vars(CliCuts(a)) /\ WF_vars(CliWrites(a))
    /\ \A m \in Events : WF_vars(Hinted(m))

Spec == Init /\ [][Next]_vars /\ Fairness
FairSpec == Spec /\ DraftFairness

-----------------------------------------------------------------------------
(* Properties *)

Reached(m) == heard[m] \in {"user_message", "command_invoked"}

\* Whoever got a message through the gate had been approved, and no copy of the registry,
\* in memory, in the file or in a running command, allows anybody who had not.
OnlyApproved ==
    /\ \A m \in Events : Reached(m) => script.from[m] \in granted
    /\ \A r \in {mem, file} \cup {cli[a].reg : a \in Admins} : r.allowed \subseteq granted

\* Hot reload: in the end the daemon decides by what the file says, unless another process
\* wrote just between the daemon's own write and its look at the mtime.
ReloadCatchesUp == <>[](missed \/ (disk = Idle /\ mem = file))

=============================================================================
