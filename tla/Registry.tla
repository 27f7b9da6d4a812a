------------------------------- MODULE Registry -------------------------------
(***************************************************************************)
(* The registry of running daemons, ~/.yuxu/runtime/<slug>.json: one entry *)
(* for each project, written by the runtime_monitor of its daemon and      *)
(* swept of dead processes by every daemon's monitor and by `yuxu ps`.     *)
(*                                                                         *)
(* The actors are processes of the machine; each reads and unlinks files   *)
(* without a lock, so that a sweep is a read and an unlink for each file.  *)
(* The processes a daemon of a project can be are the members of Daemons;  *)
(* a project is served by one at a time.                                   *)
(***************************************************************************)
EXTENDS FiniteSets

CONSTANTS Projects, Daemons, Listers,  \* Listers: invocations of `yuxu ps`
          Project,                     \* the project of each daemon
          Keeper,                      \* a daemon that stays up
          Free                         \* no file

ASSUME RegistryAssumption == /\ Project \in [Daemons -> Projects]
                             /\ Keeper \in Daemons

Procs == Daemons \cup Listers

VARIABLES entry,   \* pid in the file of each project
          proc,    \* what the operating system knows of each pid
          toSee,   \* the files a sweep has still to look at
          doomed   \* the file a sweep has found to be of a dead process

registryVars == <<entry, proc, toSee, doomed>>

RegistryInit == /\ entry = [j \in Projects |-> Free]
                /\ proc = [p \in Procs |-> "unborn"]
                /\ toSee = [p \in Procs |-> {}]
                /\ doomed = [p \in Procs |-> Free]

\* kill(pid, 0): a pid that the system has given to another program passes.
Alive(p) == proc[p] \in {"up", "unwatched", "reused"}

Sweeping(p) == toSee[p] # {} \/ doomed[p] # Free

\* install: the file is replaced, whoever's entry it held.
Install(p) == /\ proc[p] = "unborn"
              /\ \A q \in Daemons : Project[q] = Project[p] => ~Alive(q) \/ proc[q] = "reused"
              /\ entry' = [entry EXCEPT ![Project[p]] = p]
              /\ proc' = [proc EXCEPT ![p] = "up"]
              /\ UNCHANGED <<toSee, doomed>>

\* uninstall, and the process ends: its prune task is cancelled while it sleeps, and
\* its file is unlinked if there is one.
Uninstall(p) == /\ proc[p] = "up"
                /\ p # Keeper
                /\ ~Sweeping(p)
                /\ entry' = [entry EXCEPT ![Project[p]] = Free]
                /\ proc' = [proc EXCEPT ![p] = "dead"]
                /\ UNCHANGED <<toSee, doomed>>

Crash(p) == /\ proc[p] = "up"
            /\ p # Keeper
            /\ proc' = [proc EXCEPT ![p] = "dead"]
            /\ toSee' = [toSee EXCEPT ![p] = {}]
            /\ doomed' = [doomed EXCEPT ![p] = Free]
            /\ UNCHANGED entry

PidReused(p) == /\ proc[p] = "dead"
                /\ proc' = [proc EXCEPT ![p] = "reused"]
                /\ UNCHANGED <<entry, toSee, doomed>>

\* prune_stale begins, by the timer of _prune_loop or by a request.
Sweep(p) == /\ proc[p] = "up"
            /\ ~Sweeping(p)
            /\ toSee' = [toSee EXCEPT ![p] = {j \in Projects : entry[j] # Free}]
            /\ UNCHANGED <<entry, proc, doomed>>

\* _cmd_ps reads the same files and drops the same entries.
List(p) == /\ proc[p] = "unborn"
           /\ proc' = [proc EXCEPT ![p] = "up"]
           /\ toSee' = [toSee EXCEPT ![p] = {j \in Projects : entry[j] # Free}]
           /\ UNCHANGED <<entry, doomed>>

Listed(p) == /\ proc[p] = "up"
             /\ ~Sweeping(p)
             /\ proc' = [proc EXCEPT ![p] = "dead"]
             /\ UNCHANGED <<entry, toSee, doomed>>

\* The next file is read and its pid looked up; one that is gone is passed over.
Look(p) == /\ doomed[p] = Free
           /\ \E j \in toSee[p] :
                 /\ toSee' = [toSee EXCEPT ![p] = @ \ {j}]
                 /\ doomed' = [doomed EXCEPT ![p] =
                                  IF entry[j] # Free /\ ~Alive(entry[j]) THEN j ELSE Free]
           /\ UNCHANGED <<entry, proc>>

\* Fault: a file that somebody else has unlinked ends the prune task.
UnlinkRaising(p) ==
    /\ doomed[p] # Free
    /\ entry' = [entry EXCEPT ![doomed[p]] = Free]
    /\ doomed' = [doomed EXCEPT ![p] = Free]
    /\ IF entry[doomed[p]] = Free
       THEN /\ proc' = [proc EXCEPT ![p] = "unwatched"]
            /\ toSee' = [toSee EXCEPT ![p] = {}]
       ELSE UNCHANGED <<proc, toSee>>

\* It is unlinked, whosever entry it holds by now; one that is gone is no error.
Unlink(p) == /\ doomed[p] # Free
             /\ entry' = [entry EXCEPT ![doomed[p]] = Free]
             /\ doomed' = [doomed EXCEPT ![p] = Free]
             /\ UNCHANGED <<proc, toSee>>

RegistryNext ==
    \/ \E p \in Daemons : Install(p) \/ Uninstall(p) \/ Crash(p) \/ PidReused(p) \/ Sweep(p)
    \/ \E p \in Listers : List(p) \/ Listed(p)
    \/ \E p \in Procs : Look(p) \/ Unlink(p)

\* The timer of the monitor that stays comes again and again.
RegistryFairness ==
    /\ WF_registryVars(Install(Keeper))
    /\ WF_registryVars(Sweep(Keeper))
    /\ WF_registryVars(Look(Keeper) \/ Unlink(Keeper))

RegistrySpec == RegistryInit /\ [][RegistryNext]_registryVars /\ RegistryFairness

-----------------------------------------------------------------------------
\* While one monitor stays up, what crashed daemons leave behind goes, whoever sweeps
\* at the same time: the time comes when no entry is of a process that is dead.
DeadAreCleared ==
    <>[](\A j \in Projects : entry[j] # Free => proc[entry[j]] # "dead")
=============================================================================
