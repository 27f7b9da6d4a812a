------------------------------- MODULE Recovery -------------------------------
(***************************************************************************)
(* The checkpoints and their observer: bundled/checkpoint_store serves one *)
(* request at a time (no request of its suspends, so that a request is a   *)
(* step), bundled/recovery_agent takes an inventory of the store by asking *)
(* for one thing after the other and deletes by the ages of an inventory.  *)
(* The order in which it goes through names is left open.                  *)
(*                                                                         *)
(* Its clients save and delete their checkpoints meanwhile, and it serves  *)
(* several requests at once: the members of Jobs.                          *)
(***************************************************************************)
EXTENDS Integers, FiniteSets, Functions

CONSTANTS Spaces,    \* namespaces
          Keys,      \* keys of a namespace
          Jobs,      \* requests to recovery_agent
          Op,        \* the op of each
          Cutoff,    \* max_age_days of the gc requests
          MaxTime,   \* bound on the clock
          Undated,   \* saved_at of a record that does not tell
          None

ASSUME RecoveryAssumption == /\ Op \in [Jobs -> {"status", "rescan", "gc"}]
                             /\ Cutoff \in Nat /\ MaxTime \in Nat

Slots == Spaces \X Keys

VARIABLES clock,      \* the time of day
          disk,       \* saved_at of the checkpoint in each slot
          dirs,       \* the namespaces that have a directory
          inventory,  \* RecoveryAgent._inventory: its namespaces and its entries
          scannedAt,  \* RecoveryAgent._scanned_at, None before the first scan
          job         \* where each request to recovery_agent is

recoveryVars == <<clock, disk, dirs, inventory, scannedAt, job>>

\* A job: the scan it runs (now, spaces and keys to go, the inventory so far), the
\* slots it has still to delete with the saved_at they were listed with, and whether
\* they are behind it.
Idle == [at |-> "idle", now |-> 0, spaces |-> {}, space |-> None, keys |-> {},
         known |-> {}, seen |-> <<>>, victims |-> <<>>, swept |-> FALSE]

RecoveryInit ==
    /\ clock = 0
    /\ disk \in [Slots -> {None, Undated, 0}]
    /\ dirs = {s[1] : s \in {t \in Slots : disk[t] # None}}
    /\ inventory = [known |-> {}, seen |-> <<>>]
    /\ scannedAt = None
    /\ job = [j \in Jobs |-> Idle]

-----------------------------------------------------------------------------
(* The store, as its other clients use it *)

Save(s) == /\ disk' = [disk EXCEPT ![s] = clock]
           /\ dirs' = dirs \cup {s[1]}
           /\ UNCHANGED <<clock, inventory, scannedAt, job>>

Delete(s) == /\ disk[s] # None
             /\ disk' = [disk EXCEPT ![s] = None]
             /\ UNCHANGED <<clock, dirs, inventory, scannedAt, job>>

TimePasses == /\ clock < MaxTime
              /\ clock' = clock + 1
              /\ UNCHANGED <<disk, dirs, inventory, scannedAt, job>>

-----------------------------------------------------------------------------
\* What a request that starts a scan goes on with: the age of everything it will
\* find is measured from now.
Scanning(r) == [r EXCEPT !.at = "spaces", !.now = clock, !.known = {}, !.seen = <<>>]

\* Fault: a record that does not tell its age counts as old.
VictimsUndated(inv, since) ==
    Restrict(inv.seen, {s \in DOMAIN inv.seen :
                           inv.seen[s] = Undated \/ since - inv.seen[s] >= Cutoff})

\* The entries of an inventory, taken at `since`, that a gc deletes.
Victims(inv, since) ==
    Restrict(inv.seen, {s \in DOMAIN inv.seen :
                           inv.seen[s] # Undated /\ since - inv.seen[s] >= Cutoff})

\* handle: `status` answers from the inventory there is, `gc` deletes by it; with no
\* inventory both scan first, as `rescan` always does.
Serve(j) ==
    /\ job[j].at = "idle"
    /\ job' = [job EXCEPT ![j] =
                  IF Op[j] = "status" /\ scannedAt # None
                  THEN [@ EXCEPT !.at = "done"]
                  ELSE IF Op[j] = "gc" /\ inventory.known # {}
                  THEN [@ EXCEPT !.at = "delete", !.victims = Victims(inventory, scannedAt)]
                  ELSE Scanning(@)]
    /\ UNCHANGED <<clock, disk, dirs, inventory, scannedAt>>

\* scan: `list_namespaces`, ...
ListSpaces(j) ==
    /\ job[j].at = "spaces"
    /\ job' = [job EXCEPT ![j].at = "list", ![j].spaces = dirs]
    /\ UNCHANGED <<clock, disk, dirs, inventory, scannedAt>>

\* ... for each of them `list`, ...
ListKeys(j) ==
    /\ job[j].at = "list"
    /\ job[j].keys = {}
    /\ \E n \in job[j].spaces :
          job' = [job EXCEPT ![j].space = n,
                             ![j].spaces = @ \ {n},
                             ![j].known = @ \cup {n},
                             ![j].keys = {k \in Keys : disk[<<n, k>>] # None}]
    /\ UNCHANGED <<clock, disk, dirs, inventory, scannedAt>>

\* ... and for each key `load`; one deleted since it was listed is passed over.
Load(j) ==
    /\ job[j].at = "list"
    /\ \E k \in job[j].keys :
          LET s == <<job[j].space, k>>
              seen == job[j].seen IN
          job' = [job EXCEPT ![j].keys = @ \ {k},
                             ![j].seen = IF disk[s] = None THEN seen
                                         ELSE [t \in DOMAIN seen \cup {s} |->
                                                  IF t = s THEN disk[s] ELSE seen[t]]]
    /\ UNCHANGED <<clock, disk, dirs, inventory, scannedAt>>

\* The inventory is replaced when it is complete, whatever another scan, begun later,
\* has left there meanwhile.  A gc that found none goes on with it.
EndScan(j) ==
    /\ job[j].at = "list"
    /\ job[j].spaces = {} /\ job[j].keys = {}
    /\ inventory' = [known |-> job[j].known, seen |-> job[j].seen]
    /\ scannedAt' = job[j].now
    /\ job' = [job EXCEPT ![j] =
                  IF Op[j] = "gc" /\ ~@.swept
                  THEN [Idle EXCEPT !.at = "delete",
                                    !.victims = Victims(inventory', scannedAt')]
                  ELSE [Idle EXCEPT !.at = "done"]]
    /\ UNCHANGED <<clock, disk, dirs>>

\* gc: `delete` names the slot; what is in it now is not looked at.
Discard(j, s) ==
    /\ job[j].at = "delete"
    /\ s \in DOMAIN job[j].victims
    /\ disk' = [disk EXCEPT ![s] = None]
    /\ job' = [job EXCEPT ![j].victims = Restrict(@, DOMAIN @ \ {s})]
    /\ UNCHANGED <<clock, dirs, inventory, scannedAt>>

\* The inventory is taken anew for the next report.
Refresh(j) ==
    /\ job[j].at = "delete"
    /\ job[j].victims = <<>>
    /\ job' = [job EXCEPT ![j] = [Scanning(@) EXCEPT !.swept = TRUE]]
    /\ UNCHANGED <<clock, disk, dirs, inventory, scannedAt>>

\* A request to a store that is stopped, or slow, raises out of the handler; what was
\* collected is lost, what was deleted is.
StoreFails(j) ==
    /\ job[j].at \in {"spaces", "list", "delete"}
    /\ job' = [job EXCEPT ![j] = [Idle EXCEPT !.at = "raised"]]
    /\ UNCHANGED <<clock, disk, dirs, inventory, scannedAt>>

RecoveryNext ==
    \/ \E s \in Slots : Save(s) \/ Delete(s)
    \/ TimePasses
    \/ \E j \in Jobs : \/ Serve(j) \/ ListSpaces(j) \/ ListKeys(j) \/ Load(j)
                       \/ EndScan(j) \/ Refresh(j) \/ StoreFails(j)
                       \/ \E s \in Slots : Discard(j, s)

RecoverySpec == RecoveryInit /\ [][RecoveryNext]_recoveryVars

-----------------------------------------------------------------------------
\* A gc deletes a checkpoint only if it was saved as long ago as the gc says.  Does not
\* hold: it goes by the ages of the last scan.
OnlyAged ==
    [][\A j \in Jobs, s \in Slots :
          Discard(j, s) /\ disk[s] # None => disk[s] # Undated /\ clock - disk[s] >= Cutoff]_recoveryVars

\* The record that an inventory listed is deleted only when it is as old as the gc
\* says, and never when it does not tell: however old the inventory is and whatever
\* scans replaced it, a gc can take a young checkpoint only where one was saved over
\* the record it had listed.
OldOrSavedSince ==
    [][\A j \in Jobs, s \in Slots :
          Discard(j, s) /\ disk[s] # None =>
             \/ disk[s] # Undated /\ clock - disk[s] >= Cutoff
             \/ disk[s] # job[j].victims[s]]_recoveryVars
=============================================================================
