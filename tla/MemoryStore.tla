----------------------------- MODULE MemoryStore -----------------------------
(***************************************************************************)
(* The memory files: what the memory skill shows of them and announces as  *)
(* memory.retrieved, what performance_ranker does about the announcements  *)
(* (credit, the end of a probation, demotion of what is stale) and what    *)
(* admission_gate says of a new entry.                                     *)
(*                                                                         *)
(* A text is an entry as a proposer writes it: fm (it has a frontmatter),  *)
(* topic (texts of one topic are near-duplicates: the same name, or        *)
(* trigrams alike), cites (originSessionId), dated (evidence_level, status *)
(* and updated are in it).  Files are read and written between two         *)
(* suspensions of the event loop, so each operation is one step.           *)
(***************************************************************************)
EXTENDS Naturals, Sequences, FiniteSetsExt

CONSTANTS Targets,      \* paths of memory files
          Roots, Under, \* memory roots that overlap, and the files under each
          Nothing,      \* no such file
          Topics, Sessions,
          NoSession,
          Archived,     \* sessions in docs/experiences/sessions_raw
          Limit,        \* search: the most it returns
          Threshold     \* probation_clear_threshold

VARIABLES store,      \* the file at each path
          known,      \* PerformanceRanker._known_memory_roots
          events,     \* events published, not yet delivered to performance_ranker
          struggling, \* agents with an event in _events, within the window
          ledger      \* history of each file since it was last written

stvars == <<store, known, events, struggling, ledger>>

\* The index in EVIDENCE_LEVELS, validated first.
Observed == 3
Floor == 4

\* session_compressor names an entry after its file.
Texts == [fm : BOOLEAN, topic : Topics \cup Targets, cites : Sessions \cup {NoSession}, dated : BOOLEAN]
Entries == [text : Texts, level : 1..Floor, mandatory : BOOLEAN, probation : BOOLEAN,
            applied : Nat, stale : BOOLEAN]

ASSUME StoreAssumption ==
    /\ IsFiniteSet(Roots) /\ Under \in [Roots -> SUBSET Targets]
    /\ Nothing \notin Entries
    /\ NoSession \notin Archived
    /\ Limit \in Nat \ {0} /\ Threshold \in Nat \ {0}

\* An entry as it is written, at the level proposers give.  Its date is the one the
\* text came with, and may be a window back (past).
Written(text, past) == [text |-> text, level |-> Observed, mandatory |-> FALSE,
                        probation |-> FALSE, applied |-> 0, stale |-> past]
\* The date is the proposer's choice, the day of the draft or that of the transcript.
Dates(text) == IF text.dated THEN BOOLEAN ELSE {FALSE}

\* hits: retrievals delivered; before: those under way when the file was written;
\* drops: demotions; ages: windows since its date; update, over: it was written as an
\* update, as an add over a file that existed.
Windows(e) == IF e # Nothing /\ e.stale THEN 1 ELSE 0
Blank == [hits |-> 0, before |-> 0, drops |-> 0, ages |-> 0, update |-> FALSE, over |-> FALSE]

InitStore(files) ==
    /\ store = files
    /\ known = {} /\ events = <<>> /\ struggling = {}
    /\ ledger = [t \in Targets |-> [Blank EXCEPT !.ages = Windows(files[t])]]

Exists(t) == store[t] # Nothing
Indexed(t) == Exists(t) /\ store[t].text.fm

-----------------------------------------------------------------------------
(* memory *)

Modes == {"blank", "explore", "execute", "reflect", "debug"}

\* MODE_POLICIES and _entry_passes; an entry without a level counts as observed,
\* no code archives an entry.
Passes(e, mode) ==
    CASE mode \in {"blank", "explore"} -> e.mandatory
      [] mode = "execute" -> ~e.probation /\ e.level <= Observed
      [] mode = "reflect" -> TRUE
      [] mode = "debug"   -> FALSE

Listed(mode, root) == {t \in Under[root] : Indexed(t) /\ Passes(store[t], mode)}

\* _publish_retrieved: nothing is said of an empty result.
Announce(paths, root) ==
    /\ events' = IF paths = {} THEN events
                 ELSE Append(events, [kind |-> "retrieved", paths |-> paths, root |-> root])
    /\ UNCHANGED <<store, known, struggling, ledger>>

List(mode, root) == Announce(Listed(mode, root), root)

\* The best of what passes and matches; a query may match nothing.
Search(mode, root) ==
    \E top \in SUBSET Listed(mode, root) : Cardinality(top) <= Limit /\ Announce(top, root)

\* By path, whatever the mode.
Get(t, root) == t \in Under[root] /\ Exists(t) /\ Announce({t}, root)

-----------------------------------------------------------------------------
(* performance_ranker *)

\* _bump_applied.  Bound: what is counted past the threshold makes no difference.
Bumped(e) ==
    IF e = Nothing \/ ~e.text.fm THEN e
    ELSE [e EXCEPT !.applied = IF @ < Threshold THEN @ + 1 ELSE @,
                   !.probation = @ /\ e.applied + 1 < Threshold]

\* _on_memory_retrieved learns the root and credits the files as they are now.
Credit ==
    /\ events # <<>> /\ Head(events).kind = "retrieved"
    /\ LET of == Head(events) IN
       /\ events' = Tail(events)
       /\ known' = known \cup {of.root}
       /\ store' = [t \in Targets |-> IF t \in of.paths THEN Bumped(store[t]) ELSE store[t]]
       /\ ledger' = [t \in Targets |-> IF t \in of.paths THEN [ledger[t] EXCEPT !.hits = @ + 1]
                                       ELSE ledger[t]]
    /\ UNCHANGED struggling

\* _on_rejection, _on_error.
Blame ==
    /\ events # <<>> /\ Head(events).kind = "blamed"
    /\ events' = Tail(events)
    /\ struggling' = struggling \cup {Head(events).agent}
    /\ UNCHANGED <<store, known, ledger>>

ResetRanking == struggling # {} /\ struggling' = {} /\ UNCHANGED <<store, known, events, ledger>>

\* rank: the worst agents; min_score and limit aside.
Ranked == struggling

\* A window passes: the events of performance_ranker expire, what has a date is stale
\* (a date in the future, which would be so later, is left out).
Age ==
    /\ store' = [t \in Targets |-> IF Exists(t) /\ store[t].text.dated
                                   THEN [store[t] EXCEPT !.stale = TRUE] ELSE store[t]]
    /\ ledger' = [t \in Targets |-> [ledger[t] EXCEPT !.ages = @ + 1]]
    /\ struggling' = {}
    /\ UNCHANGED <<known, events>>

Stale(e) == e # Nothing /\ e.text.fm /\ e.text.dated /\ e.stale /\ ~e.mandatory

\* Fault: the date stays as it was.
DemotedAgain(e) == IF Stale(e) /\ e.level < Floor THEN [e EXCEPT !.level = @ + 1] ELSE e

\* _demote_for_staleness: one level, and `updated` becomes today.
Demoted(e) == IF Stale(e) /\ e.level < Floor
              THEN [e EXCEPT !.level = @ + 1, !.stale = FALSE] ELSE e

\* One pass over the roots; roots may overlap.
Swept(roots) ==
    FoldSet(LAMBDA r, files : [t \in Targets |-> IF t \in Under[r] THEN Demoted(files[t]) ELSE files[t]],
            store, roots)

\* sweep_staleness_once, by the loop or by the op, which may name a root.
Sweep(extra) ==
    LET roots == known \cup extra
        level(files, t) == IF files[t] = Nothing THEN 0 ELSE files[t].level
    IN /\ roots # {}
       /\ known' = roots
       /\ store' = Swept(roots)
       /\ ledger' = [t \in Targets |->
                        [ledger[t] EXCEPT !.drops = @ + level(Swept(roots), t) - level(store, t)]]
       /\ UNCHANGED <<events, struggling>>

-----------------------------------------------------------------------------
(* admission_gate: the two stages without a model *)

\* An archive of the project bears the session in its name; without one it fails.
GoldenReplay(text) == text.cites = NoSession \/ text.cites \in Archived

\* Another file of the same topic.
Twins(text, target) == {t \in Targets \ {target} : Indexed(t) /\ store[t].text.topic = text.topic}
\* Fault: compared with what execute mode shows.
NoopOfTrusted(text, target) == {t \in Twins(text, target) : Passes(store[t], "execute")} = {}

NoopBaseline(text, target) == Twins(text, target) = {}

\* Without a frontmatter the gate fails at once.
CheapStages(text, target) == text.fm /\ GoldenReplay(text) /\ NoopBaseline(text, target)

-----------------------------------------------------------------------------
(* approval_applier writes an entry *)

\* Fault: the counters in the draft, copied from the old version, stay.
StampedKeeping(text, past, action) ==
    [Written(text, past) EXCEPT !.probation = (action = "update" /\ text.fm),
                                !.applied = Threshold - 1]

\* _stamp_probation_on_update: the date stays as it is.
Stamped(text, past, action) ==
    IF action = "update" /\ text.fm THEN [Written(text, past) EXCEPT !.probation = TRUE]
                                    ELSE Written(text, past)

\* Retrievals of a file that were announced and are not delivered.
UnderWay(t) == {i \in DOMAIN events : events[i].kind = "retrieved" /\ t \in events[i].paths}

Write(target, text, action) ==
    /\ \E past \in Dates(text) :
          /\ store' = [store EXCEPT ![target] = Stamped(text, past, action)]
          /\ ledger' = [ledger EXCEPT ![target] =
                [Blank EXCEPT !.before = Cardinality(UnderWay(target)),
                              !.ages = Windows(Stamped(text, past, action)),
                              !.update = (action = "update" /\ text.fm),
                              !.over = (action = "add" /\ Exists(target))]]
    /\ UNCHANGED <<known, events, struggling>>
==============================================================================
