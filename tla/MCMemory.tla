------------------------------ MODULE MCMemory ------------------------------
(* Instances of Memory for TLC: files, texts, calls and scripts. *)
EXTENDS Memory

CONSTANTS a, b, c, r1, r2, project, sub, kept, gone

UnderRoot == [r \in Roots |-> IF r = project THEN Targets ELSE {a}]

Text(topic, cites) == [fm |-> TRUE, topic |-> topic, cites |-> cites, dated |-> FALSE]
Fresh(text) == Written(text, FALSE)
Old == [Text("old", NoSession) EXCEPT !.dated = TRUE]
Files(entry) == [t \in Targets |-> IF t = a THEN entry ELSE Nothing]
AddB == [target |-> b, action |-> "add", text |-> Text("new", NoSession)]
AddC == [target |-> c, action |-> "add", text |-> Text("new", kept)]
UpdateA == [target |-> a, action |-> "update", text |-> [Text("old", NoSession) EXCEPT !.dated = TRUE]]
AddOld == [target |-> b, action |-> "add", text |-> Text("old", kept)]
Bare == [target |-> c, action |-> "add", text |-> [Text("bare", NoSession) EXCEPT !.fm = FALSE]]

CallOf(kind, edits) == [kind |-> kind, need |-> "given", source |-> "files", session |-> kept,
                        edits |-> edits, lines |-> {}]
Idle == [CallOf("none", {}) EXCEPT !.kind = "none"]
Still == [act \in {"manual", "compress", "read", "age", "sweep", "reset"} |-> 0]
Base == [calls |-> [r \in Runs |-> Idle], files |-> Files(Fresh(Old)), modes |-> {}, acts |-> Still]
Two(x, y) == [r \in Runs |-> IF r = r1 THEN x ELSE y]

\* Two runs propose the same edits; near-duplicates for two files; an update on
\* probation while it is read; files that age; the calls that end early.
Proposing == {[Base EXCEPT !.calls = Two(CallOf("reflect", {AddB, UpdateA}), CallOf(k, {AddB}))] : k \in {"reflect", "curate"}}
Admitting == {[Base EXCEPT !.calls = Two(CallOf("reflect", {AddB, AddC}), CallOf("curate", {AddOld})),
                           !.files = Files([Fresh(Old) EXCEPT !.probation = TRUE])],
              [Base EXCEPT !.calls = Two(CallOf("reflect", {AddC}),
                                         [CallOf("curate", {Bare, AddB}) EXCEPT !.session = gone]),
                           !.acts.manual = 1]}
Updating == {[Base EXCEPT !.calls = Two(CallOf("reflect", {UpdateA}), Idle), !.modes = {"execute"},
                          !.acts.read = 2, !.acts.manual = 1],
             [Base EXCEPT !.calls = Two(CallOf("reflect", {UpdateA}), [CallOf("reflect", {}) EXCEPT !.need = "auto"]),
                          !.acts.compress = 1, !.acts.reset = 1]}
Tending == {[Base EXCEPT !.files = Files([Fresh(Old) EXCEPT !.mandatory = m, !.level = l, !.stale = m]),
                         !.modes = {"blank", "reflect", "debug"},
                         !.acts.read = 2, !.acts.age = 2, !.acts.sweep = 3] : m \in BOOLEAN, l \in {1, 4}}
Ending == {[Base EXCEPT !.calls = Two([CallOf(k, {}) EXCEPT !.need = n, !.source = s], 
               [CallOf("curate", {}) EXCEPT !.source = "transcript", !.lines = {1, 2, 3}])] :
               k \in {"reflect", "curate"}, n \in {"none", "auto"}, s \in {"none", "short"}}
All == Proposing \cup Admitting \cup Updating \cup Tending \cup Ending
=============================================================================
