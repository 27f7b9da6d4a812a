------------------------------- MODULE Memory -------------------------------
(***************************************************************************)
(* How memory is written: reflection_agent and memory_curator propose      *)
(* edits as drafts and ask for approvals, approval_applier carries out     *)
(* what is decided through admission_gate, session_compressor writes its   *)
(* own entries.  The queue of approvals is here what it promises: a        *)
(* request that was taken is decided at most once (module Approvals has    *)
(* the rest, crashes included).  A run is one call of reflect() or         *)
(* curate(); its steps are what lies between two requests over the bus.    *)
(***************************************************************************)
EXTENDS MemoryStore

CONSTANTS Runs, Scripts,  \* runs, and what a behaviour exercises: see Init
          NotesCap        \* MAX_LOG_BYTES, in lines

VARIABLES script,
          pc,           \* pc[r]: the request a run waits for
          found,        \* found[r]: edits of the hypotheses; then drafts not yet asked for
          drafts,       \* files in _drafts
          archive,      \* drafts under _archive
          asked,        \* drafts with a pending approval
          work,         \* the applier's tasks, one for each decided event
          notes,        \* _improvement_log.md: its sections, oldest first
          compressing,  \* session entries session_compressor is about to write
          left          \* acts to come of readers, operators and time (bound)

mvars == <<script, pc, found, drafts, archive, asked, work, notes, compressing, left>>
vars == <<stvars, mvars>>

Edits == [target : Targets, action : {"add", "update"}, text : Texts]

ASSUME MemoryAssumption ==
    \A s \in Scripts :
        /\ s.modes \subseteq Modes /\ s.files \in [Targets -> Entries \cup {Nothing}]
        /\ \A r \in Runs :
              LET call == s.calls[r]
              IN  /\ call.kind \in {"reflect", "curate", "none"}
                  /\ call.session \in Sessions \cup {NoSession}
                  /\ call.edits \subseteq Edits /\ IsFiniteSet(call.edits)

\* A script: each run's call and what its model would answer; the files; the acts.
Init == /\ script \in Scripts
        /\ InitStore(script.files)
        /\ pc = [r \in Runs |-> "idle"] /\ found = [r \in Runs |-> {}]
        /\ drafts = {} /\ archive = {} /\ asked = {} /\ work = {} /\ notes = <<>>
        /\ compressing = {}
        /\ left = script.acts

Call(r) == script.calls[r]
Spend(act) == left[act] > 0 /\ left' = [left EXCEPT ![act] = @ - 1]
Goes(r, to) == pc' = [pc EXCEPT ![r] = to]

\* _load_sources found something to read; session.ended hands its .jsonl over as a
\* transcript, which leaves no path to cite.
Loaded(r) == Call(r).source # "none"
Transcript(r) == Call(r).source = "transcript"
Session(r) == IF Transcript(r) THEN NoSession ELSE Call(r).session

-----------------------------------------------------------------------------
(* reflection_agent *)

\* _resolve_auto_target: the worst agent; the request may fail too.
HasNeed(r) == Call(r).need = "given" \/ (Call(r).need = "auto" /\ Ranked # {})

\* reflect up to its first request for the index: no need, nobody to reflect on,
\* or nothing to read end it.
Reflect(r) ==
    /\ pc[r] = "idle" /\ Call(r).kind = "reflect"
    /\ \/ HasNeed(r) /\ Loaded(r) /\ Goes(r, "indexing")
       \/ Call(r).need # "given" /\ Goes(r, "over")
       \/ ~Loaded(r) /\ Goes(r, "over")
    /\ UNCHANGED <<stvars, script, found, drafts, archive, asked, work, notes, compressing, left>>

\* memory.list in mode reflect, if the skill is there; then the sources are compressed.
Index(r) ==
    /\ pc[r] = "indexing" /\ Goes(r, "exploring")
    /\ \/ \E root \in Roots : Under[root] = Targets /\ List("reflect", root)
       \/ UNCHANGED stvars
    /\ UNCHANGED <<script, found, drafts, archive, asked, work, notes, compressing, left>>

\* The hypotheses in parallel: each may fail, its edits may be malformed.
Explore(r) ==
    /\ pc[r] = "exploring" /\ Call(r).kind = "reflect"
    /\ \E edits \in SUBSET Call(r).edits :
          /\ found' = [found EXCEPT ![r] = edits]
          /\ Goes(r, IF edits = {} THEN "over" ELSE "ranking")
    /\ UNCHANGED <<stvars, script, drafts, archive, asked, work, notes, compressing, left>>

\* _inject_origin_session_id and, for the curator, _ensure_inner_frontmatter_defaults.
Cited(text, session) ==
    IF text.fm /\ text.cites = NoSession THEN [text EXCEPT !.cites = session] ELSE text
WithDefaults(text, session) ==
    IF text.fm THEN [Cited(text, session) EXCEPT !.dated = TRUE] ELSE text
Final(r, text) == IF Call(r).kind = "curate" THEN WithDefaults(text, Session(r))
                  ELSE Cited(text, Session(r))

\* Fault: looked up before the session is cited.
KeyOfRaw(r, text) == text

\* What the hash that is looked up is of; the one in a file's name is of its text.
Key(r, text) == IF Call(r).kind = "curate" THEN text ELSE Final(r, text)
Hashes == {d.text : d \in drafts}

DraftOf(r, edit) == [run |-> r, target |-> edit.target, action |-> edit.action,
                     text |-> Final(r, edit.text)]

\* One edit for each hash that no file and no edit before it bears.
Unseen(r, edits) ==
    LET keys == {Key(r, e.text) : e \in edits} \ Hashes IN
    {new \in SUBSET edits : /\ {Key(r, e.text) : e \in new} = keys
                            /\ Cardinality(new) = Cardinality(keys)}

\* Staging suspends nowhere.
StageAll(r, edits) ==
    \E new \in Unseen(r, edits) :
        /\ found' = [found EXCEPT ![r] = {DraftOf(r, e) : e \in new}]
        /\ drafts' = drafts \cup {DraftOf(r, e) : e \in new}
        /\ Goes(r, IF new = {} THEN "over" ELSE "enqueuing")

\* The ranker picks some, points nowhere, or fails and all are taken.
Picks(r) == SUBSET found[r]

Rank(r) ==
    /\ pc[r] = "ranking"
    /\ \E chosen \in Picks(r) : StageAll(r, chosen)
    /\ UNCHANGED <<stvars, script, archive, asked, work, notes, compressing, left>>

\* A request to approval_queue is taken, or fails.
Requested(d) == {asked \cup {d}, asked}

\* _enqueue_approvals of both agents: a draft whose request fails stays on the disk.
Enqueue(r) ==
    /\ pc[r] = "enqueuing"
    /\ \E d \in found[r] :
          /\ found' = [found EXCEPT ![r] = @ \ {d}]
          /\ asked' \in Requested(d)
          /\ Goes(r, IF found[r] = {d} THEN "over" ELSE "enqueuing")
    /\ UNCHANGED <<stvars, script, drafts, archive, work, notes, compressing, left>>

-----------------------------------------------------------------------------
(* memory_curator *)

\* curate, by the command, the op, or session.ended (its .jsonl comes as a transcript);
\* the ranker's hint is optional.  No sources or a text below the floor: skipped.
Curate(r) ==
    /\ pc[r] = "idle" /\ Call(r).kind = "curate"
    /\ Goes(r, IF ~Loaded(r) \/ Call(r).source = "short" THEN "over" ELSE "exploring")
    /\ UNCHANGED <<stvars, script, found, drafts, archive, asked, work, notes, compressing, left>>

Size(sections) == FoldSet(LAMBDA i, n : n + Cardinality(sections[i]), 0, DOMAIN sections)
\* Oldest sections go first; the newest counts twice and always stays.
Trimmed(sections, newest) ==
    LET n == Len(sections)
        fits == {k \in 1..n : Size(SubSeq(sections, k, n)) + Cardinality(newest) <= NotesCap}
    IN IF Size(sections) <= NotesCap THEN sections
       ELSE SubSeq(sections, IF fits = {} THEN n ELSE Min(fits), n)
\* _append_improvements.
Noted(lines) ==
    LET new == lines \ UNION {notes[i] : i \in DOMAIN notes}
    IN IF new = {} THEN notes ELSE Trimmed(Append(notes, new), new)

\* The model answers: improvements to the log, edits to the drafts; or nothing usable.
Extract(r) ==
    /\ pc[r] = "exploring" /\ Call(r).kind = "curate"
    /\ \/ \E edits \in SUBSET Call(r).edits, lines \in SUBSET Call(r).lines :
             StageAll(r, edits) /\ notes' = Noted(lines)
       \/ Goes(r, "over") /\ UNCHANGED <<found, drafts, notes>>
    /\ UNCHANGED <<stvars, script, archive, asked, work, compressing, left>>

-----------------------------------------------------------------------------
(* approval_applier *)

\* The user decides; both answers are announced, a refusal counts against the proposer.
Decide(d, verdict) ==
    /\ d \in asked
    /\ asked' = asked \ {d}
    /\ work' = work \cup {[draft |-> d, verdict |-> verdict, at |-> "fetching", since |-> {}]}
    /\ events' = IF verdict = "rejected"
                 THEN Append(events, [kind |-> "blamed", agent |-> Call(d.run).kind]) ELSE events
    /\ UNCHANGED <<store, known, struggling, ledger, script, pc, found, drafts, archive, notes,
                   compressing, left>>

Moves(w, to) == work' = (work \ {w}) \cup {[w EXCEPT !.at = to, !.since = {}]}
Drops(w) == work' = work \ {w}
\* Fault: deleted.
Deleted(d) == drafts' = drafts \ {d} /\ UNCHANGED archive

ToArchive(d) == IF d \in drafts THEN drafts' = drafts \ {d} /\ archive' = archive \cup {d}
                ELSE UNCHANGED <<drafts, archive>>

\* add wants the file absent, update wants it there.
Suits(d) == (d.action = "update") <=> Exists(d.target)

\* _on_decided after its request for the entry, _apply_rejection and _apply_approval
\* up to the gate.  Skipped (no entry, no draft, no suitable file): the draft stays.
Fetch(w) ==
    /\ w.at = "fetching"
    /\ \/ Drops(w) /\ UNCHANGED <<drafts, archive>>
       \/ w.verdict = "rejected" /\ Drops(w) /\ ToArchive(w.draft)
       \/ /\ w.verdict = "approved" /\ w.draft \in drafts /\ Suits(w.draft)
          /\ Moves(w, "gating") /\ UNCHANGED <<drafts, archive>>
    /\ UNCHANGED <<stvars, script, pc, found, asked, notes, compressing, left>>

\* admission_gate: cheap stages first, then the model's surface_check.  A gate that is
\* not loaded, raises or runs out of time lets the entry pass.
Gate(w) ==
    /\ w.at = "gating"
    /\ \/ Moves(w, IF CheapStages(w.draft.text, w.draft.target) THEN "judging" ELSE "failed")
       \/ Moves(w, "waived")
    /\ UNCHANGED <<stvars, script, pc, found, drafts, archive, asked, notes, compressing, left>>

\* The model's verdict; without one that can be read it passes.
Judge(w) ==
    /\ w.at = "judging"
    /\ \E to \in {"passed", "failed"} :
          work' = (work \ {w}) \cup {[w EXCEPT !.at = to]}
    /\ UNCHANGED <<stvars, script, pc, found, drafts, archive, asked, notes, compressing, left>>

\* The other tasks learn which files were written since their check (history).
Others(ws, target) == {[w EXCEPT !.since = @ \cup {target}] : w \in ws}

\* _apply_approval after the gate: the write may fail, then the draft's removal may.
Settle(w) ==
    LET d == w.draft IN
    /\ \/ /\ w.at = "failed" /\ Drops(w) /\ ToArchive(d) /\ UNCHANGED stvars
       \/ /\ w.at \in {"passed", "waived"}
          /\ Write(d.target, d.text, d.action)
          /\ work' = Others(work \ {w}, d.target)
          /\ drafts' \in {drafts \ {d}, drafts}
          /\ UNCHANGED archive
       \/ /\ w.at \in {"passed", "waived"} /\ Drops(w) /\ UNCHANGED <<stvars, drafts, archive>>
    /\ UNCHANGED <<script, pc, found, asked, notes, compressing, left>>

\* The op apply_draft: no approval, no gate, no event.
ApplyDraft(d) ==
    /\ d \in drafts /\ Suits(d) /\ Spend("manual")
    /\ Write(d.target, d.text, d.action)
    /\ work' = Others(work, d.target)
    /\ drafts' = drafts \ {d}
    /\ UNCHANGED <<script, pc, found, archive, asked, notes, compressing>>

-----------------------------------------------------------------------------
(* session_compressor, readers, operators, time *)

\* By session.archived or by the op: the transcript is read and sent to the compressor.
Compress(t) ==
    /\ Spend("compress") /\ t \notin compressing
    /\ compressing' = compressing \cup {t}
    /\ UNCHANGED <<stvars, script, pc, found, drafts, archive, asked, work, notes>>

\* The answer: the entry of the session is written over, or there is none.
Compressed(t) ==
    /\ t \in compressing /\ compressing' = compressing \ {t}
    /\ \/ /\ Write(t, [fm |-> TRUE, topic |-> t, cites |-> NoSession, dated |-> TRUE], "session")
          /\ work' = Others(work, t)
       \/ UNCHANGED <<stvars, work>>
    /\ UNCHANGED <<script, pc, found, drafts, archive, asked, notes, left>>

Read == /\ Spend("read")
        /\ \E root \in Roots :
              \/ \E mode \in script.modes : List(mode, root) \/ Search(mode, root)
              \/ \E t \in Targets : Get(t, root)
        /\ UNCHANGED <<script, pc, found, drafts, archive, asked, work, notes, compressing>>

Tend == /\ \/ Spend("age") /\ Age
           \/ Spend("sweep") /\ \E extra \in {{}} \cup {{root} : root \in Roots} : Sweep(extra)
           \/ Spend("reset") /\ ResetRanking
        /\ UNCHANGED <<script, pc, found, drafts, archive, asked, work, notes, compressing>>

Rankings == (Credit \/ Blame) /\ UNCHANGED mvars

Next == \/ \E r \in Runs : \/ Reflect(r) \/ Index(r) \/ Explore(r) \/ Rank(r) \/ Enqueue(r)
                           \/ Curate(r) \/ Extract(r)
        \/ \E d \in asked, verdict \in {"approved", "rejected"} : Decide(d, verdict)
        \/ \E w \in work : Fetch(w) \/ Gate(w) \/ Judge(w) \/ Settle(w)
        \/ \E d \in drafts : ApplyDraft(d)
        \/ \E t \in Targets : Compress(t) \/ Compressed(t)
        \/ Read \/ Tend \/ Rankings

Spec == Init /\ [][Next]_vars

-----------------------------------------------------------------------------
(* Properties *)

\* No two drafts that reflection_agent staged have the same text, however many runs
\* of it overlap (cross-run dedup by the hash in the file names).
NoRepeats == \A d, e \in drafts :
    d # e /\ d.text = e.text => "curate" \in {Call(d.run).kind, Call(e.run).kind}

\* A draft leaves _drafts only for the archive, or when the file it proposes has been
\* written ("archive, don't delete").
NeverLost == [][\A d \in drafts \ drafts' : \/ d \in archive'
                                            \/ store'[d.target] # Nothing /\ store'[d.target].text = d.text]_vars

\* An updated entry is trusted again only after Threshold retrievals delivered since
\* the update: counters of the old version do not help the new one.  One that was
\* announced before the update and is delivered after it counts (ReadAsUpdated).
ProbationEarned == \A t \in Targets :
    Exists(t) /\ ledger[t].update /\ ~store[t].probation => ledger[t].hits >= Threshold

\* An entry loses at most one evidence level for each staleness window that passed since
\* it was written, and one if the date it was written with was a window back, whatever
\* sweeps there are and however the roots overlap; a mandatory entry loses none.
OneStepPerWindow == \A t \in Targets :
    Exists(t) => ledger[t].drops <= (IF store[t].mandatory THEN 0 ELSE ledger[t].ages)

\* What ended a probation was read as it is: Threshold of the retrievals delivered were
\* announced after the update.  Does not hold: an event names a path and not a version.
ReadAsUpdated == \A t \in Targets :
    Exists(t) /\ ledger[t].update /\ ~store[t].probation
        => ledger[t].hits >= Threshold + ledger[t].before

\* An approved add writes over no file.  Does not hold: two adds of one path may both
\* wait for the gate (approval_applier, lines 178 and 219).
AddsAreNew == \A t \in Targets : ~ledger[t].over

\* What passes the gate has no near-duplicate in memory but what was written while the
\* model judged it: the check is as good as its age.
Admitted == [][\A w \in work :
    w.at = "passed" /\ store' # store /\ (\A x \in work' : x.draft # w.draft)
        => Twins(w.draft.text, w.draft.target) \subseteq w.since]_vars

=============================================================================
