------------------------------ MODULE LlmJobs ------------------------------
(***************************************************************************)
(* Who asks llm_driver for turns, and what becomes of the answers: the     *)
(* judge, the compressor, a conversation that calls the compactor between  *)
(* turns, and the /new command of harness_pro_max, which has an agent      *)
(* described and written.  A job is a sequence of steps, each one turn at  *)
(* most; two jobs run at the same time.                                    *)
(***************************************************************************)
EXTENDS LlmTurn

VARIABLES
    job,        \* where a job is, its history, what it got, its outcome
    disk        \* agents/<name>/AGENT.md: which job wrote it

vars == <<script, turn, calls, free, ledger, job, disk>>

\* A judge only votes; a compressor maps every document and then merges, unless there is one.
ASSUME JobsAssumption ==
    \A s \in Scripts, j \in Jobs :
        /\ s[j].bodies \in Seq(BOOLEAN)
        /\ s[j].steps[1] = "vote" => \A i \in 1..Len(s[j].steps) : s[j].steps[i] = "vote"
        /\ s[j].steps[1] = "map" =>
              LET docs == Len(s[j].bodies) IN
              /\ Len(s[j].steps) = docs + (IF docs = 1 THEN 0 ELSE 1)
              /\ \A i \in 1..Len(s[j].steps) : s[j].steps[i] = (IF i <= docs THEN "map" ELSE "reduce")

Names == {"x", "y"}
Step(j) == Steps(j)[job[j].n]

Init ==
    /\ TurnInit
    /\ job = [j \in Jobs |-> [st |-> "ready", n |-> 1, hist |-> <<>>, flip |-> FALSE,
                              got |-> <<>>, out |-> None, told |-> None]]
    /\ disk = [name \in Names |-> None]

-----------------------------------------------------------------------------
(***************************************************************************)
(* llm_judge.                                                              *)
(***************************************************************************)
\* The winner a reply names; a reply that names none is no vote.
ParseCompareVote(content) ==
    CASE content = "first" -> <<"a">> [] content = "second" -> <<"b">> [] content = "tie" -> <<"tie">>
      [] OTHER -> <<>>

\* The candidates were shown in the other order: the labels are exchanged.
Relabel(winner) == CASE winner = "a" -> "b" [] winner = "b" -> "a" [] OTHER -> winner

\* A reply in JSON without a score counts as 0.
ParseScoreVote(content) ==
    CASE content = "high" -> <<9>> [] content = "low" -> <<2>> [] content = "blank" -> <<0>> [] OTHER -> <<>>

Votes(got, w) == Cardinality({i \in DOMAIN got : got[i].vote = w})

\* Counter.most_common: the most frequent winner, the first seen among equals.
MostCommon(got) ==
    LET top == {i \in DOMAIN got : \A k \in DOMAIN got :
                    Votes(got, got[k].vote) <= Votes(got, got[i].vote)}
    IN  got[Min(top)].vote

\* Fault: no look at the second.
FirstOfEquals(got) ==
    [winner |-> MostCommon(got), confidence |-> <<Votes(got, MostCommon(got)), Len(got)>>]

\* The majority; a draw with another winner at the top is a tie.
AggregateCompare(got) ==
    LET top == MostCommon(got)
        drawn == \E i \in DOMAIN got :
                    got[i].vote # top /\ Votes(got, got[i].vote) = Votes(got, top)
    IN  [winner |-> IF drawn /\ top # "tie" THEN "tie" ELSE top,
         confidence |-> <<Votes(got, top), Len(got)>>]

\* Mean of the votes, in tenths.
AggregateScore(got) ==
    FoldLeft(LAMBDA sum, v : sum + v.vote, 0, got) \div Len(got)

\* Word overlap with the task decides when no vote can be used.
CompareFallback(j) == [winner |-> JobOf(j).overlap, confidence |-> <<3, 10>>]
ScoreFallback(j) == IF JobOf(j).overlap = "tie" THEN 4 ELSE 1

AnchorLabel(score) ==
    CASE score >= 9 -> "fully correct" [] score \in 6..8 -> "mostly correct"
      [] score \in 3..5 -> "partially correct" [] score \in 1..2 -> "mentions topic"
      [] OTHER -> "incorrect"

Verdict(j, got) ==
    CASE got = <<>> /\ ~JobOf(j).fallback -> "error"
      [] got = <<>> /\ JobOf(j).fallback -> CompareFallback(j)
      [] OTHER -> AggregateCompare(got)

ScoreVerdict(j, got) ==
    LET score == IF got = <<>> THEN ScoreFallback(j) ELSE AggregateScore(got)
    IN  IF got = <<>> /\ ~JobOf(j).fallback THEN "error"
        ELSE [score |-> score, label |-> AnchorLabel(score)]

VerdictEvent(j) ==
    IF job[j].got = <<>> /\ ~JobOf(j).fallback THEN None ELSE "llm_judge.verdict"

Ready(j, step) ==
    job[j].st = "ready" /\ job[j].n <= Len(Steps(j)) /\ Step(j) = step

\* One vote: the order of the candidates is drawn anew.
Vote(j) ==
    /\ Ready(j, "vote")
    /\ \E flip \in (IF JobOf(j).randomize THEN BOOLEAN ELSE {FALSE}) :
          /\ job' = [job EXCEPT ![j].st = "wait", ![j].flip = flip]
          /\ Request(j, job[j].n, <<User(IF flip THEN "ba" ELSE "ab")>>)

Score(j) ==
    /\ Ready(j, "score")
    /\ job' = [job EXCEPT ![j].st = "wait"]
    /\ Request(j, job[j].n, <<User("candidate")>>)

\* An unusable vote is left out.
TookVote(j, content) ==
    LET parsed == IF Step(j) = "vote" THEN ParseCompareVote(content) ELSE ParseScoreVote(content)
        Entry(vote) == [n |-> job[j].n, vote |-> IF job[j].flip THEN Relabel(vote) ELSE vote]
    IN  IF parsed = <<>> THEN job[j].got ELSE Append(job[j].got, Entry(parsed[1]))

-----------------------------------------------------------------------------
(***************************************************************************)
(* context_compressor.  A summary is the set of the documents it covers.   *)
(***************************************************************************)
Bodies(j) == {n \in DOMAIN JobOf(j).bodies : JobOf(j).bodies[n]}
Partial(docs, fallback) == [docs |-> docs, fallback |-> fallback]

\* The summary of document n: the model's, else the head and tail of the text
\* if the caller allows it.  content = "" is a call that brought nothing.
MapOne(j, n, content) ==
    CASE n \notin Bodies(j) -> Partial({}, FALSE)
      [] n \in Bodies(j) /\ content # "" -> Partial({n}, FALSE)
      [] OTHER -> Partial(IF JobOf(j).fallback THEN {n} ELSE {}, TRUE)

Usable(got) == {i \in DOMAIN got : got[i].docs # {}}

\* One summary needs no merging; a failed merge keeps every partial one.
ReduceOf(got, content) ==
    LET usable == Usable(got)
    IN  CASE usable = {} -> Partial({}, FALSE)
          [] Cardinality(usable) = 1 -> got[CHOOSE i \in usable : TRUE]
          [] OTHER -> Partial(UNION {got[i].docs : i \in usable}, content = "")

\* Fault: only the merge is asked for its fallback.
SummarizedByMerge(got, merged) == [docs |-> merged.docs, fallback |-> merged.fallback]

Summarized(got, merged) ==
    [docs |-> merged.docs,
     fallback |-> merged.fallback \/ \E i \in DOMAIN got : got[i].fallback]

CompressedEvent == "context.compressed"

\* Below the target there is nothing to do; else the documents one by one.
MapStep(j) ==
    /\ Ready(j, "map")
    /\ IF ~JobOf(j).over
       THEN /\ job' = [job EXCEPT ![j].st = "done", ![j].out = Partial(Bodies(j), FALSE),
                                  ![j].told = CompressedEvent]
            /\ UNCHANGED turnVars
       ELSE IF job[j].n \notin Bodies(j)
       THEN /\ job' = [job EXCEPT ![j].n = @ + 1,
                                  ![j].got = Append(@, MapOne(j, job[j].n, ""))]
            /\ UNCHANGED turnVars
       ELSE job' = [job EXCEPT ![j].st = "wait"] /\ Request(j, job[j].n, <<User("document")>>)

ReduceStep(j) ==
    /\ Ready(j, "reduce")
    /\ IF Cardinality(Usable(job[j].got)) <= 1
       THEN /\ job' = [job EXCEPT ![j].n = @ + 1, ![j].out = ReduceOf(job[j].got, "")]
            /\ UNCHANGED turnVars
       ELSE job' = [job EXCEPT ![j].st = "wait"] /\ Request(j, job[j].n, <<User("partials")>>)

-----------------------------------------------------------------------------
(***************************************************************************)
(* A conversation whose owner calls the compactor between turns.           *)
(***************************************************************************)
Ask(j) ==
    LET hist == Append(job[j].hist, User("ask"))
    IN  /\ Ready(j, "ask")
        /\ job' = [job EXCEPT ![j].st = "wait", ![j].hist = hist]
        /\ Request(j, job[j].n, hist)

Micro(j) ==
    /\ Ready(j, "micro")
    /\ job' = [job EXCEPT ![j].n = @ + 1, ![j].hist = Microcompact(@, JobOf(j).keep)]
    /\ UNCHANGED turnVars

Full(j) ==
    /\ Ready(j, "full")
    /\ IF NeedsSummary(job[j].hist, JobOf(j).keep)
       THEN job' = [job EXCEPT ![j].st = "wait"] /\ Request(j, job[j].n, <<User("rendered")>>)
       ELSE /\ job' = [job EXCEPT ![j].n = @ + 1]
            /\ UNCHANGED turnVars

-----------------------------------------------------------------------------
(***************************************************************************)
(* /new of harness_pro_max: classify_intent names the agent, then          *)
(* generate_agent_md writes its text; the directory is looked at before    *)
(* the second call of the model and made after it.                         *)
(***************************************************************************)
\* classify_intent accepts a reply only with every key, and a name in snake case.
ClassifyIntent(content) == IF content \in Names THEN <<content>> ELSE <<>>

\* generate_agent_md accepts a text that begins with frontmatter.
GenerateAgentMd(content) == content = "agent_md"

NewAgent(j) ==
    /\ Ready(j, "classify")
    /\ job' = [job EXCEPT ![j].st = "wait"]
    /\ Request(j, job[j].n, <<User("description")>>)

Failed(j, stage) == [job[j] EXCEPT !.st = "ready", !.n = Len(Steps(j)) + 1, !.out = stage]

\* A name that is taken ends the command before the text is asked for.
TookClass(j, content) ==
    LET name == ClassifyIntent(content)
    IN  IF name = <<>> THEN Failed(j, "classify_intent")
        ELSE IF disk[name[1]] # None THEN Failed(j, "conflict")
        ELSE [job[j] EXCEPT !.st = "ready", !.n = @ + 1, !.got = name]

Generate(j) ==
    /\ Ready(j, "generate")
    /\ job' = [job EXCEPT ![j].st = "wait"]
    /\ Request(j, job[j].n, <<User("produce")>>)

\* The directory is made exactly once: the name may be taken since it was looked at.
Writes(j, content) == GenerateAgentMd(content) /\ disk[job[j].got[1]] = None

TookText(j, content) ==
    CASE ~GenerateAgentMd(content) -> Failed(j, "generate_agent_md")
      [] GenerateAgentMd(content) /\ ~Writes(j, content) -> Failed(j, "write")
      [] OTHER -> [job[j] EXCEPT !.st = "ready", !.n = @ + 1, !.out = "written"]

\* loader.scan and ensure_running; an agent that does not start keeps its text.
StartAgent(j) ==
    /\ Ready(j, "start")
    /\ \E stage \in {"running", "ensure_running"} :
          job' = [job EXCEPT ![j].n = @ + 1, ![j].out = stage]
    /\ UNCHANGED turnVars

-----------------------------------------------------------------------------
\* What a step does with its turn; content "" when there was no usable one.
Took(j, content, t) ==
    LET s == [job[j] EXCEPT !.st = "ready", !.n = @ + 1]
    IN  CASE Step(j) = "ask" ->
                [s EXCEPT !.hist = IF t.stop \in {None, "token_budget"} THEN @ ELSE t.msgs]
          [] Step(j) = "full" ->
                [s EXCEPT !.hist = IF content = "" THEN @ ELSE FullCompact(@, JobOf(j).keep)]
          [] Step(j) \in {"vote", "score"} -> [s EXCEPT !.got = TookVote(j, content)]
          [] Step(j) = "map" -> [s EXCEPT !.got = Append(@, MapOne(j, job[j].n, content))]
          [] Step(j) = "classify" -> TookClass(j, content)
          [] Step(j) = "generate" -> TookText(j, content)
          [] OTHER -> [s EXCEPT !.out = ReduceOf(job[j].got, content)]

\* What a step leaves on disk.
DiskAfter(j, content) ==
    IF Step(j) = "generate" /\ Writes(j, content) THEN [disk EXCEPT ![job[j].got[1]] = j] ELSE disk

\* The turn has ended in time, complete or not.
Answered(j) ==
    LET t == turn[j][job[j].n]
        content == IF t.stop = "complete" THEN t.content ELSE ""
    IN  /\ job[j].st = "wait" /\ t.st = "done"
        /\ job' = [job EXCEPT ![j] = Took(j, content, t)]
        /\ disk' = DiskAfter(j, content)
        /\ turn' = [turn EXCEPT ![j][job[j].n] = [NoTurn EXCEPT !.st = "done"]]
        /\ UNCHANGED <<script, calls, free, ledger>>

\* The caller's own timeout; the turn goes on, and the job with its next step.
JobTimeout(j) ==
    /\ job[j].st = "wait" /\ turn[j][job[j].n].st # "done" /\ JobOf(j).hurry
    /\ job' = [job EXCEPT ![j] = Took(j, "", NoTurn)]
    /\ UNCHANGED turnVars

\* The last step: the outcome, and the event that says so.
Conclude(j) ==
    LET kind == Steps(j)[1]
    IN  /\ job[j].st = "ready" /\ job[j].n > Len(Steps(j))
        /\ job' = [job EXCEPT
              ![j].st = "done",
              ![j].out = CASE kind = "vote" -> Verdict(j, job[j].got)
                           [] kind = "score" -> ScoreVerdict(j, job[j].got)
                           [] kind = "map" -> Summarized(job[j].got,
                                  IF Len(job[j].got) = 1 THEN job[j].got[1] ELSE @)
                           [] OTHER -> @,
              ![j].told = CASE kind \in {"vote", "score"} -> VerdictEvent(j)
                            [] kind = "map" -> CompressedEvent
                            [] OTHER -> None]
        /\ UNCHANGED turnVars

-----------------------------------------------------------------------------
JobStep ==
    \E j \in Jobs :
        \/ Answered(j)
        \/ /\ \/ Vote(j) \/ Score(j) \/ MapStep(j) \/ ReduceStep(j) \/ Ask(j) \/ Micro(j) \/ Full(j)
              \/ NewAgent(j) \/ Generate(j) \/ StartAgent(j) \/ JobTimeout(j) \/ Conclude(j)
           /\ UNCHANGED disk

Next == ((ServiceStep \/ DriverStep) /\ UNCHANGED <<job, disk>>) \/ JobStep

Spec == Init /\ [][Next]_vars

\* The three kinds of tasks run until they wait; the provider answers or the
\* HTTP request times out, so a call that was sent is closed.
FairSpec ==
    /\ Spec
    /\ WF_vars(ServiceStep /\ UNCHANGED <<job, disk>>)
    /\ WF_vars(DriverStep /\ UNCHANGED <<job, disk>>)
    /\ WF_vars(JobStep)

-----------------------------------------------------------------------------
\* What a vote meant, seen from the provider: the candidate it saw in that place.
Meant(entry) ==
    IF entry.said = "tie" THEN "tie"
    ELSE IF (entry.said = "first") = (entry.shown = "ab") THEN "a" ELSE "b"

\* compare names a winner exactly if more of the counted replies meant it than
\* anything else, in whatever order the candidates were shown.
VerdictIsMajority ==
    \A j \in Jobs :
        LET counted == {e \in ledger : e.job = j /\ \E i \in DOMAIN job[j].got : job[j].got[i].n = e.n}
            meaning(w) == Cardinality({e \in counted : Meant(e) = w})
        IN  job[j].st = "done" /\ Steps(j)[1] = "vote" /\ job[j].got # <<>> =>
              \A w \in {"a", "b"} :
                 job[j].out.winner = w <=>
                    \A v \in {"a", "b", "tie"} \ {w} : meaning(w) > meaning(v)

\* A document that is missing from the merged summary was empty, or the result
\* says a fallback was used; with fallbacks allowed none is missing.
NoSilentLoss ==
    \A j \in Jobs :
        job[j].st = "done" /\ Steps(j)[1] = "map" =>
            LET missing == Bodies(j) \ job[j].out.docs
            IN  missing = {} \/ (job[j].out.fallback /\ ~JobOf(j).fallback)

\* Every job ends and every slot comes back, also those of calls nobody waits for.
AllEnds == <>[](calls = {} /\ free = Slots /\ \A j \in Jobs : job[j].st = "done")
=============================================================================
