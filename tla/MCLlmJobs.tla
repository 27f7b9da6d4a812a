----------------------------- MODULE MCLlmJobs -----------------------------
EXTENDS LlmJobs

CONSTANTS j1, j2

Plain == [steps |-> <<>>, api |-> "openai", account |-> TRUE, thinking |-> "none", strip |-> TRUE,
          attach |-> FALSE, errs |-> FALSE, hurry |-> FALSE, tool |-> {"out"}, max |-> 2, budget |-> 9,
          keep |-> 1, randomize |-> TRUE, overlap |-> "a", fallback |-> TRUE,
          over |-> TRUE, bodies |-> <<>>, leaks |-> {}]
Two(x, y) == [j \in Jobs |-> IF j = j1 THEN x ELSE y]

Chat(steps) == [Plain EXCEPT !.steps = steps, !.strip = FALSE, !.api = "anthropic-messages"]
Judge(kind, n) == [Plain EXCEPT !.steps = [i \in 1..n |-> kind]]
Summary(bodies) ==
    [Plain EXCEPT !.bodies = bodies,
                  !.steps = [i \in DOMAIN bodies |-> "map"] \o
                            (IF Len(bodies) = 1 THEN <<>> ELSE <<"reduce">>)]
Nothing == [Plain EXCEPT !.steps = <<"micro">>]

\* A conversation that is compacted, in both dialects; three votes; documents;
\* errors, retries and timeouts on a pool of one slot.
Compacting ==
    {Two([Chat(<<"ask", s, "ask">>) EXCEPT !.api = d, !.keep = k], Nothing) :
        s \in {"micro", "full"}, d \in {"openai", "anthropic-messages"}, k \in 0..1}
    \cup {Two([Chat(<<"ask", "ask", "full", "ask">>) EXCEPT !.max = 1, !.budget = 1], Nothing)}
Tools == {Two([Chat(<<"ask">>) EXCEPT !.tool = {"out", "huge", "refused", "late", "raised"}, !.budget = 2, !.attach = TRUE,
                               !.api = "openai", !.leaks = {"closed", "open"}], Nothing)}
Judging ==
    {Two(Judge("vote", 4), Nothing), Two([Judge("vote", 2) EXCEPT !.hurry = TRUE], Nothing)}
    \cup {Two([Judge(k, 2) EXCEPT !.errs = TRUE, !.leaks = {"closed", "open"},
                                     !.fallback = f, !.overlap = o], Nothing) :
             k \in {"vote", "score"}, f \in BOOLEAN, o \in {"a", "tie"}}
Summing ==
    {Two([Summary(b) EXCEPT !.fallback = f, !.errs = TRUE], Nothing) :
        b \in {<<TRUE>>, <<TRUE, FALSE, TRUE>>, <<TRUE, TRUE>>}, f \in BOOLEAN}
    \cup {Two([Summary(<<TRUE, TRUE>>) EXCEPT !.over = FALSE], Nothing)}
Crowded ==
    {Two([Summary(<<TRUE>>) EXCEPT !.errs = TRUE, !.hurry = TRUE],
         [Chat(<<"ask">>) EXCEPT !.errs = TRUE, !.max = 1, !.hurry = TRUE])}
Misconfigured ==
    {Two([Chat(<<"ask">>) EXCEPT !.thinking = "odd"], [Judge("score", 1) EXCEPT !.account = FALSE])}

New == [Plain EXCEPT !.steps = <<"classify", "generate", "start">>]
Creating == {Two([New EXCEPT !.hurry = h], [New EXCEPT !.errs = ~h]) : h \in BOOLEAN}

All == Compacting \cup Tools \cup Judging \cup Summing \cup Crowded \cup Misconfigured \cup Creating
=============================================================================
