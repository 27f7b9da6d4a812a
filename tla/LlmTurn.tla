------------------------------ MODULE LlmTurn ------------------------------
(***************************************************************************)
(* The path of a model call: a job (module LlmJobs) asks llm_driver for a  *)
(* turn, the driver asks llm_service once per iteration and again while    *)
(* the provider is busy, the service holds a slot of the rate limiter      *)
(* during the HTTP request.  Each of the three is a task of its own: one   *)
(* that gives up waiting does not stop the one it waited for.              *)
(***************************************************************************)
EXTENDS Conversation

CONSTANTS
    Jobs,
    Scripts,        \* what the jobs are and what the provider may answer
    MaxSteps,       \* of a job
    Slots,          \* max_concurrent of the pool
    MaxRetries      \* MAX_RETRIES_ON_PROVIDER_RATE_LIMIT

ASSUME LlmAssumption ==
    MaxSteps \in Nat \ {0} /\ Slots \in Nat \ {0} /\ MaxRetries \in Nat

VARIABLES
    script,
    turn,       \* turn[j][n]: the run_turn of step n of job j
    calls,      \* requests inside llm_service
    free,       \* free slots of the pool
    ledger      \* calls whose cost was reported to the rate limiter

turnVars == <<script, turn, calls, free, ledger>>

None == "none"
NoTurn == [st |-> "none", msgs |-> <<>>, it |-> 0, try |-> 0, tokens |-> 0, todo |-> {},
           stop |-> None, content |-> ""]

\* A script gives each job its steps and settings: the account and its dialect,
\* the tools' outcomes, the limits of a turn (max, budget), what the compactor
\* keeps, which documents have text (bodies) and whether they exceed the target
\* (over), whether fallbacks are allowed, whether the provider makes errors
\* (errs) or leaks its thinking (leaks), and whether timeouts fire (hurry).
ASSUME ScriptsAssumption ==
    \A s \in Scripts, j \in Jobs :
        /\ s[j].steps \in Seq(STRING) \ {<<>>} /\ Len(s[j].steps) <= MaxSteps
        /\ s[j].keep \in Nat

JobOf(j) == script[j]
Steps(j) == JobOf(j).steps

TurnInit ==
    /\ script \in Scripts
    /\ turn = [j \in Jobs |-> [n \in 1..MaxSteps |-> NoTurn]]
    /\ calls = {} /\ free = Slots /\ ledger = {}

-----------------------------------------------------------------------------
(***************************************************************************)
(* llm_driver.                                                             *)
(***************************************************************************)
Call(j, n, t) ==
    [job |-> j, n |-> n, it |-> t.it, try |-> t.try, st |-> "queued",
     msgs |-> ApiMessages(JobOf(j).attach, t.msgs)]

Ended(t, stop) == [t EXCEPT !.st = "done", !.stop = stop]

\* The reply of an iteration: a message of the list; then the end, the budget, or the tools.
OnReply(j, t, reply) ==
    LET s == [t EXCEPT !.msgs = Append(@, AssistantMessage(reply)),
                       !.content = reply.content, !.tokens = @ + 1]
    IN  CASE reply.calls = {} -> Ended(s, "complete")
          [] reply.calls # {} /\ s.tokens >= JobOf(j).budget -> Ended(s, "token_budget")
          [] OTHER -> [s EXCEPT !.st = "tools", !.todo = reply.calls]

\* A busy provider is asked again, so often and no more; any other refusal ends the turn.
OnRefusal(t, kind) ==
    IF kind = "limited" /\ t.try < MaxRetries
    THEN [t EXCEPT !.st = "sleep"] ELSE Ended(t, "error")

\* The backoff is over: the same request once more, in the retry lane.
Retry(j, n) ==
    LET t == [turn[j][n] EXCEPT !.st = "call", !.try = @ + 1]
    IN  /\ turn[j][n].st = "sleep"
        /\ turn' = [turn EXCEPT ![j][n] = t]
        /\ calls' = calls \cup {Call(j, n, t)}
        /\ UNCHANGED <<script, free, ledger>>

\* Fault: a timeout is taken for one more reason to try again.
TimeoutRetried(j, n) ==
    /\ turn[j][n].st = "call" /\ JobOf(j).hurry
    /\ turn' = [turn EXCEPT ![j][n] = OnRefusal(@, "limited")]
    /\ UNCHANGED <<script, calls, free, ledger>>

\* llm_timeout: the driver stops waiting and the turn ends; the call goes on.
CallTimeout(j, n) ==
    /\ turn[j][n].st = "call" /\ JobOf(j).hurry
    /\ turn' = [turn EXCEPT ![j][n] = Ended(@, "error")]
    /\ UNCHANGED <<script, calls, free, ledger>>

\* The calls of a reply are executed one after the other; every one of them is
\* answered in the list.  After the last the next iteration asks the model.
RunTool(j, n) ==
    LET t == turn[j][n]
        id == Min(t.todo)
        rest == t.todo \ {id}
        next == IF t.it = JobOf(j).max THEN Ended(t, "max_iter")
                ELSE [t EXCEPT !.st = "call", !.it = @ + 1, !.try = 0]
    IN  /\ t.st = "tools"
        /\ \E outcome \in JobOf(j).tool :
             LET s == [(IF rest = {} THEN next ELSE t) EXCEPT
                          !.todo = rest, !.msgs = Append(@, ToolMessage(id, outcome))]
             IN  /\ turn' = [turn EXCEPT ![j][n] = s]
                 /\ calls' = calls \cup (IF s.st = "call" THEN {Call(j, n, s)} ELSE {})
        /\ UNCHANGED <<script, free, ledger>>

\* LlmDriver.handle: a turn over a copy of the caller's list.
Request(j, n, msgs) ==
    LET t == [NoTurn EXCEPT !.st = "call", !.msgs = msgs, !.it = 1]
    IN  /\ turn' = [turn EXCEPT ![j][n] = t]
        /\ calls' = calls \cup {Call(j, n, t)}
        /\ UNCHANGED <<script, free, ledger>>

-----------------------------------------------------------------------------
(***************************************************************************)
(* llm_service.                                                            *)
(***************************************************************************)
Waited(c) ==
    LET t == turn[c.job][c.n] IN t.st = "call" /\ t.it = c.it /\ t.try = c.try

\* The handler returns, and the driver hears of it if it still listens.
Close(c, heard) ==
    /\ calls' = calls \ {c}
    /\ turn' = IF Waited(c) THEN [turn EXCEPT ![c.job][c.n] = heard] ELSE turn
    /\ UNCHANGED script

\* What goes over the wire, by the dialect of the account.
Wired(c) ==
    IF JobOf(c.job).api = "openai" THEN c.msgs
    ELSE BuildAnthropicRequest(c.msgs, {"tool"}, JobOf(c.job).thinking).messages

Unusable(c) ==
    \/ ~JobOf(c.job).account
    \/ /\ JobOf(c.job).api # "openai"
       /\ BuildAnthropicRequest(c.msgs, {"tool"}, JobOf(c.job).thinking).raises

\* A slot is given to a retry before anybody else, and held from here to the answer.
Granted(c) ==
    /\ c.st = "queued" /\ free > 0
    /\ c.try = 0 => \A d \in calls : d.st = "queued" => d.try = 0

Send(c) ==
    /\ Granted(c) /\ ~Unusable(c)
    /\ calls' = (calls \ {c}) \cup {[c EXCEPT !.st = "sent"]}
    /\ free' = free - 1
    /\ UNCHANGED <<script, turn, ledger>>

\* An account without a key, or a thinking preset nobody knows: nothing is sent
\* and the slot is given back at once.
Refuse(c) ==
    /\ Granted(c) /\ Unusable(c)
    /\ Close(c, OnRefusal(turn[c.job][c.n], "failed"))
    /\ UNCHANGED <<free, ledger>>

Normalize(c, answer) ==
    LET reply == IF JobOf(c.job).api = "openai" THEN NormalizeOpenai(answer)
                 ELSE ParseAnthropic(answer)
    IN  IF JobOf(c.job).strip THEN StripThinking(reply) ELSE reply

\* What the provider may say to the request of a step.
Good == [http |-> 200, base |-> 0, json |-> TRUE, text |-> "", think |-> "no", calls |-> {}]
Errors == {[Good EXCEPT !.http = h] : h \in {0, 429, 500}} \cup
          {[Good EXCEPT !.base = b] : b \in {1002, 2013}} \cup {[Good EXCEPT !.json = FALSE]}
Texts(c) ==
    CASE Steps(c.job)[c.n] = "ask" -> {"say", ""}
      [] Steps(c.job)[c.n] = "vote" -> {"first", "second", "tie", "prose"}
      [] Steps(c.job)[c.n] = "score" -> {"high", "low", "blank", "prose"}
      [] Steps(c.job)[c.n] = "classify" -> {"x", "y", "prose"}
      [] Steps(c.job)[c.n] = "generate" -> {"agent_md", "prose"}
      [] OTHER -> {"summary", ""}
Answers(c) ==
    {answer \in [http : {200}, base : {0}, json : {TRUE}, text : Texts(c), think : {"no"} \cup JobOf(c.job).leaks,
                 calls : IF Steps(c.job)[c.n] = "ask" THEN {{}, {1}, {1, 2}} ELSE {{}}] :
        answer.think = "no" \/ answer.calls = {}}

\* An answer is debited; the entry keeps what was shown and what was said.
Reply(c) ==
    /\ c.st = "sent" /\ free' = free + 1
    /\ \E answer \in Answers(c) :
          /\ Classify(answer) = "fine"
          /\ Close(c, OnReply(c.job, turn[c.job][c.n], Normalize(c, answer)))
          /\ ledger' = ledger \cup {[job |-> c.job, n |-> c.n, it |-> c.it, try |-> c.try,
                                     shown |-> Last(c.msgs).text, said |-> answer.text]}

\* Fault: the slot of a request that failed is not given back.
FailKeepingSlot(c) ==
    /\ c.st = "sent" /\ JobOf(c.job).errs
    /\ \E answer \in Errors :
          Close(c, OnRefusal(turn[c.job][c.n], Classify(answer)))
    /\ UNCHANGED <<free, ledger>>

Fail(c) ==
    /\ c.st = "sent" /\ free' = free + 1 /\ JobOf(c.job).errs
    /\ \E answer \in Errors :
          Close(c, OnRefusal(turn[c.job][c.n], Classify(answer)))
    /\ UNCHANGED ledger

ServiceStep == \E c \in calls : Refuse(c) \/ Send(c) \/ Reply(c) \/ Fail(c)
DriverStep == \E j \in Jobs, n \in 1..MaxSteps : Retry(j, n) \/ CallTimeout(j, n) \/ RunTool(j, n)

-----------------------------------------------------------------------------
\* Whatever the compactor cut and whatever the tools did, every request that
\* reaches the provider answers each tool call of the list, in both dialects
\* (the risk the TODO in LlmDriver.run_turn names).
PairedRequests ==
    \A c \in calls : c.st = "sent" =>
        IF JobOf(c.job).api = "openai" THEN PairedOpenai(Wired(c)) ELSE PairedAnthropic(Wired(c))

\* "One logical call = at most one debit" (ProviderRateLimitError): an iteration
\* whose request is repeated or abandoned is paid for once.
OneDebit ==
    \A x, y \in ledger :
        x.job = y.job /\ x.n = y.n /\ x.it = y.it => x = y
=============================================================================
