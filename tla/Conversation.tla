---------------------------- MODULE Conversation ----------------------------
(***************************************************************************)
(* The message lists of llm_driver and what is done to them on the way to  *)
(* a provider and back: llm_service/anthropic_adapter.py translates them,  *)
(* llm_service/handler.py reads the answer, the compactor skill shortens   *)
(* them.  A text is "" or a token: what the code tells apart.              *)
(***************************************************************************)
EXTENDS Naturals, SequencesExt, FiniteSetsExt

Message(role, text, calls, id) == [role |-> role, text |-> text, calls |-> calls, id |-> id]
User(text) == Message("user", text, {}, 0)
System(text) == Message("system", text, {}, 0)

\* The reply of the service becomes the next message of the list; thinking
\* tags nobody stripped are text like any other.
AssistantMessage(reply) ==
    Message("assistant", IF reply.think = "no" THEN reply.content ELSE "tagged", reply.calls, 0)

\* What a tool returned, unwrapped from its envelope: the payload of "output",
\* or the error of a refusal, a timeout or an exception.
ToolOutput(outcome) == IF outcome \in {"refused", "late", "raised"} THEN "error" ELSE outcome

\* A result above max_output_bytes is cut.
Capped(text) == IF text = "huge" THEN "cut" ELSE text

ToolMessage(id, outcome) == Message("tool", Capped(ToolOutput(outcome)), {}, id)

\* The request: the system prompt and the attachments come before the list.
ApiMessages(attached, messages) ==
    <<System("prompt")>> \o (IF attached THEN <<User("reminder")>> ELSE <<>>) \o messages

-----------------------------------------------------------------------------
(***************************************************************************)
(* compactor.                                                              *)
(***************************************************************************)
Positions(messages, role) == {i \in DOMAIN messages : messages[i].role = role}

\* All tool results but the last `keep` lose their text, never their place.
Microcompact(messages, keep) ==
    LET tools == Positions(messages, "tool")
        old == {i \in tools : Cardinality({k \in tools : k > i}) >= keep}
    IN  [i \in DOMAIN messages |->
            IF i \in old THEN [messages[i] EXCEPT !.text = "cleared"] ELSE messages[i]]

\* Fault: any message may be the first one kept.
TurnOfAny(messages) == DOMAIN messages

\* A turn begins at a user message.
TurnIndex(messages) == Positions(messages, "user")

\* The first message kept: the last `keep` turns stay.
Cut(messages, keep) ==
    IF keep = 0 THEN Len(messages) + 1
    ELSE CHOOSE i \in TurnIndex(messages) :
            Cardinality({k \in TurnIndex(messages) : k >= i}) = keep

\* System messages are not rendered: a prefix of them alone has no text.
RenderForSummary(messages) == \E i \in DOMAIN messages : messages[i].role # "system"

NeedsSummary(messages, keep) ==
    /\ Cardinality(TurnIndex(messages)) > keep
    /\ RenderForSummary(SubSeq(messages, 1, Cut(messages, keep) - 1))

FullCompact(messages, keep) ==
    <<User("summary"), System("boundary")>>
        \o SubSeq(messages, Cut(messages, keep), Len(messages))

-----------------------------------------------------------------------------
(***************************************************************************)
(* The Anthropic dialect.  A wire message: who speaks, whether it holds    *)
(* text, the tool_use ids and the tool_result ids among its blocks.        *)
(***************************************************************************)
Wire(role, text, uses, results) ==
    [role |-> role, text |-> text, uses |-> uses, results |-> results]

\* Tool results that follow each other, from a position on.
ToolRun(messages, i) == {k \in i..Len(messages) : \A n \in i..k : messages[n].role = "tool"}

\* Where a wire message begins.  An empty assistant turn and a role the dialect does
\* not know begin none, and system messages leave the list; tool results that follow
\* each other become one user message.
Begins(messages) ==
    {i \in DOMAIN messages :
        \/ messages[i].role = "user"
        \/ messages[i].role = "assistant" /\ (messages[i].text # "" \/ messages[i].calls # {})
        \/ messages[i].role = "tool" /\ (i = 1 \/ messages[i - 1].role # "tool")}

ConvertMessage(messages, i) ==
    CASE messages[i].role = "assistant" ->
            Wire("assistant", messages[i].text # "", messages[i].calls, {})
      [] messages[i].role = "tool" ->
            Wire("user", FALSE, {}, {messages[k].id : k \in ToolRun(messages, i)})
      [] OTHER -> Wire("user", TRUE, {}, {})

\* The position in S that has n - 1 before it.
Nth(S, n) == CHOOSE i \in S : Cardinality({k \in S : k <= i}) = n

ConvertMessages(messages) ==
    [n \in 1..Cardinality(Begins(messages)) |-> ConvertMessage(messages, Nth(Begins(messages), n))]

\* Thinking is off unless the caller asks; an unknown preset raises.
Presets == {"off", "low", "medium", "high", "xhigh"}
ResolveThinking(preset) == IF preset = "none" THEN "off" ELSE preset

\* A tool without a name is not offered.
ConvertTools(tools) == tools \ {""}

BuildAnthropicRequest(messages, tools, preset) ==
    [messages |-> ConvertMessages(messages), tools |-> ConvertTools(tools),
     raises |-> ResolveThinking(preset) \notin Presets]

-----------------------------------------------------------------------------
(***************************************************************************)
(* What the provider accepts: every call of an assistant message is        *)
(* answered right after it, and nothing else is answered.                  *)
(***************************************************************************)
PairedOpenai(messages) ==
    /\ \A i \in Positions(messages, "assistant") :
          \/ messages[i].calls = {}
          \/ LET next == {k \in (i + 1)..Len(messages) : messages[k].role # "tool"}
                 end == IF next = {} THEN Len(messages) ELSE Min(next) - 1
             IN  /\ {messages[k].id : k \in (i + 1)..end} = messages[i].calls
                 /\ end - i = Cardinality(messages[i].calls)
    /\ \A k \in Positions(messages, "tool") :
          \E i \in Positions(messages, "assistant") :
             /\ i < k /\ messages[k].id \in messages[i].calls
             /\ \A n \in (i + 1)..k : messages[n].role = "tool"

PairedAnthropic(wire) ==
    \A i \in DOMAIN wire :
        /\ wire[i].uses # {} => i < Len(wire) /\ wire[i + 1].results = wire[i].uses
        /\ wire[i].results # {} => i > 1 /\ wire[i - 1].uses = wire[i].results

-----------------------------------------------------------------------------
(***************************************************************************)
(* The answer of the provider: [http, base, json, text, think, calls].     *)
(* http = 0 stands for a request that never got a status.                  *)
(***************************************************************************)
RateLimitCodes == {1002, 1039, 1027}

ClassifyHttp(answer) ==
    CASE answer.http = 0 -> "failed"
      [] answer.http = 429 -> "limited"
      [] answer.http >= 400 /\ answer.http # 429 -> "failed"
      [] OTHER -> "fine"

\* MiniMax reports its errors inside an answer with status 200.
ClassifyBaseResp(answer) ==
    CASE answer.base \in RateLimitCodes -> "limited"
      [] answer.base = 0 -> "fine"
      [] OTHER -> "failed"

Classify(answer) ==
    CASE ClassifyHttp(answer) # "fine" -> ClassifyHttp(answer)
      [] ~answer.json -> "failed"
      [] OTHER -> ClassifyBaseResp(answer)

\* An answer without choices is an empty reply.  Thinking is left in the text.
NormalizeOpenai(answer) ==
    [content |-> answer.text, think |-> answer.think, calls |-> answer.calls]

\* The native dialect has thinking in blocks of its own, apart from the text.
ParseAnthropic(answer) == [content |-> answer.text, think |-> "no", calls |-> answer.calls]

\* Closed thinking is removed; an open tag takes all that follows with it.
StripThinking(reply) ==
    [reply EXCEPT !.think = "no", !.content = IF reply.think = "open" THEN "" ELSE @]
=============================================================================
