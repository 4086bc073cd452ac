---------------------------- MODULE ReasoningReplay ----------------------------
(***************************************************************************)
(* The history of a request on its way to the gateway.  OMP replays        *)
(* foreign thinking as synthetic reasoning and, demoted, as visible text;  *)
(* Pifrost removes what is redundant of it, certifies the result for the   *)
(* attempts of a dynamic route, and refuses a request whose runs lack the  *)
(* reasoning the provider requires.  `history` is a sequence of Responses  *)
(* items or of the assistant messages of Chat Completions.                 *)
(*                                                                         *)
(* An item of Responses stands for its class:                              *)
(*   "user"          ends an assistant run (tool results too)              *)
(*   "reasoning"     native or signed reasoning                            *)
(*   "synthetic"     OMP's fallback, "reasoning unavailable"               *)
(*   "unsummarised"  the same without the empty summary the certificate    *)
(*                   asks for                                              *)
(*   "pure"          a message that is nothing but the demoted fallback    *)
(*   "mixed"         a message that begins with it                         *)
(*   "text", "call"  a message, a tool call                                *)
(***************************************************************************)
EXTENDS Subsequences

CONSTANTS
    MaxHistory,     \* bound: items of a Responses history
    MaxMessages     \* bound: messages of a Chat history

ASSUME HistoryAssumption == MaxHistory \in Nat /\ MaxMessages \in Nat

VARIABLES
    protocol,       \* "responses" or "chat"
    history         \* what OMP's serialiser replays

replayVars == <<protocol, history>>

Items == {"user", "reasoning", "synthetic", "unsummarised", "pure", "mixed", "text", "call"}

isBoundary(item) == item = "user"
isSyntheticReasoningReplay(item) == item \in {"synthetic", "unsummarised"}
isMeaningfulAssistant(item) == item \in {"text", "mixed", "call"}

Thinks(item) == isSyntheticReasoningReplay(item) \/ item = "reasoning"

\* The assistant run of the i-th item.
RunOf(h, i) ==
    {j \in DOMAIN h :
        \A k \in (IF i < j THEN i .. j ELSE j .. i) : ~ isBoundary(h[k])}

AssistantRuns(h) == {RunOf(h, i) : i \in {i \in DOMAIN h : ~ isBoundary(h[i])}}

-----------------------------------------------------------------------------
(* The contract: what a provider requires, as its compat switches say.     *)

Switches == {"yes", "no", "unset"}
Compats == [turns : Switches, calls : Switches]

reasoningReplayRequirementFromCompat(c) ==
    CASE c.turns = "yes" -> "all-assistant-runs"
      [] c.turns # "yes" /\ c.calls = "yes" -> "tool-call-runs"
      [] c.turns = "no" /\ c.calls = "no" -> "not-required"
      [] OTHER -> "unknown"

Strict == {"all-assistant-runs", "tool-call-runs"}

\* Of a route whose members Bifrost chooses from, as far as they are resolved.
unanimousStrictReasoningRequirement(requirements, complete) ==
    IF complete /\ \E r \in Strict : requirements = {r}
    THEN CHOOSE r \in Strict : requirements = {r}
    ELSE "unknown"

\* The switches the alias of such a route is given.
strictReplayCompatOverrides(c, requirement) ==
    CASE requirement = "all-assistant-runs" -> [turns |-> "yes", calls |-> "yes"]
      [] requirement = "tool-call-runs" -> [c EXCEPT !.calls = "yes"]
      [] OTHER -> c

\* Mutation: the switch for tool calls is not looked at.
mayOmitForTurns(c, strictFamily) == c.turns = "no" /\ ~ strictFamily

mayOmitSyntheticReasoning(c, strictFamily) ==
    c.turns = "no" /\ c.calls = "no" /\ ~ strictFamily

-----------------------------------------------------------------------------
(* The cleanup.                                                            *)

hasMeaningful(h, run) == \E j \in run : isMeaningfulAssistant(h[j])
hasSyntheticReasoning(h, run) == \E j \in run : isSyntheticReasoningReplay(h[j])

\* Without synthetic reasoning in its run a placeholder may be the model's own
\* text; without anything else the first one is kept.
Redundant(h, i) ==
    LET run == RunOf(h, i) IN
    /\ h[i] = "pure"
    /\ hasSyntheticReasoning(h, run)
    /\ hasMeaningful(h, run) \/ \E j \in run : j < i /\ h[j] = "pure"

Omitted(h, i) ==
    isSyntheticReasoningReplay(h[i]) /\ hasMeaningful(h, RunOf(h, i))

Removed(h, may) ==
    {i \in DOMAIN h : Redundant(h, i) \/ (may /\ Omitted(h, i))}

mixedSyntheticReplacement(h, i) ==
    IF h[i] = "mixed" /\ hasSyntheticReasoning(h, RunOf(h, i)) THEN "text" ELSE h[i]

normalizeResponsesReplay(h, may) ==
    Selected([i \in DOMAIN h |-> mixedSyntheticReplacement(h, i)], DOMAIN h \ Removed(h, may))

\* Everything the cleanup has removed is provably of no substance.
certifyReplayHygiene(h, may) ==
    \A i \in Removed(h, may) : h[i] \in {"pure", "synthetic"}

\* Attempts of a dynamic route send what is certified or nothing changed; a
\* direct alias sends what the cleanup makes.
Paths == {"attempt", "direct"}

Unchanged(path, may) == path = "attempt" /\ ~ certifyReplayHygiene(history, may)

payload(path, may) ==
    IF Unchanged(path, may) THEN history ELSE normalizeResponsesReplay(history, may)

-----------------------------------------------------------------------------
(* The guard.                                                              *)

reasoningRequired(requirement, calls) ==
    requirement = "all-assistant-runs" \/ (requirement = "tool-call-runs" /\ calls)

\* auditReasoningReplay: the runs that lack what is required of them.
missingRequiredRuns(h, requirement) ==
    {run \in AssistantRuns(h) :
        /\ reasoningRequired(requirement, \E j \in run : h[j] = "call")
        /\ ~ \E j \in run : Thinks(h[j])}

\* guardPifrostReasoningReplay throws, for a request with reasoning.
incompatible(h, requirement) == missingRequiredRuns(h, requirement) # {}

-----------------------------------------------------------------------------
(* Chat Completions.  Every assistant message is a run of its own, and     *)
(* reasoning is a field of it.  `id`: an id or signature of the provider,  *)
(* an id that is no string, or none.                                       *)

Messages == [reasoning : {"none", "native", "synthetic"},
             text : {"none", "mixed", "text"}, id : {"none", "opaque", "number"},
             call : BOOLEAN]

chatNativeReasoning(m) == m.reasoning # "none"

Cleaned(m) ==
    IF m.text = "mixed" /\ m.reasoning = "synthetic" /\ m.id # "opaque"
    THEN [m EXCEPT !.text = "text"] ELSE m

normalizeCompletionsReplay(h) == [i \in DOMAIN h |-> Cleaned(h[i])]

\* No message with an id of any kind may have changed.
verifyChat(h) == \A i \in DOMAIN h : Cleaned(h[i]) # h[i] => h[i].id = "none"

attemptMessages(h) == IF verifyChat(h) THEN normalizeCompletionsReplay(h) ELSE h
directMessages(h) == normalizeCompletionsReplay(h)

missingRequiredMessages(h, requirement) ==
    {i \in DOMAIN h :
        reasoningRequired(requirement, h[i].call) /\ ~ chatNativeReasoning(h[i])}

-----------------------------------------------------------------------------
ReplayInit == protocol \in {"responses", "chat"} /\ history = <<>>

ReplayItem(item) ==
    /\ protocol = "responses"
    /\ Len(history) < MaxHistory
    /\ history' = Append(history, item)
    /\ UNCHANGED protocol

ReplayMessage(m) ==
    /\ protocol = "chat"
    /\ Len(history) < MaxMessages
    /\ history' = Append(history, m)
    /\ UNCHANGED protocol

ReplayNext ==
    \/ \E item \in Items : ReplayItem(item)
    \/ \E m \in Messages : ReplayMessage(m)

ReplaySpec == ReplayInit /\ [][ReplayNext]_replayVars

-----------------------------------------------------------------------------
(* Properties.                                                             *)

Plain(h) == [i \in DOMAIN h |-> IF h[i] = "mixed" THEN "text" ELSE h[i]]
Substantial(h) == {i \in DOMAIN h : h[i] \in {"user", "reasoning", "text", "mixed", "call"}}
Substance(h) == Selected(Plain(h), Substantial(h))

\* A run that was more than reasoning stays more than reasoning.
SaysSomething(path, may) ==
    \A run \in AssistantRuns(history) :
        (\E j \in run : ~ Thinks(history[j]))
            => \E j \in run : /\ ~ Thinks(history[j])
                              /\ Unchanged(path, may) \/ j \notin Removed(history, may)

Faithful(path, may, requirement) ==
    /\ Substance(payload(path, may)) = Substance(history)
    /\ SaysSomething(path, may)
    /\ incompatible(payload(path, may), requirement) = incompatible(history, requirement)

\* What a model's contract makes of the two decisions: whether synthetic
\* reasoning may go, and what the provider requires.
OwnContracts ==
    {<<mayOmitSyntheticReasoning(c, strictFamily), reasoningReplayRequirementFromCompat(c)>> :
        c \in Compats, strictFamily \in BOOLEAN}
AliasContract(c, r, strictFamily) ==
    LET common == unanimousStrictReasoningRequirement({r}, TRUE) IN
    <<mayOmitSyntheticReasoning(strictReplayCompatOverrides(c, common), strictFamily), r>>
AliasContracts ==
    {AliasContract(c, r, strictFamily) :
        c \in Compats, r \in Strict, strictFamily \in BOOLEAN}

\* The text a message has of its own: none in front of a marker.
Own(m) == [m EXCEPT !.text = IF @ = "mixed" THEN "text" ELSE @]
OwnText(h) == [i \in DOMAIN h |-> Own(h[i])]

FaithfulChat(messages) ==
    /\ OwnText(messages) = OwnText(history)
    /\ \A i \in DOMAIN history : history[i].id = "opaque" => messages[i] = history[i]
    /\ \A r \in Strict : missingRequiredMessages(messages, r) = missingRequiredMessages(history, r)

\* Whatever the contract, the cleanup loses nothing the model or the user has
\* said, called or thought and leaves no run with reasoning only, and it never
\* makes the guard refuse a history that it would have let pass.  That holds of
\* every attempt and alias for the contract of its own model, and of an alias
\* whose members all have one strict contract for theirs ("retain one message so
\* the run does not become reasoning-only", "DeepSeek Responses still requires
\* its structured, non-empty reasoning_text items", reasoning-replay.ts).
CleanupKeepsTheContract ==
    /\ protocol = "responses" /\ AssistantRuns(history) # {} =>
        /\ \A path \in Paths, c \in OwnContracts : Faithful(path, c[1], c[2])
        /\ \A c \in AliasContracts : Faithful("direct", c[1], c[2])
    /\ protocol = "chat" =>
        FaithfulChat(attemptMessages(history)) /\ FaithfulChat(directMessages(history))

=============================================================================
