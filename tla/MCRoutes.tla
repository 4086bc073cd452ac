------------------------------ MODULE MCRoutes ------------------------------
(***************************************************************************)
(* Four small deployments with two sets of rules each.  The paged reading  *)
(* behind an attestation has its own gateway state, and the history of a   *)
(* request is independent of its route, so the run explores the three side *)
(* by side: `part` says which of them a behaviour is about.                *)
(***************************************************************************)
EXTENDS RouteSession, RuleInventory, ReasoningReplay

VARIABLE part

A == <<"o", "big">>
B == <<"o", "mid">>
C == <<"z", "mid">>
R == <<"r", "o", "big">>    \* A, resold

MCAggregators == {"r"}
MCVendor == [o |-> "o", z |-> "z"]
MCFamily == [big |-> "big", mid |-> "mid"]
MCByLength == <<A, B, C, R>>

T(r, w) == [ref |-> r, weight |-> w, pinned |-> FALSE]
F(r) == [ref |-> r, pinned |-> FALSE]
Pinned(e) == [e EXCEPT !.pinned = TRUE]
Rule(a, targets, fallbacks) ==
    [alias |-> a, enabled |-> TRUE, global |-> TRUE, chain |-> FALSE, exact |-> TRUE,
     targets |-> targets, fallbacks |-> fallbacks]

Chained(rule) == [rule EXCEPT !.chain = TRUE]
Scoped(rule) == [rule EXCEPT !.global = FALSE]

Page(data, next) == [data |-> data, failed |-> FALSE, next |-> next, more |-> next # NoCursor]
Lame(data, next) == [Page(data, next) EXCEPT !.failed = TRUE]
Whole(s) == <<Page(<<s[1]>>, "c1"), Page(Tail(s), NoCursor)>>
\* A provider key fails; a cursor comes again; more is promised and no cursor.
Doubtful(s) == {<<Page(<<s[1]>>, "c1"), Lame(<<>>, NoCursor)>>,
                <<Page(<<s[1]>>, "c1"), Page(<<s[1]>>, "c1"), Page(<<>>, NoCursor)>>,
                <<[Page(<<s[1]>>, NoCursor) EXCEPT !.more = TRUE]>>}
Answers(s) == <<Whole(s)>> \o SetToSeq(Doubtful(s))

ToolWords == {"tools", "tool_choice"}
Chooses == {"auto", "forced", "named"}
BigApi == [window |-> 10, output |-> 4, modalities |-> {"text", "image"},
           reasoning |-> {"hi"}, parameters |-> ToolWords]
BigTruth == [window |-> 10, output |-> 4, image |-> TRUE, tools |-> TRUE,
             choices |-> Chooses, efforts |-> {"hi"}, withTools |-> TRUE]
MidTruth == [window |-> 6, output |-> 2, image |-> FALSE, tools |-> TRUE,
             choices |-> {"auto", "forced"}, efforts |-> {}, withTools |-> TRUE]
MidSheet == [window |-> 6, output |-> 3, image |-> FALSE, reasoning |-> FALSE, tools |-> TRUE,
             toolChoice |-> TRUE, forced |-> TRUE, named |-> FALSE]

Base ==
    [answers |-> [k1 |-> Answers(<<A, C>>), k2 |-> <<Whole(<<A>>)>>],
     visible |-> [k1 |-> {A, C}, k2 |-> {A}],
     sheet |-> NoFacts, vendor |-> NoFacts, bundled |-> {}, strict |-> NoFacts,
     routes |-> NoFacts, ceiling |-> NoFacts,
     api |-> (A :> BigApi) @@
             (C :> [window |-> 8, output |-> 3, modalities |-> {"image"},
                    reasoning |-> {"hi"}, parameters |-> ToolWords,
                    protocols |-> <<Responses>>]),
     encoder |-> (A :> "e1") @@ (B :> "e1") @@ (C :> "e2") @@ (R :> "e1"),
     truth |-> (A :> BigTruth) @@ (B :> MidTruth) @@ (R :> [BigTruth EXCEPT !.output = 3]) @@
               (C :> [BigTruth EXCEPT !.window = 8, !.output = 3, !.withTools = FALSE])]

\* B is not listed and known from the datasheet; C has B's name and another
\* vendor, speaks Responses, and the datasheet is wrong about its reasoning.
Vendors ==
    [sheet |-> (B :> MidSheet) @@ (C :> [withTools |-> TRUE]),
     strict |-> (<<C, Responses>> :> FALSE) @@ (<<A, Chat>> :> TRUE),
     ceiling |-> B :> 2,
     rules |-> <<<<Rule("a1", <<T(A, 1)>>, <<F(B), F(C)>>),
                   Rule("a2", <<T(A, 1), T(C, 2)>>, <<>>)>>,
                 <<Rule("a1", <<T(C, 1)>>, <<F(A)>>),
                   Chained(Rule("a2", <<T(A, 1)>>, <<>>))>>>>] @@ Base

\* The same, with B's limits verified by hand and the gateway silent about
\* what its models can see.
Verified ==
    [sheet |-> C :> [withTools |-> TRUE], vendor |-> B :> [MidSheet EXCEPT !.window = 5],
     api |-> (A :> [window |-> 10, output |-> 4, parameters |-> ToolWords \cup {"reasoning"}])
             @@ (C :> [Base.api[C] EXCEPT !.output = 5])] @@ Vendors

\* The same model also comes through an aggregator that allows shorter
\* answers; B is known from the host's own list.
Resold ==
    [bundled |-> {[provider |-> "o", id |-> B, row |-> [MidSheet EXCEPT !.output = 2]],
                  [provider |-> "z", id |-> B, row |-> [MidSheet EXCEPT !.window = 5]]},
     vendor |-> A :> [betweenTools |-> TRUE],
     strict |-> <<C, Responses>> :> FALSE,
     ceiling |-> R :> 3,
     rules |-> <<<<Rule("a1", <<T(A, 1)>>, <<F(R)>>),
                   Scoped(Rule("a2", <<T(A, 1)>>, <<F(B)>>))>>,
                 <<Scoped(Rule("a1", <<T(R, 1)>>, <<F(C)>>)),
                   Rule("a2", <<Pinned(T(A, 1))>>, <<F(R)>>),
                   [Rule("a2", <<T(B, 1)>>, <<>>) EXCEPT !.enabled = FALSE]>>>>] @@ Base

\* C has a wire encoder the host does not know; A has service tiers and can
\* search tools over Responses.
Encoders ==
    [api |-> (A :> ([BigApi EXCEPT !.parameters = @ \cup {"tool_search", "service_tier"}]
                    @@ [tiers |-> {"fast"}, protocols |-> <<Chat, Responses>>])) @@
             (C :> Base.api[C]),
     strict |-> <<C, Responses>> :> FALSE,
     encoder |-> (A :> "e1") @@ (C :> Unknown),
     rules |-> <<<<Rule("a1", <<T(C, 1)>>, <<F(A)>>),
                   Rule("a2", <<T(C, 0), T(A, 1)>>, <<>>)>>,
                 <<Rule("a1", <<T(A, 1)>>, <<>>),
                   Rule("a2", <<T(C, 1)>>, <<Pinned(F(A))>>)>>>>] @@ Base

MCGateways == <<Vendors, Verified, Resold, Encoders>>

Need == [input |-> 2, output |-> 0, image |-> FALSE, tools |-> FALSE, choice |-> "none",
         reasoning |-> "none", off |-> FALSE, search |-> FALSE, tier |-> "none"]
MCNeeds ==
    <<Need,
      [Need EXCEPT !.input = 5, !.image = TRUE, !.reasoning = "hi"],
      [Need EXCEPT !.tools = TRUE, !.choice = "forced", !.reasoning = "hi"],
      [Need EXCEPT !.output = 4],
      [Need EXCEPT !.input = 8, !.output = 1],
      [Need EXCEPT !.tools = TRUE, !.off = TRUE],
      [Need EXCEPT !.tools = TRUE, !.search = TRUE, !.tier = "fast"]>>

AnyApi == CHOOSE a \in Apis : TRUE

MCInit ==
    /\ part \in {"routes", "inventory", "replay"}
    /\ Init /\ InventoryInit /\ ReplayInit
    /\ part # "inventory" => ruleRows = <<>> /\ answering = AnyApi
    /\ part # "routes" => world = 1
    /\ part # "replay" => protocol = "responses"
MCNext ==
    /\ UNCHANGED part
    /\ \/ part = "routes" /\ Next /\ UNCHANGED <<inventoryVars, replayVars>>
       \/ part = "inventory" /\ InventoryNext /\ UNCHANGED <<vars, replayVars>>
       \/ part = "replay" /\ ReplayNext /\ UNCHANGED <<vars, inventoryVars>>
MCSpec == MCInit /\ [][MCNext]_<<vars, inventoryVars, replayVars, part>>
=============================================================================
