------------------------------ MODULE RoutePlan ------------------------------
(***************************************************************************)
(* How one request is sent: which members of a dynamic route can serve it  *)
(* (route-eligibility.ts), in which attempts (dynamic-routing.ts), whether *)
(* the gateway may follow its own rule instead, and how many tokens the    *)
(* answer may have (output-budget.ts).                                     *)
(*                                                                         *)
(* A request is a record: input, output (0: not given), image, tools,      *)
(* choice ("none", "auto", "forced", "named"), reasoning (an effort or     *)
(* "none"), off (reasoning is switched off), search (tools are deferred)   *)
(* and tier ("none", or a service tier).                                   *)
(***************************************************************************)
EXTENDS RouteCatalogue

CONSTANT Unknown        \* a member whose wire encoder the host does not know

NativeProtocols == {Chat, Responses}
Reasons(need) == need.reasoning # "none" /\ ~ need.off

\* A switched-off request still asks for thinking between tools, if a member
\* can do that.
BetweenTools(profile, need) ==
    need.off /\ \E i \in DOMAIN profile : profile[i].betweenTools
UsesReasoning(profile, need) == Reasons(need) \/ BetweenTools(profile, need)

resolveRouteMemberProtocol(protocols, search) ==
    LET usable == SelectSeq(protocols, LAMBDA p : p \in NativeProtocols)
    IN  CASE protocols = <<>> -> Chat
          [] search /\ Responses \in ToSet(protocols) -> Responses
          [] Chat \in ToSet(protocols) /\ ~ (search /\ Responses \in ToSet(protocols)) -> Chat
          [] OTHER -> IF usable = <<>> THEN "none" ELSE usable[1]

MemberProtocol(m, need) == resolveRouteMemberProtocol(m.protocols, need.search)

evaluateRouteMemberEligibility(m, need, reserve, reasons) ==
    /\ MemberProtocol(m, need) # "none"
    /\ need.input + Least({reserve, m.output}) <= m.window
    /\ need.image => m.image
    /\ need.tools => m.tools
    /\ need.choice # "none" => m.toolChoice
    /\ need.choice = "forced" => m.forced
    /\ need.choice = "named" => m.named
    /\ reasons => m.reasoning
    /\ reasons /\ need.tools => m.withTools
    /\ need.search => m.toolSearch /\ MemberProtocol(m, need) = Responses
    /\ need.tier # "none" => m.tier /\ (m.tiers # {} => need.tier \in m.tiers)
    /\ reasons /\ need.choice # "none" => ~ m.suppress

-----------------------------------------------------------------------------
(* The limit on the answer.  An explicit request may exceed the promise,   *)
(* never what is known of the models it can reach.                         *)

Requested(advert, need) == IF need.output = 0 THEN advert.output ELSE need.output

\* Mutation: only the first member's known ceiling counts.
resolveOutputBudgetFirst(g, members, asked, policy) ==
    LET reached == IF policy = "gateway" /\ members # <<>> THEN {members[1]}
                   ELSE IF members = <<>> THEN {} ELSE {members[1]}
    IN  Least({asked}
            \cup (UNION {Ceilings(g, m.id) : m \in reached})
            \cup (IF policy = "gateway" THEN {}
                  ELSE {m.output : m \in {n \in reached : n.source # "fallback"}}))

\* A gateway may serve any member; a physical attempt is addressed to the
\* first.  Limits that are only believed do not bind the gateway.
resolveOutputBudget(g, members, asked, policy) ==
    LET reached == IF policy = "gateway" THEN ToSet(members)
                   ELSE IF members = <<>> THEN {} ELSE {members[1]}
    IN  Least({asked}
            \cup (UNION {Ceilings(g, m.id) : m \in reached})
            \cup (IF policy = "gateway" THEN {}
                  ELSE {m.output : m \in {n \in reached : n.source # "fallback"}}))

\* A physical attempt is bounded by its own first member only.
pifrostAttemptMaxTokens(g, attempt, asked) ==
    resolveOutputBudget(g, attempt, asked, "primary")

-----------------------------------------------------------------------------
(* Attempts.  g.encoder: the wire encoder the host would use for a model.  *)

\* Everything of the encoder that may differ between members.
physicalRequestContractKey(g, m, need) ==
    [encoder |-> g.encoder[m.id], protocol |-> MemberProtocol(m, need),
     reasoning |-> m.reasoning, toolChoice |-> m.toolChoice, forced |-> m.forced,
     named |-> m.named, withTools |-> m.withTools, betweenTools |-> m.betweenTools,
     suppress |-> m.suppress]
KnownEncoder(g, m) == g.encoder[m.id] # Unknown

\* Consecutive members share an attempt if one request suits them all.
Grouped(g, eligible, need) ==
    LET shares(m, n) == /\ MemberProtocol(m, need) = MemberProtocol(n, need)
                        /\ KnownEncoder(g, m) /\ KnownEncoder(g, n)
                        /\ physicalRequestContractKey(g, m, need)
                            = physicalRequestContractKey(g, n, need)
    IN  Parts(eligible, {i \in DOMAIN eligible : i > 1 => ~ shares(eligible[i - 1], eligible[i])})

\* advert: the alias as it was registered with the host, which may be of an
\* earlier catalogue than the route.
planDynamicRouteAttempts(g, profile, advert, need) ==
    LET eligible == Selected(profile, {i \in DOMAIN profile :
            evaluateRouteMemberEligibility(profile[i], need, Requested(advert, need),
                                           UsesReasoning(profile, need))})
    IN  [attempts |-> Grouped(g, eligible, need),
         excluded |-> Len(eligible) < Len(profile),
         complete |-> \A i \in DOMAIN eligible : KnownEncoder(g, eligible[i])]

canUseNativeBifrostRoute(plan, need) ==
    /\ ~ plan.excluded
    /\ Len(plan.attempts) = 1
    /\ plan.complete
    /\ MemberProtocol(plan.attempts[1][1], need) = Chat

\* A route that is not left to the gateway needs every encoder known and a
\* recent synchronization.
compatibilityExecutionError(plan, aged) == aged \/ ~ plan.complete

\* What becomes of a request: sent under the alias to the gateway ("direct"
\* without a profile, "native" with one), sent member by member, or refused.
Decision(g, route, advert, need, aged) ==
    LET plan == planDynamicRouteAttempts(g, route.profile, advert, need)
        mode == CASE route.profile = <<>> -> "direct"
                  [] route.profile # <<>> /\ plan.attempts = <<>> -> "no member"
                  [] route.profile # <<>> /\ plan.attempts # <<>>
                        /\ canUseNativeBifrostRoute(plan, need) -> "native"
                  [] OTHER -> IF compatibilityExecutionError(plan, aged)
                              THEN "refused" ELSE "physical"
    IN  [mode |-> mode,
         attempts |-> IF mode \in {"native", "physical"} THEN plan.attempts ELSE <<>>]

\* The number of tokens asked for in attempt k.
Cap(g, route, advert, need, decision, k) ==
    CASE decision.mode = "direct" ->
            Least({advert.output,
                   resolveOutputBudget(g, route.members, Requested(advert, need), "gateway")})
      [] decision.mode = "native" ->
            resolveOutputBudget(g, decision.attempts[1], Requested(advert, need), "gateway")
      [] OTHER ->
            pifrostAttemptMaxTokens(g, decision.attempts[k], Requested(advert, need))
=============================================================================
