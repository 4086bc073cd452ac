----------------------------- MODULE RouteRules -----------------------------
(***************************************************************************)
(* What Pifrost derives from the gateway's routing rules (routing-core.ts),*)
(* and what the gateway itself does with them.  A rule is reduced to what  *)
(* the derivation reads: the alias its texts name, whether its predicate   *)
(* is nothing but the equality with that alias, and its members.           *)
(***************************************************************************)
EXTENDS Subsequences, SequencesExt

CONSTANT Aliases

\* A target has a reference, a weight and perhaps a provider key it is pinned
\* to; a fallback has no weight.
Enabled(rules) == Selected(rules, {i \in DOMAIN rules : rules[i].enabled})
Refs(entries) == [i \in DOMAIN entries |-> entries[i].ref]

\* Keeps the first occurrence of each.
unique(s) == Selected(s, {i \in DOMAIN s : \A j \in 1..(i - 1) : s[j] # s[i]})

\* Heavier targets first, equally heavy ones in their order.
ByWeight(targets) ==
    LET before(i) == {j \in DOMAIN targets :
                        \/ targets[j].weight > targets[i].weight
                        \/ targets[j].weight = targets[i].weight /\ j < i}
    IN  [n \in DOMAIN targets |->
            targets[CHOOSE i \in DOMAIN targets : Cardinality(before(i)) = n - 1]]

routingRuleMembers(rule) == unique(Refs(ByWeight(rule.targets)) \o Refs(rule.fallbacks))
routingRulePins(rule) == {e \in ToSet(rule.targets) \cup ToSet(rule.fallbacks) : e.pinned}

isContextDynamicRuleSafe(rule) ==
    /\ rule.global
    /\ ~ rule.chain
    /\ routingRulePins(rule) = {}
    /\ rule.exact
    /\ Len(rule.targets) = 1

\* Rules without members are skipped.
Related(rules, a) ==
    Selected(rules, {i \in DOMAIN rules :
        rules[i].enabled /\ rules[i].alias = a /\ routingRuleMembers(rules[i]) # <<>>})

\* A chained rule may continue with any other rule.
reachable(rules, a) ==
    LET related == Related(rules, a)
        all == Enabled(rules)
    IN  FlattenSeq([i \in DOMAIN related |-> routingRuleMembers(related[i])])
        \o (IF \E i \in DOMAIN related : related[i].chain
            THEN FlattenSeq([i \in DOMAIN all |-> routingRuleMembers(all[i])]) ELSE <<>>)

\* The alias is dynamic if Pifrost may decide itself which member serves it.
deriveAliasesFromRules(rules) ==
    [a \in {b \in Aliases : Related(rules, b) # <<>>} |->
        LET related == Related(rules, a)
        IN  [chain |-> unique(reachable(rules, a)),
             dynamic |-> Len(related) = 1 /\ isContextDynamicRuleSafe(related[1])]]

-----------------------------------------------------------------------------
(* External: the gateway.  A rule with a condition or a scope may or may   *)
(* not apply; the target is drawn among those of positive weight and the   *)
(* fallbacks follow; after a chained rule any rule may decide.             *)

\* Each outcome is the sequence of entries the gateway would try.
RuleOrders(rule) ==
    LET first(t) == <<t>> \o rule.fallbacks
    IN  {Selected(first(t), {i \in DOMAIN first(t) : i = 1 \/ first(t)[i].ref # t.ref})
            : t \in {u \in ToSet(rule.targets) : u.weight > 0}}
        \cup (IF rule.targets = <<>> THEN {rule.fallbacks} ELSE {})

GatewayOrders(rules, a) ==
    LET all == ToSet(Enabled(rules))
        mine == {r \in all : r.alias = a}
        certain(r) == r.exact /\ r.global
        reached == IF \E r \in mine : r.chain THEN mine \cup all ELSE mine
    IN  (UNION {RuleOrders(r) : r \in reached})
        \cup (IF \E r \in mine : certain(r) THEN {} ELSE {<<>>})

GatewayMembers(rules, a) ==
    UNION {ToSet(Refs(o)) : o \in GatewayOrders(rules, a)}
=============================================================================
