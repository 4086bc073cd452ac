---------------------------- MODULE RouteSession ----------------------------
(***************************************************************************)
(* One session of the host (native.ts) with its catalogue, the cache it    *)
(* shares with the other sessions (cache.ts), the manifest of synchronized *)
(* rules and the gateway, whose rules an administrator edits meanwhile.    *)
(* A request captures the routes published last (runtime-route-state.ts)   *)
(* and is planned from them.                                               *)
(***************************************************************************)
EXTENDS RoutePlan

CONSTANTS
    Gateways,       \* possible deployments, numbered; see RouteCatalogue
    Keys,           \* Virtual Keys
    ConfigKey,      \* the session's key: flag, environment or stored
    EnvironmentKey, \* the key in BIFROST_VIRTUAL_KEY, or NoKey
    NoKey,
    Needs,          \* what requests may need, numbered
    MaxEdits        \* bound on the edits of the gateway's rules

\* Of a rule: it has a target, and a target that is the only one is drawn.
WellFormed(rule) ==
    /\ rule.targets \in Seq([ref : ToSet(ByLength), weight : Nat, pinned : BOOLEAN])
    /\ rule.fallbacks \in Seq([ref : ToSet(ByLength), pinned : BOOLEAN])
    /\ rule.targets # <<>>
    /\ Len(rule.targets) = 1 => rule.targets[1].weight > 0

ASSUME DeploymentAssumption ==
    /\ ByLength \in Seq(ToSet(ByLength))
    /\ \A i, j \in DOMAIN ByLength : ByLength[i] = ByLength[j] => i = j
    /\ ConfigKey \in Keys /\ EnvironmentKey \in Keys \cup {NoKey}
    /\ \A w \in DOMAIN Gateways :
        /\ 1 \in DOMAIN Gateways[w].rules /\ 0 \notin DOMAIN Gateways[w].rules
        /\ \A n \in DOMAIN Gateways[w].rules :
            LET rules == Gateways[w].rules[n]
            IN  rules \in Seq(ToSet(rules)) /\ \A rule \in ToSet(rules) : WellFormed(rule)

\* Of a deployment: the limits its sources know are numbers, and the gateway
\* tells something of each model it lists.
Numeric(row) == \A f \in {"window", "output"} : f \in DOMAIN row => row[f] \in Nat
NumericTables(d) ==
    /\ \A ref \in DOMAIN d.ceiling : d.ceiling[ref] \in Nat
    /\ \A id \in DOMAIN d.api : Numeric(d.api[id])
    /\ DOMAIN d.sheet \subseteq ToSet(ByLength) /\ \A key \in DOMAIN d.sheet : Numeric(d.sheet[key])
    /\ \A key \in DOMAIN d.vendor : Numeric(d.vendor[key])
    /\ \A b \in d.bundled : Numeric(b.row)

ASSUME LimitsAssumption ==
    /\ DefaultWindow \in Nat /\ DefaultOutput \in Nat
    /\ \A n \in DOMAIN Needs : Needs[n].output \in Nat
    /\ \A w \in DOMAIN Gateways :
        /\ NumericTables(Gateways[w])
        /\ \A k \in Keys : \A i \in DOMAIN Gateways[w].answers[k] :
            ToSet(fetchBifrostModels(Gateways[w].answers[k][i])) \subseteq DOMAIN Gateways[w].api

VARIABLES
    world,      \* the number of the deployment
    policy,     \* the number of the rules in force
    edits,
    manifest,   \* the number of the rules that were synchronized last
    aliasSource,    \* the number of the rules this session loaded last
    cache,      \* what the shared catalogue file was derived from
    fetch,      \* the fetch under way: its manifest, and who waits for it
    command,    \* the manifest of the fetch /pifrost refresh or doctor waits for
    routes,     \* what the published routes were derived from
    models,     \* what the registered models were derived from
    request     \* the request under way

vars == <<world, policy, edits, manifest, aliasSource, cache, fetch, command, routes, models,
          request>>

g == Gateways[world]
Rules(n) == g.rules[n]

\* A catalogue is identified by the key and the answer of the gateway it was
\* fetched with and the manifest it was made for.  (TLC tabulates a function
\* that is compared with one.)
CatalogueOf(w, k, m, i) ==
    fetchFreshCatalog(Gateways[w], fetchBifrostModels(Gateways[w].answers[k][i]),
                      deriveAliasesFromRules(Gateways[w].rules[m]))
Table(f) == CHOOSE t \in {f} : t = f
Catalogues ==
    Table([w \in DOMAIN Gateways |-> Table([k \in Keys |->
        Table([m \in DOMAIN Gateways[w].rules |->
            Table([i \in DOMAIN Gateways[w].answers[k] |-> Table(CatalogueOf(w, k, m, i))])])])])
Catalogue(c) == Catalogues[world][c.key][c.manifest][c.answer]
Nothing == [key |-> NoKey, manifest |-> 0, answer |-> 0]
Answered(k) == {i \in DOMAIN g.answers[k] : fetchBifrostModels(g.answers[k][i]) # <<>>}
Offered(c) == IF c = Nothing THEN {}
              ELSE {a \in DOMAIN Catalogue(c) : Catalogue(c)[a].offered}

NoFetch == [manifest |-> 0, waited |-> FALSE]
NoCommand == 0
Idle == [stage |-> "idle"]
NoRoute == [members |-> <<>>, profile |-> <<>>]

Init ==
    /\ world \in DOMAIN Gateways
    /\ policy = 1 /\ edits = 0 /\ manifest = 1
    /\ aliasSource = 1 /\ cache = Nothing
    /\ fetch = NoFetch /\ command = NoCommand
    /\ routes = Nothing /\ models = Nothing
    /\ request = Idle

-----------------------------------------------------------------------------
(* The administrator, `pifrost routes sync` and the other sessions.        *)

Edit ==
    /\ edits < MaxEdits
    /\ \E p \in DOMAIN g.rules \ {policy} : policy' = p
    /\ edits' = edits + 1
    /\ UNCHANGED <<world, manifest, aliasSource, cache, fetch, command, routes, models, request>>

\* See RouteReconcile.
Sync ==
    /\ manifest # policy
    /\ manifest' = policy
    /\ UNCHANGED <<world, policy, edits, aliasSource, cache, fetch, command, routes, models, request>>

OtherSession ==
    /\ \E k \in Keys : \E i \in Answered(k) :
        LET c == [key |-> k, manifest |-> manifest, answer |-> i]
        IN  c # cache /\ Offered(c) # {} /\ cache' = c
    /\ UNCHANGED <<world, policy, edits, manifest, aliasSource, fetch, command, routes, models,
                   request>>

-----------------------------------------------------------------------------
(* The catalogue.                                                          *)

\* Mutation: the key of the cached catalogue is not compared.
usableCacheAnyKey == cache # Nothing /\ cache.manifest = manifest

usableCache == cache # Nothing /\ cache.key = ConfigKey /\ cache.manifest = manifest

\* fetchDynamicModels loads the alias manifest anew.  A usable cache is
\* registered and published at once; if it is no longer fresh, a fetch starts
\* behind it.
LoadCache ==
    /\ usableCache
    /\ aliasSource' = manifest
    /\ models' = cache /\ routes' = cache
    /\ \/ UNCHANGED fetch
       \/ fetch = NoFetch /\ fetch' = [manifest |-> manifest, waited |-> FALSE]
    /\ UNCHANGED <<world, policy, edits, manifest, cache, command, request>>

\* Without one, the host waits for a fetch; one under way is joined.
StartFetch ==
    /\ ~ usableCache
    /\ ~ fetch.waited
    /\ aliasSource' = manifest
    /\ fetch' = [manifest |-> IF fetch = NoFetch THEN manifest ELSE fetch.manifest,
                 waited |-> TRUE]
    /\ UNCHANGED <<world, policy, edits, manifest, cache, command, routes, models, request>>

\* /pifrost refresh, and doctor as long as it knows of no catalogue, fetch
\* beside whatever is under way, for the manifest loaded last.
StartCommand ==
    /\ command = NoCommand
    /\ command' = aliasSource
    /\ UNCHANGED <<world, policy, edits, manifest, aliasSource, cache, fetch, routes, models,
                   request>>

\* Discovery prefers the key in the environment.
DiscoveryKey == IF EnvironmentKey # NoKey THEN EnvironmentKey ELSE ConfigKey

\* Routes are published before the file is written; a failing write also
\* keeps the models from being registered.
Fetched(m, registers) ==
    \E i \in Answered(DiscoveryKey) :
        LET c == [key |-> DiscoveryKey, manifest |-> m, answer |-> i]
        IN  /\ routes' = c
            /\ \/ /\ Offered(c) # {}
                  /\ cache' = c
                  /\ models' = IF registers THEN c ELSE models
               \/ UNCHANGED <<cache, models>>

EndFetch ==
    /\ fetch # NoFetch
    /\ Fetched(fetch.manifest, fetch.waited)
    /\ fetch' = NoFetch
    /\ UNCHANGED <<world, policy, edits, manifest, aliasSource, command, request>>

FetchFails ==
    /\ fetch # NoFetch
    /\ fetch' = NoFetch
    /\ UNCHANGED <<world, policy, edits, manifest, aliasSource, cache, command, routes, models,
                   request>>

\* A command registers nothing.
EndCommand ==
    /\ command # NoCommand
    /\ \/ Fetched(command, FALSE)
       \/ UNCHANGED <<routes, cache, models>>
    /\ command' = NoCommand
    /\ UNCHANGED <<world, policy, edits, manifest, aliasSource, fetch, request>>

-----------------------------------------------------------------------------
(* A request.                                                              *)

Published(c, a) ==
    IF c # Nothing /\ a \in DOMAIN Catalogue(c) THEN Catalogue(c)[a] ELSE NoRoute

\* Only a physical request waits for an attestation before it is sent.
Planned(a, n, advert, route, d) ==
    [stage |-> CASE d.mode = "physical" -> "planned"
                 [] d.mode \in {"direct", "native"} -> "sent"
                 [] d.mode \in {"no member", "refused"} -> "failed",
     alias |-> a, need |-> n, seen |-> routes, offer |-> models,
     mode |-> d.mode, k |-> 1, checked |-> 0,
     attempts |-> [i \in DOMAIN d.attempts |->
                    [j \in DOMAIN d.attempts[i] |-> d.attempts[i][j].id]],
     caps |-> [k \in 1..(CASE d.mode = "physical" -> Len(d.attempts)
                           [] d.mode \in {"direct", "native"} -> 1
                           [] OTHER -> 0)
                |-> Cap(g, route, advert, Needs[n], d, k)]]

\* The host asks an alias for an effort it was registered with, if any; the
\* published route may be aged.
Ask(a, n) ==
    /\ request = Idle
    /\ \E offer \in {Catalogue(models)[a].advert}, route \in {Published(routes, a)},
          aged \in BOOLEAN :
        /\ Needs[n].reasoning \in offer.efforts \cup {"none"}
        /\ request' = Planned(a, n, offer, route, Decision(g, route, offer, Needs[n], aged))
    /\ UNCHANGED <<world, policy, edits, manifest, aliasSource, cache, fetch, command, routes, models>>

Catalogued ==
    UNCHANGED <<world, policy, edits, manifest, aliasSource, cache, fetch, command, routes, models>>

\* Mutation: the first attestation serves for all attempts.
mustAttestOnce == request.k = 1

\* Every attempt is attested anew.
mustAttest == TRUE

\* The rules in force are the ones the route was made for (see LiveCheck).
Attest ==
    /\ request.stage = "planned"
    /\ request' = IF ~ mustAttest THEN [request EXCEPT !.stage = "sent"]
                  ELSE IF Rules(policy) = Rules(request.seen.manifest)
                  THEN [request EXCEPT !.stage = "attested", !.checked = policy]
                  ELSE [request EXCEPT !.stage = "failed"]
    /\ Catalogued

Dispatch ==
    /\ request.stage = "attested"
    /\ request' = [request EXCEPT !.stage = "sent"]
    /\ Catalogued

\* The attempt failed before any output, for a reason that permits another.
NextAttempt ==
    /\ request.stage = "sent" /\ request.mode = "physical"
    /\ request.k < Len(request.attempts)
    /\ request' = [request EXCEPT !.stage = "planned", !.k = @ + 1, !.checked = 0]
    /\ Catalogued

Finish ==
    /\ request.stage \in {"sent", "failed"}
    /\ request' = Idle
    /\ Catalogued

Next ==
    \/ Edit \/ Sync \/ OtherSession
    \/ LoadCache \/ StartFetch \/ EndFetch \/ FetchFails
    \/ StartCommand \/ EndCommand
    \/ \E a \in Offered(models), n \in DOMAIN Needs : Ask(a, n)
    \/ Attest \/ Dispatch \/ NextAttempt \/ Finish

Spec == Init /\ [][Next]_vars

-----------------------------------------------------------------------------
(* What the session owes.                                                  *)

\* What really becomes of a need at a member: g.truth is what the model can do.
Serves(ref, need) ==
    LET t == g.truth[ref]
    IN  /\ need.input + Least({need.output, t.output}) <= t.window
        /\ need.image => t.image
        /\ need.tools => t.tools
        /\ need.choice # "none" => need.choice \in t.choices
        /\ need.reasoning # "none" => need.reasoning \in t.efforts
        /\ need.reasoning # "none" /\ need.tools => t.withTools

\* A need an alias was advertised to meet.
Promised(advert, need) ==
    LET output == Requested(advert, need)
    IN  /\ ~ need.search /\ need.tier = "none" /\ ~ need.off
        /\ output <= advert.output /\ need.input + output <= advert.window
        /\ need.image => advert.image
        /\ need.tools => advert.tools
        /\ need.choice # "none" => advert.toolChoice
        /\ need.choice = "forced" => advert.forced
        /\ need.choice = "named" => advert.named
        /\ need.reasoning # "none" /\ need.tools => advert.withTools
        /\ need.reasoning # "none" /\ need.choice # "none" => ~ advert.suppress

\* The rules leave the gateway one order without pins, and the attempts at the
\* alias are in that order.
Follows(rules, a, attempts) ==
    LET orders == GatewayOrders(rules, a)
        refs == FlattenSeq(attempts)
    IN  \E o \in orders :
            /\ orders = {o}
            /\ \A i \in DOMAIN o : ~ o[i].pinned
            /\ refs = Selected(unique(Refs(o)),
                               {i \in DOMAIN unique(Refs(o)) : unique(Refs(o))[i] \in ToSet(refs)})

Sent == request.stage = "sent"
Current == request.seen = request.offer /\ Rules(request.seen.manifest) = Rules(policy)

\* An attempt addressed to members instead of the alias follows the rules the
\* gateway had at some moment since the attempt before it: those rules leave
\* the gateway no choice, pin no member to a provider key, and put the
\* attempted members in the order in which they are attempted.
AttemptsFollowLiveRules ==
    Sent /\ request.mode = "physical" =>
        /\ request.checked # 0
        /\ Follows(Rules(request.checked), request.alias, request.attempts)

\* If routes and registered models are of one catalogue and the rules have not
\* changed since, a request within what was advertised for its alias is sent,
\* and whichever member gets it can serve it.  (A route too old or with an
\* unknown encoder may be refused.)
AdvertisedRequestIsServed ==
    request # Idle /\ Current /\ Promised(Catalogue(request.offer)[request.alias].advert,
                                          Needs[request.need]) =>
        /\ request.mode # "no member"
        /\ Sent => \A r \in IF request.mode = "physical" THEN ToSet(request.attempts[request.k])
                            ELSE GatewayMembers(Rules(policy), request.alias) :
                        Serves(r, Needs[request.need])

\* The answer may never be longer than a provider that can get the request is
\* known to allow.
CapWithinCeilings ==
    Sent /\ Current =>
        LET reached == IF request.mode = "physical" THEN {request.attempts[request.k][1]}
                       ELSE GatewayMembers(Rules(policy), request.alias)
        IN  \A r \in reached : \A c \in Ceilings(g, r) : request.caps[request.k] <= c

\* All sessions share one cache file, and none ever uses routes that another
\* session's key was given: its routes are those of the key it is configured
\* with or of the key it asks the gateway with.
RoutesOfSessionKeys == routes.key \in {NoKey, ConfigKey, DiscoveryKey}

\* native.ts:933-934, "Runtime configuration precedence is: OMP CLI flag ->
\* process environment -> the secure configuration": the routes are those of the
\* configured key, which a flag overrides.  Violated if the environment names
\* another key than the flag: discovery asks with that one (native.ts:876).
RoutesOfOwnKey == routes.key \in {NoKey, ConfigKey}

\* No route is derived from a part of the models the key can see.
WholeCatalogue ==
    routes # Nothing =>
        ToSet(fetchBifrostModels(g.answers[routes.key][routes.answer])) = g.visible[routes.key]
=============================================================================
