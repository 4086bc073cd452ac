--------------------------- MODULE RouteCatalogue ---------------------------
(***************************************************************************)
(* The catalogue a session offers: what is known of the physical models    *)
(* (index.ts, datasheet.ts, catalog-fallback.ts), what is promised for an  *)
(* alias of them (index.ts) and how the promise grows when Pifrost may     *)
(* choose the member itself (dynamic-routing.ts).                          *)
(*                                                                         *)
(* What a source says of a model is a row: a function whose domain is the  *)
(* facts the source knows.  The gateway and the tables shipped with the    *)
(* host are a record g; its fields are described where they are read.      *)
(***************************************************************************)
EXTENDS ModelResolution, RouteRules, FiniteSets

CONSTANTS DefaultWindow, DefaultOutput, MaxPages

Chat == "openai-completions"
Responses == "openai-responses"
NoFacts == [f \in {} |-> 0]
Only(f, known, value) == IF known THEN [x \in {f} |-> value] ELSE NoFacts
Fact(row, f, default) == IF f \in DOMAIN row THEN row[f] ELSE default
Least(S) == CHOOSE x \in S : \A y \in S : x <= y
Greatest(S) == CHOOSE x \in S : \A y \in S : x >= y

\* Of each fact what the first row says that knows it.
FirstKnown(rows) ==
    [f \in UNION {DOMAIN rows[i] : i \in DOMAIN rows} |->
        rows[Least({i \in DOMAIN rows : f \in DOMAIN rows[i]})][f]]

\* g.ceiling: the output limits some provider is known to enforce.
Ceilings(g, ref) == IF ref \in DOMAIN g.ceiling THEN {g.ceiling[ref]} ELSE {}

-----------------------------------------------------------------------------
(* The models the gateway lists.                                           *)

NoCursor == "no cursor"

\* Mutation: a failing provider key is not noticed.
pageCompleteAnyKeys(answer, i) ==
    /\ answer[i].next = NoCursor => ~ answer[i].more
    /\ answer[i].next # NoCursor =>
        answer[i].data # <<>> /\ \A j \in 1..(i - 1) : answer[j].next # answer[i].next

pageComplete(answer, i) ==
    /\ ~ answer[i].failed
    /\ answer[i].next = NoCursor => ~ answer[i].more
    /\ answer[i].next # NoCursor =>
        answer[i].data # <<>> /\ \A j \in 1..(i - 1) : answer[j].next # answer[i].next

\* The ids of all pages, or none if any page gives reason for doubt.
fetchBifrostModels(answer) ==
    LET last == {i \in DOMAIN answer : answer[i].next = NoCursor}
        pages == IF last = {} THEN Len(answer) ELSE Least(last)
        ids == unique(FlattenSeq([i \in 1..pages |-> answer[i].data]))
    IN  IF last # {} /\ pages <= MaxPages /\ \A i \in 1..pages : pageComplete(answer, i)
        THEN ids ELSE <<>>

\* g.api: what the gateway tells of each model.  The tool facts are known
\* together, from the list of parameters.
toProviderModel(g, id) ==
    LET e == g.api[id]
        listed == "parameters" \in DOMAIN e
        words == Fact(e, "parameters", {})
        window == Fact(e, "window", DefaultWindow)
        choice == {"tools", "tool_choice"} \subseteq words
    IN  FirstKnown(<<
            [choice |-> choice],
            Only("window", "window" \in DOMAIN e, window),
            Only("output", "output" \in DOMAIN e
                            /\ \A c \in Ceilings(g, id) : Fact(e, "output", 0) <= c,
                 Least({window, Fact(e, "output", DefaultOutput)})),
            Only("image", Fact(e, "modalities", {}) # {}, "image" \in Fact(e, "modalities", {})),
            Only("reasoning", "reasoning" \in DOMAIN e \/ listed,
                 "reasoning" \in DOMAIN e \/ "reasoning" \in words),
            Only("efforts", Fact(e, "reasoning", {}) # {}, Fact(e, "reasoning", {})),
            Only("tools", listed, "tools" \in words),
            Only("toolChoice", listed, choice),
            Only("toolSearch", listed, "tool_search" \in words),
            Only("tier", listed, "service_tier" \in words),
            Only("tiers", Fact(e, "tiers", {}) # {}, Fact(e, "tiers", {})),
            Only("protocols", Fact(e, "protocols", <<>>) # <<>>, Fact(e, "protocols", <<>>))>>)

-----------------------------------------------------------------------------
(* The other sources.                                                      *)

SameModel(key, ref, id) == \E target \in {ref, id} : equivalentModelId(target, key)

\* g.sheet: the rows of the published datasheets.  The closest key counts,
\* the shortest of the equally close.
sheetScore(key, target) ==
    IF key = target THEN 1000
    ELSE IF equivalentModelId(target, key)
         THEN IF key \in progressivePaths(target) \/ target \in progressivePaths(key)
              THEN 900 ELSE 600
         ELSE -1

closestRow(sheet, scores) ==
    LET best == Greatest({scores[key] : key \in DOMAIN sheet} \cup {-1})
    IN  IF best < 0 THEN NoFacts
        ELSE sheet[Shortest({key \in DOMAIN sheet : scores[key] = best})]

findDatasheetEntry(g, ref, id) ==
    closestRow(g.sheet, [key \in DOMAIN g.sheet |->
                            Greatest({sheetScore(key, target) : target \in {ref, id}})])

\* g.vendor: the limits verified by hand.
findVendorCapabilityOverride(g, ref, id) ==
    LET row(keys) == IF keys = {} THEN NoFacts ELSE g.vendor[CHOOSE key \in keys : TRUE]
    IN  row({key \in DOMAIN g.vendor : SameModel(key, ref, id)})

\* A row no complete row contradicts.
toFallback(rows, how) ==
    LET complete == {r \in rows : {"window", "output"} \subseteq DOMAIN r}
        all(f, default) == \A r \in complete : Fact(r, f, default)
        some(f, value) == \E r \in complete : Fact(r, f, ~ value) = value
        common(f) == {x \in UNION {Fact(r, f, {}) : r \in complete} :
                        \A r \in complete : x \in Fact(r, f, {})}
        agreed(f) == Only(f, some(f, FALSE) \/ \A r \in complete : f \in DOMAIN r, all(f, TRUE))
        wires == {Fact(r, "protocols", <<>>) : r \in complete}
    IN  IF complete = {} THEN NoFacts
        ELSE FirstKnown(<<
                [window |-> Least({r.window : r \in complete}),
                 output |-> Least({r.output : r \in complete}),
                 image |-> all("image", FALSE), reasoning |-> all("reasoning", FALSE),
                 tools |-> all("tools", TRUE), toolChoice |-> all("toolChoice", TRUE),
                 forced |-> all("forced", TRUE), named |-> all("named", TRUE),
                 suppress |-> some("suppress", TRUE), how |-> how,
                 tier |-> \A r \in complete : Fact(r, "tiers", {}) # {}],
                Only("efforts", all("reasoning", FALSE) /\ common("efforts") # {}, common("efforts")),
                Only("tiers", common("tiers") # {}, common("tiers")),
                agreed("withTools"), agreed("betweenTools"),
                Only("protocols", Cardinality(wires) = 1 /\ <<>> \notin wires,
                     CHOOSE p \in wires : TRUE)>>)

\* g.bundled: the host's own list of models, by provider; the reference's own
\* providers come first.
preferred(own, family) == IF own # NoFacts THEN own ELSE family
findCatalogCapabilityFallback(g, ref, id) ==
    LET among(same) ==
            preferred(toFallback({b.row : b \in {c \in same : c.provider = ref[1]}}, "fallback"),
                      toFallback({b.row : b \in same}, "canonical-family"))
    IN  among({b \in g.bundled : SameModel(b.id, ref, id)})

\* g.strict: whether the host's policy for a reference and protocol lets
\* reasoning and tools go together; it must be known for every protocol.
resolveRouteReasoningWithToolsPolicy(g, ref, protocols) ==
    LET candidates == IF protocols = <<>> THEN {Chat} ELSE ToSet(protocols) \cap {Chat, Responses}
    IN  Only("withTools",
             candidates # {} /\ \A p \in candidates : <<ref, p>> \in DOMAIN g.strict,
             \A p \in candidates : g.strict[<<ref, p>>])

\* g.routes: the protocol the host's table gives a reference; a reference whose
\* providers or ids lead to different ones is not in it.
findCatalogProtocolCapability(g, ref) ==
    Only("protocols", ref \in DOMAIN g.routes, <<g.routes[ref]>>)

-----------------------------------------------------------------------------
(* One model out of all sources.                                           *)

\* The sources of each fact, the most trusted first.
Order(f) ==
    CASE f = "withTools" -> <<"live", "policy", "sheet", "vendor", "catalog">>
      [] f = "protocols" -> <<"live", "policy", "sheet", "catalog", "vendor">>
      [] f = "tiers" -> <<"live", "sheet", "catalog">>
      [] f = "suppress" -> <<"vendor", "catalog">>
      [] OTHER -> <<"live", "sheet", "vendor", "catalog">>

KnownBy(rows, f) == Selected(Order(f), {i \in DOMAIN Order(f) : f \in DOMAIN rows[Order(f)[i]]})
Select(rows, f, default) ==
    IF KnownBy(rows, f) = <<>> THEN default ELSE rows[KnownBy(rows, f)[1]][f]

withPolicy(g, ref, rows) ==
    [rows EXCEPT !.policy = FirstKnown(<<@,
        resolveRouteReasoningWithToolsPolicy(g, ref, Select(rows, "protocols", <<>>))>>)]
Rows(g, ref, id, live) ==
    withPolicy(g, ref,
        [live |-> live, sheet |-> findDatasheetEntry(g, ref, id),
         vendor |-> findVendorCapabilityOverride(g, ref, id),
         catalog |-> findCatalogCapabilityFallback(g, ref, id),
         policy |-> findCatalogProtocolCapability(g, ref)])

\* The member of a route; nothing if its limits are not known for certain.
enrich(g, ref, rows) ==
    LET reasoning == Select(rows, "reasoning", FALSE)
        window == Select(rows, "window", 0)
        output == Least({Select(rows, "output", 0)} \cup Ceilings(g, ref))
        from == KnownBy(rows, "output")[1]
        choice == Select(rows, "toolChoice", rows.live.choice)
    IN  IF 0 \in {window, output} THEN <<>>
        ELSE <<[id |-> ref, window |-> window, output |-> Least({window, output}),
                source |-> IF output < Select(rows, "output", 0) THEN "vendor"
                           ELSE IF from = "catalog" THEN rows.catalog.how
                           ELSE from,
                image |-> Select(rows, "image", FALSE),
                reasoning |-> reasoning,
                efforts |-> IF reasoning THEN Select(rows, "efforts", {}) ELSE {},
                tools |-> Select(rows, "tools", FALSE),
                toolChoice |-> choice,
                forced |-> Select(rows, "forced", rows.live.choice),
                named |-> Select(rows, "named", rows.live.choice),
                withTools |-> reasoning => Select(rows, "withTools", TRUE),
                toolSearch |-> Select(rows, "toolSearch", FALSE),
                betweenTools |-> Select(rows, "betweenTools", FALSE),
                tier |-> Select(rows, "tier", FALSE),
                tiers |-> Select(rows, "tiers", {}),
                protocols |-> Select(rows, "protocols", <<>>),
                suppress |-> reasoning /\ Select(rows, "suppress", FALSE)]>>
RichModel(g, ref, id, live) == enrich(g, ref, Rows(g, ref, id, live))

\* (In the code their order is the manifest's; it decides only among equals.)
routeReferences(aliases) ==
    Selected(ByLength, {i \in DOMAIN ByLength :
        \E a \in DOMAIN aliases : ByLength[i] \in ToSet(aliases[a].chain)})

\* A reference no listed model answers to is taken on the word of the tables;
\* an ambiguous one is not.
augmentLiveInventoryForRoutes(ids, refs) ==
    ids \o SelectSeq(refs, LAMBDA r : resolveModelReference(r, ids).reason = "no-match")

buildRichRouteCatalog(g, ids, refs) ==
    LET live(id) == IF id \in ToSet(ids) THEN toProviderModel(g, id) ELSE [choice |-> TRUE]
        rich(ref, match) == IF match.found THEN RichModel(g, ref, match.id, live(match.id))
                            ELSE <<>>
        among(inventory) ==
            [i \in DOMAIN refs |-> rich(refs[i], resolveModelReference(refs[i], inventory))]
    IN  FlattenSeq(among(augmentLiveInventoryForRoutes(ids, refs)))

-----------------------------------------------------------------------------
(* The promise made for an alias.                                          *)

Advert(members) ==
    LET all(f) == \A i \in DOMAIN members : members[i][f]
        common(f) == {x \in members[1][f] : \A i \in DOMAIN members : x \in members[i][f]}
    IN  [window |-> Least({members[i].window : i \in DOMAIN members}),
         output |-> Least({members[i].output : i \in DOMAIN members}),
         image |-> all("image"), reasoning |-> all("reasoning"), tools |-> all("tools"),
         efforts |-> common("efforts"), tiers |-> common("tiers"),
         toolChoice |-> all("toolChoice"), forced |-> all("toolChoice") /\ all("forced"),
         named |-> all("toolChoice") /\ all("named"), withTools |-> all("withTools"),
         toolSearch |-> all("toolSearch"), betweenTools |-> all("betweenTools"),
         tier |-> all("tier"), suppress |-> \E i \in DOMAIN members : members[i].suppress]

\* No promise unless every reference of the chain names a model.
synthesizeAlias(chain, catalog) ==
    LET found == [i \in DOMAIN chain |->
                    resolveModelReference(chain[i], [j \in DOMAIN catalog |-> catalog[j].id])]
        named(i, match) ==
            FlattenSeq([j \in DOMAIN catalog |->
                IF match.found /\ match.id = catalog[j].id
                THEN <<[catalog[j] EXCEPT !.id = chain[i]]>> ELSE <<>>])
        offer(members) ==
            [members |-> members, profile |-> <<>>,
             offered |-> members # <<>> /\ [i \in DOMAIN members |-> members[i].id] = chain,
             advert |-> IF members = <<>> THEN NoFacts ELSE Advert(members)]
    IN  offer(FlattenSeq([i \in DOMAIN chain |-> named(i, found[i])]))

\* A dynamic alias promises its largest window; its profile is its members in
\* the order of the rule.  (A dynamic definition never has pins.)
applyDynamicRouteProfiles(alias, definition, catalog) ==
    LET own(r) == Selected(catalog, {j \in DOMAIN catalog : catalog[j].id = r})
        profile == FlattenSeq([i \in DOMAIN definition.chain |-> own(definition.chain[i])])
    IN  IF alias.offered /\ definition.dynamic /\ Len(profile) = Len(definition.chain)
        THEN [alias EXCEPT !.profile = profile,
                           !.advert.window = Greatest({profile[i].window : i \in DOMAIN profile})]
        ELSE alias

\* What a fetch yields for a manifest: what is registered and what a request
\* will use, for each alias.
fetchFreshCatalog(g, ids, aliases) ==
    LET from(catalog) == [a \in DOMAIN aliases |->
            applyDynamicRouteProfiles(synthesizeAlias(aliases[a].chain, catalog), aliases[a], catalog)]
    IN  from(buildRichRouteCatalog(g, ids, routeReferences(aliases)))
=============================================================================
