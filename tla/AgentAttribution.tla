--------------------------- MODULE AgentAttribution ---------------------------
(***************************************************************************)
(* Which agent made how many requests by which route (agent-attribution.ts *)
(* and the OMP events in native.ts that call it).  A request carries only  *)
(* a session id; whose session it is OMP tells at other moments, before,   *)
(* after or never.  Everything is in memory and bounded: the sessions, the *)
(* agents and the routes of each.                                          *)
(*                                                                         *)
(* A JavaScript Map keeps its keys in the order they were added, which     *)
(* decides what is evicted and what is collapsed: a map of counts is a     *)
(* sequence of [route, requests], the map of sessions one of records.      *)
(***************************************************************************)
EXTENDS Integers, Sequences, FiniteSets

CONSTANTS
    Inferences,     \* session ids
    Kinds,          \* "main" and "sub"
    Names,          \* what OMP calls its agents
    Routes,         \* model ids
    Other,          \* "<other>"
    MaxActiveSessions, MaxRoutesPerAgent, MaxAgentAggregates,
    MaxRequests,    \* bound: requests
    MaxEvents       \* bound: sessions that are started or shut down

ASSUME AttributionAssumption ==
    /\ Other \notin Names \cup Routes
    /\ {MaxActiveSessions, MaxRoutesPerAgent, MaxAgentAggregates} \subseteq Nat \ {0}
    /\ {MaxRequests, MaxEvents} \subseteq Nat
    /\ IsFiniteSet(Kinds)

VARIABLES
    tracked,        \* the sessions, the least recently used first
    aggregates,     \* the counts of each agent
    collapsed,      \* collapsedAgentIdentities
    account         \* history: requests made, attributed, dropped; events

attributionVars == <<tracked, aggregates, collapsed, account>>

Identity == [kind : Kinds, name : Names \cup {Other}]
Agents == [kind : Kinds, name : Names]
Unbound == [kind |-> Other, name |-> Other]

\* The sum of the natural numbers f[k]: one element for each unit of each.
Units(f) == UNION {{k} \X (1 .. f[k]) : k \in DOMAIN f}
Sum(f) == Cardinality(Units(f))

Total(map) == Sum([i \in DOMAIN map |-> map[i].requests])

incrementBounded(map, route, amount) ==
    LET at(r) == {i \in DOMAIN map : map[i].route = r}
        key == IF at(route) # {} \/ Len(map) < MaxRoutesPerAgent THEN route ELSE Other
    IN  IF at(key) = {} THEN Append(map, [route |-> key, requests |-> amount])
        ELSE [map EXCEPT ![CHOOSE i \in at(key) : TRUE].requests = @ + amount]

-----------------------------------------------------------------------------
(* The sessions.  A record's own count of requests is the total of its     *)
(* routes.                                                                 *)

Of(s) == {i \in DOMAIN tracked : tracked[i].session = s}
At(s) == CHOOSE i \in Of(s) : TRUE
Without(s) ==
    IF Of(s) = {} THEN tracked
    ELSE SubSeq(tracked, 1, At(s) - 1) \o SubSeq(tracked, At(s) + 1, Len(tracked))

sessionRecord(s) ==
    IF Of(s) # {} THEN tracked[At(s)]
    ELSE [session |-> s, agent |-> Unbound, routes |-> <<>>, pendingRoutes |-> <<>>]

\* The record becomes the most recently used one; the oldest may have to go.
All(record) == Append(Without(record.session), record)
Evicts(record) == Len(All(record)) > MaxActiveSessions
touch(record) == IF Evicts(record) THEN Tail(All(record)) ELSE All(record)

\* What nobody will ever be credited with, once the oldest session is gone.
Lost(record) == IF Evicts(record) THEN Total(Head(All(record)).pendingRoutes) ELSE 0

-----------------------------------------------------------------------------
(* The agents.  g is [by |-> aggregates, collapsed |-> collapsed].         *)

Now == [by |-> aggregates, collapsed |-> collapsed]

aggregateKey(g, a) ==
    IF a \in DOMAIN g.by \/ Cardinality(DOMAIN g.by) < MaxAgentAggregates THEN a
    ELSE [a EXCEPT !.name = Other]

\* (A name that is known or still fits is never counted as collapsed.)
addAggregate(g, a, route, amount) ==
    LET key == aggregateKey(g, a)
        old == IF key \in DOMAIN g.by THEN g.by[key] ELSE [requests |-> 0, routes |-> <<>>]
        new == [requests |-> old.requests + amount,
                routes |-> incrementBounded(old.routes, route, amount)]
    IN  [by |-> [k \in DOMAIN g.by \cup {key} |-> IF k = key THEN new ELSE g.by[k]],
         collapsed |-> g.collapsed + IF key = a THEN 0 ELSE 1]

\* for (const [route, requests] of record.pendingRoutes) ...
addAll(a, pending) ==
    LET after[i \in 0 .. Len(pending)] ==
            IF i = 0 THEN Now
            ELSE addAggregate(after[i - 1], a, pending[i].route, pending[i].requests)
    IN  after[Len(pending)]

\* Mutation: the requests that waited for an identity keep waiting.
BoundStillPending(record, a) == [record EXCEPT !.agent = a]

Bound(record, a) == [record EXCEPT !.agent = a, !.pendingRoutes = <<>>]

-----------------------------------------------------------------------------
AttributionInit ==
    /\ tracked = <<>>
    /\ aggregates = [k \in {} |-> 0]
    /\ collapsed = 0
    /\ account = [made |-> 0, dropped |-> 0, events |-> 0, by |-> [a \in Agents |-> 0]]

Credit(g) == aggregates' = g.by /\ collapsed' = g.collapsed

\* session_start, agent_end and /pifrost doctor say whose session it is.
\* Requests made before are credited now, route by route.
bindAgentSession(s, a) ==
    LET record == sessionRecord(s)
    IN  /\ account.events < MaxEvents
        /\ tracked' = touch(Bound(record, a))
        /\ Credit(addAll(a, record.pendingRoutes))
        /\ account' = [account EXCEPT !.events = @ + 1, !.dropped = @ + Lost(record),
                                      !.by[a] = @ + Total(record.pendingRoutes)]

\* streamPifrostOpenAI, before anything else.
recordAgentRequest(s, route) ==
    LET old == sessionRecord(s)
        record == [old EXCEPT !.routes = incrementBounded(@, route, 1)]
        waits == record.agent = Unbound
    IN  /\ account.made < MaxRequests
        /\ tracked' = touch(IF waits
                            THEN [record EXCEPT !.pendingRoutes = incrementBounded(@, route, 1)]
                            ELSE record)
        /\ IF waits THEN UNCHANGED <<aggregates, collapsed>>
           ELSE Credit(addAggregate(Now, record.agent, route, 1))
        /\ account' = [made |-> account.made + 1, dropped |-> account.dropped + Lost(old),
                       events |-> account.events,
                       by |-> [a \in Agents |-> account.by[a]
                                                + IF a = record.agent THEN 1 ELSE 0]]

\* session_shutdown.  A request may still come after it.
releaseAgentSession(s) ==
    /\ account.events < MaxEvents
    /\ tracked' = Without(s)
    /\ account' = [account EXCEPT !.events = @ + 1,
                                  !.dropped = @ + Total(sessionRecord(s).pendingRoutes)]
    /\ UNCHANGED <<aggregates, collapsed>>

AttributionNext ==
    \/ \E s \in Inferences, a \in Agents : bindAgentSession(s, a)
    \/ \E s \in Inferences, r \in Routes : recordAgentRequest(s, r)
    \/ \E s \in Inferences : releaseAgentSession(s)

AttributionSpec == AttributionInit /\ [][AttributionNext]_attributionVars

-----------------------------------------------------------------------------
Credited == Sum([k \in DOMAIN aggregates |-> aggregates[k].requests])

\* agentAttributionSnapshot
unattributedRequests ==
    LET records == {tracked[i] : i \in DOMAIN tracked}
    IN  Sum([x \in records |-> Total(x.pendingRoutes)])

\* However sessions start, end, are evicted and change hands, and however late
\* OMP says whose they are: every request is credited once, or waits, or was
\* dropped with its session before anybody claimed it.  An agent with a row of
\* its own has all its requests there, none of them in the row of the others;
\* a row agrees with its routes.  And all that in bounded memory.
BoundedAccountIsExact ==
    /\ account.made = Credited + unattributedRequests + account.dropped
    /\ Credited = Sum(account.by)
    /\ \A k \in DOMAIN aggregates :
        /\ k.name # Other => aggregates[k].requests = account.by[k]
        /\ aggregates[k].requests = Total(aggregates[k].routes)
        /\ Len(aggregates[k].routes) <= MaxRoutesPerAgent + 1
    /\ Len(tracked) <= MaxActiveSessions
    /\ Cardinality(DOMAIN aggregates) <= MaxAgentAggregates + Cardinality(Kinds)
=============================================================================
