---------------------------- MODULE RouteReconcile ----------------------------
(***************************************************************************)
(* On-demand route reconciliation: the OMP sessions that check the         *)
(* gateway's routing policy before a prompt (createOnDemandRouteCheck and  *)
(* the catalogue refresh of native.ts), the short-lived CLI processes they *)
(* start (reconcileRouteSnapshot under withReconcileLock) and the alias    *)
(* manifest and catalogue cache that all of them share.                    *)
(*                                                                         *)
(* Policies are numbered in the order the gateway adopts them; 0 is the    *)
(* policy of a manifest that carries no fingerprint.  A snapshot, the      *)
(* manifest written from it and the models built from that manifest are    *)
(* all represented by the number of their policy.                          *)
(***************************************************************************)
EXTENDS ReconcileLock

CONSTANTS
    OmpSessions,    \* OMP processes with the extension
    MaxPolicy       \* bound: policies the gateway adopts

ASSUME ReconcileAssumption == MaxPolicy \in Nat \ {0}

VARIABLES
    policy,         \* the gateway's routing policy
    manifest,       \* the alias manifest file
    cache,          \* the manifest the catalogue cache file was built for
    job,            \* each CLI process: the action it runs under the lock
    check,          \* each session: the pending check
    throttled,      \* sessions whose last check is less than a minute old
    needsRefresh,   \* needsRegistryRefresh
    models,         \* the models registered with OMP
    routes,         \* runtimeRouteState
    fetch,          \* refreshInFlight
    told,           \* history: the newest update a session was told of
    joined          \* history: sessions whose newest models come from a fetch
                    \* that a call joined after the manifest had changed

sessionVars == <<check, throttled, needsRefresh, models, routes, fetch, told, joined>>
reconcileVars == <<lockVars, policy, manifest, cache, job, sessionVars>>

Policies == 0 .. MaxPolicy

Fetch == [running : BOOLEAN,  \* there is one
          policy : Policies,  \* the manifest it was started for
          wanted : BOOLEAN,   \* somebody awaits its models
          late : BOOLEAN]     \* history: since a time the manifest had changed

NoFetch == [running |-> FALSE, policy |-> 0, wanted |-> FALSE, late |-> FALSE]
Idle == [phase |-> "idle", child |-> Nobody]

Job == [step : {"read", "first", "second", "write", "end"},
        local : Policies, first : Policies,
        outcome : {"failed", "unchanged", "updated"}]

PendingCheck == [phase : {"idle", "child", "refresh", "waiting"},
                 child : Procs \cup {Nobody}]

ReconcileTypeOK ==
    /\ LockTypeOK
    /\ policy \in Policies /\ manifest \in Policies /\ cache \in Policies
    /\ job \in [Procs -> Job]
    /\ check \in [OmpSessions -> PendingCheck]
    /\ throttled \subseteq OmpSessions
    /\ needsRefresh \subseteq OmpSessions
    /\ models \in [OmpSessions -> Policies]
    /\ routes \in [OmpSessions -> Policies]
    /\ fetch \in [OmpSessions -> Fetch]
    /\ told \in [OmpSessions -> Policies]
    /\ joined \subseteq OmpSessions

ReconcileInit ==
    /\ LockInit
    /\ policy = 1
    /\ manifest \in {0, 1}
    /\ cache = manifest
    /\ job = [c \in Procs |-> [step |-> "read", local |-> 0, first |-> 0, outcome |-> "failed"]]
    /\ check = [s \in OmpSessions |-> Idle]
    /\ throttled = {}
    /\ needsRefresh = {}
    /\ models = [s \in OmpSessions |-> manifest]
    /\ routes = models
    /\ fetch = [s \in OmpSessions |-> NoFetch]
    /\ told = [s \in OmpSessions |-> 0]
    /\ joined = {}

\* An operator edits the gateway's rules (external).
Edit ==
    /\ policy < MaxPolicy
    /\ policy' = policy + 1
    /\ UNCHANGED <<lockVars, manifest, cache, job, sessionVars>>

-----------------------------------------------------------------------------
(* The CLI process, inside the lock.                                       *)

At(c, step) == pc[c] = "inside" /\ job[c].step = step

Works(c, j) ==
    /\ job' = [job EXCEPT ![c] = j]
    /\ UNCHANGED <<lockVars, policy, cache, sessionVars>>

Ends(c, outcome) == Works(c, [job[c] EXCEPT !.step = "end", !.outcome = outcome])

ReadManifest(c) ==
    /\ At(c, "read")
    /\ Works(c, [job[c] EXCEPT !.step = "first", !.local = manifest])
    /\ UNCHANGED manifest

\* The first snapshot: a manifest that verifiably matches it is left alone.
FirstCapture(c) ==
    /\ At(c, "first")
    /\ IF job[c].local = policy
       THEN Ends(c, "unchanged")
       ELSE Works(c, [job[c] EXCEPT !.step = "second", !.first = policy])
    /\ UNCHANGED manifest

\* The second snapshot has to agree with the first.
SecondCapture(c) ==
    /\ At(c, "second")
    /\ IF job[c].first = policy
       THEN Works(c, [job[c] EXCEPT !.step = "write"])
       ELSE Ends(c, "failed")
    /\ UNCHANGED manifest

\* writeAliasManifest
WriteManifest(c) ==
    /\ At(c, "write")
    /\ manifest' = job[c].first
    /\ Ends(c, "updated")

\* A capture that fails or is invalid, or a manifest that cannot be written.
Fails(c) ==
    /\ At(c, "first") \/ At(c, "second") \/ At(c, "write")
    /\ Ends(c, "failed")
    /\ UNCHANGED manifest

Outside == UNCHANGED <<policy, manifest, cache, sessionVars>>

\* Getting and leaving the lock around that action.
TakesLock(c)    == Acquire(c) /\ UNCHANGED job /\ Outside
ReleasesLock(c) == (Leave(c) \/ Remove(c)) /\ job[c].step = "end" /\ UNCHANGED job /\ Outside

\* A killed process prints no reply, whatever it has done.
Killed(c) ==
    /\ Kill(c)
    /\ job' = [job EXCEPT ![c].outcome = "failed"]
    /\ Outside

-----------------------------------------------------------------------------
(* The session.                                                            *)

Files == UNCHANGED <<policy, manifest>>
Goes(s, phase) == check' = [check EXCEPT ![s] = [phase |-> phase, child |-> Nobody]]

\* before_agent_start: check(ctx).  A check that is pending is joined.
Check(s) ==
    /\ check[s] = Idle
    /\ throttled' = throttled \cup {s}
    /\ IF s \in needsRefresh
       THEN Goes(s, "refresh") /\ UNCHANGED lockVars
       ELSE /\ s \notin throttled
            /\ \E c \in Procs :
                 Start(c) /\ check' = [check EXCEPT ![s] = [phase |-> "child", child |-> c]]
    /\ UNCHANGED <<cache, job, needsRefresh, models, routes, fetch, told, joined>>
    /\ Files

MinutePasses(s) ==
    /\ s \in throttled
    /\ throttled' = throttled \ {s}
    /\ UNCHANGED <<lockVars, cache, job, check, needsRefresh, models, routes, fetch, told, joined>>
    /\ Files

\* pi.exec returns; anything but a reply of "updated" leaves the models alone.
Reply(s) ==
    /\ check[s].phase = "child"
    /\ pc[check[s].child] = "gone"
    /\ LET j == job[check[s].child] IN
       IF j.outcome = "updated"
       THEN /\ needsRefresh' = needsRefresh \cup {s}
            /\ told' = [told EXCEPT ![s] = j.first]
            /\ Goes(s, "refresh")
       ELSE Goes(s, "idle") /\ UNCHANGED <<needsRefresh, told>>
    /\ UNCHANGED <<lockVars, cache, job, throttled, models, routes, fetch, joined>>
    /\ Files

\* The rest of check() once refresh(context) has resolved.
Refreshed(s) == Goes(s, "idle") /\ needsRefresh' = needsRefresh \ {s}

\* refresh(): start a fetch for the manifest just read unless one is running.
Started(wanted) == [running |-> TRUE, policy |-> manifest, wanted |-> wanted, late |-> FALSE]

Joined(f, wanted) ==
    [f EXCEPT !.wanted = f.wanted \/ wanted,
              !.late = f.late \/ (wanted /\ f.policy # manifest)]

JoinOrStart(s, wanted) ==
    fetch' = [fetch EXCEPT ![s] = IF fetch[s].running THEN Joined(fetch[s], wanted)
                                  ELSE Started(wanted)]

\* fetchDynamicModels on a cache entry for the manifest: publish it, and renew
\* it in the background if it is stale.
UseCache(s) ==
    /\ cache = manifest
    /\ models' = [models EXCEPT ![s] = manifest]
    /\ routes' = [routes EXCEPT ![s] = manifest]
    /\ JoinOrStart(s, FALSE) \/ UNCHANGED fetch
    /\ joined' = joined \ {s}

\* Without one its result is that of refresh().
AwaitFetch(s) ==
    /\ cache # manifest
    /\ JoinOrStart(s, TRUE)
    /\ UNCHANGED <<models, routes, joined>>

\* fetchDynamicModels on behalf of check(): refreshProvider(...).
Refresh(s) ==
    /\ check[s].phase = "refresh"
    /\ ~ fetch[s].wanted
    /\ \/ UseCache(s) /\ Refreshed(s)
       \/ AwaitFetch(s) /\ Goes(s, "waiting") /\ UNCHANGED needsRefresh
    /\ UNCHANGED <<lockVars, cache, job, throttled, told>>
    /\ Files

\* fetchDynamicModels at OMP's own request; OMP makes one call at a time.
OmpRefresh(s) ==
    /\ ~ fetch[s].wanted
    /\ UseCache(s) \/ AwaitFetch(s)
    /\ UNCHANGED <<lockVars, cache, job, check, throttled, needsRefresh, told>>
    /\ Files

\* fetchFreshCatalog: publish, cache, resolve the callers.
FetchEnds(s) ==
    /\ fetch[s].running
    /\ fetch' = [fetch EXCEPT ![s] = NoFetch]
    /\ routes' = [routes EXCEPT ![s] = fetch[s].policy]
    /\ cache' = fetch[s].policy
    /\ models' = IF fetch[s].wanted THEN [models EXCEPT ![s] = fetch[s].policy] ELSE models
    /\ IF check[s].phase = "waiting"
       THEN Refreshed(s)
       ELSE UNCHANGED <<check, needsRefresh>>
    /\ joined' = IF fetch[s].wanted
                 THEN {x \in joined : x # s} \cup {x \in {s} : fetch[s].late}
                 ELSE joined
    /\ UNCHANGED <<lockVars, job, throttled, told>>
    /\ Files

\* Mutation: needsRegistryRefresh is reset whether or not the refresh succeeds.
FetchFailureForgets(s) ==
    /\ fetch[s].running
    /\ fetch' = [fetch EXCEPT ![s] = NoFetch]
    /\ routes' \in {routes, [routes EXCEPT ![s] = fetch[s].policy]}
    /\ IF check[s].phase = "waiting"
       THEN Refreshed(s) ELSE UNCHANGED <<check, needsRefresh>>
    /\ UNCHANGED <<lockVars, cache, job, throttled, models, told, joined>>
    /\ Files

\* Mutation: pending is reset only when the refresh succeeds.
FetchFailureHangs(s) ==
    /\ fetch[s].running
    /\ fetch' = [fetch EXCEPT ![s] = NoFetch]
    /\ routes' \in {routes, [routes EXCEPT ![s] = fetch[s].policy]}
    /\ UNCHANGED <<lockVars, cache, job, check, throttled, needsRefresh, models, told, joined>>
    /\ Files

\* It fails, before publishing or when it cannot write the cache.
FetchFails(s) ==
    /\ fetch[s].running
    /\ fetch' = [fetch EXCEPT ![s] = NoFetch]
    /\ routes' \in {routes, [routes EXCEPT ![s] = fetch[s].policy]}
    /\ IF check[s].phase = "waiting" THEN Goes(s, "idle") ELSE UNCHANGED check
    /\ UNCHANGED <<lockVars, cache, job, throttled, needsRefresh, models, told, joined>>
    /\ Files

Process(c) ==
    \/ TakesLock(c) \/ ReleasesLock(c)
    \/ ReadManifest(c) \/ FirstCapture(c) \/ SecondCapture(c) \/ WriteManifest(c)
    \/ Fails(c)

Session(s) ==
    \/ Reply(s) \/ Refresh(s) \/ FetchEnds(s) \/ FetchFails(s)
    \/ Check(s) \/ MinutePasses(s) \/ OmpRefresh(s)

ReconcileNext ==
    \/ Edit
    \/ \E c \in Procs : Process(c) \/ Killed(c)
    \/ \E s \in OmpSessions : Session(s)

ReconcileSpec == ReconcileInit /\ [][ReconcileNext]_reconcileVars

\* Every request of a process or a fetch has a timeout, so that it ends one way
\* or another, and OMP gets round to the call of a check although it may make
\* calls of its own.  Prompts, edits and those calls need not come.
ReconcileFairness ==
    /\ \A c \in Procs : WF_reconcileVars(Process(c))
    /\ \A s \in OmpSessions :
          /\ WF_reconcileVars(Reply(s))
          /\ SF_reconcileVars(Refresh(s))
          /\ WF_reconcileVars(FetchEnds(s) \/ FetchFails(s))

-----------------------------------------------------------------------------
(* Properties.                                                             *)

\* While no lock is stolen the manifest never goes back to an older policy:
\* the captures of the process that writes are later than those of any process
\* that wrote before it (the lock spans both captures and the write).
ManifestNeverRegresses == [][ ~ stolen => manifest' >= manifest ]_reconcileVars

\* A session that was told of an update registers models of that update or a
\* later one, or still has to; only a call that joined an older fetch may
\* escape this ("routes saved but OMP model refresh failed; will retry at
\* your next prompt").  With a stolen lock the manifest may be set back to a
\* policy older than the update before the session reads it.
UpdateNotForgotten ==
    ~ stolen =>
        \A s \in OmpSessions :
            models[s] < told[s] => s \in needsRefresh \cup joined

\* Every check ends, so that it never blocks a prompt or the later checks:
\* no order of failures, kills, locks and fetches leaves one pending.
CheckEnds == \A s \in OmpSessions : check[s] # Idle ~> check[s] = Idle

=============================================================================
