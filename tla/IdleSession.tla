----------------------------- MODULE IdleSession -----------------------------
(***************************************************************************)
(* What Pifrost does by itself once a turn has settled (native.ts, the     *)
(* agent_end handler and the events around it): the stalled-turn           *)
(* follow-up, the recovery of an open plan, and the compaction of an idle  *)
(* session.  They share one OMP session, whose queue, jobs, history and    *)
(* turns change between any two of their steps.                            *)
(***************************************************************************)
EXTENDS StalledTurn, CompactBeforeSkip

CONSTANTS
    MaxPrompts,     \* bound: prompts of the operator
    MaxHostMoves,       \* bound: queued messages, jobs, moves, failures, restarts
    MaxTokens,      \* bound: the context never grows beyond
    Modes,          \* the settings of this instance
    Window,         \* getContextUsage().contextWindow
    Growth          \* by how many tokens a turn may grow the context

SettingPairs == [stalled : stalledTurnMode, intelligent : stalledTurnMode]

ASSUME IdleAssumption ==
    /\ Modes \subseteq SettingPairs
    /\ HostSessions # {}
    /\ {MaxPrompts, MaxHostMoves, MaxTokens} \subseteq Nat
    /\ Window \in Nat
    /\ Growth \subseteq Nat

VARIABLES
    host,       \* the OMP session the handlers look at
    mode,       \* the two environment variables, read once
    stalled,    \* the stalled-turn coordinator
    compaction, \* the compaction scheduler
    timer,      \* the timer OMP holds for it: how often it has found OMP busy
    work,       \* the plan of the compaction that runs, and whether the first
                \* run of its timer started it
    dialog,     \* the session whose continuation the operator is asked about
    spent,      \* how much of the bounds is used
    seen        \* history: what the properties compare

idleVars == <<host, mode, stalled, compaction, timer, work, dialog, spent, seen>>

NoTimer == -1
NoWork == [route |-> NoTarget, window |-> NoTarget, first |-> FALSE]
None == "none"

Hosts == [session : HostSessions, phase : {"idle", "running", "settled"},
          human : BOOLEAN, followUp : BOOLEAN, jobs : BOOLEAN,
          plan : BOOLEAN, tokens : 0 .. MaxTokens, allowed : BOOLEAN]
Works == [route : 0 .. Len(Members), window : {NoTarget, Window}, first : BOOLEAN]
Spendings == [prompts : 0 .. MaxPrompts, moves : 0 .. MaxHostMoves]
Histories == [sent : [HostSessions -> Nat], history : Nat, stall : [HostSessions -> Nat],
              stale : BOOLEAN, continued : Nat, compacted : Nat]

IdleTypeOK ==
    /\ host \in Hosts
    /\ mode \in SettingPairs
    /\ stalled \in Coordinator
    /\ compaction \in Scheduler
    /\ timer \in NoTimer .. IdleRetries
    /\ work \in Works
    /\ dialog \in HostSessions \cup {None}
    /\ spent \in Spendings
    /\ seen \in Histories

-----------------------------------------------------------------------------
Queued == host.human \/ host.followUp

\* Mutation: only the operator's messages count as queued.
FreeOfHumans == ~ host.human /\ ~ host.jobs

Free == ~ Queued /\ ~ host.jobs
Idle == host.phase = "idle"

Move == spent.moves < MaxHostMoves /\ spent' = [spent EXCEPT !.moves = @ + 1]

\* Nothing of the compaction; nothing of the follow-up.
Rest1 == UNCHANGED <<compaction, timer, work>>
Rest2 == UNCHANGED <<stalled, dialog>>

IdleInit ==
    /\ host = [session |-> CHOOSE s \in HostSessions : TRUE, phase |-> "idle",
               human |-> FALSE, followUp |-> FALSE, jobs |-> FALSE,
               plan |-> FALSE, tokens |-> 0, allowed |-> FALSE]
    /\ mode \in Modes
    /\ stalled = Fresh
    /\ compaction = Unscheduled
    /\ timer = NoTimer
    /\ work = NoWork
    /\ dialog = None
    /\ spent = [prompts |-> 0, moves |-> 0]
    /\ seen = [sent |-> [s \in HostSessions |-> 0], history |-> 0,
               stall |-> [s \in HostSessions |-> 0], stale |-> FALSE,
               continued |-> 0, compacted |-> 0]

\* before_agent_start: a turn begins with the operator's prompt or with the
\* queued follow-up, whose text carries the marker.  The host's compaction
\* setting is read anew; a read that fails counts as not allowed.
OnBeforeAgentStart(marked, allowed) ==
    /\ Idle
    /\ IF marked THEN host.followUp ELSE host.human \/ spent.prompts < MaxPrompts
    /\ host' = [host EXCEPT !.phase = "running", !.allowed = allowed,
                            !.human = IF marked THEN @ ELSE FALSE,
                            !.followUp = IF marked THEN FALSE ELSE @]
    /\ spent' = IF marked \/ host.human THEN spent
                ELSE [spent EXCEPT !.prompts = @ + 1]
    /\ stalled' = onPrompt(stalled, host.session, marked)
    /\ seen' = IF marked THEN seen ELSE [seen EXCEPT !.sent[host.session] = 0]
    /\ UNCHANGED <<mode, dialog>>
    /\ Rest1

\* sendContinuation: OMP may refuse the message; the budget is spent anyway.
Sent(c, s, ok) ==
    /\ stalled' = continuePending(c, s)
    /\ host' = [host EXCEPT !.followUp = ok \/ @]

\* The stalled-turn part of agent_end, which leaves tasks with an open plan to
\* the session_stop handler.
OneShotApplies ==
    /\ ~ host.plan
    /\ mode.intelligent = "auto" \/ (mode.intelligent # "off" /\ mode.stalled = "notice")

Scheduling ==
    IF host.allowed /\ maySchedule(compaction)
    THEN compaction' = schedule(compaction) /\ timer' = 0
    ELSE UNCHANGED <<compaction, timer>>

OnAgentEnd(t, ok, grown) ==
    LET s == host.session
        observed == OneShotApplies /\ observesStall(mode.stalled, stalled, s, t, Free)
        follows == observed /\ mode.stalled = "auto"
        stall == IF observed /\ s \notin stalled.pending
                 THEN [seen.stall EXCEPT ![s] = seen.history] ELSE seen.stall IN
    /\ host.phase = "running"
    /\ host.tokens + grown <= MaxTokens
    /\ stalled' = IF follows THEN continuePending(onAgentEnd(stalled, s), s)
                  ELSE IF observed THEN onAgentEnd(stalled, s) ELSE stalled
    /\ host' = [host EXCEPT !.phase = "settled", !.tokens = @ + grown,
                            !.followUp = @ \/ (follows /\ ok)]
    /\ seen' = [seen EXCEPT !.stall = stall,
                            !.sent[s] = @ + IF follows /\ ok THEN 1 ELSE 0,
                            !.stale = @ \/ (follows /\ stall[s] # seen.history),
                            !.continued = IF follows /\ ok THEN 1 ELSE 0,
                            !.compacted = 0]
    /\ Scheduling
    /\ UNCHANGED <<mode, work, dialog, spent>>

\* session_stop: an open plan is continued in the same turn (SessionStop has
\* the whole decision), unless something is queued or running.
OnSessionStop(continues) ==
    /\ host.phase = "settled"
    /\ continues => host.plan /\ Free /\ mode.intelligent = "auto"
    /\ IF continues THEN Move ELSE UNCHANGED spent
    /\ host' = [host EXCEPT !.phase = IF continues THEN "running" ELSE "idle"]
    /\ seen' = [seen EXCEPT !.continued = @ + IF continues THEN 1 ELSE 0]
    /\ UNCHANGED mode
    /\ Rest1
    /\ Rest2

-----------------------------------------------------------------------------
(* /pifrost stalled continue.                                              *)

safeToContinue == Idle /\ Free

StalledContinue ==
    /\ dialog = None
    /\ mode.stalled # "off"
    /\ host.session \in stalled.pending
    /\ safeToContinue
    /\ dialog' = host.session
    /\ UNCHANGED <<host, mode, stalled, spent, seen>>
    /\ Rest1

Confirm(ok) ==
    /\ dialog # None
    /\ dialog' = None
    /\ IF /\ safeToContinue
          /\ host.session = dialog
          /\ mayContinue(mode.stalled, stalled, dialog, Free)
       THEN /\ Sent(stalled, dialog, ok)
            /\ seen' = [seen EXCEPT !.sent[dialog] = @ + IF ok THEN 1 ELSE 0,
                                    !.stale = @ \/ seen.stall[dialog] # seen.history]
       ELSE UNCHANGED <<stalled, host, seen>>
    /\ UNCHANGED <<mode, spent>>
    /\ Rest1

Decline ==
    /\ dialog # None
    /\ dialog' = None
    /\ UNCHANGED <<host, mode, stalled, spent, seen>>
    /\ Rest1

-----------------------------------------------------------------------------
(* The compaction's timer callback, run(timer).                            *)

HostBusy == ~ Idle \/ ~ Free

Retry ==
    /\ timer # NoTimer
    /\ HostBusy
    /\ IF timer < IdleRetries
       THEN timer' = timer + 1 /\ UNCHANGED compaction
       ELSE timer' = NoTimer /\ compaction' = giveUp(compaction)
    /\ UNCHANGED <<host, mode, work, spent, seen>>
    /\ Rest2

\* routed: the model is Pifrost's and its route has a published profile;
\* usable: OMP reports a context below the window.
Compact(routed, usable) ==
    LET route == IF routed /\ planCompactBeforeContextSkip(host.tokens, compaction.lastAttempt)
                 THEN Target(host.tokens) ELSE NoTarget
        window == IF planAdaptiveContextMaintenance(host.tokens, Window,
                                                    compaction.lastAdaptiveAttempt)
                  THEN Window ELSE NoTarget IN
    /\ timer # NoTimer
    /\ ~ HostBusy
    /\ timer' = NoTimer
    /\ IF usable /\ host.tokens < Window /\ {route, window} # {NoTarget}
       THEN /\ compaction' = compactStarts(compaction)
            /\ work' = [route |-> route, window |-> window, first |-> timer = 0]
            /\ seen' = [seen EXCEPT !.compacted = @ + 1]
       ELSE /\ compaction' = giveUp(compaction)
            /\ UNCHANGED <<work, seen>>
    /\ UNCHANGED <<host, mode, spent>>
    /\ Rest2

\* A call of the context throws before the compaction starts: a retried run
\* leaves `scheduled` set.
TimerThrows ==
    /\ timer # NoTimer
    /\ Move
    /\ timer' = NoTimer
    /\ compaction' = runFails(compaction, timer = 0)
    /\ UNCHANGED <<host, mode, work, seen>>
    /\ Rest2

\* compact() has ended, done or not; session_compact is OMP's event for done.
\* readable: getContextUsage() does not throw in the finally block; if it does,
\* the compaction of a retried run leaves `inFlight` set.
CompactEnds(done, left, readable) ==
    /\ work # NoWork
    /\ left <= host.tokens
    /\ ~ done => left = host.tokens
    /\ host' = [host EXCEPT !.tokens = left]
    /\ IF readable
       THEN compaction' = compactEnds(compaction, work, left) /\ UNCHANGED spent
       ELSE compaction' = runFails(compaction, work.first) /\ Move
    /\ work' = NoWork
    /\ stalled' = IF done THEN onSessionInterrupt(stalled, host.session) ELSE stalled
    /\ seen' = IF done THEN [seen EXCEPT !.history = @ + 1] ELSE seen
    /\ UNCHANGED <<mode, timer, dialog>>
-----------------------------------------------------------------------------
(* What OMP and the operator do meanwhile.                                 *)

\* session_tree, session_branch (s is the session already) or session_switch,
\* which leaves behind what was queued.
HistoryChanges(s) ==
    /\ Idle
    /\ Move
    /\ host' = [host EXCEPT !.session = s,
                            !.human = @ /\ s = host.session,
                            !.followUp = @ /\ s = host.session]
    /\ stalled' = onHistoryChanged(stalled)
    /\ seen' = [seen EXCEPT !.history = @ + 1]
    /\ UNCHANGED <<mode, dialog>>
    /\ Rest1

UserQueues ==
    /\ host.phase # "idle"
    /\ spent.prompts < MaxPrompts
    /\ spent' = [spent EXCEPT !.prompts = @ + 1]
    /\ ~ host.human
    /\ host' = [host EXCEPT !.human = TRUE]
    /\ UNCHANGED <<mode, seen>>
    /\ Rest1
    /\ Rest2

JobChanges ==
    /\ Move
    /\ host' = [host EXCEPT !.jobs = ~ @]
    /\ UNCHANGED <<mode, seen>>
    /\ Rest1
    /\ Rest2

\* The operator begins or ends a plan (/pifrost checkpoint).
PlanChanges ==
    /\ Move
    /\ host' = [host EXCEPT !.plan = ~ @]
    /\ UNCHANGED <<mode, seen>>
    /\ Rest1
    /\ Rest2

\* session_shutdown of this session, with or without the process, then
\* session_start of one.
Restart(s, exits, allowed) ==
    /\ Move
    /\ host' = [host EXCEPT !.session = s, !.phase = "idle", !.human = FALSE,
                            !.followUp = FALSE, !.jobs = FALSE, !.allowed = allowed]
    /\ stalled' = IF exits THEN Fresh ELSE onSessionEnd(stalled, host.session)
    /\ dialog' = None
    /\ compaction' = IF allowed THEN schedule(Unscheduled) ELSE Unscheduled
    /\ timer' = IF allowed THEN 0 ELSE NoTimer
    /\ work' = NoWork
    /\ seen' = [seen EXCEPT !.compacted = 0, !.continued = 0]
    /\ UNCHANGED mode

IdleNext ==
    \/ \E m, a \in BOOLEAN : OnBeforeAgentStart(m, a)
    \/ \E t \in Turn, ok \in BOOLEAN, g \in Growth : OnAgentEnd(t, ok, g)
    \/ \E c \in BOOLEAN : OnSessionStop(c)
    \/ StalledContinue
    \/ \E ok \in BOOLEAN : Confirm(ok)
    \/ Decline
    \/ Retry
    \/ \E r, u \in BOOLEAN : Compact(r, u)
    \/ TimerThrows
    \/ \E d, r \in BOOLEAN, n \in 0 .. MaxTokens : CompactEnds(d, n, r)
    \/ \E s \in HostSessions : HistoryChanges(s)
    \/ UserQueues
    \/ JobChanges
    \/ PlanChanges
    \/ \E s \in HostSessions, e, a \in BOOLEAN : Restart(s, e, a)

IdleSpec == IdleInit /\ [][IdleNext]_idleVars

-----------------------------------------------------------------------------
\* However prompts, interrupts, moves and refusals come, at most one follow-up
\* is queued between two prompts of the operator (createStalledTurnRecovery-
\* Coordinator: "at most once per user prompt").
OneFollowUpPerPrompt == \A s \in HostSessions : seen.sent[s] <= 1

\* A follow-up is only ever queued on the history in which its stall was seen
\* (the session_tree, session_branch, session_switch and session_compact
\* handlers drop the observation), whatever happens while the operator is asked.
FollowUpMatchesHistory == ~ seen.stale

\* The one-shot follow-up and the recovery of an open plan never both continue
\* the same settlement, although a plan may be opened between them.
OneContinuation == seen.continued <= 1

\* A settled turn leads to at most one compaction, and never two at a time,
\* however timers, turns and restarts interleave.
OneCompactionPerTurn ==
    /\ seen.compacted <= 1
    /\ ~ (compaction.scheduled /\ compaction.inFlight)
=============================================================================
