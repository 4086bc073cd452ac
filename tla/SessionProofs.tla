----------------------------- MODULE SessionProofs -----------------------------
(***************************************************************************)
(* Proofs about what a session does after a failure: the end of a turn     *)
(* (IdleSession) and the fork an operator asks for (RecoveryFork), for any *)
(* sessions, settings and bounds; and about the account of whose requests  *)
(* all of them were (AgentAttribution).                                    *)
(*                                                                         *)
(* None of the four properties of IdleSession is inductive.  What makes    *)
(* them hold:                                                              *)
(*                                                                         *)
(* A follow-up that was sent is in `attempted`, unless a shutdown has      *)
(* removed it; but then the session is idle and has nothing queued, so     *)
(* its next turn begins with a prompt, which starts the count anew.        *)
(*                                                                         *)
(* Only the session on display can have an observation pending, because    *)
(* whatever leaves a session drops it; so a change of history, which drops *)
(* that session's observation only, leaves none of an older history.       *)
(*                                                                         *)
(* A follow-up stays queued until its turn is over, and whoever continues  *)
(* the turn first looks at the queue.                                      *)
(*                                                                         *)
(* A timer exists only while a compaction is scheduled that the turn has   *)
(* not had yet; none is scheduled while one is in flight, and one that     *)
(* runs is in flight.                                                      *)
(*                                                                         *)
(* The failure a fork was asked for is still the latest attempt as long as *)
(* no turn has begun, because nothing ran when the command was given and   *)
(* the session is not left while a dialog is open.                         *)
(*                                                                         *)
(* The account of the agents adds up because an agent has requests in the  *)
(* others' row only when there is no room for more rows, and rows never    *)
(* go: one that is made later misses nothing.  Its sums are the sizes of   *)
(* sets (Units), so that a change of one number changes the sum by what    *)
(* the cardinalities of disjoint sets say, without an induction; the loop  *)
(* of bindAgentSession is followed by a least counterexample (LoopRuns).   *)
(***************************************************************************)
EXTENDS IdleSession, RecoveryFork, AgentAttribution, WellFoundedInduction,
        FiniteSetTheorems, SequenceTheorems, TLAPS

SentIsAttempted ==
    \A s \in HostSessions :
        /\ seen.sent[s] \in {0, 1}
        /\ (seen.sent[s] = 1 /\ s \notin stalled.attempted) =>
              /\ s \notin stalled.pending
              /\ host.session = s => host.phase = "idle" /\ ~ host.followUp

PendingIsCurrent ==
    \A s \in stalled.pending : s = host.session /\ seen.stall[s] = seen.history

FollowUpHoldsTheTurn ==
    /\ seen.continued \in {0, 1}
    /\ host.phase = "settled" /\ ~ host.followUp => seen.continued = 0

TimerIsScheduled ==
    /\ timer # NoTimer => compaction.scheduled /\ seen.compacted = 0
    /\ compaction.scheduled => ~ compaction.inFlight
    /\ work # NoWork => compaction.inFlight
    /\ seen.compacted \in {0, 1}

IdleInv ==
    /\ IdleTypeOK
    /\ SentIsAttempted
    /\ PendingIsCurrent
    /\ ~ seen.stale
    /\ FollowUpHoldsTheTurn
    /\ TimerIsScheduled

-----------------------------------------------------------------------------
\* planCompactBeforeContextSkip's target is a member of the route, the first
\* of those a compaction would bring back, or there is none.
LEMMA TargetIsFirst ==
    ASSUME NEW tokens
    PROVE  /\ Target(tokens) \in 0 .. Len(Members)
           /\ Target(tokens) # NoTarget =>
                 /\ Target(tokens) \in Recoverable(tokens)
                 /\ \A j \in Recoverable(tokens) : Target(tokens) <= j
<1> DEFINE R == Recoverable(tokens)
<1>1. R \subseteq 1 .. Len(Members) /\ Len(Members) \in Nat
  BY CompactAssumption DEF Recoverable
<1>2. CASE R = {}
  BY <1>1, <1>2 DEF Target, NoTarget
<1>3. CASE R # {}
  <2>1. R \subseteq Nat
    BY <1>1
  <2> DEFINE Below == {p \in Nat \X Nat : p[1] < p[2]}
  <2>a. IsWellFoundedOn(Below, Nat)
    BY NatLessThanWellFounded DEF OpToRel
  <2>2. PICK i \in R : \A j \in R : <<j, i>> \notin Below
    <3> HIDE DEF Below
    <3>1. QED
      BY <1>3, <2>1, <2>a, WFMin
  <2>3. \A j \in R : i <= j
    <3> TAKE j \in R
    <3>1. i \in Nat /\ j \in Nat /\ <<j, i>> \in Nat \X Nat
      BY <2>1
    <3>2. ~ (j < i)
      BY <2>2, <3>1
    <3>3. QED
      BY <3>1, <3>2
  <2>4. Target(tokens) = CHOOSE k \in R : \A j \in R : k <= j
    BY <1>3 DEF Target
  <2>5. Target(tokens) \in R /\ \A j \in R : Target(tokens) <= j
    BY <2>3, <2>4
  <2>6. QED
    BY <1>1, <2>5
<1>4. QED
  BY <1>2, <1>3

-----------------------------------------------------------------------------
\* What the operators of the two components make of their states is again
\* such a state.
LEMMA CoordinatorOperations ==
    ASSUME NEW c \in Coordinator, NEW s \in HostSessions
    PROVE  /\ \A marked \in BOOLEAN : onPrompt(c, s, marked) \in Coordinator
           /\ onHistoryChanged(c) \in Coordinator
           /\ onSessionInterrupt(c, s) \in Coordinator
           /\ onSessionEnd(c, s) \in Coordinator
           /\ continuePending(c, s) \in Coordinator
           /\ onAgentEnd(c, s) \in Coordinator
           /\ Fresh \in Coordinator
BY DEF Coordinator, onPrompt, onHistoryChanged, onSessionInterrupt, onSessionEnd,
       continuePending, onAgentEnd, Fresh

LEMMA SchedulerOperations ==
    ASSUME NEW c \in Scheduler
    PROVE  /\ schedule(c) \in Scheduler
           /\ giveUp(c) \in Scheduler
           /\ \A first \in BOOLEAN : runFails(c, first) \in Scheduler
           /\ compactStarts(c) \in Scheduler
           /\ Unscheduled \in Scheduler
           /\ schedule(Unscheduled) \in Scheduler
BY DEF Scheduler, schedule, giveUp, runFails, compactStarts, Unscheduled, NoAttempt, NoTarget

LEMMA CompactEndsScheduler ==
    ASSUME NEW c \in Scheduler, NEW plan \in Works, NEW after \in Nat
    PROVE  compactEnds(c, plan, after) \in Scheduler
<1>1. plan.route \in Nat /\ plan.window \in Nat
  BY CompactAssumption, IdleAssumption DEF Works, NoTarget
<1>2. QED
  BY <1>1 DEF Scheduler, compactEnds

\* The components' types, as the proofs use them.
LEMMA Fields ==
    ASSUME IdleTypeOK
    PROVE  /\ host.session \in HostSessions /\ host.tokens \in 0 .. MaxTokens
           /\ host.human \in BOOLEAN /\ host.followUp \in BOOLEAN
           /\ spent.prompts \in 0 .. MaxPrompts /\ spent.moves \in 0 .. MaxHostMoves
           /\ seen.sent \in [HostSessions -> Nat] /\ seen.stall \in [HostSessions -> Nat]
           /\ seen.history \in Nat /\ seen.continued \in Nat /\ seen.compacted \in Nat
           /\ seen.stale \in BOOLEAN
BY DEF IdleTypeOK, Hosts, Spendings, Histories

\* A follow-up is counted for a session.
LEMMA CountsSent ==
    ASSUME NEW h \in Histories, NEW s \in HostSessions, NEW n \in Nat
    PROVE  [h EXCEPT !.sent[s] = @ + n] \in Histories
<1>1. h.sent \in [HostSessions -> Nat]
  BY DEF Histories
<1>2. [h.sent EXCEPT ![s] = @ + n] \in [HostSessions -> Nat]
  BY <1>1
<1>3. [h EXCEPT !.sent = [h.sent EXCEPT ![s] = @ + n]] \in Histories
  BY <1>2 DEF Histories
<1>4. QED
  BY <1>3, <1>1

LEMMA MoveSpends ==
    ASSUME IdleTypeOK, Move
    PROVE  spent' \in Spendings
<1>1. spent.moves + 1 \in 0 .. MaxHostMoves
  BY Fields, IdleAssumption DEF Move
<1>2. QED
  BY <1>1 DEF Move, IdleTypeOK, Spendings

\* Every step keeps the types.
LEMMA TypeStep ==
    ASSUME IdleTypeOK, IdleNext
    PROVE  IdleTypeOK'
<1> USE DEF Rest1, Rest2
<1>0. /\ host \in Hosts /\ stalled \in Coordinator /\ compaction \in Scheduler
      /\ timer \in NoTimer .. IdleRetries /\ work \in Works
      /\ spent \in Spendings /\ seen \in Histories
  BY DEF IdleTypeOK
<1>1. ASSUME NEW m \in BOOLEAN, NEW a \in BOOLEAN,
             OnBeforeAgentStart(m, a)
      PROVE  IdleTypeOK'
  <2>1. host' \in Hosts
    BY <1>0, <1>1 DEF OnBeforeAgentStart, Hosts
  <2>2. spent' \in Spendings
    <3>1. CASE m \/ host.human
      BY <1>0, <1>1, <3>1 DEF OnBeforeAgentStart
    <3>2. CASE ~ (m \/ host.human)
      <4>1. spent.prompts + 1 \in 0 .. MaxPrompts
        BY <1>1, <3>2, Fields, IdleAssumption DEF OnBeforeAgentStart
      <4>2. spent' = [spent EXCEPT !.prompts = @ + 1]
        BY <1>1, <3>2 DEF OnBeforeAgentStart
      <4>3. QED
        BY <1>0, <4>1, <4>2 DEF Spendings
    <3>3. QED
      BY <3>1, <3>2
  <2>3. stalled' \in Coordinator
    BY <1>0, <1>1, Fields, CoordinatorOperations DEF OnBeforeAgentStart
  <2>4. seen' \in Histories
    BY <1>0, <1>1, Fields DEF OnBeforeAgentStart, Histories
  <2>5. QED
    BY <1>1, <2>1, <2>2, <2>3, <2>4 DEF IdleTypeOK, OnBeforeAgentStart
<1>2. ASSUME NEW t \in Turn, NEW ok \in BOOLEAN, NEW g \in Growth,
             OnAgentEnd(t, ok, g)
      PROVE  IdleTypeOK'
  <2> DEFINE s == host.session
             observed == OneShotApplies /\ observesStall(mode.stalled, stalled, s, t, Free)
             follows == observed /\ mode.stalled = "auto"
             stall == IF observed /\ s \notin stalled.pending
                      THEN [seen.stall EXCEPT ![s] = seen.history] ELSE seen.stall
  <2> HIDE DEF observed
  <2>1. host' \in Hosts
    <3>1. host.tokens + g \in 0 .. MaxTokens
      BY <1>2, Fields, IdleAssumption DEF OnAgentEnd
    <3>2. host' = [host EXCEPT !.phase = "settled", !.tokens = @ + g,
                               !.followUp = @ \/ (follows /\ ok)]
      BY <1>2 DEF OnAgentEnd, observed
    <3>3. QED
      BY <1>0, <3>1, <3>2 DEF Hosts
  <2>2. stalled' \in Coordinator
    BY <1>0, <1>2, Fields, CoordinatorOperations DEF OnAgentEnd
  <2>3. compaction' \in Scheduler /\ timer' \in NoTimer .. IdleRetries
    BY <1>0, <1>2, SchedulerOperations, CompactAssumption DEF OnAgentEnd, Scheduling, NoTimer
  <2>4. seen' \in Histories
    <3>1. stall \in [HostSessions -> Nat]
      BY Fields
    <3>2. [seen.sent EXCEPT ![s] = @ + IF follows /\ ok THEN 1 ELSE 0] \in [HostSessions -> Nat]
      BY Fields
    <3>3. seen' = [seen EXCEPT !.stall = stall,
                            !.sent[s] = @ + IF follows /\ ok THEN 1 ELSE 0,
                            !.stale = @ \/ (follows /\ stall[s] # seen.history),
                            !.continued = IF follows /\ ok THEN 1 ELSE 0,
                            !.compacted = 0]
      BY <1>2 DEF OnAgentEnd, observed
    <3> DEFINE counted == [seen EXCEPT !.sent[s] = @ + IF follows /\ ok THEN 1 ELSE 0]
    <3>4. counted \in Histories
      BY <1>0, Fields, CountsSent
    <3>5. seen' = [counted EXCEPT !.stall = stall,
                            !.stale = seen.stale \/ (follows /\ stall[s] # seen.history),
                            !.continued = IF follows /\ ok THEN 1 ELSE 0,
                            !.compacted = 0]
      BY <1>0, <3>3 DEF Histories
    <3>6. QED
      <4> HIDE DEF counted, stall, follows
      <4>1. QED
        BY <3>1, <3>4, <3>5, Fields DEF Histories
  <2>5. QED
    BY <1>2, <2>1, <2>2, <2>3, <2>4 DEF IdleTypeOK, OnAgentEnd
<1>3. ASSUME NEW c \in BOOLEAN,
             OnSessionStop(c)
      PROVE  IdleTypeOK'
  <2>1. host' \in Hosts
    BY <1>0, <1>3 DEF OnSessionStop, Hosts
  <2>2. spent' \in Spendings
    BY <1>0, <1>3, MoveSpends DEF OnSessionStop
  <2>3. seen' \in Histories
    BY <1>0, <1>3, Fields DEF OnSessionStop, Histories
  <2>4. QED
    BY <1>3, <2>1, <2>2, <2>3 DEF IdleTypeOK, OnSessionStop
<1>4. CASE StalledContinue
  BY <1>4, Fields DEF IdleTypeOK, StalledContinue
<1>5. ASSUME NEW ok \in BOOLEAN,
             Confirm(ok)
      PROVE  IdleTypeOK'
  <2>1. CASE UNCHANGED <<stalled, host, seen>>
    BY <1>5, <2>1 DEF IdleTypeOK, Confirm
  <2>2. CASE /\ host.session = dialog
             /\ Sent(stalled, dialog, ok)
             /\ seen' = [seen EXCEPT !.sent[dialog] = @ + IF ok THEN 1 ELSE 0,
                                    !.stale = @ \/ seen.stall[dialog] # seen.history]
    <3>1. host' \in Hosts
      BY <1>0, <2>2, Fields DEF Sent, Hosts
    <3>2. stalled' \in Coordinator
      BY <1>0, <2>2, Fields, CoordinatorOperations DEF Sent
    <3>3. seen' \in Histories
      <4> DEFINE counted == [seen EXCEPT !.sent[dialog] = @ + IF ok THEN 1 ELSE 0]
      <4>1. counted \in Histories
        BY <1>0, <2>2, Fields, CountsSent
      <4>2. seen' = [counted EXCEPT !.stale = seen.stale \/ seen.stall[dialog] # seen.history]
        BY <1>0, <2>2 DEF Histories
      <4> HIDE DEF counted
      <4>3. QED
        BY <4>1, <4>2, Fields DEF Histories
    <3>4. QED
      BY <1>5, <3>1, <3>2, <3>3 DEF IdleTypeOK, Confirm
  <2>3. QED
    BY <1>5, <2>1, <2>2 DEF Confirm
<1>6. CASE Decline
  BY <1>6 DEF IdleTypeOK, Decline
<1>7. CASE Retry
  <2>1. timer' \in NoTimer .. IdleRetries
    BY <1>0, <1>7, CompactAssumption DEF Retry, NoTimer
  <2>2. compaction' \in Scheduler
    BY <1>0, <1>7, SchedulerOperations DEF Retry
  <2>3. QED
    BY <1>7, <2>1, <2>2 DEF IdleTypeOK, Retry
<1>8. ASSUME NEW r \in BOOLEAN, NEW u \in BOOLEAN,
             Compact(r, u)
      PROVE  IdleTypeOK'
  <2>1. compaction' \in Scheduler
    BY <1>0, <1>8, SchedulerOperations DEF Compact
  <2>2. work' \in Works
    <3>1. CASE UNCHANGED work
      BY <1>0, <3>1
    <3>2. ASSUME NEW route \in 0 .. Len(Members), NEW window \in {NoTarget, Window},
                 work' = [route |-> route, window |-> window, first |-> timer = 0]
          PROVE  work' \in Works
      <4>1. (timer = 0) \in BOOLEAN
        OBVIOUS
      <4> DEFINE b == timer = 0
      <4> HIDE DEF b
      <4>2. [route |-> route, window |-> window, first |-> b] \in Works
        BY <4>1 DEF Works, b
      <4>3. QED
        BY <3>2, <4>2 DEF b
    <3>3. Target(host.tokens) \in 0 .. Len(Members) /\ NoTarget \in 0 .. Len(Members)
      BY <1>0, TargetIsFirst, CompactAssumption DEF NoTarget
    <3>4. \/ UNCHANGED work
          \/ \E route \in 0 .. Len(Members), window \in {NoTarget, Window} :
                work' = [route |-> route, window |-> window, first |-> timer = 0]
      BY <1>8, <3>3 DEF Compact
    <3>5. QED
      BY <3>1, <3>2, <3>4
  <2>3. seen' \in Histories
    BY <1>0, <1>8, Fields DEF Compact, Histories
  <2>4. timer' \in NoTimer .. IdleRetries
    BY <1>8, CompactAssumption DEF Compact, NoTimer
  <2>5. QED
    BY <1>8, <2>1, <2>2, <2>3, <2>4 DEF IdleTypeOK, Compact
<1>9. CASE TimerThrows
  <2>1. compaction' \in Scheduler
    BY <1>0, <1>9, SchedulerOperations DEF TimerThrows
  <2>2. seen' \in Histories
    BY <1>0, <1>9, Fields DEF TimerThrows, Histories
  <2>3. spent' \in Spendings
    BY <1>9, MoveSpends DEF TimerThrows
  <2>4. timer' \in NoTimer .. IdleRetries
    BY <1>9, CompactAssumption DEF TimerThrows, NoTimer
  <2>5. QED
    BY <1>9, <2>1, <2>2, <2>3, <2>4 DEF IdleTypeOK, TimerThrows
<1>10. ASSUME NEW d \in BOOLEAN, NEW n \in 0 .. MaxTokens, NEW r \in BOOLEAN,
             CompactEnds(d, n, r)
      PROVE  IdleTypeOK'
  <2>1. host' \in Hosts
    BY <1>0, <1>10 DEF CompactEnds, Hosts
  <2>2. compaction' \in Scheduler
    <3>1. compactEnds(compaction, work, n) \in Scheduler
      BY <1>0, CompactEndsScheduler, IdleAssumption
    <3>2. work.first \in BOOLEAN
      BY <1>0 DEF Works
    <3>3. runFails(compaction, work.first) \in Scheduler
      BY <1>0, <3>2, SchedulerOperations
    <3>4. QED
      BY <1>10, <3>1, <3>3 DEF CompactEnds
  <2>3. work' \in Works
    BY <1>10, CompactAssumption DEF CompactEnds, Works, NoWork, NoTarget
  <2>4. stalled' \in Coordinator
    BY <1>0, <1>10, Fields, CoordinatorOperations DEF CompactEnds
  <2>5. seen' \in Histories
    BY <1>0, <1>10, Fields DEF CompactEnds, Histories
  <2>6. spent' \in Spendings
    BY <1>0, <1>10, MoveSpends DEF CompactEnds
  <2>7. QED
    BY <1>10, <2>1, <2>2, <2>3, <2>4, <2>5, <2>6 DEF IdleTypeOK, CompactEnds
<1>11. ASSUME NEW s \in HostSessions,
             HistoryChanges(s)
      PROVE  IdleTypeOK'
  <2>1. host' \in Hosts
    BY <1>0, <1>11, Fields DEF HistoryChanges, Hosts
  <2>2. spent' \in Spendings
    BY <1>11, MoveSpends DEF HistoryChanges
  <2>3. stalled' \in Coordinator
    BY <1>0, <1>11, CoordinatorOperations DEF HistoryChanges
  <2>4. seen' \in Histories
    BY <1>0, <1>11, Fields DEF HistoryChanges, Histories
  <2>5. QED
    BY <1>11, <2>1, <2>2, <2>3, <2>4 DEF IdleTypeOK, HistoryChanges
<1>12. CASE UserQueues
  <2>1. host' \in Hosts
    BY <1>0, <1>12 DEF UserQueues, Hosts
  <2>2. spent.prompts + 1 \in 0 .. MaxPrompts
    BY <1>12, Fields, IdleAssumption DEF UserQueues
  <2>3. spent' \in Spendings
    BY <1>0, <1>12, <2>2 DEF UserQueues, Spendings
  <2>4. QED
    BY <1>12, <2>1, <2>3 DEF IdleTypeOK, UserQueues
<1>13. CASE JobChanges
  <2>1. host' \in Hosts
    BY <1>0, <1>13 DEF JobChanges, Hosts
  <2>2. QED
    BY <1>13, <2>1, MoveSpends DEF IdleTypeOK, JobChanges
<1>14. CASE PlanChanges
  <2>1. host' \in Hosts
    BY <1>0, <1>14 DEF PlanChanges, Hosts
  <2>2. QED
    BY <1>14, <2>1, MoveSpends DEF IdleTypeOK, PlanChanges
<1>15. ASSUME NEW s \in HostSessions, NEW e \in BOOLEAN, NEW a \in BOOLEAN,
             Restart(s, e, a)
      PROVE  IdleTypeOK'
  <2>1. host' \in Hosts
    BY <1>0, <1>15 DEF Restart, Hosts
  <2>2. spent' \in Spendings
    BY <1>15, MoveSpends DEF Restart
  <2>3. stalled' \in Coordinator
    BY <1>0, <1>15, Fields, CoordinatorOperations DEF Restart
  <2>4. compaction' \in Scheduler
    BY <1>0, <1>15, SchedulerOperations DEF Restart
  <2>5. timer' \in NoTimer .. IdleRetries
    BY <1>15, CompactAssumption DEF Restart, NoTimer
  <2>6. work' \in Works
    BY <1>15, CompactAssumption DEF Restart, Works, NoWork, NoTarget
  <2>7. seen' \in Histories
    BY <1>0, <1>15, Fields DEF Restart, Histories
  <2>8. QED
    BY <1>15, <2>1, <2>2, <2>3, <2>4, <2>5, <2>6, <2>7 DEF IdleTypeOK, Restart
<1>16. QED
  BY <1>1, <1>2, <1>3, <1>4, <1>5, <1>6, <1>7, <1>8, <1>9, <1>10, <1>11, <1>12, <1>13, <1>14, <1>15 DEF IdleNext

-----------------------------------------------------------------------------
\* A step that leaves the coordinator, the session shown and the history alone.
Aside == UNCHANGED <<stalled, host.session, seen.stall, seen.history, seen.stale>>

\* Observations are of the session shown and of its history as it is, and a
\* follow-up is only sent for one of those.
LEMMA PendingStep ==
    ASSUME IdleTypeOK, PendingIsCurrent, ~ seen.stale, IdleNext
    PROVE  PendingIsCurrent' /\ ~ seen.stale'
<1> USE DEF PendingIsCurrent
<1>0. /\ host \in Hosts /\ seen \in Histories /\ stalled \in Coordinator
  BY DEF IdleTypeOK
<1>1. ASSUME Aside
      PROVE  PendingIsCurrent' /\ ~ seen.stale'
  BY <1>1 DEF Aside
<1>2. ASSUME NEW m \in BOOLEAN, NEW a \in BOOLEAN, OnBeforeAgentStart(m, a)
      PROVE  PendingIsCurrent' /\ ~ seen.stale'
  <2>1. stalled'.pending \subseteq stalled.pending
    BY <1>2 DEF OnBeforeAgentStart, onPrompt
  <2>2. UNCHANGED <<host.session, seen.stall, seen.history, seen.stale>>
    BY <1>0, <1>2 DEF OnBeforeAgentStart, Hosts, Histories
  <2>3. QED
    BY <2>1, <2>2
<1>3. ASSUME NEW t \in Turn, NEW ok \in BOOLEAN, NEW g \in Growth, OnAgentEnd(t, ok, g)
      PROVE  PendingIsCurrent' /\ ~ seen.stale'
  <2> DEFINE s == host.session
             observed == OneShotApplies /\ observesStall(mode.stalled, stalled, s, t, Free)
             follows == observed /\ mode.stalled = "auto"
             stall == IF observed /\ s \notin stalled.pending
                      THEN [seen.stall EXCEPT ![s] = seen.history] ELSE seen.stall
  <2>1. /\ seen'.stall = stall
        /\ seen'.history = seen.history
        /\ seen'.stale = (seen.stale \/ (follows /\ stall[s] # seen.history))
    BY <1>0, <1>3 DEF OnAgentEnd, Histories
  <2>2. host'.session = s
    BY <1>0, <1>3 DEF OnAgentEnd, Hosts
  <2>3. stalled' = IF follows THEN continuePending(onAgentEnd(stalled, s), s)
                   ELSE IF observed THEN onAgentEnd(stalled, s) ELSE stalled
    BY <1>3 DEF OnAgentEnd
  <2> HIDE DEF observed
  <2>4. stalled'.pending \subseteq stalled.pending \cup {s}
    BY <1>0, <2>3 DEF continuePending, onAgentEnd, Coordinator
  <2>5. ~ observed => stalled' = stalled
    BY <2>3
  <2>6. stall \in [HostSessions -> Nat]
    BY Fields
  <2>7. observed \/ s \in stalled.pending => stall[s] = seen.history
    BY Fields
  <2>8. \A q \in stalled.pending : q = s /\ stall[q] = seen.history
    BY <2>7
  <2>9. PendingIsCurrent'
    BY <2>1, <2>2, <2>4, <2>5, <2>7, <2>8
  <2>10. QED
    BY <2>1, <2>7, <2>9
<1>4. ASSUME NEW c \in BOOLEAN, OnSessionStop(c)
      PROVE  Aside
  BY <1>0, <1>4 DEF OnSessionStop, Rest2, Aside, Hosts, Histories
<1>5. ASSUME NEW ok \in BOOLEAN, Confirm(ok)
      PROVE  PendingIsCurrent' /\ ~ seen.stale'
  <2>1. CASE UNCHANGED <<stalled, host, seen>>
    BY <2>1
  <2>2. CASE /\ host.session = dialog
             /\ dialog \in stalled.pending
             /\ Sent(stalled, dialog, ok)
             /\ seen' = [seen EXCEPT !.sent[dialog] = @ + IF ok THEN 1 ELSE 0,
                                    !.stale = @ \/ seen.stall[dialog] # seen.history]
    <3>1. stalled'.pending \subseteq stalled.pending
      BY <2>2 DEF Sent, continuePending
    <3>2. host'.session = host.session
      BY <1>0, <2>2 DEF Sent, Hosts
    <3>3. UNCHANGED <<seen.stall, seen.history, seen.stale>>
      BY <1>0, <2>2 DEF Histories
    <3>4. QED
      BY <3>1, <3>2, <3>3
  <2>3. QED
    BY <1>5, <2>1, <2>2 DEF Confirm, mayContinue
<1>6. CASE StalledContinue \/ Decline \/ Retry
  BY <1>6 DEF StalledContinue, Decline, Retry, Rest2, Aside
<1>7. ASSUME NEW r \in BOOLEAN, NEW u \in BOOLEAN, Compact(r, u)
      PROVE  Aside
  BY <1>0, <1>7 DEF Compact, Rest2, Aside, Histories
<1>8. CASE TimerThrows
  BY <1>0, <1>1, <1>8 DEF TimerThrows, Rest2, Aside, Histories
<1>9. ASSUME NEW d \in BOOLEAN, NEW n \in 0 .. MaxTokens, NEW r \in BOOLEAN, CompactEnds(d, n, r)
      PROVE  PendingIsCurrent' /\ ~ seen.stale'
  <2>1. host'.session = host.session
    BY <1>0, <1>9 DEF CompactEnds, Hosts
  <2>2. UNCHANGED <<seen.stall, seen.stale>>
    BY <1>0, <1>9 DEF CompactEnds, Histories
  <2>3. CASE d
    <3>1. stalled'.pending = {}
      BY <1>0, <1>9, <2>3 DEF CompactEnds, onSessionInterrupt, Coordinator
    <3>2. QED
      BY <2>2, <3>1
  <2>4. CASE ~ d
    BY <1>9, <2>1, <2>4 DEF CompactEnds
  <2>5. QED
    BY <2>3, <2>4
<1>10. ASSUME NEW s \in HostSessions, HistoryChanges(s)
       PROVE  PendingIsCurrent' /\ ~ seen.stale'
  BY <1>0, <1>10 DEF HistoryChanges, onHistoryChanged, Coordinator, Histories
<1>11. CASE UserQueues \/ JobChanges \/ PlanChanges
  BY <1>0, <1>11 DEF UserQueues, JobChanges, PlanChanges, Rest2, Aside, Hosts
<1>12. ASSUME NEW s \in HostSessions, NEW e \in BOOLEAN, NEW a \in BOOLEAN, Restart(s, e, a)
       PROVE  PendingIsCurrent' /\ ~ seen.stale'
  <2>1. stalled'.pending = {}
    BY <1>0, <1>12 DEF Restart, onSessionEnd, Fresh, Coordinator
  <2>2. seen'.stale = seen.stale
    BY <1>0, <1>12 DEF Restart, Histories
  <2>3. QED
    BY <2>1, <2>2
<1>13. QED
  BY <1>1, <1>2, <1>3, <1>4, <1>5, <1>6, <1>7, <1>8, <1>9, <1>10, <1>11, <1>12 DEF IdleNext

-----------------------------------------------------------------------------
\* A second follow-up for a prompt would need a session that is not in
\* `attempted` although one was sent: a session that was shut down, and which
\* begins again with a prompt.
LEMMA SentStep ==
    ASSUME IdleTypeOK, SentIsAttempted, IdleNext
    PROVE  SentIsAttempted'
<1> USE DEF SentIsAttempted
<1>0. /\ host \in Hosts /\ seen \in Histories /\ stalled \in Coordinator
  BY DEF IdleTypeOK
<1>1. ASSUME UNCHANGED <<stalled, seen.sent, host.session, host.followUp>>,
             host'.phase = host.phase \/ (host.phase = "settled" /\ host'.phase = "running")
               \/ host'.phase = "idle"
      PROVE  SentIsAttempted'
  BY <1>1
<1>2. ASSUME NEW m \in BOOLEAN, NEW a \in BOOLEAN, OnBeforeAgentStart(m, a)
      PROVE  SentIsAttempted'
  <2>1. host.phase = "idle" /\ host'.session = host.session
    BY <1>0, <1>2 DEF OnBeforeAgentStart, Idle, Hosts
  <2>2. CASE m
    <3>1. host.followUp /\ UNCHANGED <<stalled, seen>>
      BY <1>2, <2>2 DEF OnBeforeAgentStart, onPrompt
    <3>2. QED
      BY <2>1, <3>1
  <2>3. CASE ~ m
    <3>1. seen'.sent = [seen.sent EXCEPT ![host.session] = 0]
      BY <1>0, <1>2, <2>3 DEF OnBeforeAgentStart, Histories
    <3>2. /\ stalled'.attempted = stalled.attempted \ {host.session}
          /\ stalled'.pending = stalled.pending \ {host.session}
      BY <1>2, <2>3 DEF OnBeforeAgentStart, onPrompt
    <3>3. QED
      BY <2>1, <3>1, <3>2, Fields
  <2>4. QED
    BY <2>2, <2>3
<1>3. ASSUME NEW t \in Turn, NEW ok \in BOOLEAN, NEW g \in Growth, OnAgentEnd(t, ok, g)
      PROVE  SentIsAttempted'
  <2> DEFINE s == host.session
             observed == OneShotApplies /\ observesStall(mode.stalled, stalled, s, t, Free)
             follows == observed /\ mode.stalled = "auto"
  <2>1. host.phase = "running"
    BY <1>3 DEF OnAgentEnd
  <2>2. seen'.sent = [seen.sent EXCEPT ![s] = @ + IF follows /\ ok THEN 1 ELSE 0]
    BY <1>0, <1>3 DEF OnAgentEnd, Histories
  <2>3. stalled' = IF follows THEN continuePending(onAgentEnd(stalled, s), s)
                   ELSE IF observed THEN onAgentEnd(stalled, s) ELSE stalled
    BY <1>3 DEF OnAgentEnd
  <2>4. host'.session = s
    BY <1>0, <1>3 DEF OnAgentEnd, Hosts
  <2>5. follows => seen.sent[s] = 0
    BY <2>1, Fields DEF observesStall
  <2> HIDE DEF observed
  <2>6. /\ stalled'.attempted = IF follows THEN stalled.attempted \cup {s} ELSE stalled.attempted
        /\ stalled'.pending \subseteq stalled.pending \cup {s}
    BY <1>0, <2>3 DEF continuePending, onAgentEnd, Coordinator
  <2>7. ASSUME NEW q \in HostSessions, q # s
        PROVE  /\ seen'.sent[q] \in {0, 1}
               /\ (seen'.sent[q] = 1 /\ q \notin stalled'.attempted) => q \notin stalled'.pending
    BY <2>2, <2>6, <2>7, Fields
  <2>8. /\ seen'.sent[s] \in {0, 1}
        /\ seen'.sent[s] = 1 => s \in stalled'.attempted
    BY <2>1, <2>2, <2>5, <2>6, Fields
  <2>9. QED
    BY <2>4, <2>7, <2>8, Fields
<1>4. ASSUME NEW c \in BOOLEAN, OnSessionStop(c)
      PROVE  SentIsAttempted'
  BY <1>0, <1>1, <1>4 DEF OnSessionStop, Rest2, Hosts, Histories
<1>5. ASSUME NEW ok \in BOOLEAN, Confirm(ok)
      PROVE  SentIsAttempted'
  <2>1. CASE UNCHANGED <<stalled, host, seen>>
    BY <2>1
  <2>2. CASE /\ host.session = dialog
             /\ dialog \in stalled.pending \ stalled.attempted
             /\ Sent(stalled, dialog, ok)
             /\ seen' = [seen EXCEPT !.sent[dialog] = @ + IF ok THEN 1 ELSE 0,
                                    !.stale = @ \/ seen.stall[dialog] # seen.history]
    <3>1. /\ stalled'.attempted = stalled.attempted \cup {dialog}
          /\ stalled'.pending \subseteq stalled.pending
      BY <2>2 DEF Sent, continuePending
    <3>2. host'.session = dialog
      BY <1>0, <2>2 DEF Sent, Hosts
    <3>3. seen'.sent = [seen.sent EXCEPT ![dialog] = @ + IF ok THEN 1 ELSE 0]
      BY <1>0, <2>2 DEF Histories
    <3>4. seen.sent[dialog] = 0
      BY <2>2, Fields
    <3>5. QED
      BY <2>2, <3>1, <3>2, <3>3, <3>4, Fields
  <2>3. QED
    BY <1>5, <2>1, <2>2 DEF Confirm, mayContinue
<1>6. CASE StalledContinue \/ Decline \/ Retry
  BY <1>6 DEF StalledContinue, Decline, Retry, Rest2
<1>7. ASSUME NEW r \in BOOLEAN, NEW u \in BOOLEAN, Compact(r, u)
      PROVE  SentIsAttempted'
  BY <1>0, <1>7 DEF Compact, Rest2, Histories
<1>8. CASE TimerThrows
  BY <1>0, <1>8 DEF TimerThrows, Rest2, Histories
<1>9. ASSUME NEW d \in BOOLEAN, NEW n \in 0 .. MaxTokens, NEW r \in BOOLEAN, CompactEnds(d, n, r)
      PROVE  SentIsAttempted'
  <2>1. UNCHANGED <<host.session, host.followUp, host.phase, seen.sent>>
    BY <1>0, <1>9 DEF CompactEnds, Hosts, Histories
  <2>2. stalled'.attempted = stalled.attempted /\ stalled'.pending \subseteq stalled.pending
    BY <1>0, <1>9 DEF CompactEnds, onSessionInterrupt, Coordinator
  <2>3. QED
    BY <2>1, <2>2
<1>10. ASSUME NEW s \in HostSessions, HistoryChanges(s)
       PROVE  SentIsAttempted'
  <2>1. /\ host.phase = "idle" /\ host'.phase = "idle"
        /\ host'.session = s /\ host'.followUp = (host.followUp /\ s = host.session)
        /\ seen'.sent = seen.sent
    BY <1>0, <1>10 DEF HistoryChanges, Idle, Hosts, Histories
  <2>2. stalled'.attempted = stalled.attempted /\ stalled'.pending = {}
    BY <1>0, <1>10 DEF HistoryChanges, onHistoryChanged, Coordinator
  <2>3. QED
    BY <2>1, <2>2
<1>11. CASE UserQueues \/ JobChanges \/ PlanChanges
  BY <1>0, <1>11 DEF UserQueues, JobChanges, PlanChanges, Rest2, Hosts
<1>12. ASSUME NEW s \in HostSessions, NEW e \in BOOLEAN, NEW a \in BOOLEAN, Restart(s, e, a)
       PROVE  SentIsAttempted'
  <2>1. host'.phase = "idle" /\ ~ host'.followUp /\ seen'.sent = seen.sent
    BY <1>0, <1>12 DEF Restart, Hosts, Histories
  <2>2. \/ stalled'.pending = {}
        \/ /\ stalled'.attempted = stalled.attempted \ {host.session}
           /\ stalled'.pending = stalled.pending \ {host.session}
    BY <1>0, <1>12 DEF Restart, onSessionEnd, Fresh
  <2>3. QED
    BY <2>1, <2>2
<1>13. QED
  BY <1>2, <1>3, <1>4, <1>5, <1>6, <1>7, <1>8, <1>9, <1>10, <1>11, <1>12 DEF IdleNext

-----------------------------------------------------------------------------
\* Whoever continues the turn first looks at the queue, where a follow-up
\* stays until its own turn.
LEMMA FollowUpStep ==
    ASSUME IdleTypeOK, FollowUpHoldsTheTurn, IdleNext
    PROVE  FollowUpHoldsTheTurn'
<1> USE DEF FollowUpHoldsTheTurn
<1>0. host \in Hosts /\ seen \in Histories
  BY DEF IdleTypeOK
<1>1. ASSUME NEW m \in BOOLEAN, NEW a \in BOOLEAN, OnBeforeAgentStart(m, a)
      PROVE  FollowUpHoldsTheTurn'
  BY <1>0, <1>1 DEF OnBeforeAgentStart, Hosts, Histories
<1>2. ASSUME NEW t \in Turn, NEW ok \in BOOLEAN, NEW g \in Growth, OnAgentEnd(t, ok, g)
      PROVE  FollowUpHoldsTheTurn'
  <2> DEFINE follows == /\ OneShotApplies
                        /\ observesStall(mode.stalled, stalled, host.session, t, Free)
                        /\ mode.stalled = "auto"
  <2>1. seen'.continued = IF follows /\ ok THEN 1 ELSE 0
    BY <1>0, <1>2 DEF OnAgentEnd, Histories
  <2>2. host'.followUp = (host.followUp \/ (follows /\ ok))
    BY <1>0, <1>2 DEF OnAgentEnd, Hosts
  <2> HIDE DEF follows
  <2>3. QED
    BY <2>1, <2>2
<1>3. ASSUME NEW c \in BOOLEAN, OnSessionStop(c)
      PROVE  FollowUpHoldsTheTurn'
  <2>1. host.phase = "settled" /\ (c => ~ host.followUp)
    BY <1>3 DEF OnSessionStop, Free, Queued
  <2>2. seen'.continued = seen.continued + IF c THEN 1 ELSE 0
    BY <1>0, <1>3 DEF OnSessionStop, Histories
  <2>3. host'.phase # "settled"
    BY <1>0, <1>3 DEF OnSessionStop, Hosts
  <2>4. QED
    BY <2>1, <2>2, <2>3
<1>4. ASSUME NEW ok \in BOOLEAN, Confirm(ok)
      PROVE  FollowUpHoldsTheTurn'
  <2>1. CASE UNCHANGED <<host, seen>>
    BY <2>1
  <2>2. CASE host.phase = "idle" /\ Sent(stalled, dialog, ok) /\ seen'.continued = seen.continued
    BY <1>0, <2>2 DEF Sent, Hosts
  <2>3. QED
    BY <1>0, <1>4, <2>1, <2>2 DEF Confirm, safeToContinue, Idle, Histories
<1>5. CASE StalledContinue \/ Decline \/ Retry
  BY <1>5 DEF StalledContinue, Decline, Retry
<1>6. ASSUME NEW r \in BOOLEAN, NEW u \in BOOLEAN, Compact(r, u)
      PROVE  FollowUpHoldsTheTurn'
  BY <1>0, <1>6 DEF Compact, Histories
<1>7. CASE TimerThrows
  BY <1>0, <1>7 DEF TimerThrows, Histories
<1>8. ASSUME NEW d \in BOOLEAN, NEW n \in 0 .. MaxTokens, NEW r \in BOOLEAN, CompactEnds(d, n, r)
      PROVE  FollowUpHoldsTheTurn'
  BY <1>0, <1>8 DEF CompactEnds, Hosts, Histories
<1>9. ASSUME NEW s \in HostSessions, HistoryChanges(s)
      PROVE  FollowUpHoldsTheTurn'
  BY <1>0, <1>9 DEF HistoryChanges, Idle, Hosts, Histories
<1>10. CASE UserQueues \/ JobChanges \/ PlanChanges
  BY <1>0, <1>10 DEF UserQueues, JobChanges, PlanChanges, Hosts
<1>11. ASSUME NEW s \in HostSessions, NEW e \in BOOLEAN, NEW a \in BOOLEAN, Restart(s, e, a)
       PROVE  FollowUpHoldsTheTurn'
  BY <1>0, <1>11 DEF Restart, Histories
<1>12. QED
  BY <1>1, <1>2, <1>3, <1>4, <1>5, <1>6, <1>7, <1>8, <1>9, <1>10, <1>11 DEF IdleNext

-----------------------------------------------------------------------------
\* A timer stands for a scheduled compaction the turn has not had yet.
LEMMA TimerStep ==
    ASSUME IdleTypeOK, TimerIsScheduled, IdleNext
    PROVE  TimerIsScheduled'
<1> USE DEF TimerIsScheduled
<1>0. /\ compaction \in Scheduler /\ seen \in Histories /\ timer \in NoTimer .. IdleRetries
      /\ work \in Works
  BY DEF IdleTypeOK
<1>1. ASSUME UNCHANGED <<compaction, timer, work, seen.compacted>>
      PROVE  TimerIsScheduled'
  BY <1>1
<1>2. ASSUME NEW m \in BOOLEAN, NEW a \in BOOLEAN, OnBeforeAgentStart(m, a)
      PROVE  TimerIsScheduled'
  BY <1>0, <1>1, <1>2 DEF OnBeforeAgentStart, Rest1, Histories
<1>3. ASSUME NEW t \in Turn, NEW ok \in BOOLEAN, NEW g \in Growth, OnAgentEnd(t, ok, g)
      PROVE  TimerIsScheduled'
  <2>1. seen'.compacted = 0 /\ work' = work
    BY <1>0, <1>3 DEF OnAgentEnd, Histories
  <2>2. \/ UNCHANGED <<compaction, timer>>
        \/ /\ maySchedule(compaction)
           /\ compaction' = schedule(compaction) /\ timer' = 0
    BY <1>3 DEF OnAgentEnd, Scheduling
  <2>3. QED
    BY <1>0, <2>1, <2>2 DEF maySchedule, schedule, Scheduler
<1>4. ASSUME NEW c \in BOOLEAN, OnSessionStop(c)
      PROVE  TimerIsScheduled'
  BY <1>0, <1>1, <1>4 DEF OnSessionStop, Rest1, Histories
<1>5. ASSUME NEW ok \in BOOLEAN, Confirm(ok)
      PROVE  TimerIsScheduled'
  BY <1>0, <1>1, <1>5 DEF Confirm, Rest1, Histories
<1>6. CASE StalledContinue \/ Decline
  BY <1>6 DEF StalledContinue, Decline, Rest1
<1>7. CASE Retry
  <2>1. compaction.scheduled /\ seen.compacted = 0 /\ UNCHANGED <<seen, work>>
    BY <1>7 DEF Retry
  <2>2. CASE UNCHANGED compaction
    BY <2>1, <2>2
  <2>3. CASE timer' = NoTimer /\ compaction' = giveUp(compaction)
    BY <1>0, <2>1, <2>3 DEF giveUp, Scheduler
  <2>4. QED
    BY <1>7, <2>2, <2>3 DEF Retry
<1>8. ASSUME NEW r \in BOOLEAN, NEW u \in BOOLEAN, Compact(r, u)
      PROVE  TimerIsScheduled'
  <2>1. compaction.scheduled /\ seen.compacted = 0 /\ timer' = NoTimer
    BY <1>8 DEF Compact
  <2>2. \/ compaction' = compactStarts(compaction) /\ seen'.compacted = 1
        \/ compaction' = giveUp(compaction) /\ UNCHANGED <<seen, work>>
    BY <1>0, <1>8, <2>1 DEF Compact, Histories
  <2>3. QED
    BY <1>0, <2>1, <2>2 DEF compactStarts, giveUp, Scheduler
<1>9. CASE TimerThrows
  <2>1. timer' = NoTimer /\ seen'.compacted = seen.compacted /\ work' = work
    BY <1>0, <1>9 DEF TimerThrows, Histories
  <2>2. compaction.scheduled /\ work = NoWork
    BY <1>9 DEF TimerThrows
  <2>3. UNCHANGED compaction \/ compaction' = runFails(compaction, TRUE)
    BY <1>9 DEF TimerThrows, runFails
  <2>4. QED
    BY <1>0, <2>1, <2>2, <2>3 DEF runFails, Scheduler
<1>10. ASSUME NEW d \in BOOLEAN, NEW n \in 0 .. MaxTokens, NEW r \in BOOLEAN, CompactEnds(d, n, r)
       PROVE  TimerIsScheduled'
  <2>1. timer' = timer /\ seen'.compacted = seen.compacted /\ work' = NoWork
    BY <1>0, <1>10 DEF CompactEnds, Histories
  <2>2. ~ compaction.scheduled /\ timer = NoTimer
    BY <1>10 DEF CompactEnds
  <2>3. compaction'.scheduled = FALSE
    <3>1. compactEnds(compaction, work, n).scheduled = FALSE
      BY <1>0, <2>2 DEF compactEnds, Scheduler
    <3>2. runFails(compaction, work.first).scheduled = FALSE
      BY <1>0, <2>2 DEF runFails, Scheduler
    <3>3. QED
      BY <1>10, <3>1, <3>2 DEF CompactEnds
  <2>4. QED
    BY <2>1, <2>2, <2>3
<1>11. ASSUME NEW s \in HostSessions, HistoryChanges(s)
       PROVE  TimerIsScheduled'
  BY <1>0, <1>1, <1>11 DEF HistoryChanges, Rest1, Histories
<1>12. CASE UserQueues \/ JobChanges \/ PlanChanges
  BY <1>12 DEF UserQueues, JobChanges, PlanChanges, Rest1
<1>13. ASSUME NEW s \in HostSessions, NEW e \in BOOLEAN, NEW a \in BOOLEAN, Restart(s, e, a)
       PROVE  TimerIsScheduled'
  <2>1. seen'.compacted = 0 /\ work' = NoWork
    BY <1>0, <1>13 DEF Restart, Histories
  <2>2. \/ timer' = NoTimer /\ compaction' = Unscheduled
        \/ compaction' = schedule(Unscheduled)
    BY <1>13 DEF Restart
  <2>3. QED
    BY <2>1, <2>2 DEF schedule, Unscheduled
<1>14. QED
  BY <1>2, <1>3, <1>4, <1>5, <1>6, <1>7, <1>8, <1>9, <1>10, <1>11, <1>12, <1>13 DEF IdleNext

-----------------------------------------------------------------------------
LEMMA InitIdleInv == IdleInit => IdleInv
<1> SUFFICES ASSUME IdleInit PROVE IdleInv
  OBVIOUS
<1> USE IdleAssumption, CompactAssumption
<1>1. IdleTypeOK
  <2>1. host \in Hosts
    BY DEF IdleInit, Hosts
  <2>2. mode \in SettingPairs
    BY DEF IdleInit
  <2>3. stalled \in Coordinator
    BY DEF IdleInit, Fresh, Coordinator
  <2>4. compaction \in Scheduler
    BY DEF IdleInit, Unscheduled, NoAttempt, NoTarget, Scheduler
  <2>5. timer \in NoTimer .. IdleRetries
    BY DEF IdleInit, NoTimer
  <2>6. work \in Works
    BY DEF IdleInit, Works, NoWork, NoTarget
  <2>7. spent \in Spendings
    BY DEF IdleInit, Spendings
  <2>8. seen \in Histories
    BY DEF IdleInit, Histories
  <2>9. QED
    BY <2>1, <2>2, <2>3, <2>4, <2>5, <2>6, <2>7, <2>8 DEF IdleInit, IdleTypeOK
<1>2. SentIsAttempted /\ PendingIsCurrent /\ ~ seen.stale
  BY DEF IdleInit, SentIsAttempted, PendingIsCurrent, Fresh
<1>3. FollowUpHoldsTheTurn /\ TimerIsScheduled
  BY DEF IdleInit, FollowUpHoldsTheTurn, TimerIsScheduled, Unscheduled
<1>4. QED
  BY <1>1, <1>2, <1>3 DEF IdleInv

LEMMA NextIdleInv == IdleInv /\ [IdleNext]_idleVars => IdleInv'
<1> SUFFICES ASSUME IdleInv, [IdleNext]_idleVars PROVE IdleInv'
  OBVIOUS
<1>1. CASE IdleNext
  BY <1>1, TypeStep, PendingStep, SentStep, FollowUpStep, TimerStep DEF IdleInv
<1>2. CASE UNCHANGED idleVars
  BY <1>2 DEF idleVars, IdleInv, IdleTypeOK, SentIsAttempted, PendingIsCurrent, FollowUpHoldsTheTurn,
              TimerIsScheduled
<1>3. QED
  BY <1>1, <1>2

\* The inductive invariant holds throughout.
THEOREM IdleInvariant == IdleSpec => []IdleInv
BY InitIdleInv, NextIdleInv, PTL DEF IdleSpec

\* The handlers of an idle session keep the types of everything they share, for
\* every route profile, every threshold and any number of sessions.
THEOREM IdleTypes == IdleSpec => []IdleTypeOK
<1>1. IdleInv => IdleTypeOK
  BY DEF IdleInv
<1>2. QED
  BY <1>1, IdleInvariant, PTL

\* For any number of sessions, prompts and moves, at most one follow-up is
\* queued between two prompts of the operator.
THEOREM FollowUpOncePerPrompt == IdleSpec => []OneFollowUpPerPrompt
<1>1. ASSUME IdleInv, NEW s \in HostSessions
      PROVE  seen.sent[s] <= 1
  <2>1. seen.sent[s] \in {0, 1}
    BY <1>1 DEF IdleInv, SentIsAttempted
  <2>2. QED
    BY <2>1
<1>2. IdleInv => OneFollowUpPerPrompt
  BY <1>1 DEF OneFollowUpPerPrompt
<1>3. QED
  BY <1>2, IdleInvariant, PTL

\* No follow-up is ever queued on a history other than the one its stall was
\* seen on.
THEOREM FollowUpOnItsHistory == IdleSpec => []FollowUpMatchesHistory
<1>1. IdleInv => FollowUpMatchesHistory
  BY DEF IdleInv, FollowUpMatchesHistory
<1>2. QED
  BY <1>1, IdleInvariant, PTL

\* The one-shot follow-up and the recovery of a plan never both continue a
\* settlement.
THEOREM ContinuedOnce == IdleSpec => []OneContinuation
<1>1. IdleInv => OneContinuation
  BY DEF IdleInv, FollowUpHoldsTheTurn, OneContinuation
<1>2. QED
  BY <1>1, IdleInvariant, PTL

\* A turn is followed by one compaction at most, and two never run at a time,
\* whatever the thresholds, retries and token counts.
THEOREM CompactedOnce == IdleSpec => []OneCompactionPerTurn
<1>1. IdleInv => OneCompactionPerTurn
  BY DEF IdleInv, TimerIsScheduled, OneCompactionPerTurn
<1>2. QED
  BY <1>1, IdleInvariant, PTL

-----------------------------------------------------------------------------
(* The operator's fork.                                                    *)

\* The session on display and the dialog that is open.
Dialogs ==
    /\ omp \in [branch : Branches, running : BOOLEAN, queued : BOOLEAN, jobs : BOOLEAN]
    /\ asking \in [at : {"none", "input", "confirm", "create"}, turns : Nat]
    /\ used \in [turns : Nat, traces : Nat, moves : Nat]

\* As long as no turn has begun since the command was given, none runs and the
\* failure it was given for is still the latest attempt.
StillFailed ==
    asking.at # "none" =>
        /\ asking.turns <= used.turns
        /\ asking.turns = used.turns => ~ omp.running /\ mayFork(traces[omp.branch])

ForkInv == Dialogs /\ StillFailed /\ ForkIsGrounded

\* No command runs in the initial states.
LEMMA ForkInitInv == ForkInit => ForkInv
<1> SUFFICES ASSUME ForkInit PROVE ForkInv
  OBVIOUS
<1>1. Dialogs
  BY DEF ForkInit, Dialogs, Silent
<1>2. StillFailed /\ ForkIsGrounded
  BY DEF ForkInit, StillFailed, ForkIsGrounded, Silent
<1>3. QED
  BY <1>1, <1>2 DEF ForkInv

\* The command's steps.
LEMMA CommandKeepsInv ==
    ASSUME ForkInv,
           \/ Recover
           \/ \E given \in BOOLEAN : Input(given)
           \/ \E yes \in BOOLEAN : ConfirmFork(yes)
           \/ \E s \in Branches, cancelled \in BOOLEAN : NewSession(s, cancelled)
    PROVE  ForkInv'
<1> USE DEF ForkInv, Dialogs
<1>0. UNCHANGED <<traces, used>>
  BY DEF Recover, Input, ConfirmFork, NewSession
<1>1. /\ Silent \in [at : {"none", "input", "confirm", "create"}, turns : Nat]
      /\ Silent.at = "none"
  BY DEF Silent
<1>2. \A at \in {"confirm", "create"} :
        /\ [asking EXCEPT !.at = at]
             \in [at : {"none", "input", "confirm", "create"}, turns : Nat]
        /\ [asking EXCEPT !.at = at].turns = asking.turns
  OBVIOUS
<1>3. CASE Recover
  <2>1. asking' = [at |-> "input", turns |-> used.turns] /\ UNCHANGED <<omp, forks>>
    BY <1>3 DEF Recover
  <2>2. mayFork(traces[omp.branch]) /\ ~ omp.running
    BY <1>3 DEF Recover, latestPifrostRouteTrace, safeToFork
  <2>3. StillFailed'
    BY <1>0, <2>1, <2>2 DEF StillFailed
  <2>4. QED
    BY <1>0, <2>1, <2>3 DEF ForkIsGrounded
<1>4. ASSUME NEW given \in BOOLEAN, Input(given)
      PROVE  ForkInv'
  <2>1. UNCHANGED <<omp, forks>> /\ asking.at = "input"
    BY <1>4 DEF Input
  <2>2. asking' = Silent \/ asking' = [asking EXCEPT !.at = "confirm"]
    BY <1>4 DEF Input, Closes
  <2>3. QED
    BY <1>0, <1>1, <1>2, <2>1, <2>2 DEF StillFailed, ForkIsGrounded
<1>5. ASSUME NEW yes \in BOOLEAN, ConfirmFork(yes)
      PROVE  ForkInv'
  <2>1. UNCHANGED omp /\ asking.at = "confirm"
    BY <1>5 DEF ConfirmFork
  <2>2. CASE yes /\ safeToFork
    <3>1. /\ asking' = [asking EXCEPT !.at = "create"]
          /\ forks' = forks \cup {[latest |-> traces[omp.branch],
                                   begun |-> used.turns - asking.turns]}
      BY <1>5, <2>2 DEF ConfirmFork
    <3>2. used.turns - asking.turns = 0 => mayFork(traces[omp.branch])
      BY <2>1 DEF StillFailed
    <3>3. ForkIsGrounded'
      BY <3>1, <3>2 DEF ForkIsGrounded
    <3>4. StillFailed'
      <4>1. asking'.turns = asking.turns
        BY <1>2, <3>1
      <4>2. QED
        BY <1>0, <2>1, <4>1 DEF StillFailed
    <3>5. QED
      BY <1>0, <1>2, <2>1, <3>1, <3>3, <3>4
  <2>3. CASE ~ (yes /\ safeToFork)
    <3>1. asking' = Silent /\ forks' = forks
      BY <1>5, <2>3 DEF ConfirmFork, Closes
    <3>2. QED
      BY <1>0, <1>1, <2>1, <3>1 DEF StillFailed, ForkIsGrounded
  <2>4. QED
    BY <2>2, <2>3
<1>6. ASSUME NEW s \in Branches, NEW cancelled \in BOOLEAN, NewSession(s, cancelled)
      PROVE  ForkInv'
  <2>1. asking' = Silent /\ UNCHANGED forks
    BY <1>6 DEF NewSession, Closes
  <2>2. \/ omp' = omp
        \/ omp' = [branch |-> s, running |-> TRUE, queued |-> FALSE, jobs |-> FALSE]
    BY <1>6 DEF NewSession
  <2>3. omp' \in [branch : Branches, running : BOOLEAN, queued : BOOLEAN, jobs : BOOLEAN]
    <3>1. CASE omp' = omp
      BY <3>1
    <3>2. CASE omp' = [branch |-> s, running |-> TRUE, queued |-> FALSE, jobs |-> FALSE]
      BY <3>2
    <3>3. QED
      BY <2>2, <3>1, <3>2
  <2>4. asking'.at = "none"
    BY <1>1, <2>1
  <2>5. StillFailed' /\ ForkIsGrounded'
    BY <2>1, <2>4 DEF StillFailed, ForkIsGrounded
  <2>6. Dialogs'
    BY <1>0, <1>1, <2>1, <2>3
  <2>7. QED
    BY <2>5, <2>6
<1>7. QED
  BY <1>3, <1>4, <1>5, <1>6

\* What OMP does meanwhile: an attempt ends only in a turn that runs, and the
\* session on display changes only when no dialog is open.
LEMMA HostKeepsInv ==
    ASSUME ForkInv,
           \/ TurnStarts \/ TurnEnds \/ Queues \/ JobStarts
           \/ \E t \in Traces : Attempted(t)
           \/ \E s \in Branches, shutdown \in BOOLEAN : Leaves(s, shutdown)
    PROVE  ForkInv'
<1> USE DEF ForkInv, Dialogs
<1>1. UNCHANGED <<asking, forks>>
  BY DEF TurnStarts, TurnEnds, Queues, JobStarts, Attempted, Leaves
<1>2. ForkIsGrounded'
  BY <1>1 DEF ForkIsGrounded
<1>3. ASSUME omp' \in [branch : Branches, running : BOOLEAN, queued : BOOLEAN, jobs : BOOLEAN],
             used' \in [turns : Nat, traces : Nat, moves : Nat],
             \/ asking.at = "none"
             \/ used'.turns > used.turns
             \/ /\ used'.turns = used.turns
                /\ \/ omp.running
                   \/ traces' = traces /\ omp'.branch = omp.branch /\ ~ omp'.running
      PROVE  ForkInv'
  <2>1. StillFailed'
    BY <1>1, <1>3 DEF StillFailed
  <2>2. QED
    BY <1>1, <1>2, <1>3, <2>1
<1>4. CASE TurnStarts
  <2>1. PICK jobs \in {FALSE, omp.jobs} :
            omp' = [omp EXCEPT !.running = TRUE, !.queued = FALSE, !.jobs = jobs]
    BY <1>4 DEF TurnStarts
  <2>2. used' = [used EXCEPT !.turns = @ + 1]
    BY <1>4 DEF TurnStarts
  <2>3. /\ used' \in [turns : Nat, traces : Nat, moves : Nat]
        /\ used'.turns = used.turns + 1 /\ used.turns \in Nat
    BY <2>2
  <2>4. used'.turns > used.turns
    BY <2>3
  <2>5. omp' \in [branch : Branches, running : BOOLEAN, queued : BOOLEAN, jobs : BOOLEAN]
    BY <2>1
  <2>6. QED
    BY <1>3, <2>3, <2>4, <2>5
<1>5. CASE TurnEnds
  BY <1>3, <1>5 DEF TurnEnds
<1>6. CASE Queues \/ JobStarts
  <2>1. /\ used' = [used EXCEPT !.moves = @ + 1] /\ traces' = traces
        /\ \/ omp' = [omp EXCEPT !.queued = TRUE]
           \/ omp.running /\ omp' = [omp EXCEPT !.jobs = TRUE]
    BY <1>6 DEF Queues, JobStarts, Disturb
  <2>2. /\ used' \in [turns : Nat, traces : Nat, moves : Nat]
        /\ used'.turns = used.turns
    BY <2>1
  <2>3. /\ omp' \in [branch : Branches, running : BOOLEAN, queued : BOOLEAN, jobs : BOOLEAN]
        /\ omp'.branch = omp.branch /\ omp'.running = omp.running
    BY <2>1
  <2>4. QED
    BY <1>3, <2>1, <2>2, <2>3
<1>8. ASSUME NEW t \in Traces, Attempted(t)
      PROVE  ForkInv'
  BY <1>3, <1>8 DEF Attempted
<1>9. ASSUME NEW s \in Branches, NEW shutdown \in BOOLEAN, Leaves(s, shutdown)
      PROVE  ForkInv'
  <2>1. /\ asking = Silent
        /\ omp' = [branch |-> s, running |-> FALSE, queued |-> FALSE, jobs |-> FALSE]
        /\ used' = [used EXCEPT !.moves = @ + 1]
    BY <1>9 DEF Leaves, Disturb
  <2>2. asking.at = "none"
    BY <2>1 DEF Silent
  <2>3. QED
    BY <1>3, <2>1, <2>2
<1>10. QED
  BY <1>4, <1>5, <1>6, <1>8, <1>9

\* Unless a turn began while the two dialogs were open, the session OMP is told
\* to create follows a failure that justifies it, in the session on display.
THEOREM ForksAreGrounded == ForkSpec => []ForkIsGrounded
<1>1. ForkInv /\ [ForkNext]_forkVars => ForkInv'
  <2> SUFFICES ASSUME ForkInv, [ForkNext]_forkVars
               PROVE  ForkInv'
    OBVIOUS
  <2>1. CASE UNCHANGED forkVars
    BY <2>1 DEF forkVars, ForkInv, Dialogs, StillFailed, ForkIsGrounded
  <2>2. CASE ForkNext
    BY <2>2, CommandKeepsInv, HostKeepsInv DEF ForkNext
  <2>3. QED
    BY <2>1, <2>2
<1>2. ForkInv => ForkIsGrounded
  BY DEF ForkInv
<1>3. QED
  BY ForkInitInv, <1>1, <1>2, PTL DEF ForkSpec

-----------------------------------------------------------------------------
(* Agent attribution.  First, sums.                                        *)

LEMMA LeastNumber ==
    ASSUME NEW S \in SUBSET Nat, S # {}
    PROVE  \E i \in S : \A j \in S : i <= j
<1> DEFINE R == OpToRel(<, Nat)
<1>1. \E x \in S : \A y \in S : ~ (<<y, x>> \in R)
  <2> HIDE DEF R
  <2>1. IsWellFoundedOn(R, Nat)
    BY NatLessThanWellFounded, Zenon DEF R
  <2>2. QED
    BY <2>1, WFMin, Zenon
<1>2. \A x, y \in Nat : <<y, x>> \in R <=> y < x
  BY DEF OpToRel
<1>3. PICK i \in S : \A j \in S : ~ (j < i)
  BY <1>1, <1>2
<1>4. QED
  BY <1>3

\* The units of one k.
LEMMA UnitsOfOne ==
    ASSUME NEW k, NEW n \in Nat
    PROVE  IsFiniteSet({k} \X (1 .. n)) /\ Cardinality({k} \X (1 .. n)) = n
<1>1. IsFiniteSet({k}) /\ Cardinality({k}) = 1
  BY FS_Singleton, Zenon
<1>2. IsFiniteSet(1 .. n) /\ Cardinality(1 .. n) = n
  <2>1. IsFiniteSet(1 .. n) /\ Cardinality(1 .. n) = IF 1 > n THEN 0 ELSE n - 1 + 1
    BY FS_Interval
  <2>2. QED
    BY <2>1
<1>3. IsFiniteSet({k} \X (1 .. n))
      /\ Cardinality({k} \X (1 .. n)) = Cardinality({k}) * Cardinality(1 .. n)
  BY <1>1, <1>2, FS_Product, Zenon
<1>4. QED
  BY <1>1, <1>2, <1>3

LEMMA InUnits ==
    ASSUME NEW f, NEW u
    PROVE  u \in Units(f) <=> \E k \in DOMAIN f : \E n \in 1 .. f[k] : u = <<k, n>>
<1>1. u \in Units(f) <=> \E k \in DOMAIN f : u \in {k} \X (1 .. f[k])
  BY DEF Units
<1>2. \A k \in DOMAIN f : u \in {k} \X (1 .. f[k]) <=> \E n \in 1 .. f[k] : u = <<k, n>>
  OBVIOUS
<1>3. QED
  BY <1>1, <1>2, Zenon

LEMMA SumOfNone == ASSUME NEW f, DOMAIN f = {} PROVE IsFiniteSet(Units(f)) /\ Sum(f) = 0
<1>1. Units(f) = {}
  BY InUnits, Zenon
<1>2. QED
  BY <1>1, FS_EmptySet, Zenon DEF Sum

\* A finite number of numbers has a sum.
LEMMA SumIsNat ==
    ASSUME NEW S, IsFiniteSet(S), NEW f \in [S -> Nat]
    PROVE  IsFiniteSet(Units(f)) /\ Sum(f) \in Nat
<1> DEFINE U(k) == {k} \X (1 .. f[k])
           T == {U(k) : k \in S}
           g == [k \in S |-> U(k)]
<1>1. g \in Surjection(S, T)
  <2>1. g \in [S -> T]
    BY Zenon
  <2>2. \A t \in T : \E k \in S : g[k] = t
    BY Zenon
  <2>3. QED
    BY <2>1, <2>2, Zenon DEF Surjection
<1>2. IsFiniteSet(T)
  <2> HIDE DEF g, T
  <2>1. QED
    BY <1>1, FS_Surjection, Zenon
<1>3. \A t \in T : IsFiniteSet(t)
  <2> SUFFICES ASSUME NEW k \in S PROVE IsFiniteSet(U(k))
    BY Zenon
  <2>1. f[k] \in Nat
    BY Zenon
  <2>2. QED
    BY <2>1, UnitsOfOne, Zenon
<1>4. IsFiniteSet(UNION T)
  <2> HIDE DEF T
  <2>1. QED
    BY <1>2, <1>3, FS_UNION, Zenon
<1>5. Units(f) = UNION T
  <2>1. DOMAIN f = S
    BY Zenon
  <2>2. QED
    BY <2>1, Zenon DEF Units
<1>6. QED
  BY <1>4, <1>5, FS_CardinalityType, Zenon DEF Sum

\* A sum in which one number is changed or added.
LEMMA SumChanges ==
    ASSUME NEW f, NEW g, NEW k, NEW old \in Nat,
           IsFiniteSet(Units(f)), g[k] \in Nat,
           DOMAIN g = DOMAIN f \cup {k}, \A i \in DOMAIN f \ {k} : g[i] = f[i],
           old = IF k \in DOMAIN f THEN f[k] ELSE 0
    PROVE  /\ IsFiniteSet(Units(g))
           /\ Sum(f) \in Nat /\ Sum(g) \in Nat
           /\ Sum(g) + old = Sum(f) + g[k]
<1> DEFINE rest == {u \in Units(f) : u[1] # k}
           had == {k} \X (1 .. old)
           has == {k} \X (1 .. g[k])
<1>1. Units(f) = rest \cup had
  <2>1. ASSUME NEW u \in Units(f), u[1] = k PROVE u \in had
    <3>0. PICK i \in DOMAIN f : \E n \in 1 .. f[i] : u = <<i, n>>
      BY <2>1, InUnits, Zenon
    <3>1. PICK n \in 1 .. f[i] : u = <<i, n>>
      BY <3>0, Zenon
    <3>2. i = k
      BY <2>1, <3>1
    <3>3. n \in 1 .. old
      BY <3>1, <3>2
    <3>4. QED
      BY <3>1, <3>2, <3>3
  <2>2. ASSUME NEW u \in had PROVE u \in Units(f)
    <3>1. PICK n \in 1 .. old : u = <<k, n>>
      BY <2>2
    <3>2. k \in DOMAIN f /\ n \in 1 .. f[k]
      BY <3>1
    <3>3. QED
      BY <3>1, <3>2, InUnits, Zenon
  <2>3. QED
    <3> HIDE DEF had
    <3>1. QED
      BY <2>1, <2>2
<1>2. Units(g) = rest \cup has
  <2>1. ASSUME NEW u \in Units(g) PROVE u \in rest \cup has
    <3>0. PICK i \in DOMAIN g : \E n \in 1 .. g[i] : u = <<i, n>>
      BY <2>1, InUnits
    <3>1. PICK n \in 1 .. g[i] : u = <<i, n>>
      BY <3>0, Zenon
    <3>2. CASE i = k
      BY <3>1, <3>2
    <3>3. CASE i # k
      <4>1. i \in DOMAIN f \ {k} /\ g[i] = f[i]
        BY <3>1, <3>3, Zenon
      <4>2. u \in Units(f)
        BY <3>1, <4>1, InUnits, Zenon
      <4>3. u[1] # k
        BY <3>1, <3>3
      <4>4. QED
        BY <4>2, <4>3
    <3>4. QED
      <4> HIDE DEF rest, has
      <4>1. QED
        BY <3>2, <3>3, Zenon
  <2>2. ASSUME NEW u \in rest PROVE u \in Units(g)
    <3>a. u \in Units(f)
      OBVIOUS
    <3>0. PICK i \in DOMAIN f : \E n \in 1 .. f[i] : u = <<i, n>>
      BY <3>a, InUnits
    <3>1. PICK n \in 1 .. f[i] : u = <<i, n>>
      BY <3>0, Zenon
    <3>2. i # k
      BY <2>2, <3>1
    <3>3. QED
      BY <3>0, <3>1, <3>2, InUnits, Zenon
  <2>3. ASSUME NEW u \in has PROVE u \in Units(g)
    <3>1. PICK n \in 1 .. g[k] : u = <<k, n>>
      BY <2>3
    <3>2. k \in DOMAIN g
      OBVIOUS
    <3>3. QED
      BY <3>1, <3>2, InUnits, Zenon
  <2>4. QED
    BY <2>1, <2>2, <2>3, Zenon
<1>3. rest \cap had = {} /\ rest \cap has = {}
  OBVIOUS
<1>4. IsFiniteSet(rest)
  <2>1. rest \in SUBSET Units(f)
    OBVIOUS
  <2>2. QED
    BY <2>1, FS_Subset, Zenon
<1>5. IsFiniteSet(had) /\ Cardinality(had) = old
  BY UnitsOfOne, Zenon
<1>6. IsFiniteSet(has) /\ Cardinality(has) = g[k]
  BY UnitsOfOne, Zenon
<1>e. Cardinality({}) = 0
  BY FS_EmptySet, Zenon
<1>7. Cardinality(rest) \in Nat
  BY <1>4, FS_CardinalityType, Zenon
<1>8. Cardinality(rest \cup had) = Cardinality(rest) + old
  <2> HIDE DEF rest, had
  <2>1. Cardinality(rest \cup had)
            = Cardinality(rest) + Cardinality(had) - Cardinality(rest \cap had)
    BY <1>4, <1>5, FS_Union, Zenon
  <2>2. Cardinality(rest \cap had) = 0
    BY <1>3, <1>e, Zenon
  <2>3. QED
    BY <1>5, <1>7, <2>1, <2>2
<1>9. IsFiniteSet(rest \cup has) /\ Cardinality(rest \cup has) = Cardinality(rest) + g[k]
  <2> HIDE DEF rest, has
  <2>1. IsFiniteSet(rest \cup has)
        /\ Cardinality(rest \cup has)
            = Cardinality(rest) + Cardinality(has) - Cardinality(rest \cap has)
    BY <1>4, <1>6, FS_Union, Zenon
  <2>2. Cardinality(rest \cap has) = 0
    BY <1>3, <1>e, Zenon
  <2>3. QED
    BY <1>6, <1>7, <2>1, <2>2
<1>10. QED
  <2> HIDE DEF rest, had, has
  <2>1. Sum(f) = Cardinality(rest) + old /\ Sum(g) = Cardinality(rest) + g[k]
    BY <1>1, <1>2, <1>8, <1>9, Zenon DEF Sum
  <2>2. QED
    BY <1>2, <1>7, <1>9, <2>1

\* A sum with one more number.
LEMMA SumGrows ==
    ASSUME NEW f, NEW g, NEW k, IsFiniteSet(Units(f)), g[k] \in Nat, k \notin DOMAIN f,
           DOMAIN g = DOMAIN f \cup {k}, \A i \in DOMAIN f : g[i] = f[i]
    PROVE  /\ IsFiniteSet(Units(g))
           /\ Sum(f) \in Nat /\ Sum(g) \in Nat
           /\ Sum(g) = Sum(f) + g[k]
<1>1. PICK old \in Nat : old = 0
  OBVIOUS
<1>2. old = IF k \in DOMAIN f THEN f[k] ELSE 0
  BY <1>1
<1>3. /\ IsFiniteSet(Units(g))
      /\ Sum(f) \in Nat /\ Sum(g) \in Nat
      /\ Sum(g) + old = Sum(f) + g[k]
  BY <1>2, SumChanges
<1>4. QED
  BY <1>1, <1>3

-----------------------------------------------------------------------------
\* The counts of routes.

Count == [route : Routes \cup {Other}, requests : Nat \ {0}]
Counts == Seq(Count)

\* The row of the other routes is the only one beyond the bound.
RoutesBounded(map) ==
    Len(map) <= MaxRoutesPerAgent + IF \E i \in DOMAIN map : map[i].route = Other THEN 1 ELSE 0

LEMMA TotalIsNat == ASSUME NEW map \in Counts PROVE Total(map) \in Nat
<1>1. DOMAIN map = 1 .. Len(map) /\ Len(map) \in Nat
  BY DEF Counts
<1>2. IsFiniteSet(DOMAIN map)
  BY <1>1, FS_Interval
<1>3. \A i \in DOMAIN map : map[i].requests \in Nat
  <2>1. \A i \in DOMAIN map : map[i] \in Count
    BY DEF Counts
  <2>2. QED
    BY <2>1 DEF Count
<1>5. [i \in DOMAIN map |-> map[i].requests] \in [DOMAIN map -> Nat]
  BY <1>3
<1>4. QED
  BY <1>2, <1>5, SumIsNat, Zenon DEF Total

LEMMA TotalOfNone == Total(<<>>) = 0
<1>1. DOMAIN [i \in DOMAIN <<>> |-> <<>>[i].requests] = {}
  OBVIOUS
<1>2. QED
  BY <1>1, SumOfNone, Zenon DEF Total

\* incrementBounded counts the requests, on the route's row or the others', and
\* keeps the map bounded.
LEMMA Incremented ==
    ASSUME NEW map \in Counts, NEW route \in Routes \cup {Other}, NEW amount \in Nat \ {0}
    PROVE  /\ incrementBounded(map, route, amount) \in Counts
           /\ Total(incrementBounded(map, route, amount)) = Total(map) + amount
           /\ RoutesBounded(map) => RoutesBounded(incrementBounded(map, route, amount))
<1> DEFINE at(r) == {i \in DOMAIN map : map[i].route = r}
           key == IF at(route) # {} \/ Len(map) < MaxRoutesPerAgent THEN route ELSE Other
           new == incrementBounded(map, route, amount)
           f == [i \in DOMAIN map |-> map[i].requests]
           g == [i \in DOMAIN new |-> new[i].requests]
<1>1. DOMAIN map = 1 .. Len(map) /\ Len(map) \in Nat
      /\ \A i \in DOMAIN map : map[i] \in Count
  BY DEF Counts
<1>c. \A i \in DOMAIN map : map[i].requests \in Nat \ {0}
  BY <1>1 DEF Count
<1>2. key \in Routes \cup {Other}
  OBVIOUS
<1>3. MaxRoutesPerAgent \in Nat \ {0}
  BY AttributionAssumption
<1>4. IsFiniteSet(Units(f))
  <2>1. IsFiniteSet(DOMAIN map)
    BY <1>1, FS_Interval
  <2>2. f \in [DOMAIN map -> Nat]
    BY <1>c
  <2>3. QED
    BY <2>1, <2>2, SumIsNat, Zenon
<1>5. CASE at(key) = {}
  <2>1. new = Append(map, [route |-> key, requests |-> amount])
    BY <1>5, Zenon DEF incrementBounded
  <2>2. [route |-> key, requests |-> amount] \in Count
    BY <1>2 DEF Count
  <2>3. new \in Counts
    <3> HIDE DEF new, key
    <3>1. QED
      BY <2>1, <2>2 DEF Counts
  <2>4. /\ Len(new) = Len(map) + 1 /\ DOMAIN new = DOMAIN map \cup {Len(map) + 1}
        /\ \A i \in DOMAIN map : new[i] = map[i]
        /\ new[Len(map) + 1] = [route |-> key, requests |-> amount]
    <3> HIDE DEF new, key
    <3>1. map \in Seq(Count)
      BY DEF Counts
    <3>2. QED
      BY <1>1, <2>1, <2>2, <3>1
  <2>5. Total(new) = Total(map) + amount
    <3>1. DOMAIN f = DOMAIN map /\ DOMAIN g = DOMAIN f \cup {Len(map) + 1}
      BY <2>4, Zenon
    <3>2. g[Len(map) + 1] = amount /\ \A i \in DOMAIN f \ {Len(map) + 1} : g[i] = f[i]
      <4> HIDE DEF new, key
      <4>1. QED
        BY <1>1, <2>4
    <3>3. Len(map) + 1 \notin DOMAIN f
      BY <1>1, <3>1
    <3>4. Sum(f) \in Nat /\ Sum(g) \in Nat /\ Sum(g) = Sum(f) + g[Len(map) + 1]
      <4> HIDE DEF f, g, new, key
      <4>1. g[Len(map) + 1] \in Nat /\ \A i \in DOMAIN f : g[i] = f[i]
        BY <3>2, <3>3
      <4>2. QED
        BY <1>4, <3>1, <3>3, <4>1, SumGrows
    <3>5. Total(new) = Sum(g) /\ Total(map) = Sum(f)
      BY Zenon DEF Total
    <3>6. QED
      <4> HIDE DEF f, g, new, key
      <4>1. QED
        BY <3>2, <3>4, <3>5
  <2>6. ASSUME RoutesBounded(map) PROVE RoutesBounded(new)
    <3>1. CASE key = Other
      <4>1. \A i \in DOMAIN map : map[i].route # Other
        BY <1>5, <3>1
      <4>2. Len(map) <= MaxRoutesPerAgent
        BY <1>1, <1>3, <2>6, <4>1 DEF RoutesBounded
      <4>3. \E i \in DOMAIN new : new[i].route = Other
        <5> HIDE DEF new, key
        <5>1. QED
          BY <2>4, <3>1
      <4>4. QED
        <5> HIDE DEF new, key
        <5>1. QED
          BY <1>1, <1>3, <2>4, <4>2, <4>3 DEF RoutesBounded
    <3>2. CASE key # Other
      <4>1. key = route /\ Len(map) < MaxRoutesPerAgent
        BY <1>5, <3>2, Zenon
      <4>2. QED
        <5> HIDE DEF new, key
        <5>1. QED
          BY <1>1, <1>3, <2>4, <4>1 DEF RoutesBounded
    <3>3. QED
      BY <3>1, <3>2, Zenon
  <2>7. QED
    BY <2>3, <2>5, <2>6, Zenon
<1>6. CASE at(key) # {}
  <2> DEFINE k == CHOOSE i \in at(key) : TRUE
  <2>1. k \in at(key)
    BY <1>6, Zenon
  <2>2. k \in DOMAIN map /\ map[k].route = key
    BY <2>1, Zenon
  <2>3. new = [map EXCEPT ![k].requests = @ + amount]
    BY <1>6, Zenon DEF incrementBounded
  <2>4. /\ new \in Counts /\ DOMAIN new = DOMAIN map /\ Len(new) = Len(map)
        /\ \A i \in DOMAIN map \ {k} : new[i] = map[i]
        /\ new[k] = [map[k] EXCEPT !.requests = @ + amount]
    <3> HIDE DEF new, key, k
    <3>0. new[k] = [map[k] EXCEPT !.requests = @ + amount]
          /\ \A i \in DOMAIN map \ {k} : new[i] = map[i]
      BY <2>2, <2>3
    <3>1. new[k] \in Count
      BY <1>1, <2>2, <3>0 DEF Count
    <3>2. DOMAIN new = 1 .. Len(map)
      BY <1>1, <2>3
    <3>3. \A i \in 1 .. Len(map) : new[i] \in Count
      BY <1>1, <3>0, <3>1
    <3>5. new \in [1 .. Len(map) -> Count]
      BY <2>3, <3>2, <3>3
    <3>4. new \in Seq(Count) /\ Len(new) = Len(map)
      BY <1>1, <3>5
    <3>6. QED
      BY <1>1, <3>0, <3>2, <3>4 DEF Counts
  <2>5. \A i \in DOMAIN map : new[i].route = map[i].route
    <3> HIDE DEF new, key, k
    <3>1. QED
      BY <1>1, <2>4 DEF Count
  <2>6. Total(new) = Total(map) + amount
    <3>1. DOMAIN f = DOMAIN map /\ DOMAIN g = DOMAIN f \cup {k}
      <4> HIDE DEF k, key, new
      <4>1. QED
        BY <2>2, <2>4
    <3>2. g[k] = f[k] + amount /\ f[k] \in Nat /\ \A i \in DOMAIN f \ {k} : g[i] = f[i]
      <4> HIDE DEF new, key, k
      <4>1. QED
        BY <1>1, <1>c, <2>2, <2>4 DEF Count
    <3>4. Sum(f) \in Nat /\ Sum(g) \in Nat /\ Sum(g) + f[k] = Sum(f) + g[k]
      <4> HIDE DEF f, g, new, key, k
      <4>1. f[k] = IF k \in DOMAIN f THEN f[k] ELSE 0
        BY <2>2, <3>1, Zenon
      <4>2. g[k] \in Nat
        BY <3>2
      <4>3. QED
        BY <1>4, <3>1, <3>2, <4>1, <4>2, SumChanges
    <3>5. Total(new) = Sum(g) /\ Total(map) = Sum(f)
      BY Zenon DEF Total
    <3>6. QED
      <4> HIDE DEF f, g, new, key, k
      <4>1. QED
        BY <3>2, <3>4, <3>5
  <2>7. RoutesBounded(map) => RoutesBounded(new)
    <3> HIDE DEF new, key, k
    <3>1. QED
      BY <2>4, <2>5 DEF RoutesBounded
  <2>8. QED
    BY <2>4, <2>6, <2>7, Zenon
<1>7. QED
  BY <1>5, <1>6, Zenon

-----------------------------------------------------------------------------
\* The rows of the agents.

Row == [requests : Nat, routes : Counts]
Requests(rows) == [k \in DOMAIN rows |-> rows[k].requests]
Named(rows) == {k \in DOMAIN rows : k.name # Other}

\* An agent without a row has requests in the others' row only when there is no
\* more room for rows; so a row that is made later need not miss any.
AccountsFor(g, by) ==
    /\ IsFiniteSet(DOMAIN g.by) /\ DOMAIN g.by \subseteq Identity
    /\ \A k \in DOMAIN g.by : g.by[k] \in Row
    /\ g.collapsed \in Nat
    /\ by \in [Agents -> Nat] /\ IsFiniteSet(Units(by))
    /\ Sum(Requests(g.by)) = Sum(by)
    /\ Cardinality(Named(g.by)) <= MaxAgentAggregates
    /\ \A k \in DOMAIN g.by :
        /\ k.name # Other => g.by[k].requests = by[k]
        /\ g.by[k].requests = Total(g.by[k].routes)
        /\ RoutesBounded(g.by[k].routes)
    /\ \A a \in Agents \ DOMAIN g.by :
        by[a] > 0 => Cardinality(DOMAIN g.by) >= MaxAgentAggregates

LEMMA RowOfNone == [requests |-> 0, routes |-> <<>>] \in Row /\ RoutesBounded(<<>>)
<1>1. <<>> \in Counts /\ Len(<<>>) = 0 /\ DOMAIN <<>> = {}
  BY DEF Counts
<1>2. QED
  BY <1>1, AttributionAssumption DEF Row, RoutesBounded

\* addAggregate counts the requests of an agent once, on its row or the others'.
LEMMA Added ==
    ASSUME NEW g, NEW by, AccountsFor(g, by), NEW a \in Agents,
           NEW route \in Routes \cup {Other}, NEW amount \in Nat \ {0}
    PROVE  AccountsFor(addAggregate(g, a, route, amount), [by EXCEPT ![a] = @ + amount])
<1> DEFINE D == DOMAIN g.by
           key == aggregateKey(g, a)
           old == IF key \in D THEN g.by[key] ELSE [requests |-> 0, routes |-> <<>>]
           new == [requests |-> old.requests + amount,
                   routes |-> incrementBounded(old.routes, route, amount)]
           g2 == addAggregate(g, a, route, amount)
           by2 == [by EXCEPT ![a] = @ + amount]
<1>1. /\ IsFiniteSet(D) /\ D \subseteq Identity
      /\ \A k \in D : g.by[k] \in Row
      /\ g.collapsed \in Nat
      /\ by \in [Agents -> Nat] /\ IsFiniteSet(Units(by))
      /\ Sum(Requests(g.by)) = Sum(by)
      /\ Cardinality(Named(g.by)) <= MaxAgentAggregates
  BY Zenon DEF AccountsFor
<1>2. \A k \in D : /\ k.name # Other => g.by[k].requests = by[k]
                   /\ g.by[k].requests = Total(g.by[k].routes)
                   /\ RoutesBounded(g.by[k].routes)
  BY Zenon DEF AccountsFor
<1>3. \A b \in Agents \ D : by[b] > 0 => Cardinality(D) >= MaxAgentAggregates
  BY Zenon DEF AccountsFor
<1>4. Cardinality(D) \in Nat /\ MaxAgentAggregates \in Nat
  BY <1>1, FS_CardinalityType, AttributionAssumption
<1>5. a.name # Other /\ a \in Identity
  BY AttributionAssumption DEF Agents, Identity
<1>6. \/ key = a /\ (a \in D \/ Cardinality(D) < MaxAgentAggregates)
      \/ key = [a EXCEPT !.name = Other] /\ a \notin D /\ ~ (Cardinality(D) < MaxAgentAggregates)
  BY Zenon DEF aggregateKey
<1>o. [a EXCEPT !.name = Other] \in Identity /\ [a EXCEPT !.name = Other].name = Other
  BY DEF Agents, Identity
<1>7. key \in Identity /\ (key.name # Other <=> key = a)
  BY <1>5, <1>6, <1>o
<1>r. \/ key = a /\ (a \in D \/ Cardinality(D) < MaxAgentAggregates)
      \/ key # a /\ a \notin D /\ ~ (Cardinality(D) < MaxAgentAggregates)
  BY <1>5, <1>6, <1>o
<1>8. g2 = [by |-> [k \in D \cup {key} |-> IF k = key THEN new ELSE g.by[k]],
            collapsed |-> g.collapsed + IF key = a THEN 0 ELSE 1]
  BY Zenon DEF addAggregate
<1> HIDE DEF g2, key
<1>9. /\ DOMAIN g2.by = D \cup {key} /\ g2.by[key] = new
      /\ \A k \in D \ {key} : g2.by[k] = g.by[k]
      /\ g2.collapsed = g.collapsed + IF key = a THEN 0 ELSE 1
  <2> HIDE DEF new, D
  <2>1. QED
    BY <1>8
<1>10. /\ old \in Row /\ old.requests = Total(old.routes) /\ RoutesBounded(old.routes)
  <2>1. CASE key \in D
    BY <1>1, <1>2, <2>1
  <2>2. CASE key \notin D
    BY <2>2, RowOfNone, TotalOfNone
  <2>3. QED
    BY <2>1, <2>2, Zenon
<1>11. old.requests \in Nat /\ old.routes \in Counts
  <2> HIDE DEF old
  <2>1. QED
    BY <1>10 DEF Row
<1>12. /\ new \in Row /\ new.requests = Total(new.routes) /\ RoutesBounded(new.routes)
       /\ new.requests = old.requests + amount
  <2> HIDE DEF old
  <2>1. /\ incrementBounded(old.routes, route, amount) \in Counts
        /\ Total(incrementBounded(old.routes, route, amount)) = Total(old.routes) + amount
        /\ RoutesBounded(incrementBounded(old.routes, route, amount))
    BY <1>10, <1>11, Incremented, Zenon
  <2>2. QED
    BY <1>10, <1>11, <2>1 DEF Row
<1>13. by2 \in [Agents -> Nat] /\ by2[a] = by[a] + amount /\ by[a] \in Nat
       /\ \A b \in Agents \ {a} : by2[b] = by[b]
  BY <1>1
<1> HIDE DEF by2
<1>14. IsFiniteSet(Units(by2)) /\ Sum(by) \in Nat /\ Sum(by2) = Sum(by) + amount
  <2>1. DOMAIN by = Agents /\ DOMAIN by2 = Agents
    BY <1>1, <1>13
  <2>2. DOMAIN by2 = DOMAIN by \cup {a} /\ \A b \in DOMAIN by \ {a} : by2[b] = by[b]
    BY <1>13, <2>1
  <2>3. by[a] = IF a \in DOMAIN by THEN by[a] ELSE 0
    BY <2>1
  <2>4. by2[a] \in Nat
    BY <1>13
  <2>5. /\ IsFiniteSet(Units(by2))
        /\ Sum(by) \in Nat /\ Sum(by2) \in Nat
        /\ Sum(by2) + by[a] = Sum(by) + by2[a]
    <3>1. IsFiniteSet(Units(by)) /\ by[a] \in Nat
      BY <1>1, <1>13, Zenon
    <3>2. QED
      BY <2>2, <2>3, <2>4, <3>1, SumChanges
  <2>6. QED
    BY <1>13, <2>5
<1>15. Sum(Requests(g2.by)) = Sum(by2)
  <2> DEFINE f == Requests(g.by)
             h == Requests(g2.by)
  <2>1. DOMAIN f = D /\ DOMAIN h = D \cup {key} /\ h[key] = new.requests
        /\ (\A k \in D : f[k] = g.by[k].requests) /\ (\A k \in D \ {key} : h[k] = g.by[k].requests)
    <3> HIDE DEF new
    <3>1. QED
      BY <1>9 DEF Requests
  <2>2. f \in [D -> Nat]
    <3>1. \A k \in D : g.by[k].requests \in Nat
      BY <1>1 DEF Row
    <3>2. QED
      BY <3>1 DEF Requests
  <2>3. IsFiniteSet(Units(f))
    <3> HIDE DEF f, D
    <3>1. QED
      BY <1>1, <2>2, SumIsNat, Zenon
  <2>4. old.requests = IF key \in DOMAIN f THEN f[key] ELSE 0
    <3> HIDE DEF f
    <3>1. CASE key \in D
      BY <2>1, <3>1
    <3>2. CASE key \notin D
      BY <2>1, <3>2
    <3>3. QED
      BY <3>1, <3>2, Zenon
  <2>5. h[key] \in Nat
    <3> HIDE DEF h, new, old
    <3>1. QED
      BY <2>1, <1>11, <1>12
  <2>6. DOMAIN h = DOMAIN f \cup {key} /\ \A k \in DOMAIN f \ {key} : h[k] = f[k]
    <3> HIDE DEF h, f, D
    <3>1. QED
      BY <2>1
  <2>7. Sum(f) \in Nat /\ Sum(h) \in Nat /\ Sum(h) + old.requests = Sum(f) + h[key]
    <3> HIDE DEF h, f, D, old
    <3>1. QED
      <4>1. old.requests \in Nat
        BY <1>11, Zenon
      <4>2. QED
        BY <2>3, <2>4, <2>5, <2>6, <4>1, SumChanges
  <2>8. QED
    <3> HIDE DEF h, f, D, old, new
    <3>1. Sum(f) = Sum(by)
      BY <1>1 DEF f
    <3>2. Sum(h) = Sum(by) + amount
      BY <1>11, <1>12, <2>1, <2>7, <3>1
    <3>3. QED
      BY <1>14, <3>2 DEF h
<1>16. Cardinality(Named(g2.by)) <= MaxAgentAggregates
  <2>1. CASE key \in D \/ key.name = Other
    <3>1. Named(g2.by) = Named(g.by)
      BY <1>9, <2>1 DEF Named
    <3>2. QED
      BY <1>1, <3>1
  <2>2. CASE key \notin D /\ key.name # Other
    <3>1. Cardinality(D) < MaxAgentAggregates
      <4> HIDE DEF D
      <4>1. QED
        BY <1>7, <1>r, <2>2, Zenon
    <3>2. IsFiniteSet(D \cup {key}) /\ Cardinality(D \cup {key}) = Cardinality(D) + 1
      BY <1>1, <2>2, FS_AddElement
    <3>3. Named(g2.by) \in SUBSET (D \cup {key})
      BY <1>9 DEF Named
    <3>4. Cardinality(Named(g2.by)) <= Cardinality(D \cup {key})
          /\ IsFiniteSet(Named(g2.by))
      <4> HIDE DEF D
      <4>1. QED
        BY <3>2, <3>3, FS_Subset, Zenon
    <3>5. Cardinality(Named(g2.by)) \in Nat
      BY <3>4, FS_CardinalityType, Zenon
    <3>6. QED
      BY <1>4, <3>1, <3>2, <3>4, <3>5
  <2>3. QED
    BY <2>1, <2>2, Zenon
<1>17. ASSUME NEW k \in DOMAIN g2.by
       PROVE  /\ g2.by[k] \in Row
              /\ k.name # Other => g2.by[k].requests = by2[k]
              /\ g2.by[k].requests = Total(g2.by[k].routes)
              /\ RoutesBounded(g2.by[k].routes)
  <2>1. CASE k = key
    <3>1. ASSUME key.name # Other PROVE old.requests = by[a]
      <4>1. key = a
        BY <1>7, <3>1, Zenon
      <4>2. CASE a \in D
        BY <1>2, <3>1, <4>1, <4>2
      <4>3. CASE a \notin D
        <5>1. Cardinality(D) < MaxAgentAggregates
          <6> HIDE DEF D
          <6>1. QED
            BY <1>r, <4>1, <4>3, Zenon
        <5>2. by[a] = 0
          <6> HIDE DEF D
          <6>1. QED
            BY <1>3, <1>4, <1>13, <4>3, <5>1
        <5>3. QED
          BY <4>1, <4>3, <5>2
      <4>4. QED
        BY <4>2, <4>3, Zenon
    <3>2. key.name # Other => new.requests = by2[k]
      <4> HIDE DEF new, old
      <4>1. QED
        BY <1>7, <1>12, <1>13, <2>1, <3>1
    <3>3. QED
      <4> HIDE DEF new
      <4>1. QED
        BY <1>9, <1>12, <2>1, <3>2
  <2>2. CASE k # key
    <3>1. k \in D \ {key} /\ g2.by[k] = g.by[k]
      BY <1>9, <2>2, Zenon
    <3>2. ASSUME k.name # Other PROVE by2[k] = by[k]
      <4>1. k # a
        BY <1>6, <2>2, <3>1
      <4>2. k \in Agents
        BY <1>1, <3>1, <3>2 DEF Agents, Identity
      <4>3. QED
        BY <1>13, <4>1, <4>2
    <3>3. QED
      BY <1>1, <1>2, <3>1, <3>2
  <2>3. QED
    BY <2>1, <2>2, Zenon
<1>18. IsFiniteSet(D \cup {key}) /\ Cardinality(D \cup {key}) >= Cardinality(D)
       /\ Cardinality(D \cup {key}) \in Nat
  <2>1. IsFiniteSet(D \cup {key})
        /\ Cardinality(D \cup {key}) = IF key \in D THEN Cardinality(D) ELSE Cardinality(D) + 1
    <3> HIDE DEF D
    <3>1. QED
      BY <1>1, FS_AddElement, Zenon
  <2>2. QED
    BY <1>4, <2>1
<1>19. ASSUME NEW b \in Agents \ DOMAIN g2.by, by2[b] > 0
       PROVE  Cardinality(DOMAIN g2.by) >= MaxAgentAggregates
  <2>1. b \in Agents \ D /\ b # key
    BY <1>9
  <2>2. Cardinality(D) >= MaxAgentAggregates
    <3>1. CASE b = a
      BY <1>4, <1>6, <2>1, <3>1
    <3>2. CASE b # a
      BY <1>3, <1>13, <1>19, <2>1, <3>2
    <3>3. QED
      BY <3>1, <3>2, Zenon
  <2>3. QED
    <3> HIDE DEF D
    <3>1. QED
      BY <1>4, <1>9, <1>18, <2>2
<1>20. DOMAIN g2.by \subseteq Identity /\ IsFiniteSet(DOMAIN g2.by) /\ g2.collapsed \in Nat
  <2>1. g2.collapsed \in Nat
    BY <1>1, <1>9
  <2>2. QED
    <3> HIDE DEF D
    <3>1. QED
      BY <1>1, <1>7, <1>9, <1>18, <2>1
<1>21. AccountsFor(g2, by2)
  BY <1>13, <1>14, <1>15, <1>16, <1>17, <1>19, <1>20, Zenon DEF AccountsFor
<1>22. QED
  BY <1>21 DEF g2, by2

\* The loop of bindAgentSession has intermediate results.
LEMMA LoopRuns ==
    ASSUME NEW a, NEW pending, Len(pending) \in Nat
    PROVE  \E after : /\ after[0] = Now
                      /\ \A i \in 1 .. Len(pending) :
                            after[i] = addAggregate(after[i - 1], a, pending[i].route, pending[i].requests)
                      /\ addAll(a, pending) = after[Len(pending)]
<1> DEFINE n == Len(pending)
           turn(f, i) == IF i = 0 THEN Now
                         ELSE addAggregate(f[i - 1], a, pending[i].route, pending[i].requests)
           Runs(f, m) == f = [i \in 0 .. m |-> turn(f, i)]
           T == {m \in 0 .. n : ~ \E f : Runs(f, m)}
<1>1. T = {}
  <2>1. SUFFICES ASSUME T # {} PROVE FALSE
    OBVIOUS
  <2>2. PICK m \in T : \A j \in T : m <= j
    <3>1. T \in SUBSET Nat
      OBVIOUS
    <3>2. QED
      <4> HIDE DEF T
      <4>1. QED
        BY <2>1, <3>1, LeastNumber, Zenon
  <2>3. m \in 0 .. n /\ ~ \E f : Runs(f, m)
    BY <2>2
  <2>4. CASE m = 0
    <3> DEFINE f == [i \in 0 .. m |-> Now]
    <3>1. f = [i \in 0 .. m |-> turn(f, i)]
      <4>1. \A i \in 0 .. m : i = 0
        BY <2>4
      <4>2. QED
        BY <4>1
    <3>2. QED
      BY <2>3, <3>1, Zenon
  <2>5. CASE m # 0
    <3>1. m - 1 \in 0 .. n /\ m - 1 \notin T
      BY <2>2, <2>3, <2>5
    <3>2. PICK f : Runs(f, m - 1)
      BY <3>1, Zenon
    <3> DEFINE g == [i \in 0 .. m |-> IF i = m THEN turn(f, m) ELSE f[i]]
    <3>3. \A i \in 0 .. m : g[i] = turn(g, i)
      <4> SUFFICES ASSUME NEW i \in 0 .. m PROVE g[i] = turn(g, i)
        BY Zenon
      <4>1. CASE i = m
        <5>1. g[i] = turn(f, m) /\ g[m - 1] = f[m - 1]
          <6> HIDE DEF turn
          <6>1. QED
            BY <2>3, <2>5, <4>1
        <5> HIDE DEF g
        <5>2. QED
          BY <2>5, <4>1, <5>1
      <4>2. CASE i # m
        <5>1. g[i] = f[i] /\ (i # 0 => g[i - 1] = f[i - 1]) /\ i \in 0 .. (m - 1)
          <6> HIDE DEF turn
          <6>1. QED
            BY <2>3, <2>5, <4>2
        <5>2. f[i] = turn(f, i)
          <6> HIDE DEF turn
          <6>1. QED
            BY <3>2, <5>1
        <5> HIDE DEF g
        <5>3. QED
          BY <5>1, <5>2
      <4>3. QED
        BY <4>1, <4>2, Zenon
    <3>4. Runs(g, m)
      <4>1. g = [i \in 0 .. m |-> g[i]]
        BY Zenon
      <4>2. [i \in 0 .. m |-> g[i]] = [i \in 0 .. m |-> turn(g, i)]
        <5> HIDE DEF g, turn
        <5>1. QED
          BY <3>3
      <4>3. QED
        <5> HIDE DEF turn, g
        <5>1. QED
          BY <4>1, <4>2, Zenon
    <3>5. QED
      BY <2>3, <3>4, Zenon
  <2>6. QED
    BY <2>4, <2>5, Zenon
<1>2. \E f : Runs(f, n)
  <2>1. n \in 0 .. n
    OBVIOUS
  <2>2. QED
    BY <1>1, <2>1, Zenon
<1> DEFINE after == CHOOSE f : Runs(f, n)
<1>3. Runs(after, n)
  BY <1>2, Zenon
<1>4. addAll(a, pending) = after[n]
  BY Zenon DEF addAll
<1>5. after[0] = Now /\ \A i \in 1 .. n :
          after[i] = addAggregate(after[i - 1], a, pending[i].route, pending[i].requests)
  <2> HIDE DEF after
  <2>1. after[0] = turn(after, 0) /\ \A i \in 1 .. n : after[i] = turn(after, i)
    <3> HIDE DEF turn
    <3>1. QED
      BY <1>3
  <2>2. QED
    BY <2>1
<1>6. QED
  BY <1>4, <1>5, Zenon

\* A bound session's waiting requests are counted once each.
LEMMA AllAdded ==
    ASSUME NEW by, AccountsFor(Now, by), NEW a \in Agents, NEW pending \in Counts
    PROVE  AccountsFor(addAll(a, pending), [by EXCEPT ![a] = @ + Total(pending)])
<1> DEFINE n == Len(pending)
           f(i) == [j \in 1 .. i |-> pending[j].requests]
           B(i) == [by EXCEPT ![a] = @ + Sum(f(i))]
<1>1. n \in Nat /\ DOMAIN pending = 1 .. n /\ \A i \in 1 .. n : pending[i] \in Count
  BY DEF Counts
<1>2. PICK after : /\ after[0] = Now
                   /\ \A i \in 1 .. n : after[i] = addAggregate(after[i - 1], a, pending[i].route,
                                                                pending[i].requests)
                   /\ addAll(a, pending) = after[n]
  BY <1>1, LoopRuns, Zenon
<1>3. by \in [Agents -> Nat] /\ by[a] \in Nat
  BY DEF AccountsFor
<1>4. AccountsFor(after[0], B(0))
  <2>1. DOMAIN f(0) = {}
    OBVIOUS
  <2>2. Sum(f(0)) = 0
    <3> HIDE DEF f
    <3>1. QED
      BY <2>1, SumOfNone, Zenon
  <2>3. B(0) = by
    <3> HIDE DEF f
    <3>1. QED
      BY <1>3, <2>2
  <2>4. QED
    <3> HIDE DEF B
    <3>1. QED
      BY <1>2, <2>3, Zenon
<1>5. ASSUME NEW i \in 1 .. n, AccountsFor(after[i - 1], B(i - 1))
      PROVE  AccountsFor(after[i], B(i))
  <2>0. i - 1 \in Nat /\ i \in Nat
    BY <1>1
  <2>1. pending[i].route \in Routes \cup {Other} /\ pending[i].requests \in Nat \ {0}
    BY <1>1 DEF Count
  <2>2. AccountsFor(after[i], [B(i - 1) EXCEPT ![a] = @ + pending[i].requests])
    <3> HIDE DEF B
    <3>1. AccountsFor(addAggregate(after[i - 1], a, pending[i].route, pending[i].requests),
                      [B(i - 1) EXCEPT ![a] = @ + pending[i].requests])
      BY <1>5, <2>1, Added, Zenon
    <3>2. QED
      BY <1>2, <3>1, Zenon
  <2>3. Sum(f(i - 1)) \in Nat /\ Sum(f(i)) = Sum(f(i - 1)) + pending[i].requests
    <3>1. \A j \in 1 .. (i - 1) : pending[j].requests \in Nat
      BY <1>1 DEF Count
    <3>2. f(i - 1) \in [1 .. (i - 1) -> Nat]
      BY <3>1
    <3>3. IsFiniteSet(1 .. (i - 1))
      BY <2>0, FS_Interval
    <3>4. IsFiniteSet(Units(f(i - 1)))
      BY <3>2, <3>3, SumIsNat, Zenon
    <3>5. /\ f(i)[i] = pending[i].requests /\ DOMAIN f(i) = DOMAIN f(i - 1) \cup {i}
          /\ i \notin DOMAIN f(i - 1)
          /\ \A j \in DOMAIN f(i - 1) : f(i)[j] = f(i - 1)[j]
      BY <2>0
    <3>6. f(i)[i] \in Nat
      BY <2>1, <3>5
    <3>7. QED
      <4> HIDE DEF f
      <4>1. Sum(f(i - 1)) \in Nat /\ Sum(f(i)) = Sum(f(i - 1)) + f(i)[i]
        BY <3>4, <3>5, <3>6, SumGrows
      <4>2. QED
        BY <3>5, <4>1
  <2>4. [B(i - 1) EXCEPT ![a] = @ + pending[i].requests] = B(i)
    <3> HIDE DEF f
    <3>1. QED
      BY <1>3, <2>1, <2>3
  <2>5. QED
    <3> HIDE DEF B
    <3>1. QED
      BY <2>2, <2>4, Zenon
<1>6. AccountsFor(after[n], B(n))
  <2> HIDE DEF B, n
  <2> DEFINE T == {i \in 0 .. n : ~ AccountsFor(after[i], B(i))}
  <2>1. T = {}
    <3>1. SUFFICES ASSUME T # {} PROVE FALSE
      OBVIOUS
    <3>2. PICK m \in T : \A j \in T : m <= j
      <4>1. T \in SUBSET Nat
        BY <1>1
      <4>2. QED
        <5> HIDE DEF T
        <5>1. QED
          BY <3>1, <4>1, LeastNumber, Zenon
    <3>3. m \in 0 .. n /\ ~ AccountsFor(after[m], B(m))
      BY <3>2
    <3>4. m # 0
      BY <1>4, <3>3
    <3>5. m \in 1 .. n /\ m - 1 \in 0 .. n /\ ~ (m <= m - 1)
      BY <1>1, <3>3, <3>4
    <3>6. AccountsFor(after[m - 1], B(m - 1))
      BY <3>2, <3>5
    <3>7. QED
      BY <1>5, <3>3, <3>5, <3>6, Zenon
  <2>2. n \in 0 .. n
    BY <1>1
  <2>3. QED
    BY <2>1, <2>2
<1>7. f(n) = [i \in DOMAIN pending |-> pending[i].requests]
  BY <1>1
<1>8. B(n) = [by EXCEPT ![a] = @ + Total(pending)]
  <2> HIDE DEF f
  <2>1. QED
    BY <1>7, Zenon DEF Total
<1>9. QED
  <2> HIDE DEF B
  <2>1. QED
    BY <1>2, <1>6, <1>8, Zenon

-----------------------------------------------------------------------------
\* The sessions.

SessionRecords == [session : Inferences, agent : Agents \cup {Unbound},
                   routes : Counts, pendingRoutes : Counts]
RecordsOf(seq) == {seq[i] : i \in DOMAIN seq}
Waiting(records) == Sum([x \in records |-> Total(x.pendingRoutes)])

SessionsDiffer(seq) == \A i, j \in DOMAIN seq : seq[i].session = seq[j].session => i = j
SessionsInv ==
    /\ tracked \in Seq(SessionRecords)
    /\ SessionsDiffer(tracked)
    /\ Len(tracked) <= MaxActiveSessions

LEMMA RecordsFinite ==
    ASSUME NEW seq \in Seq(SessionRecords)
    PROVE  IsFiniteSet(RecordsOf(seq)) /\ RecordsOf(seq) \subseteq SessionRecords
<1>1. DOMAIN seq = 1 .. Len(seq) /\ Len(seq) \in Nat
      /\ \A i \in DOMAIN seq : seq[i] \in SessionRecords
  OBVIOUS
<1>2. IsFiniteSet(DOMAIN seq)
  BY <1>1, FS_Interval
<1>3. seq \in Surjection(DOMAIN seq, RecordsOf(seq))
  BY <1>1 DEF Surjection, RecordsOf
<1>4. IsFiniteSet(RecordsOf(seq))
  BY <1>2, <1>3, FS_Surjection, Zenon
<1>5. QED
  BY <1>1, <1>4 DEF RecordsOf

\* With one record fewer, its requests wait no more.
LEMMA WaitingLess ==
    ASSUME NEW R \in SUBSET SessionRecords, IsFiniteSet(R), NEW x \in R
    PROVE  /\ Waiting(R \ {x}) \in Nat /\ Total(x.pendingRoutes) \in Nat
           /\ Waiting(R) = Waiting(R \ {x}) + Total(x.pendingRoutes)
<1> DEFINE f == [y \in R \ {x} |-> Total(y.pendingRoutes)]
           g == [y \in R |-> Total(y.pendingRoutes)]
<1>1. \A y \in R : Total(y.pendingRoutes) \in Nat
  BY TotalIsNat DEF SessionRecords
<1>2. IsFiniteSet(R \ {x})
  BY FS_RemoveElement, Zenon
<1>3. f \in [R \ {x} -> Nat]
  BY <1>1
<1>4. IsFiniteSet(Units(f))
  <2> HIDE DEF f
  <2>1. QED
    BY <1>2, <1>3, SumIsNat, Zenon
<1>5. /\ g[x] = Total(x.pendingRoutes) /\ g[x] \in Nat /\ x \notin DOMAIN f
      /\ DOMAIN g = DOMAIN f \cup {x} /\ \A y \in DOMAIN f : g[y] = f[y]
  BY <1>1
<1>6. Sum(f) \in Nat /\ Sum(g) = Sum(f) + g[x]
  <2> HIDE DEF f, g
  <2>1. QED
    BY <1>4, <1>5, SumGrows
<1>7. QED
  <2>1. Waiting(R \ {x}) = Sum(f) /\ Waiting(R) = Sum(g)
    BY Zenon DEF Waiting
  <2>2. QED
    <3> HIDE DEF f, g
    <3>1. QED
      BY <1>5, <1>6, <2>1

LEMMA WaitingIsNat ==
    ASSUME NEW R \in SUBSET SessionRecords, IsFiniteSet(R)
    PROVE  Waiting(R) \in Nat
<1>1. \A y \in R : Total(y.pendingRoutes) \in Nat
  BY TotalIsNat DEF SessionRecords
<1>2. [y \in R |-> Total(y.pendingRoutes)] \in [R -> Nat]
  BY <1>1
<1>3. QED
  BY <1>2, SumIsNat, Zenon DEF Waiting

\* The record of a session: the one that is kept, or a new one.
LEMMA RecordOf ==
    ASSUME SessionsInv, NEW s \in Inferences
    PROVE  /\ sessionRecord(s) \in SessionRecords /\ sessionRecord(s).session = s
           /\ Of(s) = {} => Total(sessionRecord(s).pendingRoutes) = 0
           /\ Of(s) # {} => At(s) \in DOMAIN tracked /\ sessionRecord(s) = tracked[At(s)]
<1>1. CASE Of(s) = {}
  <2>1. sessionRecord(s) = [session |-> s, agent |-> Unbound, routes |-> <<>>, pendingRoutes |-> <<>>]
    BY <1>1, Zenon DEF sessionRecord
  <2>2. <<>> \in Counts
    BY DEF Counts
  <2>3. sessionRecord(s) \in SessionRecords /\ sessionRecord(s).session = s
        /\ sessionRecord(s).pendingRoutes = <<>>
    BY <2>1, <2>2 DEF SessionRecords
  <2>4. QED
    BY <1>1, <2>3, TotalOfNone, Zenon
<1>2. CASE Of(s) # {}
  <2>1. At(s) \in Of(s)
    BY <1>2, Zenon DEF At
  <2>2. At(s) \in DOMAIN tracked /\ tracked[At(s)].session = s
    BY <2>1, Zenon DEF Of
  <2>3. sessionRecord(s) = tracked[At(s)]
    BY <1>2, Zenon DEF sessionRecord
  <2>4. tracked[At(s)] \in SessionRecords
    BY <2>2 DEF SessionsInv
  <2>5. QED
    BY <1>2, <2>2, <2>3, <2>4, Zenon
<1>3. QED
  BY <1>1, <1>2, Zenon

\* Deleting a session leaves the records of the others.
LEMMA Deleted ==
    ASSUME SessionsInv, NEW s \in Inferences
    PROVE  /\ Without(s) \in Seq(SessionRecords) /\ SessionsDiffer(Without(s))
           /\ Len(Without(s)) <= Len(tracked)
           /\ RecordsOf(Without(s)) = {x \in RecordsOf(tracked) : x.session # s}
<1>1. /\ tracked \in Seq(SessionRecords) /\ Len(tracked) \in Nat
      /\ DOMAIN tracked = 1 .. Len(tracked)
      /\ \A i \in DOMAIN tracked : tracked[i] \in SessionRecords
      /\ \A i, j \in DOMAIN tracked : tracked[i].session = tracked[j].session => i = j
  BY DEF SessionsInv, SessionsDiffer
<1>2. CASE Of(s) = {}
  <2>1. Without(s) = tracked
    BY <1>2, Zenon DEF Without
  <2>2. \A i \in DOMAIN tracked : tracked[i].session # s
    BY <1>2, Zenon DEF Of
  <2>3. RecordsOf(tracked) = {x \in RecordsOf(tracked) : x.session # s}
    BY <2>2 DEF RecordsOf
  <2>4. QED
    BY <1>1, <2>1, <2>3 DEF SessionsInv
<1>3. CASE Of(s) # {}
  <2> DEFINE k == At(s)
             n == Len(tracked)
             w == Without(s)
  <2>1. k \in 1 .. n /\ tracked[k].session = s
    <3>1. At(s) \in Of(s)
      BY <1>3, Zenon DEF At
    <3>2. QED
      BY <1>1, <3>1, Zenon DEF Of
  <2>2. w = SubSeq(tracked, 1, k - 1) \o SubSeq(tracked, k + 1, n)
    BY <1>3, Zenon DEF Without
  <2> HIDE DEF k, w
  <2> DEFINE u == SubSeq(tracked, 1, k - 1)
             v == SubSeq(tracked, k + 1, n)
  <2>3. u \in Seq(SessionRecords) /\ Len(u) = k - 1 /\ \A i \in 1 .. (k - 1) : u[i] = tracked[i]
    <3>1. k - 1 \in Int /\ 1 \in Int /\ \A i \in 1 .. (k - 1) : tracked[i] \in SessionRecords
      BY <1>1, <2>1
    <3>2. /\ u \in Seq(SessionRecords)
          /\ Len(u) = IF 1 <= k - 1 THEN k - 1 - 1 + 1 ELSE 0
          /\ \A i \in 1 .. k - 1 - 1 + 1 : u[i] = tracked[1 + i - 1]
      BY <3>1, SubSeqProperties
    <3> HIDE DEF u
    <3>3. QED
      BY <1>1, <2>1, <3>2
  <2>4. v \in Seq(SessionRecords) /\ Len(v) = n - k /\ \A i \in 1 .. (n - k) : v[i] = tracked[k + i]
    <3>1. k + 1 \in Int /\ n \in Int /\ \A i \in k + 1 .. n : tracked[i] \in SessionRecords
      BY <1>1, <2>1
    <3>2. /\ v \in Seq(SessionRecords)
          /\ Len(v) = IF k + 1 <= n THEN n - (k + 1) + 1 ELSE 0
          /\ \A i \in 1 .. n - (k + 1) + 1 : v[i] = tracked[k + 1 + i - 1]
      BY <3>1, SubSeqProperties
    <3> HIDE DEF v, n
    <3>3. n \in Nat /\ k \in Nat /\ 1 <= k /\ k <= n
      BY <1>1, <2>1 DEF n
    <3>4. (IF k + 1 <= n THEN n - (k + 1) + 1 ELSE 0) = n - k /\ n - (k + 1) + 1 = n - k
      BY <3>3
    <3>5. \A i \in 1 .. (n - k) : k + 1 + i - 1 = k + i
      BY <3>3
    <3>6. Len(v) = n - k
      BY <3>2, <3>4, Zenon
    <3>7. \A i \in 1 .. (n - k) : v[i] = tracked[k + i]
      BY <3>2, <3>4, <3>5
    <3>8. QED
      BY <3>2, <3>6, <3>7, Zenon
  <2>a. n \in Nat /\ k \in Nat /\ 1 <= k /\ k <= n
    BY <1>1, <2>1
  <2> HIDE DEF u, v, n
  <2>b. Len(u) = k - 1 /\ Len(v) = n - k
    BY <2>3, <2>4, Zenon
  <2>c. Len(u) + Len(v) = n - 1
    BY <2>a, <2>b
  <2>5. w \in Seq(SessionRecords) /\ Len(w) = n - 1
    <3>1. u \o v \in Seq(SessionRecords) /\ Len(u \o v) = Len(u) + Len(v)
      BY <2>3, <2>4, ConcatProperties, Zenon
    <3>2. w = u \o v
      BY <2>2 DEF u, v
    <3>3. QED
      BY <2>c, <3>1, <3>2, Zenon
  <2>6. \A i \in 1 .. (n - 1) : w[i] = IF i < k THEN tracked[i] ELSE tracked[i + 1]
    <3> SUFFICES ASSUME NEW i \in 1 .. (n - 1)
                 PROVE  w[i] = IF i < k THEN tracked[i] ELSE tracked[i + 1]
      OBVIOUS
    <3>0. w = u \o v
      BY <2>2 DEF u, v
    <3>1. i \in 1 .. (Len(u) + Len(v))
      BY <2>c
    <3>2. (u \o v)[i] = IF i <= Len(u) THEN u[i] ELSE v[i - Len(u)]
      BY <2>3, <2>4, <3>1, ConcatProperties, Zenon
    <3>3. CASE i < k
      <4>1. i \in 1 .. (k - 1) /\ i <= Len(u)
        BY <2>a, <2>b, <3>3
      <4>2. QED
        BY <2>3, <3>0, <3>2, <3>3, <4>1
    <3>4. CASE ~ (i < k)
      <4>1. i - (k - 1) \in 1 .. (n - k) /\ k + (i - (k - 1)) = i + 1 /\ ~ (i <= k - 1)
        BY <2>a, <3>4
      <4>2. w[i] = v[i - (k - 1)]
        BY <2>b, <3>0, <3>2, <4>1
      <4>3. v[i - (k - 1)] = tracked[k + (i - (k - 1))]
        BY <2>4, <4>1
      <4>4. QED
        BY <3>4, <4>1, <4>2, <4>3
    <3>5. QED
      BY <3>3, <3>4
  <2>7. DOMAIN w = 1 .. (n - 1)
    BY <2>a, <2>5
  <2> USE DEF n
  <2>8. SessionsDiffer(w)
    <3> SUFFICES ASSUME NEW i \in 1 .. (n - 1), NEW j \in 1 .. (n - 1), w[i].session = w[j].session
                 PROVE  i = j
      BY <2>7 DEF SessionsDiffer
    <3> DEFINE p(m) == IF m < k THEN m ELSE m + 1
    <3>1. w[i] = tracked[p(i)] /\ w[j] = tracked[p(j)]
      BY <2>6
    <3>2. p(i) \in DOMAIN tracked /\ p(j) \in DOMAIN tracked
      BY <1>1, <2>1
    <3>3. p(i) = p(j)
      <4> HIDE DEF p
      <4>1. QED
        BY <1>1, <3>1, <3>2
    <3>4. QED
      BY <2>1, <3>3
  <2>9. RecordsOf(w) = {x \in RecordsOf(tracked) : x.session # s}
    <3>1. ASSUME NEW x \in RecordsOf(w) PROVE x \in RecordsOf(tracked) /\ x.session # s
      <4>1. PICK i \in 1 .. (n - 1) : x = w[i]
        BY <2>7, <3>1 DEF RecordsOf
      <4>2. PICK j \in 1 .. n : x = tracked[j] /\ j # k
        <5>1. CASE i < k
          BY <1>1, <2>6, <4>1, <5>1
        <5>2. CASE ~ (i < k)
          <6>1. x = tracked[i + 1] /\ i + 1 \in 1 .. n /\ i + 1 # k
            BY <1>1, <2>1, <2>6, <4>1, <5>2
          <6>2. QED
            BY <6>1
        <5>3. QED
          BY <5>1, <5>2
      <4>3. x.session # s
        BY <1>1, <2>1, <4>2
      <4>4. QED
        BY <1>1, <4>2, <4>3 DEF RecordsOf
    <3>2. ASSUME NEW x \in RecordsOf(tracked), x.session # s PROVE x \in RecordsOf(w)
      <4>1. PICK j \in 1 .. n : x = tracked[j]
        BY <1>1, <3>2 DEF RecordsOf
      <4>2. j # k
        BY <2>1, <3>2, <4>1
      <4>3. CASE j < k
        <5>1. j \in 1 .. (n - 1) /\ w[j] = x
          BY <1>1, <2>1, <2>6, <4>1, <4>3
        <5>2. QED
          BY <2>7, <5>1 DEF RecordsOf
      <4>4. CASE j > k
        <5>1. j - 1 \in 1 .. (n - 1) /\ ~ (j - 1 < k) /\ (j - 1) + 1 = j
          BY <1>1, <2>1, <4>4
        <5>2. w[j - 1] = x
          BY <2>6, <4>1, <5>1
        <5>3. QED
          BY <2>7, <5>1, <5>2 DEF RecordsOf
      <4>5. QED
        BY <2>1, <4>2, <4>3, <4>4
    <3>3. QED
      BY <3>1, <3>2
  <2>10. QED
    BY <1>1, <2>a, <2>5, <2>8, <2>9 DEF w
<1>4. QED
  BY <1>2, <1>3, Zenon

LEMMA WaitsElsewhere ==
    ASSUME SessionsInv, NEW s \in Inferences
    PROVE  /\ Waiting(RecordsOf(Without(s))) \in Nat
           /\ Total(sessionRecord(s).pendingRoutes) \in Nat
           /\ Waiting(RecordsOf(tracked))
                = Waiting(RecordsOf(Without(s))) + Total(sessionRecord(s).pendingRoutes)
<1> DEFINE R == RecordsOf(tracked)
           W == RecordsOf(Without(s))
           x == sessionRecord(s)
<1>1. R \in SUBSET SessionRecords /\ IsFiniteSet(R)
  BY RecordsFinite, Zenon DEF SessionsInv
<1>2. W = {y \in R : y.session # s}
  BY Deleted, Zenon
<1>3. CASE Of(s) = {}
  <2>1. \A i \in DOMAIN tracked : tracked[i].session # s
    BY <1>3, Zenon DEF Of
  <2>2. W = R
    BY <1>2, <2>1 DEF RecordsOf
  <2>3. Waiting(R) \in Nat
    <3> HIDE DEF R
    <3>1. QED
      BY <1>1, WaitingIsNat, Zenon
  <2>4. Total(x.pendingRoutes) = 0
    BY <1>3, RecordOf, Zenon
  <2>5. QED
    <3> HIDE DEF R, W, x
    <3>1. Waiting(R) = Waiting(W) + Total(x.pendingRoutes)
      BY <2>2, <2>3, <2>4
    <3>2. QED
      BY <2>2, <2>3, <2>4, <3>1 DEF R, W, x
<1>4. CASE Of(s) # {}
  <2>1. At(s) \in DOMAIN tracked /\ x = tracked[At(s)] /\ x.session = s
    BY <1>4, RecordOf, Zenon
  <2>2. x \in R
    BY <2>1, Zenon DEF RecordsOf
  <2>3. \A y \in R : y.session = s => y = x
    BY <2>1 DEF RecordsOf, SessionsInv, SessionsDiffer
  <2>4. W = R \ {x}
    <3> HIDE DEF R, W, x
    <3>1. QED
      BY <1>2, <2>1, <2>3
  <2>5. QED
    <3> HIDE DEF R, W, x
    <3>1. /\ Waiting(R \ {x}) \in Nat /\ Total(x.pendingRoutes) \in Nat
          /\ Waiting(R) = Waiting(R \ {x}) + Total(x.pendingRoutes)
      BY <1>1, <2>2, WaitingLess, Zenon
    <3>2. QED
      BY <2>4, <3>1 DEF R, W, x
<1>5. QED
  BY <1>3, <1>4, Zenon

\* A touched record replaces the one of its session; the oldest may be lost.
LEMMA Touched ==
    ASSUME SessionsInv, NEW x \in SessionRecords
    PROVE  /\ touch(x) \in Seq(SessionRecords) /\ SessionsDiffer(touch(x))
           /\ Len(touch(x)) <= MaxActiveSessions
           /\ Lost(x) \in Nat /\ Waiting(RecordsOf(touch(x))) \in Nat
           /\ Waiting(RecordsOf(touch(x))) + Lost(x)
                = Waiting(RecordsOf(Without(x.session))) + Total(x.pendingRoutes)
<1> DEFINE s == x.session
           w == Without(s)
           W == RecordsOf(w)
           all == All(x)
           A == RecordsOf(all)
<1>0. s \in Inferences
  BY DEF SessionRecords
<1>1. w \in Seq(SessionRecords) /\ SessionsDiffer(w) /\ Len(w) <= Len(tracked)
  BY <1>0, Deleted, Zenon
<1>2. W = {y \in RecordsOf(tracked) : y.session # s}
  BY <1>0, Deleted, Zenon
<1>3. MaxActiveSessions \in Nat \ {0} /\ Len(tracked) \in Nat /\ Len(tracked) <= MaxActiveSessions
  BY AttributionAssumption DEF SessionsInv
<1> HIDE DEF w
<1>4. all = Append(w, x)
  BY Zenon DEF All, w
<1> HIDE DEF all
<1>5. all \in Seq(SessionRecords)
  BY <1>1, <1>4, AppendProperties, Zenon
<1>6. Len(w) \in Nat /\ DOMAIN w = 1 .. Len(w) /\ Len(all) = Len(w) + 1 /\ DOMAIN all = 1 .. (Len(w) + 1)
  <2>1. Len(all) = Len(w) + 1
    BY <1>1, <1>4, AppendProperties, Zenon
  <2>2. QED
    BY <1>1, <1>5, <2>1
<1>7. all[Len(w) + 1] = x /\ \A i \in DOMAIN w : all[i] = w[i]
  BY <1>1, <1>4, <1>6, AppendProperties
<1>8. A = W \cup {x}
  <2>1. ASSUME NEW y \in A PROVE y \in W \cup {x}
    <3>1. PICK i \in DOMAIN all : y = all[i]
      BY <2>1 DEF RecordsOf
    <3>2. CASE i = Len(w) + 1
      BY <1>7, <3>1, <3>2
    <3>3. CASE i # Len(w) + 1
      <4>1. i \in DOMAIN w
        BY <1>6, <3>1, <3>3
      <4>2. QED
        BY <1>7, <3>1, <4>1 DEF RecordsOf
    <3>4. QED
      BY <3>2, <3>3, Zenon
  <2>2. ASSUME NEW y \in W PROVE y \in A
    <3>1. PICK i \in DOMAIN w : y = w[i]
      BY <2>2 DEF RecordsOf
    <3>2. i \in DOMAIN all /\ y = all[i]
      BY <1>6, <1>7, <3>1
    <3>3. QED
      BY <3>2 DEF RecordsOf
  <2>3. x \in A
    <3>1. Len(w) + 1 \in DOMAIN all
      BY <1>6
    <3>2. QED
      BY <1>7, <3>1 DEF RecordsOf
  <2>4. QED
    <3> HIDE DEF A, W
    <3>1. QED
      BY <2>1, <2>2, <2>3
<1>9. x \notin W
  BY <1>2
<1>10. A \in SUBSET SessionRecords /\ IsFiniteSet(A) /\ W \in SUBSET SessionRecords /\ IsFiniteSet(W)
  BY <1>1, <1>5, RecordsFinite, Zenon
<1>11. /\ Waiting(W) \in Nat /\ Total(x.pendingRoutes) \in Nat
       /\ Waiting(A) = Waiting(W) + Total(x.pendingRoutes)
  <2> HIDE DEF A, W
  <2>1. A \ {x} = W /\ x \in A
    BY <1>8, <1>9
  <2>2. /\ Waiting(A \ {x}) \in Nat /\ Total(x.pendingRoutes) \in Nat
        /\ Waiting(A) = Waiting(A \ {x}) + Total(x.pendingRoutes)
    BY <1>10, <2>1, WaitingLess, Zenon
  <2>3. QED
    BY <2>1, <2>2
<1>12. SessionsDiffer(all)
  <2>1. \A i \in DOMAIN w : w[i].session # s
    BY <1>2 DEF RecordsOf
  <2>2. SUFFICES ASSUME NEW i \in DOMAIN all, NEW j \in DOMAIN all, all[i].session = all[j].session
                 PROVE  i = j
    BY DEF SessionsDiffer
  <2>3. CASE i \in DOMAIN w /\ j \in DOMAIN w
    BY <1>1, <1>7, <2>2, <2>3 DEF SessionsDiffer
  <2>4. CASE i \notin DOMAIN w \/ j \notin DOMAIN w
    <3>1. (i \notin DOMAIN w => i = Len(w) + 1) /\ (j \notin DOMAIN w => j = Len(w) + 1)
      BY <1>6
    <3>2. QED
      BY <1>7, <2>1, <2>2, <2>4, <3>1
  <2>5. QED
    BY <2>3, <2>4, Zenon
<1>13. CASE ~ Evicts(x)
  <2>1. touch(x) = all /\ Lost(x) = 0 /\ ~ (Len(all) > MaxActiveSessions)
    BY <1>13, Zenon DEF touch, Lost, Evicts, all
  <2>2. Len(touch(x)) <= MaxActiveSessions
    BY <1>3, <1>6, <2>1
  <2>3. Waiting(RecordsOf(touch(x))) + Lost(x) = Waiting(W) + Total(x.pendingRoutes)
        /\ Lost(x) \in Nat /\ Waiting(RecordsOf(touch(x))) \in Nat
    <3>1. RecordsOf(touch(x)) = A
      BY <2>1, Zenon
    <3> HIDE DEF A, W
    <3>2. QED
      BY <1>11, <2>1, <3>1
  <2>4. QED
    BY <1>5, <1>12, <2>1, <2>2, <2>3, Zenon DEF w
<1>14. CASE Evicts(x)
  <2>1. touch(x) = Tail(all) /\ Lost(x) = Total(Head(all).pendingRoutes)
    BY <1>14, Zenon DEF touch, Lost, all
  <2>2. Head(all) = all[1] /\ 1 \in DOMAIN all /\ all # <<>>
    BY <1>5, <1>6
  <2> DEFINE t == Tail(all)
             h == all[1]
  <2>3. t \in Seq(SessionRecords) /\ Len(t) = Len(all) - 1
        /\ \A i \in 1 .. Len(t) : t[i] = all[i + 1]
    BY <1>5, <2>2, HeadTailProperties
  <2> HIDE DEF t
  <2>4. Len(t) = Len(w) /\ DOMAIN t = 1 .. Len(w)
    <3>1. Len(t) = Len(w)
      <4>1. Len(t) = Len(all) - 1
        BY <2>3, Zenon
      <4>2. QED
        BY <1>6, <4>1
    <3>2. DOMAIN t = 1 .. Len(t)
      BY <2>3
    <3>3. QED
      BY <3>1, <3>2, Zenon
  <2>a. \A i \in DOMAIN t : t[i] = all[i + 1] /\ i + 1 \in DOMAIN all /\ i + 1 # 1
    BY <1>6, <2>3, <2>4
  <2>5. SessionsDiffer(t)
    <3> SUFFICES ASSUME NEW i \in DOMAIN t, NEW j \in DOMAIN t, t[i].session = t[j].session
                 PROVE  i = j
      BY DEF SessionsDiffer
    <3>1. i + 1 = j + 1
      BY <1>12, <2>a DEF SessionsDiffer
    <3>2. QED
      BY <1>6, <2>4, <3>1
  <2>6. RecordsOf(t) = A \ {h}
    <3>1. ASSUME NEW y \in RecordsOf(t) PROVE y \in A \ {h}
      <4>1. PICK i \in DOMAIN t : y = t[i]
        BY <3>1 DEF RecordsOf
      <4>2. i + 1 \in DOMAIN all /\ y = all[i + 1] /\ i + 1 # 1
        BY <2>a, <4>1
      <4>3. y.session # h.session
        BY <1>12, <2>2, <4>2 DEF SessionsDiffer
      <4>4. QED
        BY <4>2, <4>3 DEF RecordsOf
    <3>2. ASSUME NEW y \in A, y # h PROVE y \in RecordsOf(t)
      <4>1. PICK i \in DOMAIN all : y = all[i]
        BY <3>2 DEF RecordsOf
      <4>2. i # 1
        BY <3>2, <4>1
      <4>3. i - 1 \in DOMAIN t /\ (i - 1) + 1 = i
        BY <1>6, <2>4, <4>1, <4>2
      <4>4. y = t[i - 1]
        BY <2>a, <4>1, <4>3
      <4>5. QED
        BY <4>3, <4>4 DEF RecordsOf
    <3>3. QED
      <4> HIDE DEF A, h
      <4>1. QED
        BY <3>1, <3>2
  <2>7. /\ Waiting(RecordsOf(t)) \in Nat /\ Total(h.pendingRoutes) \in Nat
        /\ Waiting(A) = Waiting(RecordsOf(t)) + Total(h.pendingRoutes)
    <3>1. h \in A
      BY <2>2, Zenon DEF RecordsOf
    <3> HIDE DEF A, h
    <3>2. /\ Waiting(A \ {h}) \in Nat /\ Total(h.pendingRoutes) \in Nat
          /\ Waiting(A) = Waiting(A \ {h}) + Total(h.pendingRoutes)
      BY <1>10, <3>1, WaitingLess, Zenon
    <3>3. QED
      BY <2>6, <3>2, Zenon
  <2>8. Waiting(RecordsOf(touch(x))) + Lost(x) = Waiting(W) + Total(x.pendingRoutes)
        /\ Lost(x) \in Nat /\ Waiting(RecordsOf(touch(x))) \in Nat
    <3>1. touch(x) = t /\ Lost(x) = Total(h.pendingRoutes)
      BY <2>1, <2>2, Zenon DEF t
    <3> HIDE DEF A, W, h
    <3>2. QED
      BY <1>11, <2>7, <3>1
  <2>9. Len(t) <= MaxActiveSessions
    <3>1. Len(w) <= Len(tracked)
      BY <1>1, Zenon
    <3>2. QED
      BY <1>3, <1>6, <2>4, <3>1
  <2>10. touch(x) = t
    BY <2>1 DEF t
  <2>11. QED
    BY <2>3, <2>5, <2>8, <2>9, <2>10, Zenon DEF w
<1>15. QED
  BY <1>13, <1>14, Zenon

\* Who is lost depends on which session is touched, not on its record.
LEMMA LostAlike ==
    ASSUME SessionsInv, NEW x \in SessionRecords, NEW y \in SessionRecords, x.session = y.session
    PROVE  Lost(x) = Lost(y)
<1> DEFINE w == Without(x.session)
<1>1. w \in Seq(SessionRecords)
  BY Deleted DEF SessionRecords
<1>2. All(x) = Append(w, x) /\ All(y) = Append(w, y)
  BY Zenon DEF All
<1> HIDE DEF w
<1>3. /\ Len(Append(w, x)) = Len(w) + 1 /\ Append(w, x) \in Seq(SessionRecords)
      /\ \A i \in 1 .. Len(w) : Append(w, x)[i] = w[i]
  BY <1>1, AppendProperties
<1>4. /\ Len(Append(w, y)) = Len(w) + 1 /\ Append(w, y) \in Seq(SessionRecords)
      /\ \A i \in 1 .. Len(w) : Append(w, y)[i] = w[i]
  BY <1>1, AppendProperties
<1>5. Evicts(x) <=> Evicts(y)
  BY <1>2, <1>3, <1>4, Zenon DEF Evicts
<1>6. CASE ~ Evicts(x)
  BY <1>5, <1>6, Zenon DEF Lost
<1>7. CASE Evicts(x)
  <2>1. Len(w) + 1 > MaxActiveSessions
    BY <1>2, <1>3, <1>7, Zenon DEF Evicts
  <2>2. 1 \in 1 .. Len(w)
    BY <1>1, <2>1, AttributionAssumption
  <2>3. Head(Append(w, x)) = Append(w, x)[1] /\ Head(Append(w, y)) = Append(w, y)[1]
    <3>1. Append(w, x) # <<>> /\ Append(w, y) # <<>>
      BY <1>3, <1>4, <2>2
    <3>2. QED
      BY <1>3, <1>4, <3>1, HeadTailProperties
  <2>4. Head(All(x)) = Head(All(y))
    BY <1>2, <1>3, <1>4, <2>2, <2>3, Zenon
  <2>5. QED
    BY <1>5, <1>7, <2>4, Zenon DEF Lost
<1>8. QED
  BY <1>6, <1>7, Zenon

-----------------------------------------------------------------------------
\* The account.

AttributionInv ==
    /\ account \in [made : Nat, dropped : Nat, events : Nat, by : [Agents -> Nat]]
    /\ SessionsInv
    /\ AccountsFor(Now, account.by)
    /\ account.made = Sum(account.by) + Waiting(RecordsOf(tracked)) + account.dropped

LEMMA WhatWaits == unattributedRequests = Waiting(RecordsOf(tracked))
BY Zenon DEF unattributedRequests, Waiting, RecordsOf

LEMMA Facts ==
    ASSUME AttributionInv
    PROVE  /\ account \in [made : Nat, dropped : Nat, events : Nat, by : [Agents -> Nat]]
           /\ SessionsInv
           /\ AccountsFor(Now, account.by)
           /\ account.made = Sum(account.by) + Waiting(RecordsOf(tracked)) + account.dropped
           /\ Sum(account.by) \in Nat
<1>1. IsFiniteSet(Units(account.by))
  BY Zenon DEF AttributionInv, AccountsFor
<1>2. QED
  BY <1>1, FS_CardinalityType, Zenon DEF AttributionInv, Sum

\* When requests of a are credited, the sum grows by as many.
LEMMA SumCredited ==
    ASSUME NEW by \in [Agents -> Nat], IsFiniteSet(Units(by)), NEW a \in Agents, NEW n \in Nat
    PROVE  /\ [by EXCEPT ![a] = @ + n] \in [Agents -> Nat]
           /\ Sum([by EXCEPT ![a] = @ + n]) = Sum(by) + n /\ Sum(by) \in Nat
<1> DEFINE g == [by EXCEPT ![a] = @ + n]
<1>1. /\ g \in [Agents -> Nat] /\ by[a] \in Nat /\ g[a] = by[a] + n /\ g[a] \in Nat
      /\ DOMAIN g = DOMAIN by \cup {a} /\ \A b \in DOMAIN by \ {a} : g[b] = by[b]
      /\ a \in DOMAIN by
  OBVIOUS
<1> HIDE DEF g
<1>2. by[a] = IF a \in DOMAIN by THEN by[a] ELSE 0
  BY <1>1
<1>3. Sum(by) \in Nat /\ Sum(g) \in Nat /\ Sum(g) + by[a] = Sum(by) + g[a]
  BY <1>1, <1>2, SumChanges
<1>4. QED
  BY <1>1, <1>3 DEF g

LEMMA BindInv ==
    ASSUME AttributionInv, NEW s \in Inferences, NEW a \in Agents, bindAgentSession(s, a)
    PROVE  AttributionInv'
<1> DEFINE x == sessionRecord(s)
           b == Bound(x, a)
           pending == Total(x.pendingRoutes)
           by == [account.by EXCEPT ![a] = @ + pending]
<1>1. SessionsInv /\ AccountsFor(Now, account.by)
  BY Facts, Zenon
<1>2. x \in SessionRecords /\ x.session = s
  BY <1>1, RecordOf, Zenon
<1> HIDE DEF x
<1>3. b \in SessionRecords /\ b.session = s /\ b.pendingRoutes = <<>>
  <2>1. <<>> \in Counts
    BY DEF Counts
  <2>2. QED
    BY <1>2, <2>1 DEF Bound, SessionRecords
<1> HIDE DEF b
<1>4. Lost(b) = Lost(x)
  BY <1>1, <1>2, <1>3, LostAlike, Zenon
<1>5. /\ touch(b) \in Seq(SessionRecords) /\ SessionsDiffer(touch(b))
      /\ Len(touch(b)) <= MaxActiveSessions
      /\ Lost(b) \in Nat /\ Waiting(RecordsOf(touch(b))) \in Nat
      /\ Waiting(RecordsOf(touch(b))) + Lost(b) = Waiting(RecordsOf(Without(s))) + Total(<<>>)
  BY <1>1, <1>3, Touched
<1>6. /\ Waiting(RecordsOf(Without(s))) \in Nat /\ pending \in Nat
      /\ Waiting(RecordsOf(tracked)) = Waiting(RecordsOf(Without(s))) + pending
  BY <1>1, WaitsElsewhere, Zenon DEF x
<1>7. x.pendingRoutes \in Counts
  BY <1>2 DEF SessionRecords
<1>8. AccountsFor(addAll(a, x.pendingRoutes), by)
  BY <1>1, <1>7, AllAdded, Zenon
<1>9. /\ tracked' = touch(b)
      /\ aggregates' = addAll(a, x.pendingRoutes).by
      /\ collapsed' = addAll(a, x.pendingRoutes).collapsed
      /\ account' = [account EXCEPT !.events = @ + 1, !.dropped = @ + Lost(x), !.by[a] = @ + pending]
  BY Zenon DEF bindAgentSession, Credit, x, b
<1>10. account \in [made : Nat, dropped : Nat, events : Nat, by : [Agents -> Nat]]
       /\ account.made = Sum(account.by) + Waiting(RecordsOf(tracked)) + account.dropped
       /\ Sum(account.by) \in Nat
  BY Facts, Zenon
<1> HIDE DEF pending
<1>11. by \in [Agents -> Nat] /\ Sum(by) = Sum(account.by) + pending
  <2>1. IsFiniteSet(Units(account.by)) /\ account.by \in [Agents -> Nat]
    BY <1>1, Zenon DEF AccountsFor
  <2>2. QED
    BY <1>6, <2>1, SumCredited, Zenon
<1>12. account'.by = by /\ account'.made = account.made /\ account'.dropped = account.dropped + Lost(x)
       /\ account'.events \in Nat
       /\ account' \in [made : Nat, dropped : Nat, events : Nat, by : [Agents -> Nat]]
  <2> DEFINE lost == Lost(x)
  <2>1. lost \in Nat
    BY <1>4, <1>5
  <2>2. account' = [account EXCEPT !.events = @ + 1, !.dropped = @ + lost, !.by = by]
    BY <1>9, <1>10
  <2> HIDE DEF lost, by
  <2>3. account'.by = by /\ account'.made = account.made /\ account'.dropped = account.dropped + lost
        /\ account'.events \in Nat
        /\ account' \in [made : Nat, dropped : Nat, events : Nat, by : [Agents -> Nat]]
    <3>1. account' = [made |-> account.made, dropped |-> account.dropped + lost,
                      events |-> account.events + 1, by |-> by]
      BY <1>10, <2>2
    <3>2. account.made \in Nat /\ account.dropped \in Nat /\ account.events \in Nat
      BY <1>10
    <3>3. account.dropped + lost \in Nat /\ account.events + 1 \in Nat
      BY <2>1, <3>2
    <3>4. QED
      BY <1>11, <3>1, <3>2, <3>3
  <2>4. QED
    BY <2>3 DEF lost
<1> HIDE DEF by
<1>13. AccountsFor(Now, account.by)'
  <2>1. Now'.by = addAll(a, x.pendingRoutes).by /\ Now'.collapsed = addAll(a, x.pendingRoutes).collapsed
    BY <1>9 DEF Now
  <2>2. AccountsFor(Now', by)
    BY <1>8, <2>1, Zenon DEF AccountsFor
  <2>3. account'.by = by
    BY <1>12, Zenon
  <2>4. QED
    BY <2>2, <2>3, Zenon DEF AccountsFor, Named, RoutesBounded, Requests
<1>14. SessionsInv'
  BY <1>5, <1>9, Zenon DEF SessionsInv, SessionsDiffer
<1>15. account'.made = Sum(account'.by) + Waiting(RecordsOf(tracked')) + account'.dropped
  <2>1. Waiting(RecordsOf(tracked')) = Waiting(RecordsOf(touch(b)))
    BY <1>9, Zenon
  <2>2. account'.made = account.made /\ Sum(account'.by) = Sum(account.by) + pending
        /\ account'.dropped = account.dropped + Lost(b)
    BY <1>4, <1>11, <1>12, Zenon
  <2>3. Waiting(RecordsOf(touch(b))) + Lost(b) = Waiting(RecordsOf(Without(s)))
    BY <1>5, <1>6, TotalOfNone
  <2>4. account.dropped \in Nat
    BY <1>10
  <2>5. QED
    BY <1>5, <1>6, <1>10, <2>1, <2>2, <2>3, <2>4
<1>16. QED
  BY <1>12, <1>13, <1>14, <1>15, Zenon DEF AttributionInv, Waiting, RecordsOf, SessionsInv

LEMMA RequestInv ==
    ASSUME AttributionInv, NEW s \in Inferences, NEW r \in Routes, recordAgentRequest(s, r)
    PROVE  AttributionInv'
<1> DEFINE old == sessionRecord(s)
           counted == [old EXCEPT !.routes = incrementBounded(@, r, 1)]
           waiting == [counted EXCEPT !.pendingRoutes = incrementBounded(@, r, 1)]
           lost == Lost(old)
<1>1. SessionsInv /\ AccountsFor(Now, account.by)
  BY Facts, Zenon
<1>2. old \in SessionRecords /\ old.session = s
  BY <1>1, RecordOf, Zenon
<1>3. /\ Waiting(RecordsOf(Without(s))) \in Nat /\ Total(old.pendingRoutes) \in Nat
      /\ Waiting(RecordsOf(tracked)) = Waiting(RecordsOf(Without(s))) + Total(old.pendingRoutes)
  BY <1>1, WaitsElsewhere, Zenon
<1>4. account \in [made : Nat, dropped : Nat, events : Nat, by : [Agents -> Nat]]
      /\ account.made = Sum(account.by) + Waiting(RecordsOf(tracked)) + account.dropped
      /\ Sum(account.by) \in Nat
  BY Facts, Zenon
<1>5. account' = [made |-> account.made + 1, dropped |-> account.dropped + lost, events |-> account.events,
                  by |-> [a \in Agents |-> account.by[a] + IF a = counted.agent THEN 1 ELSE 0]]
  BY Zenon DEF recordAgentRequest
<1>6. /\ old.agent = Unbound =>
           tracked' = touch(waiting) /\ aggregates' = aggregates /\ collapsed' = collapsed
      /\ old.agent # Unbound =>
           /\ tracked' = touch(counted)
           /\ aggregates' = addAggregate(Now, old.agent, r, 1).by
           /\ collapsed' = addAggregate(Now, old.agent, r, 1).collapsed
  <2>1. counted.agent = old.agent
    BY <1>2 DEF SessionRecords
  <2> HIDE DEF old
  <2>2. QED
    BY <2>1 DEF recordAgentRequest, Credit, old
<1> HIDE DEF old
<1>7. incrementBounded(old.routes, r, 1) \in Counts
      /\ incrementBounded(old.pendingRoutes, r, 1) \in Counts
      /\ Total(incrementBounded(old.pendingRoutes, r, 1)) = Total(old.pendingRoutes) + 1
  <2>1. old.routes \in Counts /\ old.pendingRoutes \in Counts
    BY <1>2 DEF SessionRecords
  <2>2. r \in Routes \cup {Other} /\ 1 \in Nat \ {0}
    OBVIOUS
  <2>3. QED
    BY <2>1, <2>2, Incremented, Zenon
<1>8. counted \in SessionRecords /\ counted.session = s /\ counted.agent = old.agent
      /\ counted.pendingRoutes = old.pendingRoutes
  BY <1>2, <1>7 DEF SessionRecords
<1>9. waiting \in SessionRecords /\ waiting.session = s
      /\ waiting.pendingRoutes = incrementBounded(old.pendingRoutes, r, 1)
  BY <1>2, <1>7 DEF SessionRecords
<1> HIDE DEF counted, waiting
<1>10. Lost(counted) = lost /\ Lost(waiting) = lost
  BY <1>1, <1>2, <1>8, <1>9, LostAlike, Zenon
<1> HIDE DEF lost
<1>11. /\ touch(counted) \in Seq(SessionRecords) /\ SessionsDiffer(touch(counted))
       /\ Len(touch(counted)) <= MaxActiveSessions
       /\ lost \in Nat /\ Waiting(RecordsOf(touch(counted))) \in Nat
       /\ Waiting(RecordsOf(touch(counted))) + lost
            = Waiting(RecordsOf(Without(s))) + Total(old.pendingRoutes)
  BY <1>1, <1>8, <1>10, Touched
<1>12. /\ touch(waiting) \in Seq(SessionRecords) /\ SessionsDiffer(touch(waiting))
       /\ Len(touch(waiting)) <= MaxActiveSessions
       /\ Waiting(RecordsOf(touch(waiting))) \in Nat
       /\ Waiting(RecordsOf(touch(waiting))) + lost
            = Waiting(RecordsOf(Without(s))) + (Total(old.pendingRoutes) + 1)
  BY <1>1, <1>7, <1>9, <1>10, Touched
<1>13. account.made \in Nat /\ account.dropped \in Nat /\ account.events \in Nat
       /\ account.by \in [Agents -> Nat]
  BY <1>4
<1>14. CASE old.agent = Unbound
  <2>1. \A a \in Agents : a # old.agent
    BY <1>14, AttributionAssumption DEF Agents, Unbound
  <2>2. account'.by = account.by
    <3>1. account'.by = [a \in Agents |-> account.by[a] + IF a = counted.agent THEN 1 ELSE 0]
      BY <1>5
    <3>2. \A a \in Agents : account.by[a] + (IF a = counted.agent THEN 1 ELSE 0) = account.by[a]
      BY <1>8, <1>13, <2>1
    <3>3. QED
      BY <1>13, <3>1, <3>2
  <2>3. account'.made = account.made + 1 /\ account'.dropped = account.dropped + lost
        /\ account'.events \in Nat
    BY <1>5, <1>13
  <2>4. account' \in [made : Nat, dropped : Nat, events : Nat, by : [Agents -> Nat]]
    <3>1. account'.made \in Nat /\ account'.dropped \in Nat /\ account'.by \in [Agents -> Nat]
      BY <1>11, <1>13, <2>2, <2>3
    <3>2. QED
      BY <1>5, <2>3, <3>1
  <2>5. tracked' = touch(waiting) /\ aggregates' = aggregates /\ collapsed' = collapsed
    BY <1>6, <1>14, Zenon
  <2>6. AccountsFor(Now, account.by)'
    <3>1. Now' = Now
      BY <2>5, Zenon DEF Now
    <3>2. QED
      BY <1>1, <2>2, <3>1, Zenon DEF AccountsFor, Named, RoutesBounded, Requests
  <2>7. SessionsInv'
    BY <1>12, <2>5, Zenon DEF SessionsInv, SessionsDiffer
  <2>8. account'.made = Sum(account'.by) + Waiting(RecordsOf(tracked')) + account'.dropped
    <3>1. Waiting(RecordsOf(tracked')) = Waiting(RecordsOf(touch(waiting)))
          /\ Sum(account'.by) = Sum(account.by)
      BY <2>2, <2>5, Zenon
    <3>2. lost \in Nat /\ Waiting(RecordsOf(touch(waiting))) \in Nat
          /\ Waiting(RecordsOf(touch(waiting))) + lost
               = Waiting(RecordsOf(Without(s))) + (Total(old.pendingRoutes) + 1)
      BY <1>11, <1>12, Zenon
    <3>3. account.made = Sum(account.by) + Waiting(RecordsOf(tracked)) + account.dropped
          /\ Sum(account.by) \in Nat
      BY <1>4, Zenon
    <3>4. QED
      BY <1>3, <1>13, <2>3, <3>1, <3>2, <3>3
  <2>9. QED
    BY <2>4, <2>6, <2>7, <2>8, Zenon DEF AttributionInv, Waiting, RecordsOf, SessionsInv
<1>15. CASE old.agent # Unbound
  <2> DEFINE a == old.agent
             by == [account.by EXCEPT ![a] = @ + 1]
             g == addAggregate(Now, a, r, 1)
  <2>1. a \in Agents
    BY <1>2, <1>15 DEF SessionRecords
  <2> HIDE DEF a
  <2>2. AccountsFor(g, by)
    <3>1. r \in Routes \cup {Other} /\ 1 \in Nat \ {0}
      OBVIOUS
    <3>2. QED
      BY <1>1, <2>1, <3>1, Added, Zenon
  <2>3. account'.by = by
    <3>1. account'.by = [c \in Agents |-> account.by[c] + IF c = a THEN 1 ELSE 0]
      BY <1>5, <1>8 DEF a
    <3>2. \A c \in Agents : account.by[c] + (IF c = a THEN 1 ELSE 0) = by[c]
      BY <1>13, <2>1
    <3>3. by = [c \in Agents |-> by[c]]
      BY <1>13
    <3> HIDE DEF by
    <3>4. QED
      BY <3>1, <3>2, <3>3
  <2>4. by \in [Agents -> Nat] /\ Sum(by) = Sum(account.by) + 1
    <3>1. IsFiniteSet(Units(account.by)) /\ 1 \in Nat
      BY <1>1, Zenon DEF AccountsFor
    <3>2. QED
      BY <1>13, <2>1, <3>1, SumCredited, Zenon
  <2> HIDE DEF by, g
  <2>5. account'.made = account.made + 1 /\ account'.dropped = account.dropped + lost
        /\ account'.events \in Nat
    BY <1>5, <1>13
  <2>6. account' \in [made : Nat, dropped : Nat, events : Nat, by : [Agents -> Nat]]
    <3>1. account'.made \in Nat /\ account'.dropped \in Nat /\ account'.by \in [Agents -> Nat]
      BY <1>11, <1>13, <2>3, <2>4, <2>5
    <3>2. QED
      BY <1>5, <2>5, <3>1
  <2>7. tracked' = touch(counted) /\ aggregates' = g.by /\ collapsed' = g.collapsed
    BY <1>6, <1>15, Zenon DEF a, g
  <2>8. AccountsFor(Now, account.by)'
    <3>1. Now'.by = g.by /\ Now'.collapsed = g.collapsed
      BY <2>7 DEF Now
    <3>2. AccountsFor(Now', by)
      BY <2>2, <3>1, Zenon DEF AccountsFor
    <3>3. QED
      BY <2>3, <3>2, Zenon DEF AccountsFor, Named, RoutesBounded, Requests
  <2>9. SessionsInv'
    BY <1>11, <2>7, Zenon DEF SessionsInv, SessionsDiffer
  <2>10. account'.made = Sum(account'.by) + Waiting(RecordsOf(tracked')) + account'.dropped
    <3>1. Waiting(RecordsOf(tracked')) = Waiting(RecordsOf(touch(counted)))
          /\ Sum(account'.by) = Sum(account.by) + 1
      BY <2>3, <2>4, <2>7, Zenon
    <3>2. QED
      BY <1>3, <1>4, <1>11, <1>13, <2>5, <3>1
  <2>11. QED
    BY <2>6, <2>8, <2>9, <2>10, Zenon DEF AttributionInv, Waiting, RecordsOf, SessionsInv
<1>16. QED
  BY <1>14, <1>15, Zenon

LEMMA ReleaseInv ==
    ASSUME AttributionInv, NEW s \in Inferences, releaseAgentSession(s)
    PROVE  AttributionInv'
<1> DEFINE pending == Total(sessionRecord(s).pendingRoutes)
<1>1. SessionsInv /\ AccountsFor(Now, account.by)
  BY Facts, Zenon
<1>2. /\ Waiting(RecordsOf(Without(s))) \in Nat /\ pending \in Nat
      /\ Waiting(RecordsOf(tracked)) = Waiting(RecordsOf(Without(s))) + pending
  BY <1>1, WaitsElsewhere, Zenon
<1>3. account \in [made : Nat, dropped : Nat, events : Nat, by : [Agents -> Nat]]
      /\ account.made = Sum(account.by) + Waiting(RecordsOf(tracked)) + account.dropped
      /\ Sum(account.by) \in Nat
  BY Facts, Zenon
<1>4. tracked' = Without(s) /\ aggregates' = aggregates /\ collapsed' = collapsed
      /\ account' = [account EXCEPT !.events = @ + 1, !.dropped = @ + pending]
  BY Zenon DEF releaseAgentSession
<1> HIDE DEF pending
<1>5. account'.by = account.by /\ account'.made = account.made
      /\ account'.dropped = account.dropped + pending
      /\ account' \in [made : Nat, dropped : Nat, events : Nat, by : [Agents -> Nat]]
  <2>1. account' = [made |-> account.made, dropped |-> account.dropped + pending,
                    events |-> account.events + 1, by |-> account.by]
    BY <1>3, <1>4
  <2>2. /\ account.made \in Nat /\ account.dropped \in Nat /\ account.events \in Nat
        /\ account.by \in [Agents -> Nat]
    BY <1>3
  <2>3. account.dropped + pending \in Nat /\ account.events + 1 \in Nat
    BY <1>2, <2>2
  <2>4. QED
    BY <2>1, <2>2, <2>3
<1>6. AccountsFor(Now, account.by)'
  <2>1. Now' = Now
    BY <1>4, Zenon DEF Now
  <2>2. QED
    BY <1>1, <1>5, <2>1, Zenon DEF AccountsFor, Named, RoutesBounded, Requests
<1>7. SessionsInv'
  <2>1. Without(s) \in Seq(SessionRecords) /\ SessionsDiffer(Without(s))
        /\ Len(Without(s)) <= Len(tracked)
    BY <1>1, Deleted, Zenon
  <2>2. Len(Without(s)) <= MaxActiveSessions
    <3>1. Len(Without(s)) \in Nat /\ Len(tracked) \in Nat /\ Len(tracked) <= MaxActiveSessions
      BY <1>1, <2>1 DEF SessionsInv
    <3>2. QED
      BY <2>1, <3>1, AttributionAssumption
  <2>3. QED
    BY <1>4, <2>1, <2>2, Zenon DEF SessionsInv, SessionsDiffer
<1>8. account'.made = Sum(account'.by) + Waiting(RecordsOf(tracked')) + account'.dropped
  <2>1. Waiting(RecordsOf(tracked')) = Waiting(RecordsOf(Without(s)))
        /\ Sum(account'.by) = Sum(account.by)
    BY <1>4, <1>5, Zenon
  <2>2. account.dropped \in Nat
    BY <1>3
  <2>3. QED
    BY <1>2, <1>3, <1>5, <2>1, <2>2
<1>9. QED
  BY <1>5, <1>6, <1>7, <1>8, Zenon DEF AttributionInv, Waiting, RecordsOf, SessionsInv

LEMMA AttributionInitInv == AttributionInit => AttributionInv
<1> SUFFICES ASSUME AttributionInit PROVE AttributionInv
  OBVIOUS
<1>1. tracked = <<>> /\ DOMAIN aggregates = {} /\ collapsed = 0
      /\ account = [made |-> 0, dropped |-> 0, events |-> 0, by |-> [a \in Agents |-> 0]]
  BY DEF AttributionInit
<1>2. SessionsInv
  BY <1>1, AttributionAssumption DEF SessionsInv, SessionsDiffer
<1>3. RecordsOf(tracked) = {}
  BY <1>1 DEF RecordsOf
<1>4. Waiting(RecordsOf(tracked)) = 0
  <2>1. DOMAIN [x \in RecordsOf(tracked) |-> Total(x.pendingRoutes)] = {}
    BY <1>3
  <2>2. QED
    BY <2>1, SumOfNone, Zenon DEF Waiting
<1>5. account.by \in [Agents -> Nat] /\ \A a \in Agents : account.by[a] = 0
  BY <1>1
<1>6. Units(account.by) = {}
  <2>1. ASSUME NEW u \in Units(account.by) PROVE FALSE
    <3>1. PICK a \in DOMAIN account.by : \E n \in 1 .. account.by[a] : u = <<a, n>>
      BY <2>1, InUnits
    <3>2. QED
      BY <1>5, <3>1
  <2>2. QED
    BY <2>1
<1>7. IsFiniteSet(Units(account.by)) /\ Sum(account.by) = 0
  BY <1>6, FS_EmptySet, Zenon DEF Sum
<1>8. AccountsFor(Now, account.by)
  <2>1. Now.by = aggregates /\ Now.collapsed = 0 /\ DOMAIN Now.by = {}
    BY <1>1 DEF Now
  <2> HIDE DEF Now
  <2>2. IsFiniteSet({}) /\ Cardinality({}) = 0
    BY FS_EmptySet, Zenon
  <2>3. Named(Now.by) = {}
    BY <2>1 DEF Named
  <2>4. Cardinality(Named(Now.by)) <= MaxAgentAggregates
    BY <2>2, <2>3, AttributionAssumption
  <2>5. Sum(Requests(Now.by)) = 0
    <3>1. DOMAIN Requests(Now.by) = {}
      BY <2>1 DEF Requests
    <3>2. QED
      BY <3>1, SumOfNone, Zenon
  <2>6. \A a \in Agents : ~ (account.by[a] > 0)
    BY <1>5
  <2>7. IsFiniteSet(DOMAIN Now.by) /\ DOMAIN Now.by \subseteq Identity /\ Now.collapsed \in Nat
    BY <2>1, <2>2
  <2>8. QED
    BY <1>5, <1>7, <2>1, <2>4, <2>5, <2>6, <2>7, Zenon DEF AccountsFor
<1>9. QED
  <2>1. account \in [made : Nat, dropped : Nat, events : Nat, by : [Agents -> Nat]]
    BY <1>1
  <2>2. account.made = Sum(account.by) + Waiting(RecordsOf(tracked)) + account.dropped
    BY <1>1, <1>4, <1>7
  <2>3. QED
    BY <1>2, <1>8, <2>1, <2>2, Zenon DEF AttributionInv

LEMMA AttributionStepInv == AttributionInv /\ [AttributionNext]_attributionVars => AttributionInv'
<1> SUFFICES ASSUME AttributionInv, [AttributionNext]_attributionVars PROVE AttributionInv'
  OBVIOUS
<1>1. ASSUME NEW s \in Inferences, NEW a \in Agents, bindAgentSession(s, a) PROVE AttributionInv'
  BY <1>1, BindInv, Zenon
<1>2. ASSUME NEW s \in Inferences, NEW r \in Routes, recordAgentRequest(s, r) PROVE AttributionInv'
  BY <1>2, RequestInv, Zenon
<1>3. ASSUME NEW s \in Inferences, releaseAgentSession(s) PROVE AttributionInv'
  BY <1>3, ReleaseInv, Zenon
<1>4. ASSUME UNCHANGED attributionVars PROVE AttributionInv'
  <2>1. tracked' = tracked /\ aggregates' = aggregates /\ collapsed' = collapsed /\ account' = account
    BY <1>4 DEF attributionVars
  <2>2. SessionsInv'
    BY <2>1, Zenon DEF AttributionInv, SessionsInv, SessionsDiffer
  <2>3. Now' = Now
    BY <2>1, Zenon DEF Now
  <2>4. AccountsFor(Now', account.by')
    BY <2>1, <2>3, Zenon DEF AttributionInv
  <2>5. AccountsFor(Now, account.by)'
    BY <2>1, <2>4, Zenon
  <2>6. Waiting(RecordsOf(tracked))' = Waiting(RecordsOf(tracked))
    BY <2>1, Zenon
  <2>7. QED
    BY <2>1, <2>2, <2>5, <2>6, Zenon DEF AttributionInv
<1>5. QED
  BY <1>1, <1>2, <1>3, <1>4, Zenon DEF AttributionNext

\* The invariant bounds the rows: the named ones by MaxAgentAggregates, the
\* others by the kinds.
LEMMA AttributionSafe == AttributionInv => BoundedAccountIsExact
<1> SUFFICES ASSUME AttributionInv PROVE BoundedAccountIsExact
  OBVIOUS
<1> DEFINE D == DOMAIN aggregates
           others == {k \in D : k.name = Other}
<1>0. Now.by = aggregates
  BY DEF Now
<1>1. /\ IsFiniteSet(D) /\ D \subseteq Identity
      /\ \A k \in D : aggregates[k] \in Row
      /\ Sum(Requests(aggregates)) = Sum(account.by)
      /\ Cardinality(Named(aggregates)) <= MaxAgentAggregates
  BY <1>0, Facts, Zenon DEF AccountsFor
<1>2. \A k \in D : /\ k.name # Other => aggregates[k].requests = account.by[k]
                   /\ aggregates[k].requests = Total(aggregates[k].routes)
                   /\ RoutesBounded(aggregates[k].routes)
  BY <1>0, Facts, Zenon DEF AccountsFor
<1>3. Credited = Sum(account.by)
  BY <1>1, Zenon DEF Credited, Requests
<1>4. account.made = Credited + unattributedRequests + account.dropped
  BY <1>3, Facts, WhatWaits, Zenon
<1>5. \A k \in D : Len(aggregates[k].routes) <= MaxRoutesPerAgent + 1
  <2> SUFFICES ASSUME NEW k \in D PROVE Len(aggregates[k].routes) <= MaxRoutesPerAgent + 1
    BY Zenon
  <2>1. aggregates[k].routes \in Counts /\ RoutesBounded(aggregates[k].routes)
    BY <1>1, <1>2 DEF Row
  <2>2. Len(aggregates[k].routes) \in Nat /\ MaxRoutesPerAgent \in Nat
    BY <2>1, AttributionAssumption DEF Counts
  <2>3. QED
    BY <2>1, <2>2 DEF RoutesBounded
<1>6. Len(tracked) <= MaxActiveSessions
  BY Facts, Zenon DEF SessionsInv
<1>7. Cardinality(D) <= MaxAgentAggregates + Cardinality(Kinds)
  <2> HIDE DEF D
  <2> DEFINE f == [k \in Kinds |-> [kind |-> k, name |-> Other]]
             T == {[kind |-> k, name |-> Other] : k \in Kinds}
  <2>1. IsFiniteSet(Kinds)
    BY AttributionAssumption, Zenon
  <2>2. f \in Surjection(Kinds, T)
    <3>1. f \in [Kinds -> T] /\ \A t \in T : \E k \in Kinds : f[k] = t
      BY Zenon
    <3>2. QED
      BY <3>1, Zenon DEF Surjection
  <2>3. IsFiniteSet(T) /\ Cardinality(T) <= Cardinality(Kinds)
    <3> HIDE DEF f, T
    <3>1. QED
      BY <2>1, <2>2, FS_Surjection, Zenon
  <2>4. others \in SUBSET T
    BY <1>1 DEF Identity
  <2>5. IsFiniteSet(others) /\ Cardinality(others) <= Cardinality(T)
    <3> HIDE DEF T, others
    <3>1. QED
      BY <2>3, <2>4, FS_Subset, Zenon
  <2>6. Named(aggregates) \in SUBSET D /\ D = Named(aggregates) \cup others
        /\ Named(aggregates) \cap others = {}
    BY DEF Named, D
  <2>7. IsFiniteSet(Named(aggregates))
    BY <1>1, <2>6, FS_Subset, Zenon
  <2>8. Cardinality(D) = Cardinality(Named(aggregates)) + Cardinality(others)
                          - Cardinality(Named(aggregates) \cap others)
    <3> HIDE DEF others
    <3>1. QED
      BY <2>5, <2>6, <2>7, FS_Union, Zenon
  <2>9. Cardinality(Named(aggregates) \cap others) = 0
    BY <2>6, FS_EmptySet, Zenon
  <2>10. /\ Cardinality(Named(aggregates)) \in Nat /\ Cardinality(others) \in Nat
         /\ Cardinality(T) \in Nat /\ Cardinality(Kinds) \in Nat
    BY <2>1, <2>3, <2>5, <2>7, FS_CardinalityType, Zenon
  <2>11. QED
    <3> HIDE DEF others, T
    <3>1. QED
      BY <1>1, <2>3, <2>5, <2>8, <2>9, <2>10, AttributionAssumption
<1>8. QED
  BY <1>2, <1>3, <1>4, <1>5, <1>6, <1>7, Zenon DEF BoundedAccountIsExact

\* However sessions start, end, are evicted and change hands, and however late
\* OMP says whose they are: every request is credited once, waits, or was dropped
\* with its session, an agent with a row of its own has all its requests there,
\* and the memory is bounded (agent-attribution.ts).
THEOREM RequestsCreditedOnce == AttributionSpec => []BoundedAccountIsExact
<1>1. AttributionInit => AttributionInv
  BY AttributionInitInv
<1>2. AttributionInv /\ [AttributionNext]_attributionVars => AttributionInv'
  BY AttributionStepInv
<1>3. AttributionInv => BoundedAccountIsExact
  BY AttributionSafe
<1>4. QED
  BY <1>1, <1>2, <1>3, PTL DEF AttributionSpec
================================================================================
