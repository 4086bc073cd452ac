----------------------------- MODULE SessionStop -----------------------------
(***************************************************************************)
(* Automatic continuation of a stalled turn: the session_stop handler of   *)
(* native.ts over the session journal, together with the checkpoint        *)
(* handlers it depends on and with the OMP events that can come between    *)
(* its steps.  The handler is one uninterrupted step up to the awaited     *)
(* pi.setModel of the model stage; whatever OMP does meanwhile happens     *)
(* while the handler is "selecting".                                       *)
(***************************************************************************)
EXTENDS RecoveryJournal

CONSTANTS
    Handlers,       \* invocations of the handler that may be in flight
    UserPrompts,    \* the prompts of this instance, a subset of UserPrompt
    RunOutputs,     \* the outputs of this instance, a subset of Outputs
    RunResults,     \* the tool results of this instance, a subset of Results
    MaxId,          \* bound: journal entries ever written
    MaxMoves        \* bound: interruptions, moves and foreign entries

ASSUME SessionStopAssumption ==
    /\ UserPrompts \subseteq UserPrompt
    /\ RunOutputs \subseteq Outputs
    /\ RunResults \subseteq Results
    /\ {MaxId, MaxMoves} \subseteq Nat

VARIABLES
    session,    \* getSessionId()
    branch,     \* getBranch()
    away,       \* another place the user can go back to
    lastId,     \* ids of journal entries are never reused
    turn,       \* the main agent: its phase, whether a hook continued it, and
                \* whether agent_end is still due
    event,      \* the settlement OMP reports to session_stop
    handler,    \* the handler invocations in flight
    busy,       \* hasPendingMessages() or an async job is running
    moves,      \* how many of MaxMoves are spent
    issued      \* history: the continuations returned to OMP

vars == <<session, branch, away, lastId, turn, event, handler, busy, moves, issued>>

NoEvent == [session |-> "none"]
IdleHandler == [phase |-> "idle"]

TypeOK ==
    /\ session \in Sessions
    /\ branch \in Seq(Entry)
    /\ away \in [session : Sessions, branch : Seq(Entry)]
    /\ lastId \in Nat
    /\ turn \in [phase : {"idle", "running", "settled"}, hook : BOOLEAN, ending : BOOLEAN]
    /\ event \in Event \cup {NoEvent}
    /\ handler \in [Handlers -> {IdleHandler}
                      \cup [phase : {"selecting"}, event : Event,
                            record : Nat, aborted : BOOLEAN]]
    /\ busy \in BOOLEAN
    /\ moves \in 0 .. MaxMoves
    /\ issued \subseteq [record : Nat, planned : Nat, tip : Nat]

-----------------------------------------------------------------------------
(* pi.appendEntry and OMP's own messages.                                  *)

Append1(e) ==
    /\ lastId < MaxId
    /\ lastId' = lastId + 1
    /\ branch' = Append(branch, e)

New(kind) == [kind |-> kind, id |-> lastId + 1]
CheckpointEntry(id, c) == [kind |-> "checkpoint", id |-> id, data |-> c]

Plan == restoreExecutionCheckpoint(branch, session)

MoveCost == moves < MaxMoves /\ moves' = moves + 1
Here == UNCHANGED <<session, away>>

-----------------------------------------------------------------------------
Init ==
    /\ session \in Sessions
    /\ branch = <<>>
    /\ away = [session |-> session, branch |-> <<>>]
    /\ lastId = 0
    /\ turn = [phase |-> "idle", hook |-> FALSE, ending |-> FALSE]
    /\ event = NoEvent
    /\ handler = [h \in Handlers |-> IdleHandler]
    /\ busy = FALSE
    /\ moves = 0
    /\ issued = {}

\* before_agent_start, with the user message OMP journals: autoBegin first.
BeforeAgentStart(p) ==
    /\ turn.phase # "running"
    /\ ~ turn.ending
    /\ LET plan == createExecutionCheckpoint(session, "session", p.sha) IN
       IF autoBeginApplies(p, Plan)
       THEN /\ lastId + 2 <= MaxId
            /\ lastId' = lastId + 2
            /\ branch' = branch \o <<CheckpointEntry(lastId + 1, plan),
                                     [kind |-> "user", id |-> lastId + 2]>>
       ELSE Append1(New("user"))
    /\ turn' = [phase |-> "running", hook |-> FALSE, ending |-> FALSE]
    /\ event' = NoEvent
    /\ busy' = FALSE
    /\ UNCHANGED <<handler, moves, issued>>
    /\ Here

\* The agent calls a tool (external); at most one round between two messages.
ToolRound(sig, result) ==
    /\ turn.phase = "running"
    /\ Tip(branch).kind # "round"
    /\ Append1([kind |-> "round", id |-> lastId + 1, sig |-> sig, result |-> result])
    /\ UNCHANGED <<turn, event, handler, busy, moves, issued>>
    /\ Here

LastUser == Last({i \in DOMAIN branch : branch[i].kind = "user"})

\* The turn ends: OMP reports the messages since the last user message.
Settle(output) ==
    /\ turn.phase = "running"
    /\ Append1([kind |-> "stop", id |-> lastId + 1, output |-> output])
    /\ turn' = [turn EXCEPT !.phase = "settled", !.ending = TRUE]
    /\ event' = [session |-> session, assistant |-> lastId + 1, output |-> output,
                 rounds |-> {branch[i] : i \in Rounds(branch, LastUser, Len(branch) + 1)},
                 hook |-> turn.hook]
    /\ UNCHANGED <<handler, busy, moves, issued>>
    /\ Here

\* agent_end: checkpointLedger.afterTurn accounts for tool results.
ToolResultsAfter(b) ==
    \E i \in DOMAIN b :
        /\ b[i].kind = "round" /\ b[i].result # "lost"
        /\ \A j \in CheckpointsIn(b) : j < i

AgentEnd ==
    /\ turn.ending
    /\ turn.phase # "running"
    /\ turn' = [turn EXCEPT !.ending = FALSE]
    /\ LET seen == observeExecutionTurn(Plan) IN
       IF Open(Plan) /\ ToolResultsAfter(branch) /\ Updates(Plan, seen)
       THEN Append1(CheckpointEntry(lastId + 1, seen))
       ELSE UNCHANGED <<lastId, branch>>
    /\ UNCHANGED <<event, handler, busy, moves, issued>>
    /\ Here

\* /pifrost checkpoint begin <reference>: the attempts of the plan before it
\* are out of scope from now on.
CommandBegin ==
    /\ Append1(CheckpointEntry(lastId + 1,
                 createExecutionCheckpoint(session, "operator", NoPrompt)))
    /\ UNCHANGED <<turn, event, handler, busy, moves, issued>>
    /\ Here

\* /pifrost checkpoint attempt | verify | fail | complete | supersede
CommandTransition ==
    /\ Plan # NoCheckpoint
    /\ \E c \in Transitions(Plan) : Append1(CheckpointEntry(lastId + 1, c))
    /\ UNCHANGED <<turn, event, handler, busy, moves, issued>>
    /\ Here

-----------------------------------------------------------------------------
(* session_stop                                                            *)

\* Mutation: ownership is a matter of the queue alone.
OwnsUnlessBusy(b, ev) == ~ busy

\* ownsSettlement(), evaluated on branch b.
ownsSettlement(b, ev) == ~ busy /\ duplicateSettle(b, session, ev)

\* return { continue: true }: OMP runs the agent again in the same turn.
Continue(record, ev, b) ==
    /\ issued' = issued \cup
         {[record |-> record, planned |-> ev.assistant, tip |-> Tip(b).id]}
    /\ turn' = [turn EXCEPT !.phase = "running", !.hook = TRUE]

Settles == UNCHANGED <<issued, turn>>

Selecting(h, record) ==
    handler' = [handler EXCEPT ![h] =
                  [phase |-> "selecting", event |-> event,
                   record |-> record, aborted |-> FALSE]]

\* Plan, journal the attempt, and then continue or start selecting a model.
\* A model role that does not resolve to another family leaves no trace.
SessionStop(h) ==
    /\ event # NoEvent
    /\ handler[h] = IdleHandler
    /\ ~ busy
    /\ planIntelligentRecovery(branch, session, event)
    /\ LET record == AttemptRecord(branch, session) IN
       /\ Append1([kind |-> "recovery", id |-> lastId + 1, data |-> record])
       /\ IF ~ ownsSettlement(branch', event)
          THEN Settles /\ UNCHANGED handler
          ELSE IF record.stage = "model"
          THEN Selecting(h, lastId + 1) /\ Settles
          ELSE Continue(lastId + 1, event, branch') /\ UNCHANGED handler
    /\ UNCHANGED <<event, busy, moves>>
    /\ Here

\* pi.setModel resolves; a model that could not be selected, or a settlement
\* that is no longer owned, ends the attempt with its record spent.
ModelSelected(h, changed) ==
    /\ handler[h] # IdleHandler
    /\ handler' = [handler EXCEPT ![h] = IdleHandler]
    /\ IF /\ changed
          /\ ~ handler[h].aborted
          /\ ownsSettlement(branch, handler[h].event)
       THEN Continue(handler[h].record, handler[h].event, branch)
       ELSE Settles
    /\ UNCHANGED <<branch, lastId, event, busy, moves>>
    /\ Here

-----------------------------------------------------------------------------
(* What the user and OMP may do in between.                                *)

\* The user queues a message, or an async job starts or ends.
Busy ==
    /\ MoveCost
    /\ busy' = ~ busy
    /\ UNCHANGED <<branch, lastId, turn, event, handler, issued>>
    /\ Here

\* The user aborts: the signal of every event in flight is raised.
Interrupt ==
    /\ MoveCost
    /\ turn.phase # "idle"
    /\ turn' = [turn EXCEPT !.phase = "idle",
                            !.ending = turn.ending \/ turn.phase = "running"]
    /\ event' = NoEvent
    /\ handler' = [h \in Handlers |->
                     IF handler[h] = IdleHandler THEN IdleHandler
                     ELSE [handler[h] EXCEPT !.aborted = TRUE]]
    /\ UNCHANGED <<branch, lastId, busy, issued>>
    /\ Here

\* Another extension's stop hook continues the turn.
OtherHook ==
    /\ MoveCost
    /\ turn.phase = "settled"
    /\ turn' = [turn EXCEPT !.phase = "running", !.hook = TRUE]
    /\ UNCHANGED <<branch, lastId, event, handler, busy, issued>>
    /\ Here

\* A recovery entry of a type this version does not know.
ForeignEntry ==
    /\ MoveCost
    /\ Append1(New("foreign"))
    /\ UNCHANGED <<turn, event, handler, busy, issued>>
    /\ Here

\* The process dies: handlers are gone, the journal is not.
Crash ==
    /\ MoveCost
    /\ handler' = [h \in Handlers |-> IdleHandler]
    /\ turn' = [phase |-> "idle", hook |-> FALSE, ending |-> FALSE]
    /\ event' = NoEvent
    /\ busy' = FALSE
    /\ UNCHANGED <<branch, lastId, issued>>
    /\ Here

Leave ==
    /\ MoveCost
    /\ turn.phase # "running"
    /\ ~ turn.ending
    /\ turn' = [phase |-> "idle", hook |-> FALSE, ending |-> FALSE]
    /\ event' = NoEvent
    /\ away' = [session |-> session, branch |-> branch]
    /\ UNCHANGED <<lastId, handler, busy, issued>>

\* session_tree: an earlier entry becomes the leaf.
Rewind(n) ==
    /\ Leave
    /\ n < Len(branch)
    /\ branch' = SubSeq(branch, 1, n)
    /\ UNCHANGED session

\* session_branch: the path so far is copied into a session not used before.
Fork(s) ==
    /\ Leave
    /\ s \notin {session, away.session}
    /\ session' = s
    /\ UNCHANGED branch

\* session_switch or session_tree, back to the other place.
Return ==
    /\ Leave
    /\ <<away.session, away.branch>> # <<session, branch>>
    /\ session' = away.session
    /\ branch' = away.branch

Handle ==
    \E h \in Handlers :
        \/ SessionStop(h)
        \/ \E changed \in BOOLEAN : ModelSelected(h, changed)

Agent ==
    \/ \E p \in UserPrompts : BeforeAgentStart(p)
    \/ \E sig \in Signatures, result \in RunResults : ToolRound(sig, result)
    \/ \E output \in {inspectOutput(r) : r \in Replies} \cap RunOutputs : Settle(output)
    \/ AgentEnd
    \/ CommandBegin
    \/ CommandTransition

Environment ==
    \/ Busy \/ Interrupt \/ OtherHook \/ ForeignEntry \/ Crash
    \/ \E n \in 0 .. MaxId : Rewind(n)
    \/ \E s \in Sessions : Fork(s)
    \/ Return

Next == Handle \/ Agent \/ Environment

Spec == Init /\ [][Next]_vars

-----------------------------------------------------------------------------
(* Properties.                                                             *)

\* Genuine progress between positions i and j of branch b, as
\* docs/RELEASE_30F_PROGRESS_AWARE_RECOVERY.md defines it: a user message, a
\* step verified that was not verified before, or a successful tool call not
\* made before under this plan.
Progress(b, i, j) ==
    \E k \in i + 1 .. j - 1 :
        \/ b[k].kind = "user"
        \/ /\ b[k].kind = "round"
           /\ b[k].result = "ok"
           /\ \A l \in Anchor(b) .. i : b[l].kind = "round" => b[l].sig # b[k].sig
        \/ /\ b[k].kind = "checkpoint"
           /\ \E p \in VerifiedPairs(b[k].data) :
                \A l \in Anchor(b) .. i :
                    b[l].kind = "checkpoint" => p \notin VerifiedPairs(b[l].data)

\* The entries of the plan that are attempts, or may be those of a later
\* version: "Unknown future or corrupt recovery journal types must not
\* silently" pass (recovery-episodes.mjs:122).
AttemptEntries(b) == {i \in DOMAIN b : Anchor(b) < i /\ b[i].kind \in {"recovery", "foreign"}}

\* Between an attempt, of whatever version, and the Limit-th attempt after it
\* there was progress: no interleaving of hooks, commands, observations,
\* restarts and moves gets a fourth automatic attempt out of a stalled task,
\* nor does an entry this version cannot read.
AttemptsNeedProgress ==
    \A i \in AttemptEntries(branch), j \in Records(branch) :
        (/\ i < j
         /\ Cardinality({k \in AttemptEntries(branch) : i <= k /\ k < j}) = Limit)
            => Progress(branch, i, j)

\* A step that journals an attempt.
AttemptJournaled ==
    lastId' = lastId + 1 /\ branch'[Len(branch')].kind = "recovery"

\* What the handler journals it can read back: no record it appends turns a
\* readable journal into one that blocks recovery or disowns the settlement
\* the record was written for.
OwnRecordsAreReadable ==
    [][ AttemptJournaled => duplicateSettle(branch', session, event) ]_vars

\* A continuation is issued only while the response it was planned for is
\* still the last message and not continued before, its record is the last
\* attempt of the current branch, and no queued message or job has taken over
\* (ownsSettlement; "A hook firing twice must never create two episodes for
\* the same settlement").
ContinuationOwned ==
    [][ \A x \in issued' \ issued :
          /\ x.planned = x.tip
          /\ x.tip \notin {y.tip : y \in issued}
          /\ Records(branch') # {}
          /\ branch'[Last(Records(branch'))].id = x.record
          /\ ~ busy ]_vars

\* No continuation follows a tool call of the stalled turn, or one since the
\* last attempt, whose outcome is unknown.
UnknownOutcomeBlocks ==
    [][ issued' # issued =>
          AllCertain(branch', Last({i \in DOMAIN branch' : branch'[i].kind = "user"}),
                     Len(branch') + 1) ]_vars

=============================================================================
