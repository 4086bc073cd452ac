------------------------- MODULE CheckpointLifecycle -------------------------
(***************************************************************************)
(* The checkpoint ledger of one OMP process: checkpoint-lifecycle.mjs over *)
(* the session journal, checkpoint-mirror.mjs, the /pifrost checkpoint     *)
(* command and the handlers of native.ts that reach the ledger.            *)
(*                                                                         *)
(* OMP keeps a session as a tree of entries; getBranch() is the path to    *)
(* the current leaf.  branch is that path.  away is one other place the    *)
(* user can go back to: an abandoned leaf of the same session or another   *)
(* session.  Of the entries only checkpoints and tool results matter here. *)
(***************************************************************************)
EXTENDS ExecutionCheckpoint

CONSTANTS
    MaxEntries,     \* bound: entries of a branch
    MaxMoves        \* bound: rewinds, forks, switches and crashes together

ASSUME BoundsAssumption == MaxEntries \in Nat /\ MaxMoves \in Nat

VARIABLES
    session,        \* ctx.sessionManager.getSessionId()
    branch,         \* ctx.sessionManager.getBranch()
    away,           \* the other place: its session and its branch
    started,        \* sessions that exist
    turn,           \* whether the main agent is running
    mirroring,      \* the record appended whose file is not written yet
    files,          \* the records with a file in the mirror directory
    noticed,        \* lastNotice: sessions this process warned of
    moves,          \* how many of MaxMoves are spent
    journalled,     \* history: every record OMP has journalled
    warned,         \* history: sessions a warning was printed for
    cut             \* history: records whose file a kill prevented

history == <<journalled, warned, cut>>
vars == <<session, branch, away, started, turn, mirroring, files, noticed, moves,
          history>>

ToolEntry == [kind |-> "tool"]
CheckpointEntry(c) == [kind |-> "checkpoint", data |-> c]

Entry == {ToolEntry} \cup [kind : {"checkpoint"}, data : Checkpoint]

TypeOK ==
    /\ session \in Sessions
    /\ branch \in Seq(Entry)
    /\ away \in [session : Sessions, branch : Seq(Entry)]
    /\ started \subseteq Sessions
    /\ turn \in {"idle", "running"}
    /\ mirroring \in Checkpoint \cup {NoCheckpoint}
    /\ files \subseteq Checkpoint
    /\ noticed \subseteq Sessions
    /\ moves \in 0 .. MaxMoves
    /\ journalled \subseteq Checkpoint
    /\ warned \subseteq Sessions
    /\ cut \subseteq Checkpoint

-----------------------------------------------------------------------------
(* Reading the branch.                                                     *)

read == restoreExecutionCheckpoint(branch, session)

\* Some tool result follows the last checkpoint entry, whoever wrote it.
toolResultsAfter(b) ==
    \E i \in DOMAIN b :
        /\ b[i].kind = "tool"
        /\ \A j \in CheckpointsIn(b) : j < i

-----------------------------------------------------------------------------
(* Writing: the journal entry first, then the file.  The handlers run      *)
(* without an await, so while a record is being mirrored only a kill comes *)
(* between.  An appendEntry that throws leaves everything as it was and    *)
(* needs no step of its own.  Records are told apart by what they say, not *)
(* by their time stamps.                                                   *)

Settled == mirroring = NoCheckpoint

\* appendEntry; the file is the next step.
commitExecutionCheckpoint(c) ==
    /\ Len(branch) < MaxEntries
    /\ branch' = Append(branch, CheckpointEntry(c))
    /\ journalled' = journalled \cup {c}
    /\ mirroring' = c

begin(origin, sha) ==
    commitExecutionCheckpoint(createExecutionCheckpoint(session, origin, sha))

NothingWritten == UNCHANGED <<branch, journalled, mirroring>>

autoBegin(p) ==
    IF autoBeginApplies(p, read) THEN begin("session", p.sha) ELSE NothingWritten

Accountable == Open(read) /\ toolResultsAfter(branch)

\* A refused update throws; agent_end reports it and goes on.
afterTurn ==
    IF Accountable /\ Updates(read, observeExecutionTurn(read))
    THEN commitExecutionCheckpoint(observeExecutionTurn(read))
    ELSE NothingWritten

Stays ==
    /\ Settled
    /\ UNCHANGED <<session, away, started, moves, files, noticed, warned, cut>>

-----------------------------------------------------------------------------
Init ==
    /\ session \in Sessions
    /\ branch = <<>>
    /\ away = [session |-> session, branch |-> <<>>]
    /\ started = {session}
    /\ turn = "idle"
    /\ mirroring = NoCheckpoint
    /\ files = {}
    /\ noticed = {}
    /\ moves = 0
    /\ journalled = {}
    /\ warned = {}
    /\ cut = {}

\* before_agent_start
BeforeAgentStart(p) ==
    /\ turn = "idle"
    /\ turn' = "running"
    /\ autoBegin(p)
    /\ Stays

\* OMP journals the result of a tool call (external).
ToolResult ==
    /\ turn = "running"
    /\ Len(branch) < MaxEntries
    /\ branch' = Append(branch, ToolEntry)
    /\ UNCHANGED <<turn, mirroring, journalled>>
    /\ Stays

\* agent_end
AgentEnd ==
    /\ turn = "running"
    /\ turn' = "idle"
    /\ afterTurn
    /\ Stays

\* /pifrost checkpoint begin <reference>; commands also run during a turn.
CommandBegin ==
    /\ begin("operator", NoPrompt)
    /\ UNCHANGED turn
    /\ Stays

\* /pifrost checkpoint attempt | verify | fail | complete | supersede
CommandTransition ==
    /\ read # NoCheckpoint
    /\ \E c \in Transitions(read) : commitExecutionCheckpoint(c)
    /\ UNCHANGED turn
    /\ Stays

\* mirrorCheckpoint renames its temporary file.
MirrorWritten ==
    /\ ~ Settled
    /\ files' = files \cup {mirroring}
    /\ mirroring' = NoCheckpoint
    /\ UNCHANGED <<session, branch, away, started, turn, noticed, moves, history>>

\* Mutation: one warning for the process instead of one for each session.
MirrorFailsOnce ==
    /\ ~ Settled
    /\ warned' = IF noticed = {} THEN warned \cup {session} ELSE warned
    /\ noticed' = noticed \cup {session}
    /\ mirroring' = NoCheckpoint
    /\ UNCHANGED <<session, branch, away, started, turn, files, moves, journalled, cut>>

\* mirrorCheckpoint throws: onMirrorError, silent after a session's first time.
MirrorFails ==
    /\ ~ Settled
    /\ warned' = IF session \in noticed THEN warned ELSE warned \cup {session}
    /\ noticed' = noticed \cup {session}
    /\ mirroring' = NoCheckpoint
    /\ UNCHANGED <<session, branch, away, started, turn, files, moves, journalled, cut>>

\* The process dies, between the entry and its file too, and OMP opens the
\* session again: session_start restores from the branch and writes nothing.
Crash ==
    /\ moves < MaxMoves
    /\ turn = "running" \/ ~ Settled \/ noticed # {}
    /\ turn' = "idle"
    /\ noticed' = {}
    /\ cut' = cut \cup ({mirroring} \ {NoCheckpoint})
    /\ mirroring' = NoCheckpoint
    /\ moves' = moves + 1
    /\ UNCHANGED <<session, branch, away, started, files, journalled, warned>>

Move ==
    /\ moves < MaxMoves
    /\ moves' = moves + 1
    /\ turn = "idle"
    /\ Settled
    /\ away' = [session |-> session, branch |-> branch]
    /\ UNCHANGED <<turn, mirroring, files, noticed, history>>

\* session_tree: an earlier entry becomes the leaf.
Rewind(n) ==
    /\ Move
    /\ n < Len(branch)
    /\ branch' = SubSeq(branch, 1, n)
    /\ UNCHANGED <<session, started>>

\* session_branch: the path so far is copied into a new session.
Fork(s) ==
    /\ Move
    /\ s \notin started
    /\ session' = s
    /\ started' = started \cup {s}
    /\ UNCHANGED branch

\* session_switch or session_tree, back to the other place.
Return ==
    /\ Move
    /\ <<away.session, away.branch>> # <<session, branch>>
    /\ session' = away.session
    /\ branch' = away.branch
    /\ UNCHANGED started

Next ==
    \/ \E p \in UserPrompt : BeforeAgentStart(p)
    \/ ToolResult
    \/ AgentEnd
    \/ CommandBegin
    \/ CommandTransition
    \/ MirrorWritten
    \/ MirrorFails
    \/ Crash
    \/ \E n \in 0 .. MaxEntries : Rewind(n)
    \/ \E s \in Sessions : Fork(s)
    \/ Return

Spec == Init /\ [][Next]_vars

-----------------------------------------------------------------------------
(* Properties.                                                             *)

Predecessors(b, i) ==
    {j \in CheckpointsIn(b) : j < i /\ b[j].data.session = b[i].data.session}

\* The record at position i of b starts a plan, or is what one transition, or
\* one observation, makes of the record of its session before it on b.
ExtendsTheBranch(b, i) ==
    LET c == b[i].data IN
    \/ c.revision = 1 /\ Open(c) /\ Tracked(c) = {}
    \/ /\ Predecessors(b, i) # {}
       /\ LET before == b[Last(Predecessors(b, i))].data
          IN  \/ c \in Transitions(before)
              \/ Open(before) /\ c = observeExecutionTurn(before)

\* Every record on the branch either starts a plan or is what one transition,
\* or one observation, makes of the record before it on this same branch.
\* checkpoint-lifecycle.mjs derives each record from getBranch(), so neither
\* a rewind, a fork, a restart nor a mirror file can smuggle a verified step,
\* a revision or a status in from another history.
RecordsExtendTheBranch ==
    \A i \in CheckpointsIn(branch) : ExtendsTheBranch(branch, i)

\* A plan an operator began stays the plan of record until the operator ends
\* or replaces it: no prompt and no turn end displaces it (autoBegin).
OperatorPlanKept ==
    [][ (/\ turn' # turn
         /\ Open(read)
         /\ read.origin = "operator")
        => (Open(read') /\ read'.origin = "operator"
              /\ read'.steps = read.steps) ]_vars

\* The mirror directory is a copy of the journal that may have gaps, and every
\* gap has a reason: a file is of a record OMP journalled, and a journalled
\* record without one is about to get it, was cut off from it by a kill, or
\* is of a session whose user was warned (commitExecutionCheckpoint and the
\* once-per-session onMirrorError of persist).
MirrorAccountsForJournal ==
    /\ files \subseteq journalled
    /\ \A c \in journalled \ files :
         c = mirroring \/ c \in cut \/ c.session \in warned

\* The record before position i, of the same session and on the same branch.
Preceding(b, i) == Last(Predecessors(b, i))

\* A plan is completed right after a verification that left no step open:
\* between the two no attempt, no failure and no observed activity of any
\* turn is recorded, whatever rewinds and restarts lie between (the flag
\* pendingVerification, set and cleared by four operations, carries this).
CompletionFollowsVerification ==
    \A i \in CheckpointsIn(branch) :
        branch[i].data.status = "complete" =>
            LET k == Preceding(branch, i) IN
            /\ Predecessors(branch, i) # {}
            /\ Predecessors(branch, k) # {}
            /\ \E s \in Steps, e \in Evidence :
                 branch[k].data = Verify(branch[Preceding(branch, k)].data, s, e)
            /\ Verified(branch[k].data) = Tracked(branch[k].data)

\* What RELEASE_30C_DURABLE_CHECKPOINTS.md says of complete: it is rejected
\* while tool activity after the last record is unacknowledged.
CompletionCoversActivity ==
    \A i \in CheckpointsIn(branch) :
        branch[i].data.status = "complete" =>
            ~ toolResultsAfter(SubSeq(branch, 1, i - 1))

=============================================================================
