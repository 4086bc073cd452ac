----------------------------- MODULE StalledTurn -----------------------------
(***************************************************************************)
(* The one-shot follow-up after a turn that ended in leaked planning       *)
(* (stalled-turn-recovery.ts): the coordinator's two sets of session ids   *)
(* and what each OMP event does to them.  The coordinator is in memory;    *)
(* its functions run to completion, so they are operators on its state.    *)
(***************************************************************************)
EXTENDS Integers

CONSTANT HostSessions

\* PIFROST_STALLED_TURN_MODE as stalledTurnMode reads it: anything it does not
\* know is advisory.
stalledTurnMode == {"auto", "notice", "off"}

\* A turn as agent_end reports it: whether OMP goes on by itself or the turn
\* was cut short, what its tool results say, and how its last message ends.
Turn == [cut : BOOLEAN,
         tools : {"none", "certain", "uncertain"},
         last : {"answer", "leaked", "call"}]

Coordinator == [attempted : SUBSET HostSessions, pending : SUBSET HostSessions]
Fresh == [attempted |-> {}, pending |-> {}]

\* A call without its result, or a result that tells of a lost connection.
uncertainToolOutcome(t) == t.tools = "uncertain"

detectStalledTurn(t) ==
    /\ ~ t.cut
    /\ ~ uncertainToolOutcome(t)
    /\ t.last = "leaked"
    /\ t.tools # "none"

onPrompt(c, s, marked) ==
    IF marked THEN c
    ELSE [attempted |-> c.attempted \ {s}, pending |-> c.pending \ {s}]

\* Mutation: the observations of the old history stay.
onHistoryChangedKeeps(c) == c

onHistoryChanged(c) == [c EXCEPT !.pending = {}]

\* Mutation: a compaction gives the prompt its follow-up back.
onSessionInterruptRefunds(c, s) ==
    [attempted |-> c.attempted \ {s}, pending |-> c.pending \ {s}]

onSessionInterrupt(c, s) == [c EXCEPT !.pending = @ \ {s}]

onSessionEnd(c, s) == [attempted |-> c.attempted \ {s}, pending |-> c.pending \ {s}]

\* free: nothing queued, no async work, main session, idle as far as known.
mayContinue(mode, c, s, free) ==
    /\ mode # "off"
    /\ free
    /\ s \in c.pending \ c.attempted

\* The budget is spent before the follow-up is queued, sent or not.
continuePending(c, s) ==
    [attempted |-> c.attempted \cup {s}, pending |-> c.pending \ {s}]

\* onAgentEnd up to its own call of continuePending.
observesStall(mode, c, s, t, free) ==
    /\ mode # "off"
    /\ free
    /\ detectStalledTurn(t)
    /\ s \notin c.attempted

onAgentEnd(c, s) == [c EXCEPT !.pending = @ \cup {s}]
=============================================================================
