---------------------------- MODULE RecoveryFork ----------------------------
(***************************************************************************)
(* `/pifrost recover fork` (recovery-command.ts): after a request that the *)
(* gateway refused for its reasoning history, the operator may continue in *)
(* a new session.  The command looks at the route trace of the latest      *)
(* attempt (request-provenance.ts, controlled-recovery.ts) once, when it   *)
(* starts, and then asks twice; meanwhile queued messages and the results  *)
(* of jobs may start turns.  The dialogs are modal: the operator does not  *)
(* change the session while one is open.                                   *)
(***************************************************************************)
EXTENDS Integers

CONSTANTS
    Branches,       \* sessions
    MaxTraces,      \* bound: attempts
    MaxTurns,       \* bound: turns
    MaxDisturbances \* bound: messages queued, jobs started or ended, switches

ASSUME RecoveryForkAssumption ==
    MaxTraces \in Nat /\ MaxTurns \in Nat /\ MaxDisturbances \in Nat

VARIABLES
    omp,        \* the OMP session: which one, whether a turn runs, queue, jobs
    traces,     \* the latest route trace of each session
    asking,     \* the command: the dialog that is open, and (history) how many
                \* turns had begun when it started
    used,       \* how much of the bounds is used
    forks       \* history: of each fork, the latest trace when OMP was told to
                \* create it, and the turns begun since the command

forkVars == <<omp, traces, asking, used, forks>>

\* A trace: how the attempt ended, as which failure, whether the gateway's
\* history check named the history, and whether output had started.
Traces == [outcome : {"done", "error", "thrown"}, started : BOOLEAN,
           failureCode : {"REASONING_REPLAY_INVALID", "UPSTREAM_TRANSIENT", "UNKNOWN"},
           incompatible : BOOLEAN]
NoTrace == [outcome |-> "done", started |-> FALSE, failureCode |-> "UNKNOWN",
            incompatible |-> FALSE]
Silent == [at |-> "none", turns |-> 0]

\* assessRecovery: the failure and whether a new session may help.
assessRecovery(t) ==
    CASE t.outcome = "done" -> "UNKNOWN"
      [] t.outcome # "done" /\ t.failureCode = "UNKNOWN" /\ t.incompatible ->
            "REASONING_REPLAY_INVALID"
      [] OTHER -> t.failureCode

mayFork(t) == assessRecovery(t) = "REASONING_REPLAY_INVALID" /\ ~ t.started

\* safeToFork, in a saved, interactive main session.
safeToFork == ~ omp.running /\ ~ omp.queued /\ ~ omp.jobs

\* Mutation: the latest failure counts, of whichever session it is.
LatestOfAnySession ==
    traces[CHOOSE s \in Branches : mayFork(traces[s]) \/ ~ \E b \in Branches : mayFork(traces[b])]

latestPifrostRouteTrace == traces[omp.branch]

-----------------------------------------------------------------------------
(* The command.                                                            *)

Closes == asking' = Silent

Recover ==
    /\ asking = Silent
    /\ mayFork(latestPifrostRouteTrace) /\ safeToFork
    /\ asking' = [at |-> "input", turns |-> used.turns]
    /\ UNCHANGED <<omp, traces, used, forks>>

\* The brief: given, or empty or cancelled.
Input(given) ==
    /\ asking.at = "input"
    /\ IF given /\ safeToFork THEN asking' = [asking EXCEPT !.at = "confirm"] ELSE Closes
    /\ UNCHANGED <<omp, traces, used, forks>>

ConfirmFork(yes) ==
    /\ asking.at = "confirm"
    /\ IF yes /\ safeToFork
       THEN /\ asking' = [asking EXCEPT !.at = "create"]
            /\ forks' = forks \cup {[latest |-> traces[omp.branch],
                                     begun |-> used.turns - asking.turns]}
       ELSE Closes /\ UNCHANGED forks
    /\ UNCHANGED <<omp, traces, used>>

\* newSession comes back: cancelled, or in the new session, to which the brief
\* is sent.
NewSession(s, cancelled) ==
    /\ asking.at = "create"
    /\ Closes
    /\ IF cancelled THEN UNCHANGED omp
       ELSE omp' = [branch |-> s, running |-> TRUE, queued |-> FALSE, jobs |-> FALSE]
    /\ UNCHANGED <<traces, used, forks>>

-----------------------------------------------------------------------------
(* OMP, its operator and the gateway.                                      *)

\* By a prompt when no dialog is open, by a queued message or a job's result.
TurnStarts ==
    /\ ~ omp.running /\ used.turns < MaxTurns
    /\ asking = Silent \/ omp.queued \/ omp.jobs
    /\ asking.at # "create"
    /\ \E jobs \in {FALSE, omp.jobs} :
          omp' = [omp EXCEPT !.running = TRUE, !.queued = FALSE, !.jobs = jobs]
    /\ used' = [used EXCEPT !.turns = @ + 1]
    /\ UNCHANGED <<traces, asking, forks>>

\* recordBifrostCaptureTrace: an attempt of the running turn has ended.
Attempted(t) ==
    /\ omp.running /\ used.traces < MaxTraces
    /\ traces' = [traces EXCEPT ![omp.branch] = t]
    /\ used' = [used EXCEPT !.traces = @ + 1]
    /\ UNCHANGED <<omp, asking, forks>>

TurnEnds ==
    /\ omp.running
    /\ omp' = [omp EXCEPT !.running = FALSE]
    /\ UNCHANGED <<traces, asking, used, forks>>

Disturb == used.moves < MaxDisturbances /\ used' = [used EXCEPT !.moves = @ + 1]

Queues ==
    /\ Disturb
    /\ ~ omp.queued /\ omp' = [omp EXCEPT !.queued = TRUE]
    /\ UNCHANGED <<traces, asking, forks>>

JobStarts ==
    /\ Disturb
    /\ omp.running /\ ~ omp.jobs /\ omp' = [omp EXCEPT !.jobs = TRUE]
    /\ UNCHANGED <<traces, asking, forks>>

\* The session shown is shut down, which releases its traces, or left.
Leaves(s, shutdown) ==
    /\ Disturb
    /\ ~ omp.running /\ asking = Silent
    /\ omp' = [branch |-> s, running |-> FALSE, queued |-> FALSE, jobs |-> FALSE]
    /\ traces' = IF shutdown THEN [traces EXCEPT ![omp.branch] = NoTrace] ELSE traces
    /\ UNCHANGED <<asking, forks>>

ForkInit ==
    /\ omp \in [branch : Branches, running : {FALSE}, queued : {FALSE}, jobs : {FALSE}]
    /\ traces = [s \in Branches |-> NoTrace]
    /\ asking = Silent
    /\ used = [turns |-> 0, traces |-> 0, moves |-> 0]
    /\ forks = {}

ForkNext ==
    \/ Recover
    \/ \E given \in BOOLEAN : Input(given)
    \/ \E yes \in BOOLEAN : ConfirmFork(yes)
    \/ \E s \in Branches, cancelled \in BOOLEAN : NewSession(s, cancelled)
    \/ TurnStarts \/ TurnEnds
    \/ \E t \in Traces : Attempted(t)
    \/ Queues \/ JobStarts
    \/ \E s \in Branches, shutdown \in BOOLEAN : Leaves(s, shutdown)

ForkSpec == ForkInit /\ [][ForkNext]_forkVars

-----------------------------------------------------------------------------
\* Unless a turn began while the dialogs were open, the session is created as
\* the child of one whose latest attempt is, still, a failure that justifies
\* it: no attempt of that session or of another, switch, queued message or job
\* in between makes the one assessment stale (recovery-command.ts:57).
ForkIsGrounded == \A f \in forks : f.begun = 0 => mayFork(f.latest)

\* request-provenance.ts:133, "Earlier failed fallbacks are not grounds to fork
\* after a later success", of the session that is created: the latest attempt
\* of its parent is a failure that justifies it.
ForkNeedsFailure == \A f \in forks : mayFork(f.latest)
=============================================================================
