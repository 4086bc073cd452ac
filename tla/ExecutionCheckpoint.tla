------------------------- MODULE ExecutionCheckpoint -------------------------
(***************************************************************************)
(* The checkpoint record of execution-checkpoint.mjs: what a valid record  *)
(* is, the record a new plan starts with, the five transitions an operator *)
(* can ask for and the one the agent's turn end makes.  There is no state  *)
(* here: CheckpointLifecycle and SessionStop keep these records as entries *)
(* of an OMP session journal.                                              *)
(*                                                                         *)
(* A session stands for a session identifier with its workspace, since the *)
(* code checks both hashes together.  Prompts stand for prompt digests.    *)
(***************************************************************************)
EXTENDS Naturals, Sequences, FiniteSets

CONSTANTS
    Sessions,       \* OMP sessions (identifier and workspace)
    Steps,          \* step identifiers an operator may name
    Evidence,       \* evidence references
    NoEvidence,     \* the evidence of a step that is not verified
    Prompts,        \* digests of user prompts
    NoPrompt,       \* the digest of a plan begun from a reference
    MaxSteps,       \* MAX_STEPS, 64 in the code
    MaxRevision,    \* 100000 in the code
    MaxRecordSize   \* MAX_RECORD_BYTES, in the units of RecordSize

ASSUME CheckpointAssumption ==
    /\ NoEvidence \notin Evidence
    /\ NoPrompt \notin Prompts
    /\ MaxSteps \in Nat
    /\ MaxRevision \in Nat \ {0}
    /\ MaxRecordSize \in Nat

StepRecord ==
    [status : {"untracked", "attempted", "verified", "failed"},
     evidence : Evidence \cup {NoEvidence}]

Untracked == [status |-> "untracked", evidence |-> NoEvidence]

Checkpoint ==
    [session  : Sessions,
     revision : 1 .. MaxRevision,
     status   : {"active", "complete", "superseded"},
     origin   : {"operator", "session"},
     sha      : Prompts \cup {NoPrompt},
     steps    : [Steps -> StepRecord],
     observed : BOOLEAN,     \* lastObservation is present
     pending  : BOOLEAN]     \* pendingVerification

Tracked(c)  == {s \in Steps : c.steps[s].status # "untracked"}
Verified(c) == {s \in Steps : c.steps[s].status = "verified"}

\* The serialized size of a record, in coarse units: a step, its evidence and
\* the longer name of a closed status each add one, an observation two.
RecordSize(c) ==
    Cardinality(Tracked(c)) + Cardinality(Verified(c))
        + (IF c.observed THEN 2 ELSE 0)
        + (IF c.status = "active" THEN 0 ELSE 1)

ValidRecord(c) ==
    /\ c.revision <= MaxRevision
    /\ Cardinality(Tracked(c)) <= MaxSteps
    /\ RecordSize(c) <= MaxRecordSize

validExecutionCheckpoint(c, session) == c.session = session /\ ValidRecord(c)

\* Mutation: revisions start at 0.
CreateAtRevisionZero(session, origin, sha) ==
    [session |-> session, revision |-> 0, status |-> "active",
     origin |-> origin, sha |-> sha, steps |-> [s \in Steps |-> Untracked],
     observed |-> FALSE, pending |-> FALSE]

createExecutionCheckpoint(session, origin, sha) ==
    [session |-> session, revision |-> 1, status |-> "active",
     origin |-> origin, sha |-> sha, steps |-> [s \in Steps |-> Untracked],
     observed |-> FALSE, pending |-> FALSE]

-----------------------------------------------------------------------------
(* update(): the next revision, refused at the revision and size limits.   *)

Revise(c) == [c EXCEPT !.revision = c.revision + 1]

\* n is an update of c that the code would not refuse.
Updates(c, n) ==
    /\ ValidRecord(c)
    /\ c.revision < MaxRevision
    /\ ValidRecord(n)

Open(c) == c.status = "active"

\* verify clears pendingVerification only when every tracked step is verified.
SomeUnverified(c) == Tracked(c) # Verified(c)

Attempt(c, s) ==
    Revise([c EXCEPT !.steps[s] = [status |-> "attempted", evidence |-> NoEvidence],
                     !.pending = TRUE])

Fail(c, s) ==
    Revise([c EXCEPT !.steps[s] = [status |-> "failed", evidence |-> NoEvidence],
                     !.pending = TRUE])

Verify(c, s, e) ==
    LET marked == [c EXCEPT !.steps[s] = [status |-> "verified", evidence |-> e]]
    IN  Revise([marked EXCEPT !.pending = SomeUnverified(marked)])

Complete(c)  == Revise([c EXCEPT !.status = "complete"])
Supersede(c) == Revise([c EXCEPT !.status = "superseded"])

HasRoom(c, s) == s \in Tracked(c) \/ Cardinality(Tracked(c)) < MaxSteps

\* Mutation: pendingVerification is not consulted.
CompleteIgnoresPending(c) == Tracked(c) # {} /\ Verified(c) = Tracked(c)

CanComplete(c) ==
    /\ Tracked(c) # {}
    /\ Verified(c) = Tracked(c)
    /\ ~ c.pending

\* transitionExecutionCheckpoint(c, action) returns n for some action of the
\* operator; every other call throws and writes nothing.
transitionExecutionCheckpoint(c, n) ==
    /\ Open(c)
    /\ \/ \E s \in Steps : HasRoom(c, s) /\ n \in {Attempt(c, s), Fail(c, s)}
       \/ \E s \in Tracked(c), e \in Evidence : n = Verify(c, s, e)
       \/ CanComplete(c) /\ n = Complete(c)
       \/ n = Supersede(c)
    /\ Updates(c, n)

\* Every record the operator can turn c into (the range of n above).
Transitions(c) ==
    {n \in {Attempt(c, s) : s \in Steps} \cup {Fail(c, s) : s \in Steps}
             \cup {Verify(c, s, e) : s \in Steps, e \in Evidence}
             \cup {Complete(c), Supersede(c)} :
        transitionExecutionCheckpoint(c, n)}

\* observeExecutionTurn: the result with tool activity to account for.
observeExecutionTurn(c) ==
    Revise([c EXCEPT !.observed = TRUE, !.pending = TRUE])

-----------------------------------------------------------------------------
(* Checkpoints as entries of a journal branch: records with a kind field,  *)
(* whose data is a checkpoint when the kind is "checkpoint".               *)

CheckpointsIn(b) == {i \in DOMAIN b : b[i].kind = "checkpoint"}

ValidIn(b, s) ==
    {i \in CheckpointsIn(b) : validExecutionCheckpoint(b[i].data, s)}

\* The greatest of a set of positions, 0 if there is none.
Last(S) == IF S = {} THEN 0 ELSE CHOOSE i \in S : \A j \in S : j <= i

NoCheckpoint == [status |-> "none"]

\* Mutation: the branch is scanned from its start.
RestoreFirst(b, s) ==
    IF ValidIn(b, s) = {} THEN NoCheckpoint
    ELSE b[CHOOSE i \in ValidIn(b, s) : \A j \in ValidIn(b, s) : i <= j].data

\* restoreExecutionCheckpoint: the last valid record of this session.
restoreExecutionCheckpoint(b, s) ==
    IF ValidIn(b, s) = {} THEN NoCheckpoint ELSE b[Last(ValidIn(b, s))].data

\* A prompt is a digest with what autoBegin asks of the text: whether it has
\* 1500 characters and whether it names a release.
UserPrompt == [sha : Prompts, long : BOOLEAN, named : BOOLEAN]

\* Mutation: a release prompt replaces any plan.
AutoBeginAnyOrigin(p, c) ==
    /\ p.long \/ p.named
    /\ Open(c) => p.named /\ c.sha # p.sha

\* autoBegin starts a plan for prompt p although c is the restored record.
autoBeginApplies(p, c) ==
    /\ p.long \/ p.named
    /\ Open(c) =>
         /\ p.named
         /\ c.origin # "operator"
         /\ c.sha # p.sha

=============================================================================
