------------------------ MODULE CheckpointRecordProofs ------------------------
(***************************************************************************)
(* Lemmas about checkpoint records and about the last of some positions of *)
(* a branch, for every module whose journal holds such records.            *)
(***************************************************************************)
EXTENDS ExecutionCheckpoint, TLAPS, FiniteSetTheorems, WellFoundedInduction

-----------------------------------------------------------------------------
(* Positions.                                                              *)

\* Last returns the greatest of a nonempty set of positions.
LEMMA LastIsGreatest ==
    ASSUME NEW n \in Nat, NEW S \in SUBSET (1 .. n), S # {}
    PROVE  Last(S) \in S /\ \A j \in S : j <= Last(S)
<1> DEFINE T == {n - i : i \in S}
           R == OpToRel(<, Nat)
<1>1. \A i \in S : i \in Int /\ n - i \in Nat
  OBVIOUS
<1>2. T \subseteq Nat /\ T # {}
  BY <1>1, Zenon
<1>3. \E x \in T : \A y \in T : ~ (<<y, x>> \in R)
  <2> HIDE DEF T, R
  <2>1. IsWellFoundedOn(R, Nat)
    BY NatLessThanWellFounded, Zenon DEF R
  <2>2. QED
    BY <1>2, <2>1, WFMin, Zenon
<1>4. \A x, y \in Nat : <<y, x>> \in R <=> y < x
  BY DEF OpToRel
<1>5. PICK i \in S : \A j \in S : ~ (n - j < n - i)
  BY <1>1, <1>2, <1>3, <1>4
<1>6. \A j \in S : j <= i
  BY <1>1, <1>5
<1>7. QED
  BY <1>6, Zenon DEF Last

\* The greatest of a set of positions is the only one.
LEMMA LastIs ==
    ASSUME NEW n \in Nat, NEW S \in SUBSET (1 .. n), NEW m \in S,
           \A j \in S : j <= m
    PROVE  Last(S) = m
<1> DEFINE k == Last(S)
<1>1. k \in S /\ m <= k
  BY LastIsGreatest, Zenon
<1>2. k \in 1 .. n /\ m \in 1 .. n /\ k <= m
  BY <1>1
<1> HIDE DEF k
<1>3. k = m
  BY <1>1, <1>2
<1>4. QED
  BY <1>3 DEF k

\* A nonempty set of numbers has a least one.
LEMMA LeastExists ==
    ASSUME NEW S \in SUBSET Nat, S # {}
    PROVE  \E i \in S : \A j \in S : i <= j
<1> DEFINE R == OpToRel(<, Nat)
<1>1. \E x \in S : \A y \in S : ~ (<<y, x>> \in R)
  <2> HIDE DEF R
  <2>1. IsWellFoundedOn(R, Nat)
    BY NatLessThanWellFounded, Zenon DEF R
  <2>2. QED
    BY <2>1, WFMin, Zenon
<1>2. \A x, y \in Nat : <<y, x>> \in R <=> y < x
  BY DEF OpToRel
<1>3. PICK i \in S : \A j \in S : ~ (j < i)
  BY <1>1, <1>2
<1>4. QED
  BY <1>3

-----------------------------------------------------------------------------
(* Records.                                                                *)

\* A new plan is a valid record that starts afresh.
LEMMA NewPlan ==
    ASSUME NEW s \in Sessions, NEW o \in {"operator", "session"},
           NEW h \in Prompts \cup {NoPrompt}
    PROVE  LET c == createExecutionCheckpoint(s, o, h) IN
           /\ c \in Checkpoint
           /\ ValidRecord(c)
           /\ c.session = s /\ c.revision = 1 /\ Open(c) /\ Tracked(c) = {}
<1> DEFINE c == createExecutionCheckpoint(s, o, h)
<1>1. c \in Checkpoint
  BY CheckpointAssumption
     DEF createExecutionCheckpoint, Checkpoint, Untracked, StepRecord
<1>2. c.session = s /\ c.revision = 1 /\ Open(c) /\ Tracked(c) = {} /\ Verified(c) = {}
  BY DEF createExecutionCheckpoint, Tracked, Verified, Open, Untracked
<1>3. c.observed = FALSE /\ c.status = "active"
  BY DEF createExecutionCheckpoint
<1>4. ValidRecord(c)
  <2> HIDE DEF c
  <2>1. Cardinality({}) = 0
    BY FS_EmptySet
  <2>2. QED
    BY <1>2, <1>3, <2>1, CheckpointAssumption DEF ValidRecord, RecordSize
<1>5. QED
  BY <1>1, <1>2, <1>4

\* What a transition or an observation changes, it changes within the type;
\* it keeps the session, and only Complete closes a plan as complete.
LEMMA RevisedPlan ==
    ASSUME NEW c \in Checkpoint, Open(c),
           NEW n, n \in Transitions(c) \/ n = observeExecutionTurn(c),
           Updates(c, n)
    PROVE  /\ n \in Checkpoint
           /\ ValidRecord(n)
           /\ n.session = c.session
           /\ n.status = "complete" => CanComplete(c) /\ n = Complete(c)
<1> USE DEF Checkpoint, StepRecord, Revise, Open
<1>0. c.revision + 1 \in 1 .. MaxRevision /\ ValidRecord(n)
  BY CheckpointAssumption DEF Updates
<1>1. CASE n = observeExecutionTurn(c)
  BY <1>0, <1>1 DEF observeExecutionTurn
<1>2. CASE n \in Transitions(c)
  <2>0. transitionExecutionCheckpoint(c, n)
    BY <1>2 DEF Transitions
  <2>1. CASE \E s \in Steps : n \in {Attempt(c, s), Fail(c, s)}
    <3>1. PICK s \in Steps : n \in {Attempt(c, s), Fail(c, s)}
      BY <2>1
    <3>2. \A t \in {"attempted", "failed"} :
             [c.steps EXCEPT ![s] = [status |-> t, evidence |-> NoEvidence]]
               \in [Steps -> StepRecord]
      OBVIOUS
    <3>3. QED
      BY <1>0, <3>1, <3>2 DEF Attempt, Fail
  <2>2. CASE \E s \in Tracked(c), e \in Evidence : n = Verify(c, s, e)
    <3>1. PICK s \in Steps, e \in Evidence : n = Verify(c, s, e)
      BY <2>2 DEF Tracked
    <3>2. [c.steps EXCEPT ![s] = [status |-> "verified", evidence |-> e]]
               \in [Steps -> StepRecord]
      OBVIOUS
    <3>3. \A d : SomeUnverified(d) \in BOOLEAN
      BY DEF SomeUnverified
    <3>4. QED
      BY <1>0, <3>1, <3>2, <3>3 DEF Verify
  <2>3. CASE CanComplete(c) /\ n = Complete(c)
    BY <1>0, <2>3 DEF Complete
  <2>4. CASE n = Supersede(c)
    BY <1>0, <2>4 DEF Supersede
  <2>5. QED
    BY <2>0, <2>1, <2>2, <2>3, <2>4 DEF transitionExecutionCheckpoint
<1>3. QED
  BY <1>1, <1>2

\* A transition or an observation is the next revision.
LEMMA RevisionGrows ==
    ASSUME NEW c \in Checkpoint, NEW n,
           n \in Transitions(c) \/ n = observeExecutionTurn(c)
    PROVE  n.revision = c.revision + 1
<1> USE DEF Checkpoint, Revise
<1>1. \A s \in Steps : Attempt(c, s).revision = c.revision + 1
                         /\ Fail(c, s).revision = c.revision + 1
  BY DEF Attempt, Fail
<1>2. \A s \in Steps, e \in Evidence : Verify(c, s, e).revision = c.revision + 1
  BY DEF Verify
<1>3. /\ Complete(c).revision = c.revision + 1
      /\ Supersede(c).revision = c.revision + 1
      /\ observeExecutionTurn(c).revision = c.revision + 1
  BY DEF Complete, Supersede, observeExecutionTurn
<1>4. QED
  BY <1>1, <1>2, <1>3 DEF Transitions

=============================================================================
