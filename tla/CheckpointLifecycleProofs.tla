---------------------- MODULE CheckpointLifecycleProofs ----------------------
(***************************************************************************)
(* Proofs about CheckpointLifecycle, for any sessions, steps, evidence,    *)
(* prompts and limits.                                                     *)
(*                                                                         *)
(* RecordsExtendTheBranch is about the branch the user is on.  It is not   *)
(* inductive: a return makes the other place the branch, and a new record  *)
(* is derived from the last VALID record of the session, which is the last *)
(* record of the session only if every record on the branch is valid.  So  *)
(* the invariant asks both of both places.                                 *)
(***************************************************************************)
EXTENDS CheckpointLifecycle, CheckpointRecordProofs, SequenceTheorems

Sound(b) ==
    \A i \in CheckpointsIn(b) : ValidRecord(b[i].data) /\ ExtendsTheBranch(b, i)

CheckpointInv ==
    /\ TypeOK
    /\ Sound(branch)
    /\ Sound(away.branch)

-----------------------------------------------------------------------------
(* Lemmas about positions.                                                 *)

\* A position of a branch that holds a checkpoint holds a record.
LEMMA CheckpointsAreRecords ==
    ASSUME NEW b \in Seq(Entry), NEW i \in CheckpointsIn(b)
    PROVE  i \in 1 .. Len(b) /\ b[i].data \in Checkpoint
<1>1. i \in DOMAIN b /\ b[i].kind = "checkpoint"
  BY DEF CheckpointsIn
<1>2. i \in 1 .. Len(b) /\ b[i] \in Entry
  BY <1>1
<1>3. QED
  BY <1>1, <1>2 DEF Entry, ToolEntry

-----------------------------------------------------------------------------
(* Lemmas about branches.                                                  *)

\* What a branch says of a position depends on the entries up to it only.
LEMMA PrefixKeepsRecords ==
    ASSUME NEW b \in Seq(Entry), Sound(b), NEW d \in Seq(Entry),
           NEW i \in CheckpointsIn(d), i <= Len(b),
           \A j \in 1 .. i : d[j] = b[j]
    PROVE  ValidRecord(d[i].data) /\ ExtendsTheBranch(d, i)
<1>1. i \in 1 .. Len(d)
  BY CheckpointsAreRecords
<1>2. \A j \in 1 .. i : j \in DOMAIN b /\ j \in DOMAIN d /\ d[j] = b[j]
  BY <1>1
<1>3. i \in CheckpointsIn(b) /\ d[i] = b[i]
  BY <1>1, <1>2 DEF CheckpointsIn
<1>4. ValidRecord(d[i].data) /\ ExtendsTheBranch(b, i)
  BY <1>3 DEF Sound
<1>5. \A j \in CheckpointsIn(b) \cup CheckpointsIn(d) : j < i => j \in 1 .. i
  BY <1>1, CheckpointsAreRecords
<1>6. Predecessors(d, i) = Predecessors(b, i)
  <2>1. \A j \in 1 .. i : j \in CheckpointsIn(d) <=> j \in CheckpointsIn(b)
    BY <1>2 DEF CheckpointsIn
  <2>2. QED
    BY <1>2, <1>3, <1>5, <2>1 DEF Predecessors
<1>7. Predecessors(b, i) # {} =>
        d[Last(Predecessors(b, i))] = b[Last(Predecessors(b, i))]
  <2> SUFFICES ASSUME Predecessors(b, i) # {}
               PROVE  d[Last(Predecessors(b, i))] = b[Last(Predecessors(b, i))]
    OBVIOUS
  <2>1. Predecessors(b, i) \in SUBSET (1 .. i)
    BY <1>5 DEF Predecessors
  <2>2. i \in Nat
    BY <1>1
  <2>3. Last(Predecessors(b, i)) \in 1 .. i
    BY <2>1, <2>2, LastIsGreatest, Zenon
  <2>4. QED
    BY <1>2, <2>3
<1>8. QED
  BY <1>3, <1>4, <1>6, <1>7, Zenon DEF ExtendsTheBranch

\* A rewind keeps a sound branch sound.
LEMMA PrefixIsSound ==
    ASSUME NEW b \in Seq(Entry), Sound(b), NEW n \in 0 .. Len(b)
    PROVE  SubSeq(b, 1, n) \in Seq(Entry) /\ Sound(SubSeq(b, 1, n))
<1> DEFINE d == SubSeq(b, 1, n)
<1>1. d \in Seq(Entry) /\ Len(d) = n /\ \A j \in 1 .. n : d[j] = b[j]
  BY SubSeqProperties
<1> HIDE DEF d
<1>2. ASSUME NEW i \in CheckpointsIn(d)
      PROVE  ValidRecord(d[i].data) /\ ExtendsTheBranch(d, i)
  <2>1. i \in 1 .. n
    BY <1>1, CheckpointsAreRecords
  <2>2. i <= Len(b) /\ \A j \in 1 .. i : d[j] = b[j]
    BY <1>1, <2>1
  <2>3. QED
    BY <1>1, <2>2, PrefixKeepsRecords
<1>3. QED
  BY <1>1, <1>2 DEF Sound, d

\* An entry appended to a sound branch leaves it sound if it is no checkpoint
\* or is itself a valid record that extends the branch.
LEMMA AppendedEntry ==
    ASSUME NEW b \in Seq(Entry), Sound(b), NEW e \in Entry,
           e.kind = "checkpoint" =>
             /\ ValidRecord(e.data)
             /\ ExtendsTheBranch(Append(b, e), Len(b) + 1)
    PROVE  Append(b, e) \in Seq(Entry) /\ Sound(Append(b, e))
<1> DEFINE d == Append(b, e)
<1>1. /\ d \in Seq(Entry)
      /\ Len(d) = Len(b) + 1
      /\ d[Len(b) + 1] = e
      /\ \A j \in 1 .. Len(b) : d[j] = b[j]
  BY AppendProperties
<1> HIDE DEF d
<1>2. ASSUME NEW i \in CheckpointsIn(d)
      PROVE  ValidRecord(d[i].data) /\ ExtendsTheBranch(d, i)
  <2>1. i \in 1 .. Len(b) + 1
    BY <1>1, CheckpointsAreRecords
  <2>2. CASE i = Len(b) + 1
    BY <1>1, <2>2 DEF d, CheckpointsIn
  <2>3. CASE i <= Len(b)
    <3>1. \A j \in 1 .. i : d[j] = b[j]
      BY <1>1, <2>1, <2>3
    <3>2. QED
      BY <1>1, <2>3, <3>1, PrefixKeepsRecords
  <2>4. QED
    BY <2>1, <2>2, <2>3
<1>3. QED
  BY <1>1, <1>2 DEF Sound, d

\* On a sound branch the record restored is the last one of the session.
LEMMA RestoredIsLast ==
    ASSUME NEW b \in Seq(Entry), Sound(b), NEW s \in Sessions,
           restoreExecutionCheckpoint(b, s) # NoCheckpoint
    PROVE  LET own == {j \in CheckpointsIn(b) : b[j].data.session = s} IN
           /\ own # {} /\ Last(own) \in own
           /\ restoreExecutionCheckpoint(b, s) = b[Last(own)].data
           /\ restoreExecutionCheckpoint(b, s) \in Checkpoint
           /\ restoreExecutionCheckpoint(b, s).session = s
<1> DEFINE own == {j \in CheckpointsIn(b) : b[j].data.session = s}
<1>1. ValidIn(b, s) = own
  BY DEF ValidIn, validExecutionCheckpoint, Sound
<1>2. own # {} /\ restoreExecutionCheckpoint(b, s) = b[Last(own)].data
  BY <1>1, Zenon DEF restoreExecutionCheckpoint
<1>3. own \in SUBSET (1 .. Len(b)) /\ Len(b) \in Nat
  BY CheckpointsAreRecords
<1>4. Last(own) \in own
  <2> HIDE DEF own
  <2>1. QED
    BY <1>2, <1>3, LastIsGreatest, Zenon
<1>5. b[Last(own)].data \in Checkpoint /\ b[Last(own)].data.session = s
  BY <1>4, CheckpointsAreRecords
<1>6. QED
  BY <1>2, <1>4, <1>5

\* A record appended to a branch is the one restored from it.
LEMMA AppendedIsRestored ==
    ASSUME NEW b \in Seq(Entry), NEW c \in Checkpoint, ValidRecord(c)
    PROVE  restoreExecutionCheckpoint(Append(b, CheckpointEntry(c)), c.session) = c
<1> DEFINE e == CheckpointEntry(c)
           d == Append(b, e)
           m == Len(b) + 1
<1>1. e \in Entry /\ e.kind = "checkpoint" /\ e.data = c
  BY DEF CheckpointEntry, Entry
<1>2. d \in Seq(Entry) /\ Len(d) = m /\ d[m] = e /\ m \in 1 .. Len(d)
  BY <1>1, AppendProperties
<1> HIDE DEF d, e
<1>3. m \in ValidIn(d, c.session)
  <2>1. m \in DOMAIN d
    BY <1>2
  <2>2. QED
    BY <1>1, <1>2, <2>1 DEF ValidIn, CheckpointsIn, validExecutionCheckpoint
<1>4. ValidIn(d, c.session) \in SUBSET (1 .. m)
  BY <1>2, CheckpointsAreRecords DEF ValidIn
<1>5. \A j \in ValidIn(d, c.session) : j <= m
  BY <1>4
<1>6. m \in Nat
  OBVIOUS
<1>7. Last(ValidIn(d, c.session)) = m
  <2> HIDE DEF m
  <2>1. QED
    BY <1>3, <1>4, <1>5, <1>6, LastIs, Zenon
<1>8. QED
  BY <1>1, <1>2, <1>3, <1>7 DEF restoreExecutionCheckpoint, d, e

\* A new plan, or a revision of the restored record, extends a sound branch.
LEMMA CommittedRecord ==
    ASSUME NEW b \in Seq(Entry), Sound(b), NEW c \in Checkpoint,
           ValidRecord(c),
           \/ c.revision = 1 /\ Open(c) /\ Tracked(c) = {}
           \/ LET r == restoreExecutionCheckpoint(b, c.session)
              IN  /\ r # NoCheckpoint
                  /\ \/ c \in Transitions(r)
                     \/ Open(r) /\ c = observeExecutionTurn(r)
    PROVE  /\ Append(b, CheckpointEntry(c)) \in Seq(Entry)
           /\ Sound(Append(b, CheckpointEntry(c)))
<1> DEFINE e == CheckpointEntry(c)
           d == Append(b, e)
           m == Len(b) + 1
           r == restoreExecutionCheckpoint(b, c.session)
           own == {j \in CheckpointsIn(b) : b[j].data.session = c.session}
<1>1. e \in Entry /\ e.kind = "checkpoint" /\ e.data = c
  BY DEF CheckpointEntry, Entry
<1>2. /\ d \in Seq(Entry) /\ Len(d) = m /\ d[m] = e /\ m \in 1 .. Len(d)
      /\ \A j \in 1 .. Len(b) : d[j] = b[j]
  BY <1>1, AppendProperties
<1> HIDE DEF d, e
<1>3. Predecessors(d, m) = own
  <2>1. \A j \in 1 .. Len(b) : j \in CheckpointsIn(d) <=> j \in CheckpointsIn(b)
    BY <1>2 DEF CheckpointsIn
  <2>2. \A j \in CheckpointsIn(b) : j \in 1 .. Len(b)
    BY CheckpointsAreRecords
  <2>3. \A j \in CheckpointsIn(d) : j < m <=> j \in 1 .. Len(b)
    BY <1>2, CheckpointsAreRecords
  <2>4. \A j \in CheckpointsIn(b) : j < m
    BY <2>2
  <2>5. QED
    BY <1>1, <1>2, <2>1, <2>2, <2>3, <2>4 DEF Predecessors
<1>4. ExtendsTheBranch(d, m)
  <2>1. CASE c.revision = 1 /\ Open(c) /\ Tracked(c) = {}
    BY <1>1, <1>2, <2>1 DEF ExtendsTheBranch
  <2>2. CASE /\ r # NoCheckpoint
             /\ c \in Transitions(r) \/ (Open(r) /\ c = observeExecutionTurn(r))
    <3>1. c.session \in Sessions
      BY DEF Checkpoint
    <3>2. own # {} /\ Last(own) \in own /\ r = b[Last(own)].data
      BY <2>2, <3>1, RestoredIsLast
    <3>3. d[Last(own)] = b[Last(own)]
      BY <1>2, <3>2, CheckpointsAreRecords
    <3> HIDE DEF r, own, m
    <3>4. d[m].data = c /\ r = d[Last(Predecessors(d, m))].data
      BY <1>1, <1>2, <1>3, <3>2, <3>3
    <3>5. QED
      BY <1>3, <2>2, <3>2, <3>4, Zenon DEF ExtendsTheBranch
  <2>3. QED
    BY <2>1, <2>2
<1>5. QED
  BY <1>1, <1>4, AppendedEntry DEF d, e


-----------------------------------------------------------------------------
(* The invariant.                                                          *)

LEMMA InitCheckpointInv == Init => CheckpointInv
<1> SUFFICES ASSUME Init PROVE CheckpointInv
  OBVIOUS
<1>1. <<>> \in Seq(Entry) /\ Sound(<<>>)
  BY DEF Sound, CheckpointsIn
<1>2. QED
  BY <1>1, BoundsAssumption DEF Init, CheckpointInv, TypeOK

\* The restored record of an open plan can be revised.
LEMMA RestoredPlan ==
    ASSUME CheckpointInv, read # NoCheckpoint
    PROVE  read \in Checkpoint /\ read.session = session
BY RestoredIsLast DEF CheckpointInv, TypeOK, read

LEMMA OpenIsThere == Open(read) => read # NoCheckpoint
BY DEF Open, NoCheckpoint

\* What every step that may write leaves behind: a sound branch, and a record
\* of this session on its way to the mirror if one was journalled.
Written ==
    /\ branch' \in Seq(Entry) /\ Sound(branch')
    /\ \/ UNCHANGED <<mirroring, journalled>>
       \/ /\ mirroring' \in Checkpoint /\ mirroring'.session = session
          /\ journalled' = journalled \cup {mirroring'}

\* A commit of a record that extends the branch keeps the branch sound.
LEMMA CommitStep ==
    ASSUME CheckpointInv, NEW c \in Checkpoint, ValidRecord(c),
           c.session = session,
           \/ c.revision = 1 /\ Open(c) /\ Tracked(c) = {}
           \/ /\ read # NoCheckpoint
              /\ \/ c \in Transitions(read)
                 \/ Open(read) /\ c = observeExecutionTurn(read),
           commitExecutionCheckpoint(c)
    PROVE  Written
<1>1. branch' = Append(branch, CheckpointEntry(c))
  BY DEF commitExecutionCheckpoint
<1>2. branch' \in Seq(Entry) /\ Sound(branch')
  BY <1>1, CommittedRecord DEF CheckpointInv, TypeOK, read
<1>3. QED
  BY <1>2 DEF commitExecutionCheckpoint, Written

LEMMA BeginWrites ==
    ASSUME CheckpointInv, NEW o \in {"operator", "session"},
           NEW h \in Prompts \cup {NoPrompt}, begin(o, h)
    PROVE  Written
<1> DEFINE c == createExecutionCheckpoint(session, o, h)
<1>1. session \in Sessions
  BY DEF CheckpointInv, TypeOK
<1>2. /\ c \in Checkpoint /\ ValidRecord(c) /\ c.session = session
      /\ c.revision = 1 /\ Open(c) /\ Tracked(c) = {}
  BY <1>1, NewPlan
<1>3. commitExecutionCheckpoint(c)
  BY DEF begin
<1> HIDE DEF c
<1>4. QED
  BY <1>2, <1>3, CommitStep, Zenon

LEMMA AutoBeginWrites ==
    ASSUME CheckpointInv, NEW p \in UserPrompt, autoBegin(p)
    PROVE  Written
<1>1. CASE autoBeginApplies(p, read)
  <2>1. p.sha \in Prompts \cup {NoPrompt}
    BY DEF UserPrompt
  <2>2. QED
    BY <1>1, <2>1, BeginWrites DEF autoBegin
<1>2. CASE ~ autoBeginApplies(p, read)
  BY <1>2 DEF autoBegin, NothingWritten, Written, CheckpointInv, TypeOK
<1>3. QED
  BY <1>1, <1>2

\* The observation is a revision of the restored record.
LEMMA ObservationIsRevision ==
    ASSUME CheckpointInv, Accountable, Updates(read, observeExecutionTurn(read))
    PROVE  /\ read \in Checkpoint /\ read # NoCheckpoint
           /\ read.session = session /\ Open(read)
           /\ observeExecutionTurn(read) \in Checkpoint
           /\ ValidRecord(observeExecutionTurn(read))
           /\ observeExecutionTurn(read).session = session
<1>1. Open(read) /\ read # NoCheckpoint
  BY OpenIsThere DEF Accountable
<1>2. read \in Checkpoint /\ read.session = session
  BY <1>1, RestoredPlan
<1>3. QED
  BY <1>1, <1>2, RevisedPlan

LEMMA AfterTurnWrites ==
    ASSUME CheckpointInv, afterTurn
    PROVE  Written
<1>1. CASE Accountable /\ Updates(read, observeExecutionTurn(read))
  <2> DEFINE c == observeExecutionTurn(read)
  <2>1. /\ c \in Checkpoint /\ ValidRecord(c) /\ c.session = session
        /\ read # NoCheckpoint /\ Open(read)
    BY <1>1, ObservationIsRevision
  <2>2. commitExecutionCheckpoint(c)
    BY <1>1 DEF afterTurn
  <2>3. c = observeExecutionTurn(read)
    OBVIOUS
  <2> HIDE DEF c
  <2>4. QED
    BY <2>1, <2>2, <2>3, CommitStep, Zenon
<1>2. CASE ~ (Accountable /\ Updates(read, observeExecutionTurn(read)))
  BY <1>2 DEF afterTurn, NothingWritten, Written, CheckpointInv, TypeOK
<1>3. QED
  BY <1>1, <1>2

LEMMA TransitionWrites ==
    ASSUME CheckpointInv, CommandTransition
    PROVE  Written
<1>1. PICK c \in Transitions(read) : commitExecutionCheckpoint(c)
  BY DEF CommandTransition
<1>2. read # NoCheckpoint
  BY DEF CommandTransition
<1>3. read \in Checkpoint /\ read.session = session
  BY <1>2, RestoredPlan
<1>4. Open(read) /\ Updates(read, c)
  BY <1>1 DEF Transitions, transitionExecutionCheckpoint
<1>5. c \in Checkpoint /\ ValidRecord(c) /\ c.session = session
  BY <1>1, <1>3, <1>4, RevisedPlan
<1>6. QED
  BY <1>1, <1>2, <1>5, CommitStep, Zenon

\* Every step keeps the invariant.
LEMMA StepCheckpointInv == CheckpointInv /\ [Next]_vars => CheckpointInv'
<1> SUFFICES ASSUME CheckpointInv, [Next]_vars
             PROVE  CheckpointInv'
  OBVIOUS
<1>0. TypeOK /\ Sound(branch) /\ Sound(away.branch)
  BY DEF CheckpointInv
<1>s. ASSUME Stays, Written, turn' \in {"idle", "running"}
      PROVE  CheckpointInv'
  BY <1>0, <1>s DEF Stays, Written, CheckpointInv, TypeOK
<1>m. ASSUME Move, session' \in Sessions, started' \subseteq Sessions,
             branch' \in Seq(Entry), Sound(branch')
      PROVE  CheckpointInv'
  BY <1>0, <1>m, BoundsAssumption DEF Move, CheckpointInv, TypeOK, history
<1>1. ASSUME NEW p \in UserPrompt, BeforeAgentStart(p)
      PROVE  CheckpointInv'
  <2>1. Written
    BY <1>1, AutoBeginWrites DEF BeforeAgentStart
  <2>2. QED
    BY <1>1, <1>s, <2>1 DEF BeforeAgentStart
<1>2. CASE ToolResult
  <2>1. ToolEntry \in Entry /\ ToolEntry.kind # "checkpoint"
    BY DEF Entry, ToolEntry
  <2>2. Append(branch, ToolEntry) \in Seq(Entry) /\ Sound(Append(branch, ToolEntry))
    BY <1>0, <2>1, AppendedEntry DEF TypeOK
  <2>3. Written
    BY <1>0, <1>2, <2>2 DEF ToolResult, Written, TypeOK
  <2>4. QED
    BY <1>0, <1>2, <1>s, <2>3 DEF ToolResult, TypeOK
<1>3. CASE AgentEnd
  <2>1. Written
    BY <1>3, AfterTurnWrites DEF AgentEnd
  <2>2. QED
    BY <1>3, <1>s, <2>1 DEF AgentEnd
<1>4. CASE CommandBegin
  <2>1. Written
    BY <1>4, BeginWrites DEF CommandBegin
  <2>2. QED
    BY <1>0, <1>4, <1>s, <2>1 DEF CommandBegin, TypeOK
<1>5. CASE CommandTransition
  <2>1. Written
    BY <1>5, TransitionWrites
  <2>2. QED
    BY <1>0, <1>5, <1>s, <2>1 DEF CommandTransition, TypeOK
<1>6. CASE Crash
  <2>1. branch' = branch /\ away' = away /\ TypeOK'
    BY <1>0, <1>6, BoundsAssumption DEF Crash, TypeOK
  <2>2. QED
    BY <1>0, <2>1 DEF CheckpointInv
<1>12. CASE MirrorWritten \/ MirrorFails
  <2>1. branch' = branch /\ away' = away /\ TypeOK'
    BY <1>0, <1>12 DEF MirrorWritten, MirrorFails, Settled, TypeOK, history
  <2>2. QED
    BY <1>0, <2>1 DEF CheckpointInv
<1>7. ASSUME NEW n \in 0 .. MaxEntries, Rewind(n)
      PROVE  CheckpointInv'
  <2>1. n \in 0 .. Len(branch)
    BY <1>0, <1>7 DEF Rewind, TypeOK
  <2>2. branch' \in Seq(Entry) /\ Sound(branch')
    BY <1>0, <1>7, <2>1, PrefixIsSound DEF Rewind, TypeOK
  <2>3. QED
    BY <1>0, <1>7, <1>m, <2>2 DEF Rewind, TypeOK
<1>8. ASSUME NEW s \in Sessions, Fork(s)
      PROVE  CheckpointInv'
  BY <1>0, <1>8, <1>m DEF Fork, TypeOK
<1>9. CASE Return
  BY <1>0, <1>9, <1>m DEF Return, TypeOK
<1>10. CASE UNCHANGED vars
  BY <1>0, <1>10 DEF vars, history, CheckpointInv, TypeOK
<1>11. QED
  BY <1>1, <1>2, <1>3, <1>4, <1>5, <1>6, <1>7, <1>8, <1>9, <1>10, <1>12 DEF Next

\* Every reachable state has the invariant.
THEOREM CheckpointInvariant == Spec => []CheckpointInv
BY InitCheckpointInv, StepCheckpointInv, PTL DEF Spec

\* Every variable of the ledger keeps its type.
THEOREM CheckpointTypeCorrect == Spec => []TypeOK
<1>1. CheckpointInv => TypeOK
  BY DEF CheckpointInv
<1>2. QED
  BY <1>1, CheckpointInvariant, PTL

\* No rewind, fork, return or crash brings a record onto a branch that does
\* not follow from the records before it there.
THEOREM BranchesExtendThemselves == Spec => []RecordsExtendTheBranch
<1>1. CheckpointInv => RecordsExtendTheBranch
  BY DEF CheckpointInv, Sound, RecordsExtendTheBranch
<1>2. QED
  BY <1>1, CheckpointInvariant, PTL

-----------------------------------------------------------------------------
(* What follows from it.                                                   *)

\* What the ledger journals it can read again: every record on the branch is
\* within the limits of revision, steps and size that restoring asks for.
THEOREM JournalledRecordsAreValid ==
    Spec => [](\A i \in CheckpointsIn(branch) : ValidRecord(branch[i].data))
<1>1. CheckpointInv => \A i \in CheckpointsIn(branch) : ValidRecord(branch[i].data)
  BY DEF CheckpointInv, Sound
<1>2. QED
  BY <1>1, CheckpointInvariant, PTL

\* The record before a record that does not start a plan, and how the one
\* makes the other.
LEMMA RecordBefore ==
    ASSUME NEW b \in Seq(Entry), Sound(b), NEW i \in CheckpointsIn(b),
           ~ (b[i].data.revision = 1 /\ Open(b[i].data) /\ Tracked(b[i].data) = {})
    PROVE  /\ Predecessors(b, i) # {}
           /\ Preceding(b, i) \in CheckpointsIn(b)
           /\ b[Preceding(b, i)].data \in Checkpoint
           /\ \/ b[i].data \in Transitions(b[Preceding(b, i)].data)
              \/ /\ Open(b[Preceding(b, i)].data)
                 /\ b[i].data = observeExecutionTurn(b[Preceding(b, i)].data)
<1>1. ExtendsTheBranch(b, i)
  BY DEF Sound
<1>2. /\ Predecessors(b, i) # {}
      /\ \/ b[i].data \in Transitions(b[Preceding(b, i)].data)
         \/ /\ Open(b[Preceding(b, i)].data)
            /\ b[i].data = observeExecutionTurn(b[Preceding(b, i)].data)
  BY <1>1, Zenon DEF ExtendsTheBranch, Preceding
<1>3. Predecessors(b, i) \in SUBSET (1 .. Len(b)) /\ Len(b) \in Nat
  BY CheckpointsAreRecords DEF Predecessors
<1>4. Preceding(b, i) \in Predecessors(b, i)
  BY <1>2, <1>3, LastIsGreatest, Zenon DEF Preceding
<1>5. Preceding(b, i) \in CheckpointsIn(b)
  BY <1>4 DEF Predecessors
<1>6. QED
  BY <1>2, <1>5, CheckpointsAreRecords

\* Of an open plan with steps and nothing pending the last word is a
\* verification.
LEMMA NothingPendingIsVerified ==
    ASSUME NEW c \in Checkpoint, NEW n, Open(n), ~ n.pending,
           n \in Transitions(c) \/ n = observeExecutionTurn(c)
    PROVE  \E s \in Steps, e \in Evidence : n = Verify(c, s, e)
<1> USE DEF Checkpoint, Revise
<1>1. ASSUME NEW s \in Steps, n \in {Attempt(c, s), Fail(c, s)}
      PROVE  FALSE
  BY <1>1 DEF Attempt, Fail
<1>2. n # Complete(c) /\ n # Supersede(c)
  BY DEF Complete, Supersede, Open
<1>3. n # observeExecutionTurn(c)
  BY DEF observeExecutionTurn
<1>4. n \in {Attempt(c, s) : s \in Steps} \cup {Fail(c, s) : s \in Steps}
               \cup {Verify(c, s, e) : s \in Steps, e \in Evidence}
  BY <1>2, <1>3 DEF Transitions
<1>5. n \in {Verify(c, s, e) : s \in Steps, e \in Evidence}
  BY <1>1, <1>4
<1>6. QED
  BY <1>5

\* A branch whose records extend it completes plans after verifications only.
LEMMA ExtensionVerifies == CheckpointInv => CompletionFollowsVerification
<1> SUFFICES ASSUME CheckpointInv, NEW i \in CheckpointsIn(branch),
                    branch[i].data.status = "complete"
             PROVE  /\ Predecessors(branch, i) # {}
                    /\ Predecessors(branch, Preceding(branch, i)) # {}
                    /\ \E s \in Steps, e \in Evidence :
                         branch[Preceding(branch, i)].data =
                           Verify(branch[Preceding(branch, Preceding(branch, i))].data,
                                  s, e)
                    /\ Verified(branch[Preceding(branch, i)].data)
                         = Tracked(branch[Preceding(branch, i)].data)
  BY Zenon DEF CompletionFollowsVerification
<1> DEFINE c == branch[i].data
           k == Preceding(branch, i)
           before == branch[k].data
           m == Preceding(branch, k)
           first == branch[m].data
<1>0. branch \in Seq(Entry) /\ Sound(branch)
  BY DEF CheckpointInv, TypeOK
<1>1. c \in Checkpoint /\ ~ Open(c)
  BY <1>0, CheckpointsAreRecords DEF Open
<1>2. /\ Predecessors(branch, i) # {} /\ k \in CheckpointsIn(branch)
      /\ before \in Checkpoint
      /\ c \in Transitions(before) \/ (Open(before) /\ c = observeExecutionTurn(before))
  BY <1>0, <1>1, RecordBefore, Zenon
<1>3. CanComplete(before) /\ Open(before)
  <2> HIDE DEF k, before
  <2>1. c.status = "complete"
    OBVIOUS
  <2> HIDE DEF c
  <2>2. c \in Transitions(before)
    <3>1. ASSUME Open(before), c = observeExecutionTurn(before)
          PROVE  FALSE
      BY <1>2, <2>1, <3>1 DEF observeExecutionTurn, Revise, Checkpoint, Open
    <3>2. QED
      BY <1>2, <3>1
  <2>3. Open(before) /\ Updates(before, c)
    BY <2>2 DEF Transitions, transitionExecutionCheckpoint
  <2>4. QED
    BY <1>2, <2>1, <2>2, <2>3, RevisedPlan
<1>4. ~ (before.revision = 1 /\ Open(before) /\ Tracked(before) = {})
  <2> HIDE DEF before
  <2>1. QED
    BY <1>3 DEF CanComplete
<1>5. /\ Predecessors(branch, k) # {} /\ first \in Checkpoint
      /\ before \in Transitions(first) \/ before = observeExecutionTurn(first)
  <2> HIDE DEF k
  <2>1. QED
    BY <1>0, <1>2, <1>4, RecordBefore, Zenon
<1>6. \E s \in Steps, e \in Evidence : before = Verify(first, s, e)
  <2> HIDE DEF before, first
  <2>1. QED
    BY <1>3, <1>5, NothingPendingIsVerified DEF CanComplete
<1>7. Verified(before) = Tracked(before)
  BY <1>3 DEF CanComplete
<1>8. QED
  BY <1>2, <1>5, <1>6, <1>7

\* No order of attempts, failures, observations, rewinds, forks and restarts
\* completes a plan after anything but a verification that left no step open.
THEOREM CompletionTrustworthy == Spec => []CompletionFollowsVerification
BY ExtensionVerifies, CheckpointInvariant, PTL

-----------------------------------------------------------------------------
(* The mirror directory.  What a kill between the entry and its file needs *)
(* is that the record on its way is one of the journal and of the session  *)
(* that would be warned, and that a silent failure is not a session's      *)
(* first: its warning was printed by this process.                         *)

MirrorInv ==
    /\ MirrorAccountsForJournal
    /\ ~ Settled => mirroring \in journalled /\ mirroring.session = session
    /\ noticed \subseteq warned

LEMMA InitMirrorInv == Init => MirrorInv
BY DEF Init, MirrorInv, MirrorAccountsForJournal, Settled

\* A record that is journalled is accounted for by being on its way.
LEMMA WrittenIsAccounted ==
    ASSUME CheckpointInv, MirrorInv, Stays, Written
    PROVE  MirrorInv'
<1>1. mirroring = NoCheckpoint /\ session' = session /\ files' = files
      /\ noticed' = noticed /\ warned' = warned /\ cut' = cut
  BY DEF Stays, Settled
<1>2. NoCheckpoint \notin journalled
  BY DEF CheckpointInv, TypeOK, NoCheckpoint, Checkpoint
<1>3. CASE UNCHANGED <<mirroring, journalled>>
  BY <1>1, <1>3 DEF MirrorInv, MirrorAccountsForJournal, Settled
<1>4. CASE /\ mirroring' \in Checkpoint /\ mirroring'.session = session
           /\ journalled' = journalled \cup {mirroring'}
  <2>1. \A c \in journalled' \ files' :
           c = mirroring' \/ c \in cut' \/ c.session \in warned'
    BY <1>1, <1>2, <1>4 DEF MirrorInv, MirrorAccountsForJournal
  <2>2. QED
    BY <1>1, <1>4, <2>1 DEF MirrorInv, MirrorAccountsForJournal, Settled
<1>5. QED
  BY <1>3, <1>4 DEF Written

LEMMA StepMirrorInv ==
    ASSUME CheckpointInv, MirrorInv, [Next]_vars
    PROVE  MirrorInv'
<1>0. NoCheckpoint \notin journalled
  BY DEF CheckpointInv, TypeOK, NoCheckpoint, Checkpoint
<1>1. ASSUME NEW p \in UserPrompt, BeforeAgentStart(p)
      PROVE  MirrorInv'
  BY <1>1, AutoBeginWrites, WrittenIsAccounted DEF BeforeAgentStart
<1>2. CASE ToolResult
  BY <1>2 DEF ToolResult, Stays, MirrorInv, MirrorAccountsForJournal, Settled
<1>3. CASE AgentEnd
  BY <1>3, AfterTurnWrites, WrittenIsAccounted DEF AgentEnd
<1>4. CASE CommandBegin
  BY <1>4, BeginWrites, WrittenIsAccounted DEF CommandBegin
<1>5. CASE CommandTransition
  BY <1>5, TransitionWrites, WrittenIsAccounted DEF CommandTransition
<1>6. CASE MirrorWritten
  <2>1. mirroring \in journalled
    BY <1>6 DEF MirrorWritten, MirrorInv
  <2>2. QED
    BY <1>6, <2>1
       DEF MirrorWritten, MirrorInv, MirrorAccountsForJournal, Settled, history
<1>7. CASE MirrorFails
  <2>1. mirroring.session = session /\ session \in warned' /\ warned \subseteq warned'
        /\ noticed' = noticed \cup {session}
    BY <1>7 DEF MirrorFails, MirrorInv
  <2>2. QED
    BY <1>7, <2>1 DEF MirrorFails, MirrorInv, MirrorAccountsForJournal, Settled
<1>8. CASE Crash
  <2>1. \A c \in journalled \ files : c = mirroring => c \in cut'
    BY <1>0, <1>8 DEF Crash
  <2>2. QED
    BY <1>8, <2>1 DEF Crash, MirrorInv, MirrorAccountsForJournal, Settled
<1>9. ASSUME Move PROVE MirrorInv'
  BY <1>9 DEF Move, MirrorInv, MirrorAccountsForJournal, Settled, history
<1>10. CASE UNCHANGED vars
  BY <1>10 DEF vars, history, MirrorInv, MirrorAccountsForJournal, Settled
<1>11. QED
  BY <1>1, <1>2, <1>3, <1>4, <1>5, <1>6, <1>7, <1>8, <1>9, <1>10
     DEF Next, Rewind, Fork, Return

\* Whatever fails or dies between the journal and the mirror directory, the
\* directory holds nothing the journal lacks, and of what it lacks the user
\* was warned unless a kill took the file.
THEOREM MirrorIsAccountedFor == Spec => []MirrorAccountsForJournal
<1>1. CheckpointInv /\ MirrorInv /\ [Next]_vars => MirrorInv'
  BY StepMirrorInv
<1>2. MirrorInv => MirrorAccountsForJournal
  BY DEF MirrorInv
<1>3. QED
  BY <1>1, <1>2, InitMirrorInv, CheckpointInvariant, PTL DEF Spec

-----------------------------------------------------------------------------
(* The plan of record.                                                     *)

\* The turn starts and ends, and restarts, without displacing a plan that an
\* operator began.
LEMMA OperatorPlanStep ==
    ASSUME CheckpointInv, [Next]_vars, turn' # turn,
           Open(read), read.origin = "operator"
    PROVE  Open(read') /\ read'.origin = "operator" /\ read'.steps = read.steps
<1>1. ASSUME branch' = branch, session' = session
      PROVE  read' = read
  BY <1>1 DEF read
<1>2. ASSUME NEW p \in UserPrompt, BeforeAgentStart(p)
      PROVE  branch' = branch /\ session' = session
  <2>1. ~ autoBeginApplies(p, read)
    BY DEF autoBeginApplies
  <2>2. QED
    BY <1>2, <2>1 DEF BeforeAgentStart, autoBegin, NothingWritten, Stays
<1>3. CASE AgentEnd
  <2>1. CASE Accountable /\ Updates(read, observeExecutionTurn(read))
    <3> DEFINE c == observeExecutionTurn(read)
    <3>1. read \in Checkpoint /\ c \in Checkpoint /\ ValidRecord(c) /\ c.session = session
      BY <2>1, ObservationIsRevision
    <3>2. branch' = Append(branch, CheckpointEntry(c)) /\ session' = session
      BY <1>3, <2>1 DEF AgentEnd, afterTurn, commitExecutionCheckpoint, Stays
    <3>3. read' = c
      <4>1. branch \in Seq(Entry)
        BY DEF CheckpointInv, TypeOK
      <4> HIDE DEF c
      <4>2. restoreExecutionCheckpoint(Append(branch, CheckpointEntry(c)), c.session) = c
        BY <3>1, <4>1, AppendedIsRestored
      <4>3. QED
        BY <3>1, <3>2, <4>2 DEF read
    <3>4. c.status = read.status /\ c.origin = read.origin /\ c.steps = read.steps
      BY <3>1 DEF observeExecutionTurn, Revise, Checkpoint
    <3>5. QED
      BY <3>3, <3>4 DEF Open
  <2>2. CASE ~ (Accountable /\ Updates(read, observeExecutionTurn(read)))
    BY <1>1, <1>3, <2>2 DEF AgentEnd, afterTurn, NothingWritten, Stays
  <2>3. QED
    BY <2>1, <2>2
<1>4. CASE Crash
  BY <1>1, <1>4 DEF Crash
<1>5. QED
  BY <1>1, <1>2, <1>3, <1>4
     DEF Next, vars, ToolResult, CommandBegin, CommandTransition, MirrorWritten,
         MirrorFails, Move, Rewind, Fork, Return

\* Only the operator ends or replaces the plan an operator began.
THEOREM OperatorPlanIsKept == Spec => OperatorPlanKept
<1>1. CheckpointInv /\ [Next]_vars =>
        [(/\ turn' # turn /\ Open(read) /\ read.origin = "operator")
           => (Open(read') /\ read'.origin = "operator"
                 /\ read'.steps = read.steps)]_vars
  BY OperatorPlanStep
<1>2. QED
  BY <1>1, CheckpointInvariant, PTL DEF Spec, OperatorPlanKept

=============================================================================
