--------------------------- MODULE RecoveryJournal ---------------------------
(***************************************************************************)
(* What the recovery policy reads out of an OMP session journal:           *)
(* recovery-episodes.mjs and the pure part of                              *)
(* intelligent-stall-recovery.mjs.                                         *)
(*                                                                         *)
(* A branch is a sequence of entries with distinct ids.  A "round" stands  *)
(* for one tool call with its result, a "stop" for the assistant message   *)
(* that ends a turn.  The source validates recovery records in one pass    *)
(* that carries the episode, its proof and the last ordinal; every value   *)
(* it carries is the one in the record it has just accepted, so the pass   *)
(* is stated here as a condition on each record and the one before it.     *)
(***************************************************************************)
EXTENDS ExecutionCheckpoint

CONSTANTS
    Signatures,         \* digests of a tool call's name and arguments
    Stages,             \* <<"native", "context", "model">> in the code
    Mode,               \* intelligentMode
    AllowModelFallback  \* PIFROST_RECOVERY_FALLBACK_ROLE is set

\* MAX_RECOVERY_CONTINUATIONS
Limit == Len(Stages)

ASSUME RecoveryAssumption ==
    /\ Stages \in Seq({"native", "context", "model"})
    /\ Mode \in {"auto", "notice", "off"}
    /\ AllowModelFallback \in BOOLEAN

ProofKinds == {"initial", "paired-tool", "verified-step", "user-resume"}

\* The hashes of the code are injective here: a fingerprint is determined by
\* the entry it is taken from, and an episode key by the anchor and the proof.
Proof == [kind : ProofKinds, entry : Nat]
NoProof == [kind |-> "none", entry |-> 0]

RecoveryRecord ==
    [version : {1, 2}, session : Sessions, anchor : Nat, ordinal : 1 .. Limit,
     stage : {"native", "context", "model"}, assistant : Nat, proof : Proof]

Results == {"ok", "error", "uncertain", "lost"}   \* lost: a call without result
Outputs == {"empty", "thinking", "answer"}

\* A response: what its text is besides tags and the marker of the gateway,
\* whether it calls tools or has reasoning blocks, whether it stopped by itself.
Replies == [text : {"none", "planning", "useful"}, calls : BOOLEAN, reasoning : BOOLEAN,
            terminal : BOOLEAN]

\* Which of them leave a turn without a result.  Leaked planning is told from
\* another by its words, as reasoning is.
inspectOutput(r) ==
    IF r.text = "useful" \/ r.calls \/ ~ r.terminal THEN "answer"
    ELSE IF r.text = "planning" \/ r.reasoning THEN "thinking"
    ELSE "empty"

Entry ==
    [kind : {"user"}, id : Nat]
      \cup [kind : {"round"}, id : Nat, sig : Signatures, result : Results]
      \cup [kind : {"stop"}, id : Nat, output : Outputs]
      \cup [kind : {"checkpoint"}, id : Nat, data : Checkpoint]
      \cup [kind : {"recovery"}, id : Nat, data : RecoveryRecord]
      \cup [kind : {"foreign"}, id : Nat]  \* an unknown dev.pifrost.recovery- type

-----------------------------------------------------------------------------
(* locateRecoveryScope                                                     *)

Anchors(b) == {i \in CheckpointsIn(b) : b[i].data.revision = 1}
Anchor(b)  == Last(Anchors(b))
InScope(b, s) == Anchors(b) # {} /\ CheckpointsIn(b) = ValidIn(b, s)
PlanOf(b)  == b[Last(CheckpointsIn(b))].data

-----------------------------------------------------------------------------
(* pairs: the tool rounds strictly between two positions                   *)

Rounds(b, from, to) == {i \in DOMAIN b : from < i /\ i < to /\ b[i].kind = "round"}

AllPaired(b, from, to)  == \A i \in Rounds(b, from, to) : b[i].result # "lost"
AllCertain(b, from, to) ==
    \A i \in Rounds(b, from, to) : b[i].result \notin {"lost", "uncertain"}

-----------------------------------------------------------------------------
(* evidenceSince: the latest sign of progress between an attempt at        *)
(* position from and position to, or NoProof.                              *)

VerifiedPairs(c) == {<<s, c.steps[s].evidence>> : s \in Verified(c)}

\* Steps already verified by some checkpoint up to the attempt.
Baseline(b, from) ==
    UNION {VerifiedPairs(b[i].data) :
             i \in {j \in CheckpointsIn(b) : Anchor(b) <= j /\ j <= from}}

UsersBetween(b, from, to) ==
    {i \in DOMAIN b : from < i /\ i < to /\ b[i].kind = "user"}

\* Mutation: repeating a call counts as progress.
AnyTools(b, from, to) == {i \in Rounds(b, from, to) : b[i].result = "ok"}

NovelTools(b, from, to) ==
    {i \in Rounds(b, from, to) :
        /\ b[i].result = "ok"
        /\ \A j \in Rounds(b, Anchor(b), from) : b[j].sig # b[i].sig}

NewlyVerified(b, from, to) ==
    {i \in CheckpointsIn(b) :
        /\ from < i /\ i < to
        /\ ~ (VerifiedPairs(b[i].data) \subseteq Baseline(b, from))}

evidenceSince(b, from, to) ==
    LET users == UsersBetween(b, from, to)
        tools == NovelTools(b, from, to)
        steps == NewlyVerified(b, from, to)
        latest == Last(tools \cup steps)
    IN  IF \/ ~ AllPaired(b, Anchor(b), from + 1)
           \/ ~ AllCertain(b, from, to)
           \/ users \cup tools \cup steps = {}
        THEN NoProof
        ELSE IF users # {}
        THEN [kind |-> "user-resume", entry |-> b[Last(users)].id]
        ELSE [kind |-> IF latest \in tools THEN "paired-tool" ELSE "verified-step",
              entry |-> b[latest].id]

-----------------------------------------------------------------------------
(* recoveryEpisodeState                                                    *)

Records(b) == {i \in DOMAIN b : Anchor(b) < i /\ b[i].kind = "recovery"}
RecordsBefore(b, i) == {j \in Records(b) : j < i}

InitialProof(b) == [kind |-> "initial", entry |-> b[Anchor(b)].id]

\* The proof of the episode record i belongs to; version 1 has only one episode.
ProofAt(b, i) == IF b[i].data.version = 2 THEN b[i].data.proof ELSE InitialProof(b)

RecordMatches(b, s, i) ==
    LET r == b[i].data IN
    /\ r.anchor = b[Anchor(b)].id
    /\ r.session = s
    /\ r.ordinal \in 1 .. Limit
    /\ r.stage = Stages[r.ordinal]

\* Record i may follow the records before it.
Chained(b, i) ==
    LET r == b[i].data
        before == RecordsBefore(b, i)
        p == Last(before)
    IN  IF before = {}
        THEN r.ordinal = 1 /\ ProofAt(b, i) = InitialProof(b)
        ELSE /\ r.assistant \notin {b[j].data.assistant : j \in before}
             /\ IF r.version = 2 /\ r.ordinal = 1
                THEN /\ r.proof = evidenceSince(b, p, i)
                     /\ r.proof # NoProof
                ELSE /\ r.ordinal = b[p].data.ordinal + 1
                     /\ ProofAt(b, i) = ProofAt(b, p)
             /\ r.version = 1 => \A j \in before : b[j].data.version = 1

LedgerValid(b, s) ==
    /\ \A i \in DOMAIN b : Anchor(b) < i => b[i].kind # "foreign"
    /\ \A i \in Records(b) : RecordMatches(b, s, i) /\ Chained(b, i)
    /\ Records(b) # {} => AllCertain(b, Last(Records(b)), Len(b) + 1)

\* nextRecoveryEpisode: the proof and the attempts spent of the episode that a
\* further attempt would belong to.
nextRecoveryEpisode(b) ==
    LET progress == evidenceSince(b, Last(Records(b)), Len(b) + 1) IN
    IF Records(b) = {}
    THEN [proof |-> InitialProof(b), attempts |-> 0]
    ELSE IF progress # NoProof
    THEN [proof |-> progress, attempts |-> 0]
    ELSE [proof |-> ProofAt(b, Last(Records(b))),
          attempts |-> b[Last(Records(b))].data.ordinal]

-----------------------------------------------------------------------------
(* planIntelligentRecovery.  An event is what OMP reports of a settled     *)
(* turn: its session, the last assistant message, the tool rounds since    *)
(* the last user message and whether a stop hook had continued the turn.   *)

Event ==
    [session : Sessions, assistant : Nat, output : Outputs,
     rounds : SUBSET Entry, hook : BOOLEAN]

Messages(b) == {i \in DOMAIN b : b[i].kind \in {"user", "round", "stop"}}
Tip(b) == b[Last(Messages(b))]

\* latestAssistantEntry compares content, not identity: two empty responses
\* are the same to it, two reasoning-only ones differ in their text.
latestAssistantEntry(b, ev) ==
    /\ Messages(b) # {}
    /\ Tip(b).kind = "stop"
    /\ Tip(b).output = ev.output
    /\ ev.output = "empty" \/ Tip(b).id = ev.assistant

\* Every guard that comes before the duplicate-settlement check.
Settlement(b, s, ev) ==
    /\ Mode # "off"
    /\ ev.session = s
    /\ InScope(b, s)
    /\ Open(PlanOf(b))
    /\ LedgerValid(b, s)
    /\ ev.hook => Records(b) # {}
    /\ ev.output # "answer"
    /\ latestAssistantEntry(b, ev)

AlreadySpent(b) ==
    /\ Records(b) # {}
    /\ b[Last(Records(b))].data.assistant = Tip(b).id

duplicateSettle(b, s, ev) == Settlement(b, s, ev) /\ AlreadySpent(b)

\* Mutation: an uncertain outcome is taken for a known one.
ToolsReported(b, ev) ==
    /\ ev.rounds # {}
    /\ \A r \in ev.rounds :
          /\ r.result # "lost"
          /\ \E i \in Rounds(b, Anchor(b), Len(b) + 1) : b[i] = r

\* actionActivity and journalToolsMatchSettlement
ToolsKnown(b, ev) ==
    /\ ev.rounds # {}
    /\ \A r \in ev.rounds :
          /\ r.result \notin {"lost", "uncertain"}
          /\ \E i \in Rounds(b, Anchor(b), Len(b) + 1) : b[i] = r

Eligible(b, s, ev) ==
    Settlement(b, s, ev) /\ ~ AlreadySpent(b) /\ ToolsKnown(b, ev)

\* The plan's action is "continue".
planIntelligentRecovery(b, s, ev) ==
    /\ Eligible(b, s, ev)
    /\ Mode = "auto"
    /\ nextRecoveryEpisode(b).attempts < Limit
    /\ Stages[nextRecoveryEpisode(b).attempts + 1] = "model" => AllowModelFallback

\* Mutation: a new proof does not start the count again.
AttemptKeepsCounting(b, s) ==
    LET episode == nextRecoveryEpisode(b) IN
    [version |-> 2, session |-> s, anchor |-> b[Anchor(b)].id,
     ordinal |-> IF Records(b) = {} THEN 1 ELSE 2, stage |-> Stages[episode.attempts + 1],
     assistant |-> Tip(b).id, proof |-> episode.proof]

\* Its record.
AttemptRecord(b, s) ==
    LET episode == nextRecoveryEpisode(b) IN
    [version |-> 2, session |-> s, anchor |-> b[Anchor(b)].id,
     ordinal |-> episode.attempts + 1, stage |-> Stages[episode.attempts + 1],
     assistant |-> Tip(b).id, proof |-> episode.proof]

=============================================================================
