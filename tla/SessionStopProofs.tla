-------------------------- MODULE SessionStopProofs --------------------------
(***************************************************************************)
(* Proofs about SessionStop, for any sessions, plans, stages, handlers,    *)
(* outputs and bounds.                                                     *)
(*                                                                         *)
(* What makes the ledger of attempts trustworthy is a fact about every     *)
(* attempt at the moment it was written (Written), which no later entry of *)
(* the journal can take back: the branch up to the attempt is a prefix of  *)
(* every branch that holds it.  The invariant asks it of both places the   *)
(* user can be at, since a return makes the other place the branch.        *)
(***************************************************************************)
EXTENDS SessionStop, CheckpointRecordProofs, SequenceTheorems

LastUserOf(b) == Last({i \in DOMAIN b : b[i].kind = "user"})

IdsIncrease(b, n) ==
    /\ \A i \in DOMAIN b : b[i].id \in 1 .. n
    /\ \A i, j \in DOMAIN b : i < j => b[i].id < b[j].id

\* The last entry of c is an attempt as the handler writes one.
Written(c) ==
    LET r == c[Len(c)].data IN
    /\ Anchors(c) # {}
    /\ Chained(c, Len(c)) /\ r.version = 2
    /\ Messages(c) # {} /\ r.assistant = Tip(c).id
    /\ AllCertain(c, LastUserOf(c), Len(c))
    /\ \A j \in DOMAIN c : Anchor(c) < j => c[j].kind # "foreign"

Attempts(b) == \A i \in DOMAIN b : b[i].kind = "recovery" => Written(SubSeq(b, 1, i))

\* The response of a settlement is the last one of the branch, the rounds it
\* ended are reported, and they came before it.
Ends(b, ev) ==
    /\ \E k \in DOMAIN b :
          /\ b[k].kind = "stop"
          /\ b[k].id = ev.assistant
          /\ \A i \in DOMAIN b : i > k => b[i].kind \notin {"user", "stop"}
          /\ \A i \in Rounds(b, LastUserOf(b), k) : b[i] \in ev.rounds
    /\ \A r \in ev.rounds : r.id < ev.assistant

\* The two places.
JournalsInv ==
    /\ session \in Sessions
    /\ branch \in Seq(Entry)
    /\ away \in [session : Sessions, branch : Seq(Entry)]
    /\ lastId \in Nat
    /\ IdsIncrease(branch, lastId) /\ IdsIncrease(away.branch, lastId)
    /\ Attempts(branch) /\ Attempts(away.branch)

StopInv ==
    /\ TypeOK
    /\ JournalsInv
    /\ event # NoEvent => Ends(branch, event)

-----------------------------------------------------------------------------
(* Lemmas about branches with a common prefix.                             *)

Agree(b, c, m) ==
    /\ m <= Len(b) /\ m <= Len(c)
    /\ \A i \in 1 .. m : b[i] = c[i]

\* A set of positions of a branch: its last one is one of them.
LEMMA LastPosition ==
    ASSUME NEW b \in Seq(Entry), NEW S, S \subseteq DOMAIN b
    PROVE  /\ Last(S) \in 0 .. Len(b)
           /\ S # {} => Last(S) \in S /\ Last(S) \in 1 .. Len(b)
           /\ \A j \in S : j <= Last(S)
<1>1. Len(b) \in Nat /\ DOMAIN b = 1 .. Len(b)
  OBVIOUS
<1>2. CASE S = {}
  BY <1>1, <1>2 DEF Last
<1>3. CASE S # {}
  <2>1. S \in SUBSET (1 .. Len(b))
    BY <1>1
  <2>2. Last(S) \in S /\ \A j \in S : j <= Last(S)
    BY <1>1, <1>3, <2>1, LastIsGreatest, Zenon
  <2>3. QED
    BY <1>1, <2>1, <2>2
<1>4. QED
  BY <1>2, <1>3

\* The anchor of a branch is its last plan start, or 0.
LEMMA AnchorIs ==
    ASSUME NEW b \in Seq(Entry)
    PROVE  /\ Anchor(b) \in 0 .. Len(b)
           /\ Anchors(b) # {} => Anchor(b) \in Anchors(b)
           /\ Anchors(b) # {} <=> Anchor(b) >= 1
           /\ \A j \in Anchors(b) : j <= Anchor(b)
<1>1. Anchors(b) \subseteq DOMAIN b
  BY DEF Anchors, CheckpointsIn
<1>2. /\ Last(Anchors(b)) \in 0 .. Len(b)
      /\ Anchors(b) # {} => Last(Anchors(b)) \in Anchors(b) /\ Last(Anchors(b)) \in 1 .. Len(b)
      /\ \A j \in Anchors(b) : j <= Last(Anchors(b))
  BY <1>1, LastPosition, Zenon
<1>3. Anchors(b) = {} => Last(Anchors(b)) = 0
  BY DEF Last
<1>4. QED
  BY <1>2, <1>3 DEF Anchor

\* Branches that agree up to m have the same plan start if neither has one
\* after m.
LEMMA SameAnchor ==
    ASSUME NEW b \in Seq(Entry), NEW c \in Seq(Entry), NEW m \in Nat,
           Agree(b, c, m), Anchor(b) <= m, Anchor(c) <= m
    PROVE  Anchors(b) = Anchors(c) /\ Anchor(b) = Anchor(c)
<1>1. \A i \in 1 .. m : i \in DOMAIN b /\ i \in DOMAIN c /\ b[i] = c[i]
  BY DEF Agree
<1>2. \A i \in 1 .. m : i \in Anchors(b) <=> i \in Anchors(c)
  BY <1>1 DEF Anchors, CheckpointsIn
<1>3. Anchors(b) \subseteq 1 .. m /\ Anchors(c) \subseteq 1 .. m
  <2>1. Anchors(b) \subseteq 1 .. Len(b) /\ Anchors(c) \subseteq 1 .. Len(c)
    BY DEF Anchors, CheckpointsIn
  <2>2. QED
    BY <2>1, AnchorIs
<1>4. Anchors(b) = Anchors(c)
  BY <1>2, <1>3, Zenon
<1>5. QED
  BY <1>4 DEF Anchor

\* The rounds, users and attempts up to m are the same.
LEMMA SamePrefix ==
    ASSUME NEW b \in Seq(Entry), NEW c \in Seq(Entry), NEW m \in Nat,
           Agree(b, c, m), NEW f \in Nat, NEW t \in 0 .. m + 1
    PROVE  /\ Rounds(b, f, t) = Rounds(c, f, t)
           /\ Rounds(b, f, t) \subseteq 1 .. m
           /\ UsersBetween(b, f, t) = UsersBetween(c, f, t)
           /\ UsersBetween(b, f, t) \subseteq 1 .. m
           /\ AllPaired(b, f, t) <=> AllPaired(c, f, t)
           /\ AllCertain(b, f, t) <=> AllCertain(c, f, t)
<1>1. \A i \in 1 .. m : i \in DOMAIN b /\ i \in DOMAIN c /\ b[i] = c[i]
  BY DEF Agree
<1>2. Rounds(b, f, t) = Rounds(c, f, t) /\ Rounds(b, f, t) \subseteq 1 .. m
  BY <1>1 DEF Rounds
<1>3. UsersBetween(b, f, t) = UsersBetween(c, f, t) /\ UsersBetween(b, f, t) \subseteq 1 .. m
  BY <1>1 DEF UsersBetween
<1>4. \A i \in Rounds(b, f, t) : b[i] = c[i]
  BY <1>1, <1>2
<1>5. QED
  BY <1>2, <1>3, <1>4 DEF AllPaired, AllCertain

\* So is what counts as progress.
LEMMA SameEvidence ==
    ASSUME NEW b \in Seq(Entry), NEW c \in Seq(Entry), NEW m \in Nat,
           Agree(b, c, m), Anchor(b) <= m, Anchor(c) <= m,
           NEW f \in 1 .. m, NEW t \in 1 .. m + 1
    PROVE  evidenceSince(b, f, t) = evidenceSince(c, f, t)
<1> DEFINE users == UsersBetween(b, f, t)
           tools == NovelTools(b, f, t)
           steps == NewlyVerified(b, f, t)
<1>1. \A i \in 1 .. m : i \in DOMAIN b /\ i \in DOMAIN c /\ b[i] = c[i]
  BY DEF Agree
<1>2. Anchor(b) = Anchor(c) /\ Anchor(b) \in Nat
  BY SameAnchor, AnchorIs
<1>3. /\ AllPaired(b, Anchor(b), f + 1) <=> AllPaired(c, Anchor(c), f + 1)
      /\ AllCertain(b, f, t) <=> AllCertain(c, f, t)
  <2>1. f \in Nat /\ f + 1 \in 0 .. m + 1 /\ t \in 0 .. m + 1
    OBVIOUS
  <2>2. QED
    BY <1>2, <2>1, SamePrefix
<1>4. users = UsersBetween(c, f, t) /\ users \subseteq 1 .. m
  BY SamePrefix
<1>5. tools = NovelTools(c, f, t) /\ tools \subseteq 1 .. m
  <2>1. /\ Rounds(b, f, t) = Rounds(c, f, t) /\ Rounds(b, f, t) \subseteq 1 .. m
        /\ Rounds(b, Anchor(b), f) = Rounds(c, Anchor(c), f)
        /\ Rounds(b, Anchor(b), f) \subseteq 1 .. m
    BY <1>2, SamePrefix
  <2>2. \A i \in Rounds(b, f, t) \cup Rounds(b, Anchor(b), f) : b[i] = c[i]
    BY <1>1, <2>1
  <2>3. QED
    BY <2>1, <2>2 DEF NovelTools
<1>6. steps = NewlyVerified(c, f, t) /\ steps \subseteq 1 .. m
  <2>1. {j \in CheckpointsIn(b) : Anchor(b) <= j /\ j <= f}
          = {j \in CheckpointsIn(c) : Anchor(c) <= j /\ j <= f}
    BY <1>1, <1>2 DEF CheckpointsIn
  <2>2. \A j \in CheckpointsIn(b) : j <= f => j \in 1 .. m
    BY DEF CheckpointsIn
  <2>3. Baseline(b, f) = Baseline(c, f)
    BY <1>1, <2>1, <2>2 DEF Baseline
  <2>4. QED
    BY <1>1, <2>3 DEF NewlyVerified, CheckpointsIn
<1> HIDE DEF users, tools, steps
<1>7. users # {} => b[Last(users)] = c[Last(users)]
  <2>1. users # {} => Last(users) \in users
    BY <1>4, LastIsGreatest, Zenon
  <2>2. QED
    BY <1>1, <1>4, <2>1
<1>8. tools \cup steps # {} => b[Last(tools \cup steps)] = c[Last(tools \cup steps)]
  <2>1. tools \cup steps \in SUBSET (1 .. m)
    BY <1>5, <1>6
  <2>2. tools \cup steps # {} => Last(tools \cup steps) \in 1 .. m
    BY <2>1, LastIsGreatest, Zenon
  <2>3. QED
    BY <1>1, <2>2
<1>9. /\ evidenceSince(b, f, t)
           = IF \/ ~ AllPaired(b, Anchor(b), f + 1)
                \/ ~ AllCertain(b, f, t)
                \/ users \cup tools \cup steps = {}
             THEN NoProof
             ELSE IF users # {}
             THEN [kind |-> "user-resume", entry |-> b[Last(users)].id]
             ELSE [kind |-> IF Last(tools \cup steps) \in tools THEN "paired-tool"
                            ELSE "verified-step",
                   entry |-> b[Last(tools \cup steps)].id]
      /\ evidenceSince(c, f, t)
           = IF \/ ~ AllPaired(c, Anchor(c), f + 1)
                \/ ~ AllCertain(c, f, t)
                \/ users \cup tools \cup steps = {}
             THEN NoProof
             ELSE IF users # {}
             THEN [kind |-> "user-resume", entry |-> c[Last(users)].id]
             ELSE [kind |-> IF Last(tools \cup steps) \in tools THEN "paired-tool"
                            ELSE "verified-step",
                   entry |-> c[Last(tools \cup steps)].id]
  BY <1>4, <1>5, <1>6 DEF evidenceSince, users, tools, steps
<1>10. CASE users \cup tools \cup steps = {}
  BY <1>9, <1>10
<1>11. CASE users # {}
  BY <1>3, <1>7, <1>9, <1>11
<1>12. CASE users = {} /\ tools \cup steps # {}
  <2>1. b[Last(tools \cup steps)] = c[Last(tools \cup steps)]
    BY <1>8, <1>12
  <2>2. CASE AllPaired(b, Anchor(b), f + 1) /\ AllCertain(b, f, t)
    BY <1>3, <1>9, <1>12, <2>1, <2>2
  <2>3. CASE ~ AllPaired(b, Anchor(b), f + 1) \/ ~ AllCertain(b, f, t)
    BY <1>3, <1>9, <2>3
  <2>4. QED
    BY <2>2, <2>3
<1>13. QED
  BY <1>10, <1>11, <1>12

\* And so are the attempts.
LEMMA SameRecords ==
    ASSUME NEW b \in Seq(Entry), NEW c \in Seq(Entry), NEW m \in Nat,
           Agree(b, c, m), Anchor(b) <= m, Anchor(c) <= m,
           NEW i \in 1 .. m + 1
    PROVE  /\ RecordsBefore(b, i) = RecordsBefore(c, i)
           /\ RecordsBefore(b, i) \subseteq 1 .. m
           /\ RecordsBefore(b, i) # {} =>
                Last(RecordsBefore(b, i)) \in RecordsBefore(b, i)
<1>1. \A j \in 1 .. m : j \in DOMAIN b /\ j \in DOMAIN c /\ b[j] = c[j]
  BY DEF Agree
<1>2. Anchor(b) = Anchor(c) /\ Anchor(b) \in Nat
  BY SameAnchor, AnchorIs
<1>3. /\ RecordsBefore(b, i) = RecordsBefore(c, i)
      /\ RecordsBefore(b, i) \subseteq 1 .. m
  BY <1>1, <1>2 DEF RecordsBefore, Records
<1>4. QED
  BY <1>3, LastIsGreatest, Zenon

\* What makes an attempt continue the ledger is settled when it is written.
LEMMA SameChained ==
    ASSUME NEW b \in Seq(Entry), NEW c \in Seq(Entry), NEW m \in Nat,
           Agree(b, c, m), Anchors(b) # {}, Anchor(b) <= m, Anchor(c) <= m,
           NEW i \in 1 .. m
    PROVE  Chained(b, i) <=> Chained(c, i)
<1> DEFINE before == RecordsBefore(b, i)
           p == Last(before)
<1>1. \A j \in 1 .. m : b[j] = c[j]
  BY DEF Agree
<1>2. before = RecordsBefore(c, i) /\ before \subseteq 1 .. m /\ (before # {} => p \in before)
  BY SameRecords
<1>3. InitialProof(b) = InitialProof(c)
  <2>1. Anchor(b) = Anchor(c) /\ Anchor(b) \in 1 .. m
    BY SameAnchor, AnchorIs
  <2>2. QED
    BY <1>1, <2>1 DEF InitialProof
<1>4. \A j \in 1 .. m : ProofAt(b, j) = ProofAt(c, j)
  BY <1>1, <1>3 DEF ProofAt
<1>5. before # {} => evidenceSince(b, p, i) = evidenceSince(c, p, i)
  <2>1. before # {} => p \in 1 .. m /\ i \in 1 .. m + 1
    BY <1>2
  <2>2. QED
    BY <2>1, SameEvidence, Zenon
<1>6. {b[j].data.assistant : j \in before} = {c[j].data.assistant : j \in before}
  BY <1>1, <1>2
<1>7. \A j \in before : b[j].data.version = c[j].data.version
  BY <1>1, <1>2
<1>8. p = Last(RecordsBefore(c, i))
  BY <1>2
<1> HIDE DEF before, p
<1>9. CASE before = {}
  BY <1>1, <1>2, <1>3, <1>4, <1>9 DEF Chained, before
<1>10. CASE before # {}
  <2>1. p \in 1 .. m /\ b[p] = c[p] /\ b[i] = c[i] /\ ProofAt(b, i) = ProofAt(c, i)
          /\ ProofAt(b, p) = ProofAt(c, p)
    BY <1>1, <1>2, <1>4, <1>10
  <2>2. Chained(b, i) <=>
          /\ b[i].data.assistant \notin {b[j].data.assistant : j \in before}
          /\ IF b[i].data.version = 2 /\ b[i].data.ordinal = 1
             THEN /\ b[i].data.proof = evidenceSince(b, p, i)
                  /\ b[i].data.proof # NoProof
             ELSE /\ b[i].data.ordinal = b[p].data.ordinal + 1
                  /\ ProofAt(b, i) = ProofAt(b, p)
          /\ b[i].data.version = 1 => \A j \in before : b[j].data.version = 1
    BY <1>10, Zenon DEF Chained, before, p
  <2>3. Chained(c, i) <=>
          /\ c[i].data.assistant \notin {c[j].data.assistant : j \in before}
          /\ IF c[i].data.version = 2 /\ c[i].data.ordinal = 1
             THEN /\ c[i].data.proof = evidenceSince(c, p, i)
                  /\ c[i].data.proof # NoProof
             ELSE /\ c[i].data.ordinal = c[p].data.ordinal + 1
                  /\ ProofAt(c, i) = ProofAt(c, p)
          /\ c[i].data.version = 1 => \A j \in before : c[j].data.version = 1
    BY <1>2, <1>8, <1>10, Zenon DEF Chained
  <2>4. QED
    BY <1>5, <1>6, <1>7, <1>10, <2>1, <2>2, <2>3
<1>11. QED
  BY <1>9, <1>10

\* The last message and the last user message of two branches, if neither has
\* one after m.
LEMMA SameTip ==
    ASSUME NEW b \in Seq(Entry), NEW c \in Seq(Entry), NEW m \in Nat,
           Agree(b, c, m),
           \A i \in Messages(b) \cup Messages(c) : i <= m
    PROVE  /\ Messages(b) = Messages(c)
           /\ Messages(b) # {} => Last(Messages(b)) \in 1 .. m /\ Tip(b) = Tip(c)
           /\ LastUserOf(b) = LastUserOf(c) /\ LastUserOf(b) \in 0 .. m
<1>1. \A i \in 1 .. m : i \in DOMAIN b /\ i \in DOMAIN c /\ b[i] = c[i]
  BY DEF Agree
<1>2. \A i \in 1 .. m : i \in Messages(b) <=> i \in Messages(c)
  BY <1>1 DEF Messages
<1>3. Messages(b) \subseteq 1 .. m /\ Messages(c) \subseteq 1 .. m
  BY DEF Messages
<1>4. Messages(b) = Messages(c)
  BY <1>2, <1>3, Zenon
<1>5. Messages(b) # {} => Last(Messages(b)) \in 1 .. m
  BY <1>3, LastIsGreatest, Zenon
<1>6. Messages(b) # {} => Tip(b) = Tip(c)
  BY <1>1, <1>4, <1>5 DEF Tip
<1> DEFINE ub == {i \in DOMAIN b : b[i].kind = "user"}
           uc == {i \in DOMAIN c : c[i].kind = "user"}
<1>7. ub \subseteq Messages(b) /\ uc \subseteq Messages(c)
  BY DEF Messages
<1>8. ub = uc /\ ub \subseteq 1 .. m
  BY <1>1, <1>3, <1>7
<1>9. LastUserOf(b) = Last(ub) /\ LastUserOf(c) = Last(uc)
  BY Zenon DEF LastUserOf
<1> HIDE DEF ub, uc
<1>10. Last(ub) \in 0 .. m
  <2>1. ub # {} => Last(ub) \in 1 .. m
    BY <1>8, LastIsGreatest, Zenon
  <2>2. ub = {} => Last(ub) = 0
    BY DEF Last
  <2>3. QED
    BY <2>1, <2>2
<1>11. QED
  BY <1>4, <1>5, <1>6, <1>8, <1>9, <1>10

-----------------------------------------------------------------------------
(* Lemmas about how a branch grows and shrinks.                            *)

\* A prefix of a prefix, and what an entry appended leaves of the prefixes.
LEMMA Prefixes ==
    ASSUME NEW b \in Seq(Entry), NEW n \in 0 .. Len(b)
    PROVE  /\ SubSeq(b, 1, n) \in Seq(Entry)
           /\ Len(SubSeq(b, 1, n)) = n
           /\ Agree(b, SubSeq(b, 1, n), n)
           /\ \A i \in 1 .. n : SubSeq(SubSeq(b, 1, n), 1, i) = SubSeq(b, 1, i)
<1>1. ASSUME NEW k \in 0 .. Len(b)
      PROVE  /\ SubSeq(b, 1, k) \in Seq(Entry)
             /\ Len(SubSeq(b, 1, k)) = k
             /\ \A j \in 1 .. k : SubSeq(b, 1, k)[j] = b[j]
  BY SubSeqProperties
<1> DEFINE c == SubSeq(b, 1, n)
<1>2. c \in Seq(Entry) /\ Len(c) = n /\ \A j \in 1 .. n : c[j] = b[j]
  BY <1>1
<1> HIDE DEF c
<1>3. ASSUME NEW i \in 1 .. n
      PROVE  SubSeq(c, 1, i) = SubSeq(b, 1, i)
  <2>1. /\ SubSeq(c, 1, i) \in Seq(Entry) /\ Len(SubSeq(c, 1, i)) = i
        /\ \A j \in 1 .. i : SubSeq(c, 1, i)[j] = c[j]
    BY <1>2, SubSeqProperties
  <2>2. /\ SubSeq(b, 1, i) \in Seq(Entry) /\ Len(SubSeq(b, 1, i)) = i
        /\ \A j \in 1 .. i : SubSeq(b, 1, i)[j] = b[j]
    BY <1>1
  <2>3. \A j \in 1 .. i : SubSeq(c, 1, i)[j] = SubSeq(b, 1, i)[j]
    BY <1>2, <2>1, <2>2
  <2> HIDE DEF c
  <2>4. QED
    BY <2>1, <2>2, <2>3, SeqEqual
<1>4. QED
  BY <1>2, <1>3 DEF Agree, c

LEMMA Appended ==
    ASSUME NEW b \in Seq(Entry), NEW e \in Entry
    PROVE  LET c == Append(b, e) IN
           /\ c \in Seq(Entry) /\ Len(c) = Len(b) + 1 /\ c[Len(b) + 1] = e
           /\ DOMAIN c = DOMAIN b \cup {Len(b) + 1}
           /\ Agree(b, c, Len(b))
           /\ SubSeq(c, 1, Len(b) + 1) = c
           /\ \A i \in 1 .. Len(b) : c[i] = b[i] /\ SubSeq(c, 1, i) = SubSeq(b, 1, i)
<1> DEFINE c == Append(b, e)
<1>1. /\ c \in Seq(Entry) /\ Len(c) = Len(b) + 1 /\ c[Len(b) + 1] = e
      /\ \A i \in 1 .. Len(b) : c[i] = b[i]
  BY AppendProperties
<1> HIDE DEF c
<1>2. SubSeq(c, 1, Len(b) + 1) = c
  BY <1>1, SubSeqFull
<1>3. ASSUME NEW i \in 1 .. Len(b)
      PROVE  SubSeq(c, 1, i) = SubSeq(b, 1, i)
  <2>1. /\ SubSeq(c, 1, i) \in Seq(Entry) /\ Len(SubSeq(c, 1, i)) = i
        /\ \A j \in 1 .. i : SubSeq(c, 1, i)[j] = c[j]
    BY <1>1, SubSeqProperties
  <2>2. /\ SubSeq(b, 1, i) \in Seq(Entry) /\ Len(SubSeq(b, 1, i)) = i
        /\ \A j \in 1 .. i : SubSeq(b, 1, i)[j] = b[j]
    BY SubSeqProperties
  <2>3. \A j \in 1 .. i : SubSeq(c, 1, i)[j] = SubSeq(b, 1, i)[j]
    BY <1>1, <2>1, <2>2
  <2>4. QED
    BY <2>1, <2>2, <2>3, SeqEqual
<1>4. DOMAIN c = DOMAIN b \cup {Len(b) + 1}
  BY <1>1
<1>5. QED
  BY <1>1, <1>2, <1>3, <1>4 DEF Agree, c

-----------------------------------------------------------------------------
(* What an attempt says long after it was written.                         *)

LEMMA AttemptFacts ==
    ASSUME NEW b \in Seq(Entry), Attempts(b),
           NEW i \in DOMAIN b, b[i].kind = "recovery"
    PROVE  /\ \E k \in Messages(b) :
                /\ k < i
                /\ b[i].data.assistant = b[k].id
                /\ \A j \in Messages(b) : j < i => j <= k
           /\ b[i].data.version = 2
           /\ AllCertain(b, LastUserOf(b), i)
           /\ i > Anchor(b) => Anchors(b) # {} /\ Chained(b, i)
           /\ \A j \in DOMAIN b : Anchor(b) < j /\ j < i => b[j].kind # "foreign"
<1> DEFINE c == SubSeq(b, 1, i)
<1>0. i \in 1 .. Len(b) /\ i \in 0 .. Len(b) /\ Len(b) \in Nat
  OBVIOUS
<1>1. c \in Seq(Entry) /\ Len(c) = i /\ Agree(b, c, i)
  BY <1>0, Prefixes
<1>2. Written(c)
  BY DEF Attempts
<1> HIDE DEF c
<1>3. /\ \A j \in 1 .. i : j \in DOMAIN b /\ j \in DOMAIN c /\ b[j] = c[j]
      /\ DOMAIN c = 1 .. i
  BY <1>0, <1>1 DEF Agree
<1>4. \E k \in Messages(b) :
        /\ k < i
        /\ b[i].data.assistant = b[k].id
        /\ \A j \in Messages(b) : j < i => j <= k
  <2> DEFINE k == Last(Messages(c))
  <2>1. Messages(c) # {} /\ c[i].data.assistant = c[k].id
    BY <1>1, <1>2 DEF Written, Tip
  <2>2. Messages(c) \subseteq DOMAIN c
    BY DEF Messages
  <2>3. k \in Messages(c) /\ \A j \in Messages(c) : j <= k
    BY <1>1, <2>1, <2>2, LastPosition, Zenon
  <2> HIDE DEF k
  <2>4. k \in 1 .. i /\ k \in Messages(b) /\ k # i
    BY <1>3, <2>3 DEF Messages
  <2>5. \A j \in Messages(b) : j < i => j \in Messages(c)
    BY <1>0, <1>3 DEF Messages
  <2>6. b[i].data.assistant = b[k].id /\ k < i
    BY <1>0, <1>3, <2>1, <2>4
  <2>7. \A j \in Messages(b) : j < i => j <= k
    BY <2>3, <2>5
  <2>8. QED
    BY <2>4, <2>6, <2>7
<1>5. b[i].data.version = 2
  BY <1>0, <1>1, <1>2, <1>3 DEF Written
<1>6. AllCertain(b, LastUserOf(b), i)
  <2> DEFINE ub == {j \in DOMAIN b : b[j].kind = "user"}
             uc == {j \in DOMAIN c : c[j].kind = "user"}
  <2>1. AllCertain(c, Last(uc), i)
    BY <1>1, <1>2 DEF Written, LastUserOf
  <2>2. uc \subseteq ub
    BY <1>3
  <2>3. /\ Last(uc) \in Nat /\ Last(ub) \in Nat
        /\ uc # {} => Last(uc) \in uc
        /\ uc = {} => Last(uc) = 0
        /\ \A j \in ub : j <= Last(ub)
    <3> ub \subseteq DOMAIN b /\ uc \subseteq DOMAIN c
      OBVIOUS
    <3> HIDE DEF ub, uc
    <3>1. /\ Last(ub) \in 0 .. Len(b) /\ \A j \in ub : j <= Last(ub)
          /\ Last(uc) \in 0 .. Len(c) /\ (uc # {} => Last(uc) \in uc)
      BY <1>1, LastPosition, Zenon
    <3>2. uc = {} => Last(uc) = 0
      BY DEF Last
    <3>3. QED
      BY <1>0, <1>1, <3>1, <3>2
  <2> HIDE DEF ub, uc
  <2>4. Last(uc) <= Last(ub)
    BY <2>2, <2>3
  <2>5. Rounds(b, Last(ub), i) \subseteq Rounds(c, Last(uc), i)
    BY <1>0, <1>3, <2>3, <2>4 DEF Rounds
  <2>6. \A j \in Rounds(b, Last(ub), i) : b[j] = c[j]
    BY <1>0, <1>3, <2>5 DEF Rounds
  <2>7. AllCertain(b, Last(ub), i)
    BY <2>1, <2>5, <2>6 DEF AllCertain
  <2>8. QED
    BY <2>7 DEF LastUserOf, ub
<1>7. ASSUME i > Anchor(b)
      PROVE  Anchors(b) # {} /\ Chained(b, i)
  <2>1. Anchor(b) <= i /\ Anchor(c) <= i /\ i \in Nat
    BY <1>0, <1>1, <1>7, AnchorIs
  <2>2. Anchors(b) = Anchors(c)
    BY <1>1, <2>1, SameAnchor
  <2>3. Anchors(c) # {} /\ Chained(c, i)
    BY <1>1, <1>2 DEF Written
  <2>4. i \in 1 .. i
    BY <1>0
  <2>5. QED
    BY <1>1, <2>1, <2>2, <2>3, <2>4, SameChained
<1>8. ASSUME NEW j \in DOMAIN b, Anchor(b) < j, j < i
      PROVE  b[j].kind # "foreign"
  <2>1. Anchor(b) <= i /\ Anchor(c) <= i /\ i \in Nat /\ j \in 1 .. i
    BY <1>0, <1>1, <1>8, AnchorIs
  <2>2. Anchor(c) = Anchor(b)
    BY <1>1, <2>1, SameAnchor
  <2>3. QED
    BY <1>2, <1>3, <1>8, <2>1, <2>2 DEF Written
<1>9. QED
  BY <1>4, <1>5, <1>6, <1>7, <1>8

-----------------------------------------------------------------------------
(* The budget of attempts.                                                 *)

\* The evidence a new episode starts with is progress.
LEMMA EvidenceIsProgress ==
    ASSUME NEW b \in Seq(Entry), NEW p \in Nat, NEW q \in Nat,
           Anchor(b) < p, b[p].kind = "recovery", Anchors(b) # {},
           evidenceSince(b, p, q) # NoProof
    PROVE  Progress(b, p, q)
<1>1. UsersBetween(b, p, q) \cup NovelTools(b, p, q) \cup NewlyVerified(b, p, q) # {}
  BY DEF evidenceSince
<1>2. Anchor(b) \in Nat /\ Anchor(b) \in DOMAIN b /\ b[Anchor(b)].kind = "checkpoint"
  BY AnchorIs DEF Anchors, CheckpointsIn
<1>3. PICK k \in DOMAIN b :
        /\ p < k /\ k < q
        /\ k \in UsersBetween(b, p, q) \cup NovelTools(b, p, q) \cup NewlyVerified(b, p, q)
  BY <1>1 DEF UsersBetween, NovelTools, Rounds, NewlyVerified, CheckpointsIn
<1>4. k \in p + 1 .. q - 1 /\ DOMAIN b = 1 .. Len(b) /\ Len(b) \in Nat
  BY <1>3
<1>5. CASE k \in UsersBetween(b, p, q)
  BY <1>4, <1>5 DEF UsersBetween, Progress
<1>6. CASE k \in NovelTools(b, p, q)
  <2>1. /\ b[k].kind = "round" /\ b[k].result = "ok"
        /\ \A j \in Rounds(b, Anchor(b), p) : b[j].sig # b[k].sig
    BY <1>6 DEF NovelTools, Rounds
  <2>2. \A l \in Anchor(b) .. p : b[l].kind = "round" => l \in Rounds(b, Anchor(b), p)
    BY <1>2, <1>3, <1>4 DEF Rounds
  <2>3. QED
    BY <1>4, <2>1, <2>2 DEF Progress
<1>7. CASE k \in NewlyVerified(b, p, q)
  <2>1. /\ b[k].kind = "checkpoint"
        /\ ~ (VerifiedPairs(b[k].data) \subseteq Baseline(b, p))
    BY <1>7 DEF NewlyVerified, CheckpointsIn
  <2>2. PICK v \in VerifiedPairs(b[k].data) : v \notin Baseline(b, p)
    BY <2>1
  <2>3. \A l \in Anchor(b) .. p : b[l].kind = "checkpoint" => v \notin VerifiedPairs(b[l].data)
    BY <1>2, <1>3, <1>4, <2>2 DEF Baseline, CheckpointsIn
  <2>4. QED
    BY <1>4, <2>1, <2>2, <2>3 DEF Progress
<1>8. QED
  BY <1>3, <1>5, <1>6, <1>7

\* Progress between two attempts is progress between attempts around them.
LEMMA ProgressWidens ==
    ASSUME NEW b, NEW i \in Nat, NEW p \in Nat, NEW q \in Nat, NEW j \in Nat,
           i <= p, q <= j, Anchor(b) \in Nat, Progress(b, p, q)
    PROVE  Progress(b, i, j)
<1>1. PICK k \in p + 1 .. q - 1 :
        \/ b[k].kind = "user"
        \/ /\ b[k].kind = "round"
           /\ b[k].result = "ok"
           /\ \A l \in Anchor(b) .. p : b[l].kind = "round" => b[l].sig # b[k].sig
        \/ /\ b[k].kind = "checkpoint"
           /\ \E v \in VerifiedPairs(b[k].data) :
                \A l \in Anchor(b) .. p :
                    b[l].kind = "checkpoint" => v \notin VerifiedPairs(b[l].data)
  BY DEF Progress
<1>2. k \in i + 1 .. j - 1 /\ Anchor(b) .. i \subseteq Anchor(b) .. p
  BY <1>1
<1>3. QED
  BY <1>1, <1>2 DEF Progress

\* An attempt either has the next ordinal or follows upon progress.
LEMMA NextOrdinal ==
    ASSUME NEW b \in Seq(Entry), Attempts(b),
           NEW q \in Records(b), RecordsBefore(b, q) # {}
    PROVE  LET p == Last(RecordsBefore(b, q)) IN
           /\ p \in Records(b) /\ p < q
           /\ \A k \in Records(b) : k < q => k <= p
           /\ \/ b[q].data.ordinal = b[p].data.ordinal + 1
              \/ Progress(b, p, q)
<1> DEFINE p == Last(RecordsBefore(b, q))
<1>1. RecordsBefore(b, q) \subseteq DOMAIN b
  BY DEF RecordsBefore, Records
<1>2. p \in RecordsBefore(b, q) /\ \A k \in RecordsBefore(b, q) : k <= p
  BY <1>1, LastPosition, Zenon
<1> HIDE DEF p
<1>3. /\ p \in Records(b) /\ p < q
      /\ \A k \in Records(b) : k < q => k <= p
  BY <1>2 DEF RecordsBefore
<1>4. /\ q \in DOMAIN b /\ b[q].kind = "recovery" /\ q > Anchor(b)
      /\ p \in DOMAIN b /\ b[p].kind = "recovery" /\ Anchor(b) < p
  <2>1. /\ q \in DOMAIN b /\ b[q].kind = "recovery" /\ Anchor(b) < q
        /\ p \in DOMAIN b /\ b[p].kind = "recovery" /\ Anchor(b) < p
    BY <1>3 DEF Records
  <2>2. QED
    BY <2>1, AnchorIs
<1>5. Anchors(b) # {} /\ Chained(b, q) /\ b[q].data.version = 2
  BY <1>4, AttemptFacts
<1>6. CASE b[q].data.ordinal = 1
  <2>1. evidenceSince(b, p, q) # NoProof
    BY <1>5, <1>6 DEF Chained, p
  <2>2. p \in Nat /\ q \in Nat
    BY <1>4
  <2>3. QED
    BY <1>3, <1>4, <1>5, <2>1, <2>2, EvidenceIsProgress DEF p
<1>7. CASE b[q].data.ordinal # 1
  <2>1. b[q].data.ordinal = b[p].data.ordinal + 1
    BY <1>5, <1>7 DEF Chained, p
  <2>2. QED
    BY <1>3, <2>1 DEF p
<1>8. QED
  BY <1>6, <1>7

\* An attempt of a branch has a record of the ledger's type.
LEMMA AttemptType ==
    ASSUME NEW b \in Seq(Entry), NEW i \in DOMAIN b, b[i].kind = "recovery"
    PROVE  /\ b[i].data \in RecoveryRecord
           /\ Limit \in Nat
           /\ b[i].data.ordinal \in 1 .. Limit
<1>1. b[i] \in Entry
  OBVIOUS
<1>2. b[i].data \in RecoveryRecord
  BY <1>1 DEF Entry
<1>3. QED
  BY <1>2, RecoveryAssumption DEF RecoveryRecord, Limit

\* Without progress the ordinals count the attempts, so there are no more than
\* Limit of them.
LEMMA BudgetHolds ==
    ASSUME NEW b \in Seq(Entry), Attempts(b),
           NEW i \in Records(b), NEW j \in Records(b), i < j,
           Cardinality({k \in Records(b) : i <= k /\ k < j}) = Limit
    PROVE  Progress(b, i, j)
<1> DEFINE C(q) == {k \in Records(b) : i <= k /\ k < q}
           ord(q) == b[q].data.ordinal
           Off == {q \in Records(b) : i <= q /\ q <= j /\ Cardinality(C(q)) # ord(q) - ord(i)}
<1> SUFFICES ASSUME ~ Progress(b, i, j)
             PROVE  FALSE
  OBVIOUS
<1>1. /\ Records(b) \subseteq DOMAIN b /\ DOMAIN b = 1 .. Len(b) /\ Len(b) \in Nat
      /\ Anchor(b) \in Nat
      /\ Limit \in Nat
      /\ \A q \in Records(b) : ord(q) \in 1 .. Limit
  <2>1. \A q \in Records(b) : q \in DOMAIN b /\ b[q].kind = "recovery"
    BY DEF Records
  <2>2. QED
    BY <2>1, AttemptType, AnchorIs
<1>2. \A q \in Records(b) : IsFiniteSet(C(q))
  <2>1. IsFiniteSet(1 .. Len(b))
    BY <1>1, FS_Interval
  <2>2. \A q \in Records(b) : C(q) \subseteq 1 .. Len(b)
    BY <1>1
  <2>3. QED
    BY <2>1, <2>2, FS_Subset
<1>3. ASSUME NEW q \in Off, \A x \in Off : q <= x
      PROVE  FALSE
  <2>1. q \in Records(b) /\ i <= q /\ q <= j /\ Cardinality(C(q)) # ord(q) - ord(i)
    OBVIOUS
  <2>2. q # i
    <3>1. C(i) = {}
      BY <1>1
    <3>2. Cardinality(C(i)) = 0
      BY <3>1, FS_EmptySet
    <3>3. ord(i) - ord(i) = 0
      BY <1>1
    <3>4. QED
      BY <2>1, <3>2, <3>3
  <2>3. i \in RecordsBefore(b, q)
    BY <1>1, <2>1, <2>2 DEF RecordsBefore
  <2> DEFINE p == Last(RecordsBefore(b, q))
  <2>4. /\ p \in Records(b) /\ p < q
        /\ \A k \in Records(b) : k < q => k <= p
        /\ ord(q) = ord(p) + 1 \/ Progress(b, p, q)
    BY <2>1, <2>3, NextOrdinal
  <2> HIDE DEF p
  <2>5. i <= p /\ p <= j /\ p \in Nat /\ q \in Nat /\ i \in Nat /\ j \in Nat
    BY <1>1, <2>1, <2>2, <2>4
  <2>6. ord(q) = ord(p) + 1
    BY <1>1, <2>1, <2>4, <2>5, ProgressWidens
  <2>7. Cardinality(C(p)) = ord(p) - ord(i)
    <3>1. p \notin Off
      BY <1>3, <2>4, <2>5
    <3>2. QED
      BY <2>4, <2>5, <3>1
  <2>8. C(q) = C(p) \cup {p} /\ p \notin C(p)
    BY <1>1, <2>4, <2>5
  <2>9. Cardinality(C(q)) = Cardinality(C(p)) + 1
    <3>1. IsFiniteSet(C(p))
      BY <1>2, <2>4
    <3>2. \A S, x : IsFiniteSet(S) /\ x \notin S
                    => Cardinality(S \cup {x}) = Cardinality(S) + 1
      BY FS_AddElement
    <3> HIDE DEF C
    <3>3. QED
      BY <2>8, <3>1, <3>2
  <2>10. ord(q) \in Int /\ ord(p) \in Int /\ ord(i) \in Int
    BY <1>1, <2>1, <2>4
  <2> HIDE DEF C, ord
  <2>11. QED
    BY <2>1, <2>6, <2>7, <2>9, <2>10
<1>4. Off = {}
  <2>1. Off \subseteq Nat
    BY <1>1
  <2> HIDE DEF Off
  <2>2. QED
    BY <1>3, <2>1, LeastExists
<1>5. Cardinality(C(j)) = ord(j) - ord(i)
  <2>1. i <= j /\ j <= j
    BY <1>1
  <2> HIDE DEF C, ord
  <2>2. QED
    BY <1>4, <2>1
<1>6. Limit = ord(j) - ord(i)
  BY <1>5
<1>7. ord(i) \in 1 .. Limit /\ ord(j) \in 1 .. Limit
  BY <1>1
<1> HIDE DEF ord
<1>8. QED
  BY <1>1, <1>6, <1>7

-----------------------------------------------------------------------------
(* What the handler writes.                                                *)

LEMMA EntryIds ==
    ASSUME NEW b \in Seq(Entry), NEW i \in DOMAIN b
    PROVE  b[i] \in Entry /\ b[i].id \in Nat
<1>1. b[i] \in Entry
  OBVIOUS
<1>2. QED
  BY <1>1 DEF Entry

\* The episode of a further attempt is one that a record can hold.
LEMMA EpisodeType ==
    ASSUME NEW b \in Seq(Entry), Anchors(b) # {},
           nextRecoveryEpisode(b).attempts < Limit
    PROVE  /\ nextRecoveryEpisode(b).proof \in Proof
           /\ nextRecoveryEpisode(b).attempts \in 0 .. Limit - 1
           /\ Limit \in Nat
<1> DEFINE L == Last(Records(b))
           t == Len(b) + 1
           progress == evidenceSince(b, L, t)
<1>0. Limit \in Nat
  BY RecoveryAssumption DEF Limit
<1>1. InitialProof(b) \in Proof
  <2>1. Anchor(b) \in DOMAIN b
    BY AnchorIs
  <2>2. QED
    BY <2>1, EntryIds DEF InitialProof, Proof, ProofKinds
<1>2. progress \in Proof \cup {NoProof}
  <2> DEFINE users == UsersBetween(b, L, t)
             tools == NovelTools(b, L, t)
             steps == NewlyVerified(b, L, t)
             latest == Last(tools \cup steps)
  <2>1. users \subseteq DOMAIN b /\ tools \cup steps \subseteq DOMAIN b
    BY DEF UsersBetween, NovelTools, Rounds, NewlyVerified, CheckpointsIn
  <2> HIDE DEF users, tools, steps
  <2>2. users # {} => b[Last(users)].id \in Nat
    BY <2>1, LastPosition, EntryIds
  <2>3. tools \cup steps # {} => b[latest].id \in Nat
    BY <2>1, LastPosition, EntryIds
  <2>4. \/ progress = NoProof
        \/ users # {} /\ progress = [kind |-> "user-resume", entry |-> b[Last(users)].id]
        \/ /\ tools \cup steps # {}
           /\ progress = [kind |-> IF latest \in tools THEN "paired-tool" ELSE "verified-step",
                          entry |-> b[latest].id]
    <3>1. progress
           = IF \/ ~ AllPaired(b, Anchor(b), L + 1)
                \/ ~ AllCertain(b, L, t)
                \/ users \cup tools \cup steps = {}
             THEN NoProof
             ELSE IF users # {}
             THEN [kind |-> "user-resume", entry |-> b[Last(users)].id]
             ELSE [kind |-> IF latest \in tools THEN "paired-tool" ELSE "verified-step",
                   entry |-> b[latest].id]
      BY DEF evidenceSince, users, tools, steps
    <3> HIDE DEF progress, latest
    <3>2. QED
      BY <3>1
  <2> HIDE DEF progress, latest
  <2>5. CASE users # {} /\ progress = [kind |-> "user-resume", entry |-> b[Last(users)].id]
    BY <2>2, <2>5 DEF Proof, ProofKinds
  <2>6. CASE /\ tools \cup steps # {}
             /\ progress = [kind |-> IF latest \in tools THEN "paired-tool" ELSE "verified-step",
                            entry |-> b[latest].id]
    BY <2>3, <2>6 DEF Proof, ProofKinds, latest
  <2>7. QED
    BY <2>4, <2>5, <2>6
<1>3. Records(b) # {} => L \in DOMAIN b /\ b[L].kind = "recovery"
  <2>1. Records(b) \subseteq DOMAIN b
    BY DEF Records
  <2>2. Records(b) # {} => L \in Records(b)
    BY <2>1, LastPosition, Zenon
  <2>3. QED
    BY <2>2 DEF Records
<1>4. Records(b) # {} => ProofAt(b, L) \in Proof /\ b[L].data.ordinal \in 1 .. Limit
  BY <1>1, <1>3, AttemptType DEF ProofAt, RecoveryRecord
<1>5. CASE Records(b) = {}
  <2>1. nextRecoveryEpisode(b) = [proof |-> InitialProof(b), attempts |-> 0]
    BY <1>5 DEF nextRecoveryEpisode
  <2>2. QED
    BY <1>0, <1>1, <2>1
<1>6. CASE Records(b) # {} /\ progress # NoProof
  <2>1. nextRecoveryEpisode(b) = [proof |-> progress, attempts |-> 0]
    BY <1>6 DEF nextRecoveryEpisode
  <2>2. progress \in Proof
    BY <1>2, <1>6
  <2> HIDE DEF progress
  <2>3. QED
    BY <1>0, <2>1, <2>2
<1>7. CASE Records(b) # {} /\ progress = NoProof
  <2>1. nextRecoveryEpisode(b) = [proof |-> ProofAt(b, L), attempts |-> b[L].data.ordinal]
    BY <1>7 DEF nextRecoveryEpisode
  <2>2. ProofAt(b, L) \in Proof /\ b[L].data.ordinal \in 1 .. Limit
    BY <1>4, <1>7
  <2>3. QED
    BY <1>0, <2>1, <2>2
<1>8. QED
  BY <1>5, <1>6, <1>7

\* An owned settlement of which the handler knows everything: its response is
\* the last message, no attempt of the plan was made for it, and no round
\* since the user last spoke has an unknown outcome.
LEMMA Fresh ==
    ASSUME NEW b \in Seq(Entry), NEW s \in Sessions, NEW ev \in Event,
           Attempts(b), \A i, j \in DOMAIN b : i < j => b[i].id < b[j].id,
           Ends(b, ev), Eligible(b, s, ev)
    PROVE  /\ Messages(b) # {} /\ Last(Messages(b)) \in DOMAIN b
           /\ \A i \in Records(b) : b[i].data.assistant # Tip(b).id
           /\ AllCertain(b, LastUserOf(b), Len(b) + 1)
<1> DEFINE t == Last(Messages(b))
<1>0. DOMAIN b = 1 .. Len(b) /\ Len(b) \in Nat
  OBVIOUS
<1>1. /\ Messages(b) # {} /\ b[t].kind = "stop" /\ Tip(b) = b[t]
      /\ ~ AlreadySpent(b)
      /\ \A r \in ev.rounds : r.result \notin {"lost", "uncertain"}
  BY DEF Eligible, Settlement, latestAssistantEntry, Tip, ToolsKnown
<1>2. Messages(b) \subseteq DOMAIN b
  BY DEF Messages
<1>3. t \in Messages(b) /\ \A j \in Messages(b) : j <= t
  BY <1>1, <1>2, LastPosition, Zenon
<1> HIDE DEF t
<1>4. \A i \in Records(b) : b[i].data.assistant # Tip(b).id
  <2> SUFFICES ASSUME NEW i \in Records(b), b[i].data.assistant = b[t].id
               PROVE  FALSE
    BY <1>1
  <2> DEFINE L == Last(Records(b))
  <2>1. Records(b) \subseteq DOMAIN b
    BY DEF Records
  <2>2. L \in Records(b) /\ \A j \in Records(b) : j <= L
    BY <2>1, LastPosition, Zenon
  <2> HIDE DEF L
  <2>3. \A j \in Records(b) : j \in DOMAIN b /\ b[j].kind = "recovery"
    BY DEF Records
  <2>4. PICK k \in Messages(b) :
          /\ k < i
          /\ b[i].data.assistant = b[k].id
          /\ \A j \in Messages(b) : j < i => j <= k
    BY <2>3, AttemptFacts
  <2>5. k = t
    <3>1. k \in DOMAIN b /\ t \in DOMAIN b /\ b[k].id = b[t].id /\ k <= t
      BY <1>2, <1>3, <2>4
    <3>2. b[k].id \in Nat /\ b[t].id \in Nat
      BY <3>1, EntryIds
    <3>3. ~ (k < t)
      BY <3>1, <3>2
    <3>4. QED
      BY <1>0, <3>1, <3>3
  <2>6. PICK l \in Messages(b) :
          /\ l < L
          /\ b[L].data.assistant = b[l].id
          /\ \A j \in Messages(b) : j < L => j <= l
    BY <2>2, <2>3, AttemptFacts
  <2>7. l = t
    <3>1. t < L
      <4>1. t \in Int /\ i \in Int /\ L \in Int
        BY <1>0, <1>2, <1>3, <2>1, <2>2
      <4>2. t < i /\ i <= L
        BY <2>2, <2>4, <2>5
      <4>3. QED
        BY <4>1, <4>2
    <3>2. t <= l /\ l <= t
      BY <1>3, <2>6, <3>1
    <3>3. QED
      BY <1>0, <1>2, <1>3, <2>6, <3>2
  <2>8. AlreadySpent(b)
    BY <1>1, <2>2, <2>6, <2>7 DEF AlreadySpent, L
  <2>9. QED
    BY <1>1, <2>8
<1>5. AllCertain(b, LastUserOf(b), Len(b) + 1)
  <2>1. PICK k \in DOMAIN b :
        /\ b[k].kind = "stop"
        /\ \A i \in DOMAIN b : i > k => b[i].kind \notin {"user", "stop"}
        /\ \A i \in Rounds(b, LastUserOf(b), k) : b[i] \in ev.rounds
    BY DEF Ends
  <2>2. k \in Messages(b)
    BY <2>1 DEF Messages
  <2>3. \A i \in Rounds(b, LastUserOf(b), Len(b) + 1) : i < k
    <3> SUFFICES ASSUME NEW i \in Rounds(b, LastUserOf(b), Len(b) + 1)
                 PROVE  i < k
      OBVIOUS
    <3>1. i \in DOMAIN b /\ b[i].kind = "round" /\ i \in Messages(b)
      BY DEF Rounds, Messages
    <3>2. i <= t /\ i # t /\ k <= t /\ t \in DOMAIN b
      BY <1>1, <1>2, <1>3, <2>2, <3>1
    <3>3. ~ (t > k)
      BY <1>1, <2>1, <3>2
    <3>4. i \in Int /\ t \in Int /\ k \in Int
      BY <1>0, <2>1, <3>1, <3>2
    <3>5. QED
      BY <3>2, <3>3, <3>4
  <2>4. \A i \in Rounds(b, LastUserOf(b), Len(b) + 1) : i \in Rounds(b, LastUserOf(b), k)
    BY <2>3 DEF Rounds
  <2>5. QED
    BY <1>1, <2>1, <2>4 DEF AllCertain
<1>6. QED
  BY <1>1, <1>2, <1>3, <1>4, <1>5 DEF t

\* The attempt the handler journals is Written, can be read back, and leaves
\* the settlement it was planned for owned.
LEMMA Journaled ==
    ASSUME NEW b \in Seq(Entry), NEW s \in Sessions, NEW ev \in Event, NEW n \in Nat,
           Attempts(b), \A i, j \in DOMAIN b : i < j => b[i].id < b[j].id,
           Ends(b, ev), planIntelligentRecovery(b, s, ev)
    PROVE  LET r == AttemptRecord(b, s)
               e == [kind |-> "recovery", id |-> n, data |-> r]
               c == Append(b, e)
           IN  /\ r \in RecoveryRecord /\ e \in Entry
               /\ r.assistant = Tip(b).id /\ Tip(c) = Tip(b)
               /\ Written(c)
               /\ Records(c) # {} /\ Last(Records(c)) = Len(b) + 1
               /\ AllCertain(c, LastUserOf(c), Len(c) + 1)
               /\ duplicateSettle(c, s, ev)
<1> DEFINE r == AttemptRecord(b, s)
           e == [kind |-> "recovery", id |-> n, data |-> r]
           c == Append(b, e)
           m == Len(b) + 1
           episode == nextRecoveryEpisode(b)
           a == Anchor(b)
           L == Last(Records(b))
<1>0. DOMAIN b = 1 .. Len(b) /\ Len(b) \in Nat /\ m \in Nat
  OBVIOUS
<1>1. /\ Eligible(b, s, ev) /\ Settlement(b, s, ev) /\ episode.attempts < Limit
      /\ Anchors(b) # {}
  BY DEF planIntelligentRecovery, Eligible, Settlement, InScope
<1>2. /\ Messages(b) # {} /\ Last(Messages(b)) \in DOMAIN b
      /\ \A i \in Records(b) : b[i].data.assistant # Tip(b).id
      /\ AllCertain(b, LastUserOf(b), m)
  BY <1>1, Fresh
<1>3. episode.proof \in Proof /\ episode.attempts \in 0 .. Limit - 1 /\ Limit \in Nat
  BY <1>1, EpisodeType
<1>4. a \in DOMAIN b /\ a \in 1 .. Len(b)
  BY <1>0, <1>1, AnchorIs
<1>5. /\ r = [version |-> 2, session |-> s, anchor |-> b[a].id,
              ordinal |-> episode.attempts + 1, stage |-> Stages[episode.attempts + 1],
              assistant |-> Tip(b).id, proof |-> episode.proof]
      /\ r.version = 2 /\ r.session = s /\ r.anchor = b[a].id
      /\ r.ordinal = episode.attempts + 1 /\ r.stage = Stages[r.ordinal]
      /\ r.assistant = Tip(b).id /\ r.proof = episode.proof
  BY DEF AttemptRecord
<1>6. r.ordinal \in 1 .. Limit
  BY <1>3, <1>5
<1>7. r \in RecoveryRecord
  <2>1. Stages[episode.attempts + 1] \in {"native", "context", "model"}
    BY <1>3, RecoveryAssumption DEF Limit
  <2>2. b[a].id \in Nat /\ Tip(b).id \in Nat
    BY <1>2, <1>4, EntryIds DEF Tip
  <2> HIDE DEF r, episode, a
  <2>3. QED
    BY <1>3, <1>5, <1>6, <2>1, <2>2 DEF RecoveryRecord
<1> HIDE DEF r, episode, a, L
<1>8. e \in Entry
  BY <1>7 DEF Entry
<1>9. e.kind = "recovery" /\ e.data = r /\ e.id = n
  OBVIOUS
<1> HIDE DEF e
<1>10. /\ c \in Seq(Entry) /\ Len(c) = m /\ c[m] = e
       /\ DOMAIN c = DOMAIN b \cup {m} /\ Agree(b, c, Len(b))
       /\ \A i \in 1 .. Len(b) : c[i] = b[i]
  BY <1>8, Appended
<1> HIDE DEF c
<1>11. /\ CheckpointsIn(c) = CheckpointsIn(b) /\ Anchors(c) = Anchors(b)
       /\ Messages(c) = Messages(b)
       /\ ValidIn(c, s) = ValidIn(b, s)
  <2>1. \A i \in DOMAIN b : c[i] = b[i] /\ i \in DOMAIN c
    BY <1>0, <1>10
  <2>2. CheckpointsIn(c) = CheckpointsIn(b)
    BY <1>9, <1>10, <2>1 DEF CheckpointsIn
  <2>3. Messages(c) = Messages(b)
    BY <1>9, <1>10, <2>1 DEF Messages
  <2>4. \A i \in CheckpointsIn(b) : c[i] = b[i]
    BY <2>1 DEF CheckpointsIn
  <2>5. QED
    BY <2>2, <2>3, <2>4 DEF Anchors, ValidIn
<1>12. Anchor(c) = a
  BY <1>11 DEF Anchor, a
<1>13. Tip(c) = Tip(b) /\ LastUserOf(c) = LastUserOf(b) /\ LastUserOf(b) \in Nat
  <2>1. \A i \in Messages(b) \cup Messages(c) : i <= Len(b)
    BY <1>0, <1>11 DEF Messages
  <2>2. QED
    BY <1>0, <1>2, <1>10, <2>1, SameTip
<1>14. /\ Records(c) = Records(b) \cup {m}
       /\ RecordsBefore(c, m) = Records(b)
       /\ Records(b) \subseteq DOMAIN b
       /\ Records(b) # {} => L \in Records(b)
  <2>1. Records(b) \subseteq DOMAIN b
    BY DEF Records
  <2>2. Records(b) # {} => L \in Records(b)
    BY <2>1, LastPosition, Zenon DEF L
  <2>3. Records(c) = Records(b) \cup {m}
    <3>1. \A i \in DOMAIN b : i \in Records(c) <=> i \in Records(b)
      BY <1>0, <1>10, <1>12 DEF Records, a
    <3>2. m \in Records(c)
      BY <1>0, <1>4, <1>9, <1>10, <1>12 DEF Records
    <3>3. Records(c) \subseteq DOMAIN b \cup {m}
      BY <1>10 DEF Records
    <3>4. QED
      BY <2>1, <3>1, <3>2, <3>3
  <2>4. RecordsBefore(c, m) = Records(b)
    BY <1>0, <2>1, <2>3 DEF RecordsBefore
  <2>5. QED
    BY <2>1, <2>2, <2>3, <2>4
<1>15. Last(Records(c)) = m
  <2>1. Records(c) \in SUBSET (1 .. m) /\ m \in Records(c)
    BY <1>0, <1>14
  <2>2. \A i \in Records(c) : i <= m
    BY <1>0, <2>1
  <2>3. QED
    BY <1>0, <2>1, <2>2, LastIs, Zenon
<1>16. InitialProof(c) = InitialProof(b)
  BY <1>4, <1>10, <1>12 DEF InitialProof, a
<1>17. \A i \in Records(b) : c[i] = b[i] /\ ProofAt(c, i) = ProofAt(b, i)
  BY <1>0, <1>10, <1>14, <1>16 DEF ProofAt
<1>18. ProofAt(c, m) = episode.proof
  BY <1>5, <1>9, <1>10 DEF ProofAt
<1>19. Chained(c, m)
  <2>1. CASE Records(b) = {}
    <3>1. episode = [proof |-> InitialProof(b), attempts |-> 0]
      BY <2>1 DEF nextRecoveryEpisode, episode
    <3>2. r.ordinal = 1 /\ ProofAt(c, m) = InitialProof(c)
      BY <1>5, <1>16, <1>18, <3>1
    <3>3. QED
      BY <1>9, <1>10, <1>14, <2>1, <3>2 DEF Chained
  <2>2. CASE Records(b) # {}
    <3>1. L \in Records(b) /\ L \in 1 .. Len(b) /\ RecordsBefore(c, m) # {}
            /\ Last(RecordsBefore(c, m)) = L
      BY <1>0, <1>14, <2>2 DEF L
    <3>2. evidenceSince(c, L, m) = evidenceSince(b, L, m)
      <4>1. a <= Len(b) /\ Anchor(c) <= Len(b)
        BY <1>4, <1>12
      <4>2. m \in 1 .. Len(b) + 1
        BY <1>0
      <4>3. QED
        BY <1>0, <1>10, <3>1, <4>1, <4>2, SameEvidence DEF a
    <3>3. r.assistant \notin {c[j].data.assistant : j \in RecordsBefore(c, m)}
      BY <1>2, <1>5, <1>14, <1>17
    <3>4. b[L].data.ordinal \in 1 .. Limit
      <4>1. b[L].kind = "recovery"
        BY <3>1 DEF Records
      <4>2. QED
        BY <1>0, <3>1, <4>1, AttemptType
    <3>5. IF r.ordinal = 1
          THEN r.proof = evidenceSince(b, L, m) /\ r.proof # NoProof
          ELSE r.ordinal = b[L].data.ordinal + 1 /\ episode.proof = ProofAt(b, L)
      <4>1. CASE evidenceSince(b, L, m) # NoProof
        <5>1. episode = [proof |-> evidenceSince(b, L, m), attempts |-> 0]
          BY <2>2, <4>1 DEF nextRecoveryEpisode, episode, L
        <5>2. QED
          BY <1>5, <4>1, <5>1
      <4>2. CASE evidenceSince(b, L, m) = NoProof
        <5>1. episode = [proof |-> ProofAt(b, L), attempts |-> b[L].data.ordinal]
          BY <2>2, <4>2 DEF nextRecoveryEpisode, episode, L
        <5>2. r.ordinal # 1 /\ r.ordinal = b[L].data.ordinal + 1
          BY <1>5, <3>4, <5>1
        <5>3. QED
          BY <5>1, <5>2
      <4>3. QED
        BY <4>1, <4>2
    <3>6. c[m].data = r /\ r.version = 2 /\ c[L] = b[L] /\ ProofAt(c, L) = ProofAt(b, L)
      BY <1>5, <1>9, <1>10, <1>17, <3>1
    <3>7. Chained(c, m) <=>
            /\ r.assistant \notin {c[j].data.assistant : j \in RecordsBefore(c, m)}
            /\ IF r.version = 2 /\ r.ordinal = 1
               THEN /\ r.proof = evidenceSince(c, L, m)
                    /\ r.proof # NoProof
               ELSE /\ r.ordinal = c[L].data.ordinal + 1
                    /\ ProofAt(c, m) = ProofAt(c, L)
            /\ r.version = 1 => \A j \in RecordsBefore(c, m) : c[j].data.version = 1
      BY <3>1, <3>6, Zenon DEF Chained
    <3>8. QED
      BY <1>18, <3>2, <3>3, <3>5, <3>6, <3>7
  <2>3. QED
    BY <2>1, <2>2
<1>20. AllCertain(c, LastUserOf(c), m) /\ AllCertain(c, LastUserOf(c), m + 1)
  <2>1. m \in 0 .. Len(b) + 1
    BY <1>0
  <2>2. AllCertain(c, LastUserOf(c), m)
    BY <1>0, <1>2, <1>10, <1>13, <2>1, SamePrefix
  <2>3. \A i \in Rounds(c, LastUserOf(c), m + 1) : i \in Rounds(c, LastUserOf(c), m)
    BY <1>0, <1>9, <1>10 DEF Rounds
  <2>4. QED
    BY <2>2, <2>3 DEF AllCertain
<1>21. Written(c)
  <2>1. \A j \in DOMAIN c : Anchor(c) < j => c[j].kind # "foreign"
    BY <1>0, <1>1, <1>9, <1>10, <1>12 DEF Settlement, LedgerValid, a
  <2>2. QED
    BY <1>1, <1>2, <1>5, <1>9, <1>10, <1>11, <1>13, <1>19, <1>20, <2>1 DEF Written
<1>22. LedgerValid(c, s)
  <2>1. LedgerValid(b, s)
    BY <1>1 DEF Settlement
  <2>2. \A i \in DOMAIN c : Anchor(c) < i => c[i].kind # "foreign"
    BY <1>0, <1>9, <1>10, <1>12, <2>1 DEF LedgerValid, a
  <2>3. ASSUME NEW i \in Records(b)
        PROVE  RecordMatches(c, s, i) /\ Chained(c, i)
    <3>1. RecordMatches(b, s, i) /\ Chained(b, i)
      BY <2>1 DEF LedgerValid
    <3>2. RecordMatches(c, s, i)
      BY <1>4, <1>10, <1>12, <1>17, <3>1 DEF RecordMatches, a
    <3>3. a <= Len(b) /\ Anchor(c) <= Len(b) /\ i \in 1 .. Len(b)
      BY <1>0, <1>4, <1>12, <1>14
    <3>4. Chained(c, i)
      BY <1>0, <1>1, <1>10, <3>1, <3>3, SameChained DEF a
    <3>5. QED
      BY <3>2, <3>4
  <2>4. RecordMatches(c, s, m)
    BY <1>4, <1>5, <1>6, <1>9, <1>10, <1>12 DEF RecordMatches
  <2>5. AllCertain(c, Last(Records(c)), Len(c) + 1)
    <3>1. Rounds(c, m, m + 1) = {}
      BY <1>0, <1>10 DEF Rounds
    <3>2. QED
      BY <1>10, <1>15, <3>1 DEF AllCertain
  <2>6. QED
    BY <1>14, <1>19, <2>2, <2>3, <2>4, <2>5 DEF LedgerValid
<1>23. Settlement(c, s, ev)
  <2>1. InScope(c, s)
    BY <1>1, <1>11 DEF Settlement, InScope
  <2>2. PlanOf(c) = PlanOf(b)
    <3>1. CheckpointsIn(b) # {} /\ CheckpointsIn(b) \subseteq DOMAIN b
      BY <1>1 DEF CheckpointsIn, Anchors
    <3>2. Last(CheckpointsIn(b)) \in DOMAIN b
      BY <3>1, LastPosition, Zenon
    <3>3. QED
      BY <1>0, <1>10, <1>11, <3>2 DEF PlanOf
  <2>3. latestAssistantEntry(c, ev)
    BY <1>1, <1>11, <1>13 DEF Settlement, latestAssistantEntry
  <2>4. Records(c) # {}
    BY <1>14
  <2>5. QED
    BY <1>1, <1>22, <2>1, <2>2, <2>3, <2>4 DEF Settlement
<1>24. AlreadySpent(c)
  BY <1>5, <1>9, <1>10, <1>13, <1>14, <1>15 DEF AlreadySpent
<1>25. QED
  BY <1>5, <1>7, <1>8, <1>10, <1>13, <1>14, <1>15, <1>20, <1>21, <1>23, <1>24
     DEF duplicateSettle, r, e, c

-----------------------------------------------------------------------------
(* The invariant, entry by entry.                                          *)

LEMMA IdsAppended ==
    ASSUME NEW b \in Seq(Entry), NEW n \in Nat, IdsIncrease(b, n),
           NEW e \in Entry, e.id = n + 1
    PROVE  IdsIncrease(Append(b, e), n + 1)
<1> DEFINE c == Append(b, e)
<1>1. /\ DOMAIN c = DOMAIN b \cup {Len(b) + 1} /\ DOMAIN b = 1 .. Len(b) /\ Len(b) \in Nat
      /\ c[Len(b) + 1] = e /\ \A i \in 1 .. Len(b) : c[i] = b[i]
  BY Appended
<1> HIDE DEF c
<1>2. \A i \in DOMAIN c : c[i].id \in 1 .. n + 1
  BY <1>1 DEF IdsIncrease
<1>3. \A i, j \in DOMAIN c : i < j => c[i].id < c[j].id
  <2> SUFFICES ASSUME NEW i \in DOMAIN c, NEW j \in DOMAIN c, i < j
               PROVE  c[i].id < c[j].id
    OBVIOUS
  <2>1. i \in DOMAIN b /\ c[i] = b[i] /\ b[i].id \in 1 .. n
    BY <1>1 DEF IdsIncrease
  <2>2. CASE j = Len(b) + 1
    BY <1>1, <2>1, <2>2
  <2>3. CASE j \in DOMAIN b
    BY <1>1, <2>1, <2>3 DEF IdsIncrease
  <2>4. QED
    BY <1>1, <2>2, <2>3
<1>4. QED
  BY <1>2, <1>3 DEF IdsIncrease, c

LEMMA AttemptsAppended ==
    ASSUME NEW b \in Seq(Entry), Attempts(b), NEW e \in Entry,
           e.kind = "recovery" => Written(Append(b, e))
    PROVE  Attempts(Append(b, e))
<1> DEFINE c == Append(b, e)
<1>1. /\ DOMAIN c = DOMAIN b \cup {Len(b) + 1} /\ DOMAIN b = 1 .. Len(b)
      /\ c[Len(b) + 1] = e /\ SubSeq(c, 1, Len(b) + 1) = c
      /\ \A i \in 1 .. Len(b) : c[i] = b[i] /\ SubSeq(c, 1, i) = SubSeq(b, 1, i)
  BY Appended
<1> HIDE DEF c
<1>2. ASSUME NEW i \in DOMAIN c, c[i].kind = "recovery"
      PROVE  Written(SubSeq(c, 1, i))
  <2>1. CASE i \in DOMAIN b
    BY <1>1, <1>2, <2>1 DEF Attempts
  <2>2. CASE i = Len(b) + 1
    BY <1>1, <1>2, <2>2 DEF c
  <2>3. QED
    BY <1>1, <2>1, <2>2
<1>3. QED
  BY <1>2 DEF Attempts, c

\* A rewind leaves the ids and the attempts as they were.
LEMMA Rewound ==
    ASSUME NEW b \in Seq(Entry), NEW n \in Nat, NEW k \in 0 .. Len(b),
           IdsIncrease(b, n), Attempts(b)
    PROVE  /\ SubSeq(b, 1, k) \in Seq(Entry)
           /\ IdsIncrease(SubSeq(b, 1, k), n)
           /\ Attempts(SubSeq(b, 1, k))
<1> DEFINE c == SubSeq(b, 1, k)
<1>1. /\ c \in Seq(Entry) /\ Len(c) = k /\ Agree(b, c, k)
      /\ \A i \in 1 .. k : SubSeq(c, 1, i) = SubSeq(b, 1, i)
  BY Prefixes
<1> HIDE DEF c
<1>2. DOMAIN c = 1 .. k /\ \A i \in DOMAIN c : i \in DOMAIN b /\ c[i] = b[i]
  BY <1>1 DEF Agree
<1>3. IdsIncrease(c, n)
  BY <1>2 DEF IdsIncrease
<1>4. Attempts(c)
  BY <1>1, <1>2 DEF Attempts
<1>5. QED
  BY <1>1, <1>3, <1>4 DEF c

\* What comes after a settlement without a message or a new plan leaves it last.
LEMMA EndsAppended ==
    ASSUME NEW b \in Seq(Entry), NEW ev, Ends(b, ev), NEW e \in Entry,
           e.kind \notin {"user", "stop"}
    PROVE  Ends(Append(b, e), ev)
<1> DEFINE c == Append(b, e)
<1>1. /\ c \in Seq(Entry) /\ DOMAIN c = DOMAIN b \cup {Len(b) + 1}
      /\ DOMAIN b = 1 .. Len(b) /\ Len(b) \in Nat
      /\ c[Len(b) + 1] = e /\ \A i \in 1 .. Len(b) : c[i] = b[i]
  BY Appended
<1> HIDE DEF c
<1>2. PICK k \in DOMAIN b :
        /\ b[k].kind = "stop"
        /\ b[k].id = ev.assistant
        /\ \A i \in DOMAIN b : i > k => b[i].kind \notin {"user", "stop"}
        /\ \A i \in Rounds(b, LastUserOf(b), k) : b[i] \in ev.rounds
  BY DEF Ends
<1>3. LastUserOf(c) = LastUserOf(b)
  <2>1. {i \in DOMAIN c : c[i].kind = "user"} = {i \in DOMAIN b : b[i].kind = "user"}
    BY <1>1
  <2>2. QED
    BY <2>1 DEF LastUserOf
<1>4. Rounds(c, LastUserOf(c), k) = Rounds(b, LastUserOf(b), k)
  BY <1>1, <1>3 DEF Rounds
<1>5. \A i \in Rounds(c, LastUserOf(c), k) : c[i] \in ev.rounds
  <2>1. \A i \in Rounds(b, LastUserOf(b), k) : i \in DOMAIN b
    BY DEF Rounds
  <2>2. QED
    BY <1>1, <1>2, <1>4, <2>1
<1>6. /\ k \in DOMAIN c /\ c[k].kind = "stop" /\ c[k].id = ev.assistant
      /\ \A i \in DOMAIN c : i > k => c[i].kind \notin {"user", "stop"}
  BY <1>1, <1>2
<1>7. QED
  BY <1>5, <1>6 DEF Ends, c

-----------------------------------------------------------------------------
(* The invariant, step by step.                                            *)

LEMMA JournalAppended ==
    ASSUME JournalsInv, NEW e \in Entry, e.id = lastId + 1,
           e.kind = "recovery" => Written(Append(branch, e)),
           Append1(e), Here
    PROVE  JournalsInv' /\ branch' = Append(branch, e)
<1>1. branch' = Append(branch, e) /\ lastId' = lastId + 1 /\ session' = session /\ away' = away
  BY DEF Append1, Here
<1>2. branch' \in Seq(Entry)
  BY <1>1, Appended DEF JournalsInv
<1>3. IdsIncrease(branch', lastId') /\ Attempts(branch')
  BY <1>1, IdsAppended, AttemptsAppended DEF JournalsInv
<1>4. IdsIncrease(away'.branch, lastId')
  BY <1>1 DEF JournalsInv, IdsIncrease
<1>5. QED
  BY <1>1, <1>2, <1>3, <1>4 DEF JournalsInv

LEMMA JournalKept ==
    ASSUME JournalsInv, UNCHANGED <<branch, lastId>>, Here
    PROVE  JournalsInv'
BY DEF JournalsInv, Here, IdsIncrease, Attempts

\* The plan of a branch, if there is one, is a record.
LEMMA PlanIsRecord ==
    ASSUME NEW b \in Seq(Entry), NEW s,
           restoreExecutionCheckpoint(b, s) # NoCheckpoint
    PROVE  restoreExecutionCheckpoint(b, s) \in Checkpoint
<1>1. ValidIn(b, s) \subseteq DOMAIN b /\ ValidIn(b, s) # {}
  BY DEF ValidIn, CheckpointsIn, restoreExecutionCheckpoint
<1>2. Last(ValidIn(b, s)) \in ValidIn(b, s)
  BY <1>1, LastPosition, Zenon
<1>3. \A i \in ValidIn(b, s) : b[i] \in Entry /\ b[i].kind = "checkpoint"
  BY DEF ValidIn, CheckpointsIn
<1>4. b[Last(ValidIn(b, s))].data \in Checkpoint
  BY <1>2, <1>3 DEF Entry
<1>5. QED
  BY <1>1, <1>4 DEF restoreExecutionCheckpoint

\* before_agent_start with a new plan writes two entries.
LEMMA TwoAppended ==
    ASSUME JournalsInv, Here, NEW x \in Entry, NEW y \in Entry,
           x.id = lastId + 1, y.id = lastId + 2,
           x.kind # "recovery", y.kind # "recovery",
           branch' = branch \o <<x, y>>, lastId' = lastId + 2
    PROVE  JournalsInv'
<1> DEFINE c == Append(branch, x)
<1>1. c \in Seq(Entry) /\ IdsIncrease(c, lastId + 1) /\ Attempts(c)
  BY Appended, IdsAppended, AttemptsAppended DEF JournalsInv
<1>2. lastId + 1 \in Nat /\ (lastId + 1) + 1 = lastId + 2
  BY DEF JournalsInv
<1>3. branch' = Append(c, y)
  <2>1. <<x>> \in Seq(Entry) /\ <<y>> \in Seq(Entry) /\ <<x>> \o <<y>> = <<x, y>>
    <3>1. <<x>> \in Seq(Entry) /\ <<y>> \in Seq(Entry)
      OBVIOUS
    <3>2. Append(<<x>>, y) = <<x>> \o <<y>>
      BY <3>1, AppendIsConcat
    <3>3. Append(<<x>>, y) = <<x, y>>
      <4>1. <<x, y>> \in Seq(Entry) /\ Len(<<x, y>>) = 2
        OBVIOUS
      <4>2. <<x, y>>[1] = x /\ <<x, y>>[2] = y /\ Len(<<x>>) = 1 /\ <<x>>[1] = x
        OBVIOUS
      <4>3. /\ Append(<<x>>, y) \in Seq(Entry) /\ Len(Append(<<x>>, y)) = 2
            /\ Append(<<x>>, y)[1] = x /\ Append(<<x>>, y)[2] = y
        BY <3>1, <4>2, AppendProperties
      <4>4. \A i \in 1 .. 2 : Append(<<x>>, y)[i] = <<x, y>>[i]
        <5>1. \A i \in 1 .. 2 : i = 1 \/ i = 2
          OBVIOUS
        <5>2. QED
          BY <4>2, <4>3, <5>1
      <4>5. QED
        BY <4>1, <4>3, <4>4, SeqEqual
    <3>4. QED
      BY <3>1, <3>2, <3>3
  <2>2. c = branch \o <<x>> /\ Append(c, y) = c \o <<y>>
    BY <1>1, AppendIsConcat DEF JournalsInv
  <2>3. (branch \o <<x>>) \o <<y>> = branch \o (<<x>> \o <<y>>)
    BY <2>1, ConcatAssociative DEF JournalsInv
  <2> HIDE DEF c
  <2>4. QED
    BY <2>1, <2>2, <2>3
<1> HIDE DEF c
<1>4. branch' \in Seq(Entry) /\ IdsIncrease(branch', lastId') /\ Attempts(branch')
  <2>1. branch' \in Seq(Entry) /\ Attempts(branch')
    BY <1>1, <1>3, Appended, AttemptsAppended
  <2>2. y.id = (lastId + 1) + 1
    BY <1>2
  <2>3. IdsIncrease(branch', (lastId + 1) + 1)
    BY <1>1, <1>2, <1>3, <2>2, IdsAppended
  <2>4. QED
    BY <1>2, <2>1, <2>3
<1>5. session' = session /\ away' = away
  BY DEF Here
<1>6. IdsIncrease(away'.branch, lastId')
  BY <1>5 DEF JournalsInv, IdsIncrease
<1>7. QED
  BY <1>2, <1>4, <1>5, <1>6 DEF JournalsInv

\* Leave keeps both places within those the invariant knows.
LEMMA JournalLeft ==
    ASSUME JournalsInv, Leave, session' \in Sessions,
           \/ branch' = branch
           \/ branch' = away.branch
           \/ \E n \in 0 .. Len(branch) : branch' = SubSeq(branch, 1, n)
    PROVE  JournalsInv'
<1>1. away' = [session |-> session, branch |-> branch] /\ lastId' = lastId
  BY DEF Leave
<1>2. away' \in [session : Sessions, branch : Seq(Entry)] /\ away'.branch = branch
  BY <1>1 DEF JournalsInv
<1>3. branch' \in Seq(Entry) /\ IdsIncrease(branch', lastId) /\ Attempts(branch')
  BY Rewound DEF JournalsInv
<1>4. QED
  BY <1>1, <1>2, <1>3 DEF JournalsInv

\* The attempt that SessionStop journals in a reachable state.
LEMMA StopJournals ==
    ASSUME StopInv, event # NoEvent, planIntelligentRecovery(branch, session, event)
    PROVE  LET r == AttemptRecord(branch, session)
               e == [kind |-> "recovery", id |-> lastId + 1, data |-> r]
               c == Append(branch, e)
           IN  /\ r \in RecoveryRecord /\ e \in Entry
               /\ r.assistant = Tip(branch).id /\ Tip(c) = Tip(branch)
               /\ Written(c)
               /\ Records(c) # {} /\ Last(Records(c)) = Len(branch) + 1
               /\ AllCertain(c, LastUserOf(c), Len(c) + 1)
               /\ duplicateSettle(c, session, event)
<1>1. /\ branch \in Seq(Entry) /\ session \in Sessions /\ event \in Event
      /\ lastId + 1 \in Nat /\ Attempts(branch) /\ Ends(branch, event)
      /\ \A i, j \in DOMAIN branch : i < j => branch[i].id < branch[j].id
  BY DEF StopInv, TypeOK, JournalsInv, IdsIncrease
<1>2. QED
  BY <1>1, Journaled

LEMMA StopInitially == Init => StopInv
<1> SUFFICES ASSUME Init PROVE StopInv
  OBVIOUS
<1>1. <<>> \in Seq(Entry) /\ DOMAIN <<>> = {}
  OBVIOUS
<1>2. IdsIncrease(<<>>, 0) /\ Attempts(<<>>)
  BY <1>1 DEF IdsIncrease, Attempts
<1>3. away.branch = <<>>
  BY DEF Init
<1>4. JournalsInv
  BY <1>1, <1>2, <1>3 DEF Init, JournalsInv
<1>5. TypeOK
  <2>1. handler \in [Handlers -> {IdleHandler}
                       \cup [phase : {"selecting"}, event : Event,
                             record : Nat, aborted : BOOLEAN]]
    BY DEF Init
  <2>2. turn \in [phase : {"idle", "running", "settled"}, hook : BOOLEAN, ending : BOOLEAN]
    BY DEF Init
  <2>3. moves \in 0 .. MaxMoves
    BY SessionStopAssumption DEF Init
  <2>4. QED
    BY <1>1, <2>1, <2>2, <2>3 DEF Init, TypeOK
<1>6. event = NoEvent
  BY DEF Init
<1>7. QED
  BY <1>4, <1>5, <1>6 DEF StopInv

\* The parts of TypeOK that are not about the journals.
Turns == [phase : {"idle", "running", "settled"}, hook : BOOLEAN, ending : BOOLEAN]

Selection == [phase : {"selecting"}, event : Event, record : Nat, aborted : BOOLEAN]

Rest ==
    /\ turn \in Turns
    /\ event \in Event \cup {NoEvent}
    /\ handler \in [Handlers -> {IdleHandler} \cup Selection]
    /\ busy \in BOOLEAN
    /\ moves \in 0 .. MaxMoves
    /\ issued \subseteq [record : Nat, planned : Nat, tip : Nat]

LEMMA StopInvIs ==
    StopInv <=> JournalsInv /\ Rest /\ (event # NoEvent => Ends(branch, event))
BY DEF StopInv, TypeOK, JournalsInv, Rest, Turns, Selection

LEMMA StopIsKept ==
    JournalsInv' /\ Rest' /\ (event' # NoEvent => Ends(branch', event')) => StopInv'
BY DEF StopInv, TypeOK, JournalsInv, Rest, Turns, Selection

\* An entry that is no message and no attempt.
LEMMA QuietStep ==
    ASSUME StopInv, NEW e \in Entry, e.id = lastId + 1,
           e.kind \in {"round", "checkpoint", "foreign"},
           Append1(e), Here, Rest', UNCHANGED event
    PROVE  StopInv'
<1>1. JournalsInv' /\ branch' = Append(branch, e)
  BY JournalAppended DEF StopInv
<1>2. event' # NoEvent => Ends(branch', event')
  <2>1. branch \in Seq(Entry) /\ (event # NoEvent => Ends(branch, event))
    BY DEF StopInv, JournalsInv
  <2>2. e.kind \notin {"user", "stop"}
    OBVIOUS
  <2>3. QED
    BY <1>1, <2>1, <2>2, EndsAppended
<1>3. QED
  BY <1>1, <1>2, StopIsKept

\* A continuation the handler returns is of the history's type.
LEMMA Continues ==
    ASSUME Rest, NEW n \in Nat, NEW ev \in Event, NEW b \in Seq(Entry),
           Messages(b) # {}, Continue(n, ev, b)
    PROVE  /\ issued' \subseteq [record : Nat, planned : Nat, tip : Nat]
           /\ turn' \in Turns
<1>1. Messages(b) \subseteq DOMAIN b
  BY DEF Messages
<1>2. Last(Messages(b)) \in DOMAIN b
  BY <1>1, LastPosition, Zenon
<1>3. Tip(b).id \in Nat
  BY <1>2, EntryIds DEF Tip
<1>4. ev.assistant \in Nat
  BY DEF Event
<1>5. issued' \subseteq [record : Nat, planned : Nat, tip : Nat]
  BY <1>3, <1>4 DEF Continue, Rest
<1>6. turn' \in Turns
  BY DEF Continue, Rest, Turns
<1>7. QED
  BY <1>5, <1>6

LEMMA StopStep == StopInv /\ [Next]_vars => StopInv'
<1> SUFFICES ASSUME StopInv, [Next]_vars PROVE StopInv'
  OBVIOUS
<1>0. JournalsInv /\ Rest /\ TypeOK /\ (event # NoEvent => Ends(branch, event))
  BY StopInvIs DEF StopInv
<1> USE SessionStopAssumption
<1>1. ASSUME NEW p \in UserPrompts, BeforeAgentStart(p) PROVE StopInv'
  <2> DEFINE u1 == New("user")
             u2 == [kind |-> "user", id |-> lastId + 2]
             plan == createExecutionCheckpoint(session, "session", p.sha)
             x == CheckpointEntry(lastId + 1, plan)
  <2>1. Rest' /\ event' = NoEvent /\ Here
    <3>1. turn' \in Turns
      BY <1>1 DEF BeforeAgentStart, Turns
    <3>2. QED
      BY <1>0, <1>1, <3>1 DEF BeforeAgentStart, Rest
  <2>2. u1 \in Entry /\ u2 \in Entry /\ u1.id = lastId + 1 /\ u2.id = lastId + 2
          /\ u1.kind = "user" /\ u2.kind = "user"
    BY <1>0 DEF New, Entry, TypeOK
  <2>3. plan \in Checkpoint
    BY <1>0, NewPlan DEF UserPrompt, TypeOK
  <2> HIDE DEF plan
  <2>4. x \in Entry /\ x.id = lastId + 1 /\ x.kind = "checkpoint"
    BY <1>0, <2>3 DEF CheckpointEntry, Entry, TypeOK
  <2>5. \/ branch' = branch \o <<x, u2>> /\ lastId' = lastId + 2
        \/ Append1(u1)
    BY <1>1 DEF BeforeAgentStart, plan
  <2> HIDE DEF x, u1, u2
  <2>6. JournalsInv'
    <3>1. CASE Append1(u1)
      BY <1>0, <2>1, <2>2, <3>1, JournalAppended
    <3>2. CASE branch' = branch \o <<x, u2>> /\ lastId' = lastId + 2
      BY <1>0, <2>1, <2>2, <2>4, <3>2, TwoAppended
    <3>3. QED
      BY <2>5, <3>1, <3>2
  <2>7. QED
    BY StopIsKept, <2>1, <2>6
<1>2. ASSUME NEW sig \in Signatures, NEW result \in RunResults, ToolRound(sig, result)
      PROVE  StopInv'
  <2> DEFINE e == [kind |-> "round", id |-> lastId + 1, sig |-> sig, result |-> result]
  <2>1. e \in Entry /\ e.kind = "round" /\ e.id = lastId + 1
    BY <1>0 DEF Entry, TypeOK
  <2>2. Rest' /\ UNCHANGED event /\ Here /\ Append1(e)
    BY <1>0, <1>2 DEF ToolRound, Rest
  <2> HIDE DEF e
  <2>3. QED
    BY <2>1, <2>2, QuietStep
<1>3. ASSUME NEW output \in Outputs, Settle(output) PROVE StopInv'
  <2> DEFINE e == [kind |-> "stop", id |-> lastId + 1, output |-> output]
             rounds == {branch[i] : i \in Rounds(branch, LastUser, Len(branch) + 1)}
             m == Len(branch) + 1
  <2>1. e \in Entry /\ e.kind = "stop" /\ e.id = lastId + 1
    BY <1>0 DEF Entry, TypeOK
  <2>2. Here /\ Append1(e) /\ branch' = Append(branch, e)
    BY <1>3 DEF Settle, Append1
  <2>3. event' = [session |-> session, assistant |-> lastId + 1, output |-> output,
                  rounds |-> rounds, hook |-> turn.hook]
    BY <1>3 DEF Settle
  <2>4. rounds \subseteq Entry
    <3>1. \A i \in Rounds(branch, LastUser, Len(branch) + 1) : branch[i] \in Entry
      BY <1>0, EntryIds DEF Rounds, TypeOK
    <3>2. QED
      BY <3>1
  <2>5. Rest'
    <3>1. turn' \in Turns /\ turn.hook \in BOOLEAN
      BY <1>0, <1>3 DEF Settle, Rest, Turns
    <3>2. event' \in Event
      BY <1>0, <2>3, <2>4, <3>1 DEF Event, TypeOK
    <3>3. QED
      BY <1>0, <1>3, <3>1, <3>2 DEF Settle, Rest
  <2> HIDE DEF e
  <2>6. JournalsInv'
    BY <1>0, <2>1, <2>2, JournalAppended
  <2>7. Ends(branch', event')
    <3>1. /\ DOMAIN branch' = DOMAIN branch \cup {m} /\ DOMAIN branch = 1 .. Len(branch)
          /\ branch'[m] = e /\ \A i \in 1 .. Len(branch) : branch'[i] = branch[i]
          /\ Len(branch) \in Nat
      BY <1>0, <2>1, <2>2, Appended DEF TypeOK
    <3>2. LastUserOf(branch') = LastUser
      <4>1. {i \in DOMAIN branch' : branch'[i].kind = "user"}
              = {i \in DOMAIN branch : branch[i].kind = "user"}
        BY <2>1, <3>1
      <4>2. QED
        BY <4>1 DEF LastUserOf, LastUser
    <3>3. \A i \in Rounds(branch', LastUserOf(branch'), m) :
             i \in Rounds(branch, LastUser, m) /\ branch'[i] = branch[i]
      BY <3>1, <3>2 DEF Rounds
    <3>4. \A i \in Rounds(branch', LastUserOf(branch'), m) : branch'[i] \in event'.rounds
      BY <2>3, <3>3
    <3>5. m \in DOMAIN branch' /\ branch'[m].kind = "stop" /\ branch'[m].id = event'.assistant
      BY <2>1, <2>3, <3>1
    <3>6. \A i \in DOMAIN branch' : ~ (i > m)
      BY <3>1
    <3>7. \A i \in Rounds(branch, LastUser, m) : branch[i].id < lastId + 1
      <4>1. \A i \in DOMAIN branch : branch[i].id \in 1 .. lastId
        BY <1>0 DEF JournalsInv, IdsIncrease
      <4>2. \A i \in DOMAIN branch : branch[i].id < lastId + 1
        BY <1>0, <4>1 DEF JournalsInv
      <4>3. QED
        BY <4>2 DEF Rounds
    <3>8. \A r \in event'.rounds : r.id < event'.assistant
      BY <2>3, <3>7
    <3>9. QED
      BY <3>4, <3>5, <3>6, <3>8 DEF Ends
  <2>8. QED
    BY StopIsKept, <2>5, <2>6, <2>7
<1>4. CASE AgentEnd
  <2> DEFINE seen == observeExecutionTurn(Plan)
             e == CheckpointEntry(lastId + 1, seen)
  <2>1. Rest' /\ UNCHANGED event /\ Here
    <3>1. turn' \in Turns
      BY <1>0, <1>4 DEF AgentEnd, Rest, Turns
    <3>2. QED
      BY <1>0, <1>4, <3>1 DEF AgentEnd, Rest
  <2>2. CASE Open(Plan) /\ Updates(Plan, seen) /\ Append1(e)
    <3>1. Plan # NoCheckpoint
      BY <2>2 DEF Open, NoCheckpoint
    <3>2. Plan \in Checkpoint
      BY <1>0, <3>1, PlanIsRecord DEF Plan, TypeOK
    <3>3. seen \in Checkpoint
      BY <2>2, <3>2, RevisedPlan
    <3> HIDE DEF seen
    <3>4. e \in Entry /\ e.id = lastId + 1 /\ e.kind = "checkpoint"
      BY <1>0, <3>3 DEF CheckpointEntry, Entry, TypeOK
    <3> HIDE DEF e
    <3>5. QED
      BY <2>1, <2>2, <3>4, QuietStep
  <2>3. CASE UNCHANGED <<lastId, branch>>
    BY <1>0, StopIsKept, <2>1, <2>3, JournalKept
  <2>4. QED
    BY <1>4, <2>2, <2>3 DEF AgentEnd
\* a plan the operator begins or revises
<1>5. ASSUME NEW c \in Checkpoint, Append1(CheckpointEntry(lastId + 1, c)),
             UNCHANGED <<turn, event, handler, busy, moves, issued>>, Here
      PROVE  StopInv'
  <2> DEFINE e == CheckpointEntry(lastId + 1, c)
  <2>1. Rest'
    BY <1>0, <1>5 DEF Rest
  <2>2. e \in Entry /\ e.id = lastId + 1 /\ e.kind = "checkpoint"
    BY <1>0 DEF CheckpointEntry, Entry, TypeOK
  <2> HIDE DEF e
  <2>3. Append1(e)
    BY <1>5 DEF e
  <2>4. QED
    BY <1>5, <2>1, <2>2, <2>3, QuietStep
<1>19. CASE CommandTransition
  <2>1. PICK c \in Transitions(Plan) : Append1(CheckpointEntry(lastId + 1, c))
    BY <1>19 DEF CommandTransition
  <2>2. Plan \in Checkpoint
    BY <1>0, <1>19, PlanIsRecord DEF Plan, TypeOK, CommandTransition
  <2>3. Open(Plan) /\ Updates(Plan, c)
    BY DEF Transitions, transitionExecutionCheckpoint
  <2>4. c \in Checkpoint
    BY <2>2, <2>3, RevisedPlan
  <2>5. QED
    BY <1>5, <1>19, <2>1, <2>4 DEF CommandTransition
<1>20. CASE CommandBegin
  <2>1. createExecutionCheckpoint(session, "operator", NoPrompt) \in Checkpoint
    BY <1>0, NewPlan DEF TypeOK
  <2>2. QED
    BY <1>5, <1>20, <2>1 DEF CommandBegin
<1>6. ASSUME NEW h \in Handlers, SessionStop(h) PROVE StopInv'
  <2> DEFINE r == AttemptRecord(branch, session)
             e == [kind |-> "recovery", id |-> lastId + 1, data |-> r]
  <2>1. event # NoEvent /\ planIntelligentRecovery(branch, session, event)
    BY <1>6 DEF SessionStop
  <2>2. /\ Append1(e) /\ Here /\ UNCHANGED <<event, busy, moves>>
        /\ branch' = Append(branch, e)
    BY <1>6 DEF SessionStop, Append1
  <2>3. /\ e \in Entry /\ Written(Append(branch, e))
        /\ duplicateSettle(Append(branch, e), session, event)
    BY <2>1, StopJournals
  <2>4. e.id = lastId + 1 /\ e.kind = "recovery"
    OBVIOUS
  <2>5. \/ Settles /\ UNCHANGED handler
        \/ Selecting(h, lastId + 1) /\ Settles
        \/ Continue(lastId + 1, event, branch') /\ UNCHANGED handler
    BY <1>6 DEF SessionStop
  <2> HIDE DEF e, r
  <2>6. JournalsInv'
    BY <1>0, <2>2, <2>3, <2>4, JournalAppended
  <2>7. event' # NoEvent => Ends(branch', event')
    <3>1. branch \in Seq(Entry) /\ e.kind \notin {"user", "stop"}
      BY <1>0, <2>4 DEF TypeOK
    <3>2. QED
      BY <1>0, <2>1, <2>2, <2>3, <3>1, EndsAppended
  <2>8. Rest'
    <3>1. lastId + 1 \in Nat /\ event \in Event
      BY <1>0, <2>1 DEF TypeOK
    <3>2. CASE Settles /\ UNCHANGED handler
      BY <1>0, <2>2, <3>2 DEF Settles, Rest
    <3>3. CASE Selecting(h, lastId + 1) /\ Settles
      <4>1. handler' \in [Handlers -> {IdleHandler} \cup Selection]
        BY <1>0, <3>1, <3>3 DEF Selecting, Rest, Selection
      <4>2. QED
        BY <1>0, <2>2, <3>3, <4>1 DEF Settles, Rest
    <3>4. CASE Continue(lastId + 1, event, branch') /\ UNCHANGED handler
      <4>1. branch' \in Seq(Entry) /\ Messages(branch') # {}
        BY <2>2, <2>3, <2>6 DEF JournalsInv, Written
      <4>2. QED
        BY <1>0, <2>2, <3>1, <3>4, <4>1, Continues DEF Rest
    <3>5. QED
      BY <2>5, <3>2, <3>3, <3>4
  <2>9. QED
    BY StopIsKept, <2>6, <2>7, <2>8
<1>7. ASSUME NEW h \in Handlers, NEW changed \in BOOLEAN, ModelSelected(h, changed)
      PROVE  StopInv'
  <2>1. UNCHANGED <<branch, lastId, event, busy, moves>> /\ Here
    BY <1>7 DEF ModelSelected
  <2>2. JournalsInv'
    BY <1>0, <2>1, JournalKept
  <2>3. Rest'
    <3>1. handler' \in [Handlers -> {IdleHandler} \cup Selection]
      BY <1>0, <1>7 DEF ModelSelected, Rest
    <3>2. CASE Settles
      BY <1>0, <2>1, <3>1, <3>2 DEF Settles, Rest
    <3>3. CASE /\ ownsSettlement(branch, handler[h].event)
               /\ Continue(handler[h].record, handler[h].event, branch)
      <4>1. handler[h].event \in Event /\ handler[h].record \in Nat
        BY <1>0, <1>7 DEF ModelSelected, Rest, Selection
      <4>2. Messages(branch) # {} /\ branch \in Seq(Entry)
        BY <1>0, <3>3
           DEF ownsSettlement, duplicateSettle, Settlement, latestAssistantEntry, TypeOK
      <4>3. QED
        BY <1>0, <2>1, <3>1, <3>3, <4>1, <4>2, Continues DEF Rest
    <3>4. QED
      BY <1>7, <3>2, <3>3 DEF ModelSelected
  <2>4. QED
    BY <1>0, StopIsKept, <2>1, <2>2, <2>3
<1>8. CASE Busy
  <2>1. UNCHANGED <<branch, lastId, event>> /\ Here /\ Rest'
    BY <1>0, <1>8 DEF Busy, MoveCost, Rest
  <2>2. QED
    BY <1>0, StopIsKept, <2>1, JournalKept
<1>9. CASE Interrupt
  <2>1. UNCHANGED <<branch, lastId>> /\ Here /\ event' = NoEvent
    BY <1>9 DEF Interrupt
  <2>2. handler' \in [Handlers -> {IdleHandler} \cup Selection]
    <3>1. \A h \in Handlers : handler[h] # IdleHandler =>
             [handler[h] EXCEPT !.aborted = TRUE] \in Selection
      BY <1>0 DEF Rest, Selection
    <3>2. QED
      BY <1>9, <3>1 DEF Interrupt
  <2>3. turn' \in Turns
    BY <1>0, <1>9 DEF Interrupt, Rest, Turns
  <2>4. Rest'
    BY <1>0, <1>9, <2>1, <2>2, <2>3 DEF Interrupt, MoveCost, Rest
  <2>5. QED
    BY <1>0, <2>1, <2>4, JournalKept, StopIsKept
<1>10. CASE OtherHook
  <2>1. UNCHANGED <<branch, lastId, event>> /\ Here /\ Rest'
    <3>1. turn' \in Turns
      BY <1>0, <1>10 DEF OtherHook, Rest, Turns
    <3>2. QED
      BY <1>0, <1>10, <3>1 DEF OtherHook, MoveCost, Rest
  <2>2. QED
    BY <1>0, StopIsKept, <2>1, JournalKept
<1>11. CASE ForeignEntry
  <2> DEFINE e == New("foreign")
  <2>1. e \in Entry /\ e.id = lastId + 1 /\ e.kind = "foreign"
    BY <1>0 DEF New, Entry, TypeOK
  <2>2. Append1(e) /\ Here /\ UNCHANGED event /\ Rest'
    BY <1>0, <1>11 DEF ForeignEntry, MoveCost, Rest
  <2> HIDE DEF e
  <2>3. QED
    BY <2>1, <2>2, QuietStep
<1>12. CASE Crash
  <2>1. UNCHANGED <<branch, lastId>> /\ Here /\ event' = NoEvent /\ Rest'
    <3>1. turn' \in Turns
      BY <1>12 DEF Crash, Turns
    <3>2. handler' \in [Handlers -> {IdleHandler} \cup Selection]
      BY <1>12 DEF Crash
    <3>3. moves' \in 0 .. MaxMoves
      BY <1>0, <1>12 DEF Crash, MoveCost, Rest
    <3>4. QED
      BY <1>0, <1>12, <3>1, <3>2, <3>3 DEF Crash, Rest
  <2>2. QED
    BY <1>0, StopIsKept, <2>1, JournalKept
<1>13. ASSUME Leave,
              session' \in Sessions,
              \/ branch' = branch
              \/ branch' = away.branch
              \/ \E n \in 0 .. Len(branch) : branch' = SubSeq(branch, 1, n)
       PROVE  StopInv'
  <2>1. event' = NoEvent /\ Rest'
    <3>1. turn' \in Turns
      BY <1>13 DEF Leave, Turns
    <3>2. QED
      BY <1>0, <1>13, <3>1 DEF Leave, MoveCost, Rest
  <2>2. JournalsInv'
    BY <1>0, <1>13, JournalLeft
  <2>3. QED
    BY StopIsKept, <2>1, <2>2
<1>14. ASSUME NEW n \in 0 .. MaxId, Rewind(n) PROVE StopInv'
  <2>1. n \in 0 .. Len(branch)
    BY <1>0, <1>14 DEF Rewind, TypeOK
  <2>2. Leave /\ branch' = SubSeq(branch, 1, n) /\ session' \in Sessions
    BY <1>0, <1>14 DEF Rewind, TypeOK
  <2>3. QED
    BY <1>13, <2>1, <2>2
<1>15. ASSUME NEW s \in Sessions, Fork(s) PROVE StopInv'
  BY <1>13, <1>15 DEF Fork
<1>16. CASE Return
  <2>1. Leave /\ session' \in Sessions /\ branch' = away.branch
    BY <1>0, <1>16 DEF Return, TypeOK
  <2>2. QED
    BY <1>13, <2>1
<1>17. CASE UNCHANGED vars
  <2>1. UNCHANGED <<branch, lastId, event>> /\ Here /\ Rest'
    BY <1>0, <1>17 DEF vars, Rest, Here
  <2>2. QED
    BY <1>0, StopIsKept, <2>1, JournalKept
<1>18. QED
  <2>1. CASE Handle
    BY <1>6, <1>7, <2>1 DEF Handle
  <2>2. CASE Agent
    BY <1>1, <1>2, <1>3, <1>4, <1>19, <1>20, <2>2 DEF Agent
  <2>3. CASE Environment
    BY <1>8, <1>9, <1>10, <1>11, <1>12, <1>14, <1>15, <1>16, <2>3 DEF Environment
  <2>4. QED
    BY <1>17, <2>1, <2>2, <2>3 DEF Next

\* The invariant above holds in every reachable state.
THEOREM StopInvariant == Spec => []StopInv
BY StopInitially, StopStep, PTL DEF Spec

\* Every variable has its type.
THEOREM StopTypes == Spec => []TypeOK
<1>1. StopInv => TypeOK
  BY DEF StopInv
<1>2. QED
  BY <1>1, StopInvariant, PTL

-----------------------------------------------------------------------------
(* The properties.                                                         *)

\* No more than Limit attempts without progress, whatever hooks, restarts,
\* operators, moves and entries of later versions come between them.
THEOREM AttemptsAreBounded == Spec => []AttemptsNeedProgress
<1>1. StopInv => AttemptsNeedProgress
  <2> SUFFICES ASSUME StopInv,
                      NEW i \in AttemptEntries(branch), NEW j \in Records(branch), i < j,
                      Cardinality({k \in AttemptEntries(branch) : i <= k /\ k < j}) = Limit
               PROVE  Progress(branch, i, j)
    BY DEF AttemptsNeedProgress
  <2>1. branch \in Seq(Entry) /\ Attempts(branch)
    BY DEF StopInv, JournalsInv
  <2>2. j \in DOMAIN branch /\ branch[j].kind = "recovery"
    BY DEF Records
  <2>3. \A k \in AttemptEntries(branch) : k < j => k \in Records(branch)
    <3>1. \A k \in DOMAIN branch : Anchor(branch) < k /\ k < j => branch[k].kind # "foreign"
      BY <2>1, <2>2, AttemptFacts
    <3>2. QED
      BY <3>1 DEF AttemptEntries, Records
  <2>4. Records(branch) \subseteq AttemptEntries(branch)
    BY DEF AttemptEntries, Records
  <2>5. {k \in AttemptEntries(branch) : i <= k /\ k < j}
          = {k \in Records(branch) : i <= k /\ k < j}
    BY <2>3, <2>4
  <2>6. i \in Records(branch)
    BY <2>3
  <2>7. QED
    BY <2>1, <2>5, <2>6, BudgetHolds
<1>2. QED
  BY <1>1, StopInvariant, PTL

LEMMA LastAppended ==
    ASSUME branch \in Seq(Entry), NEW e \in Entry, Append1(e)
    PROVE  branch'[Len(branch')] = e
BY Appended DEF Append1

\* Only session_stop journals an attempt.
LEMMA AttemptIsStop ==
    ASSUME StopInv, [Next]_vars, AttemptJournaled
    PROVE  \E h \in Handlers : SessionStop(h)
<1>0. /\ branch \in Seq(Entry) /\ lastId \in Nat
      /\ lastId' = lastId + 1 /\ branch'[Len(branch')].kind = "recovery"
  BY DEF StopInv, TypeOK, AttemptJournaled
<1>1. lastId' # lastId /\ lastId' # lastId + 2
  BY <1>0
<1>2. \A e \in Entry : Append1(e) => e.kind = "recovery"
  BY <1>0, LastAppended
<1>3. ASSUME NEW p \in UserPrompts, BeforeAgentStart(p) PROVE FALSE
  <2>1. Append1(New("user")) \/ lastId' = lastId + 2
    BY <1>3 DEF BeforeAgentStart
  <2>2. New("user") \in Entry /\ New("user").kind = "user"
    BY <1>0 DEF New, Entry
  <2>3. QED
    BY <1>1, <1>2, <2>1, <2>2
<1>4. ASSUME NEW sig \in Signatures, NEW result \in RunResults, ToolRound(sig, result)
      PROVE  FALSE
  <2> DEFINE e == [kind |-> "round", id |-> lastId + 1, sig |-> sig, result |-> result]
  <2>1. e \in Entry /\ e.kind = "round"
    BY <1>0, SessionStopAssumption DEF Entry
  <2>2. Append1(e)
    BY <1>4 DEF ToolRound
  <2> HIDE DEF e
  <2>3. QED
    BY <1>2, <2>1, <2>2
<1>5. ASSUME NEW output \in Outputs, Settle(output) PROVE FALSE
  <2> DEFINE e == [kind |-> "stop", id |-> lastId + 1, output |-> output]
  <2>1. e \in Entry /\ e.kind = "stop"
    BY <1>0 DEF Entry
  <2>2. Append1(e)
    BY <1>5 DEF Settle
  <2> HIDE DEF e
  <2>3. QED
    BY <1>2, <2>1, <2>2
<1>6. ASSUME NEW c \in Checkpoint, Append1(CheckpointEntry(lastId + 1, c)) PROVE FALSE
  <2>1. /\ CheckpointEntry(lastId + 1, c) \in Entry
        /\ CheckpointEntry(lastId + 1, c).kind = "checkpoint"
    BY <1>0 DEF CheckpointEntry, Entry
  <2>2. QED
    BY <1>2, <1>6, <2>1
<1>7. Plan # NoCheckpoint => Plan \in Checkpoint
  BY <1>0, PlanIsRecord DEF Plan
<1>8. ~ AgentEnd
  <2> SUFFICES ASSUME AgentEnd PROVE FALSE
    OBVIOUS
  <2> DEFINE seen == observeExecutionTurn(Plan)
  <2>1. Open(Plan) /\ Updates(Plan, seen) /\ Append1(CheckpointEntry(lastId + 1, seen))
    BY <1>1 DEF AgentEnd
  <2>2. Plan \in Checkpoint
    BY <1>7, <2>1 DEF Open, NoCheckpoint
  <2>3. seen \in Checkpoint
    BY <2>1, <2>2, RevisedPlan
  <2>4. QED
    BY <1>6, <2>1, <2>3
<1>9. ~ CommandTransition
  <2> SUFFICES ASSUME CommandTransition PROVE FALSE
    OBVIOUS
  <2>1. PICK c \in Transitions(Plan) : Append1(CheckpointEntry(lastId + 1, c))
    BY DEF CommandTransition
  <2>2. Plan \in Checkpoint
    BY <1>7 DEF CommandTransition
  <2>3. Open(Plan) /\ Updates(Plan, c)
    BY DEF Transitions, transitionExecutionCheckpoint
  <2>4. c \in Checkpoint
    BY <2>2, <2>3, RevisedPlan
  <2>5. QED
    BY <1>6, <2>1, <2>4
<1>10. ~ ForeignEntry
  <2>1. New("foreign") \in Entry /\ New("foreign").kind = "foreign"
    BY <1>0 DEF New, Entry
  <2>2. QED
    BY <1>2, <2>1 DEF ForeignEntry
<1>16. ~ CommandBegin
  <2>1. session \in Sessions
    BY DEF StopInv, TypeOK
  <2>2. createExecutionCheckpoint(session, "operator", NoPrompt) \in Checkpoint
    BY <2>1, NewPlan
  <2>3. QED
    BY <1>6, <2>2 DEF CommandBegin
<1>11. ~ Agent
  BY <1>3, <1>4, <1>5, <1>8, <1>9, <1>16, SessionStopAssumption DEF Agent
<1>12. ~ Environment
  BY <1>1, <1>10 DEF Environment, Busy, Interrupt, OtherHook, Crash, Rewind, Fork, Return, Leave
<1>13. \A h \in Handlers, changed \in BOOLEAN : ~ ModelSelected(h, changed)
  BY <1>1 DEF ModelSelected
<1>14. ~ UNCHANGED vars
  BY <1>1 DEF vars
<1>15. QED
  BY <1>11, <1>12, <1>13, <1>14 DEF Next, Handle

\* What the handler journals it can read back, and it leaves the settlement
\* owned that the attempt was journaled for.
THEOREM RecordsReadBack == Spec => OwnRecordsAreReadable
<1>1. StopInv /\ [Next]_vars =>
        [AttemptJournaled => duplicateSettle(branch', session, event)]_vars
  <2> SUFFICES ASSUME StopInv, [Next]_vars, AttemptJournaled
               PROVE  duplicateSettle(branch', session, event)
    OBVIOUS
  <2>1. PICK h \in Handlers : SessionStop(h)
    BY AttemptIsStop
  <2>2. QED
    BY <2>1, StopJournals DEF SessionStop, Append1
<1>2. QED
  BY <1>1, StopInvariant, PTL DEF Spec, OwnRecordsAreReadable

-----------------------------------------------------------------------------
(* Continuations.                                                          *)

\* Only session_stop continues a turn, at once or after its model selection.
LEMMA ContinuationIsStop ==
    ASSUME [Next]_vars, issued' # issued
    PROVE  \E h \in Handlers :
             \/ /\ SessionStop(h)
                /\ Continue(lastId + 1, event, branch')
             \/ /\ \E changed \in BOOLEAN : ModelSelected(h, changed)
                /\ handler[h] # IdleHandler
                /\ ownsSettlement(branch, handler[h].event)
                /\ Continue(handler[h].record, handler[h].event, branch)
<1>1. ~ UNCHANGED vars
  BY DEF vars
<1>2. ~ Agent
  BY DEF Agent, BeforeAgentStart, ToolRound, Settle, AgentEnd, CommandBegin, CommandTransition
<1>3. ~ Environment
  BY DEF Environment, Busy, Interrupt, OtherHook, ForeignEntry, Crash, Rewind, Fork,
         Return, Leave
<1>4. PICK h \in Handlers : SessionStop(h) \/ \E changed \in BOOLEAN : ModelSelected(h, changed)
  BY <1>1, <1>2, <1>3 DEF Next, Handle
<1>5. CASE SessionStop(h)
  BY <1>5 DEF SessionStop, Settles
<1>6. CASE \E changed \in BOOLEAN : ModelSelected(h, changed)
  BY <1>6 DEF ModelSelected, Settles
<1>7. QED
  BY <1>4, <1>5, <1>6

\* A settlement that is owned by its last attempt has no unknown outcome.
LEMMA OwnedIsCertain ==
    ASSUME NEW b \in Seq(Entry), Attempts(b), NEW s, NEW ev, duplicateSettle(b, s, ev)
    PROVE  AllCertain(b, LastUserOf(b), Len(b) + 1)
<1> DEFINE L == Last(Records(b))
<1>1. Records(b) # {} /\ Records(b) \subseteq DOMAIN b
  BY DEF duplicateSettle, AlreadySpent, Records
<1>2. L \in Records(b)
  BY <1>1, LastPosition, Zenon
<1> HIDE DEF L
<1>3. L \in DOMAIN b /\ b[L].kind = "recovery" /\ L \in 1 .. Len(b) /\ Len(b) \in Nat
  BY <1>1, <1>2 DEF Records
<1>4. AllCertain(b, LastUserOf(b), L)
  BY <1>3, AttemptFacts
<1>5. AllCertain(b, L, Len(b) + 1)
  BY <1>1 DEF duplicateSettle, Settlement, LedgerValid, L
<1>6. \A i \in Rounds(b, LastUserOf(b), Len(b) + 1) :
         i \in Rounds(b, LastUserOf(b), L) \/ i \in Rounds(b, L, Len(b) + 1)
  BY <1>3 DEF Rounds
<1>7. QED
  BY <1>4, <1>5, <1>6 DEF AllCertain

\* No continuation follows a tool call whose outcome is unknown.
THEOREM UncertaintyBlocks == Spec => UnknownOutcomeBlocks
<1>1. StopInv /\ StopInv' /\ [Next]_vars =>
        [issued' # issued =>
           AllCertain(branch', Last({i \in DOMAIN branch' : branch'[i].kind = "user"}),
                      Len(branch') + 1)]_vars
  <2> SUFFICES ASSUME StopInv, [Next]_vars, issued' # issued
               PROVE  AllCertain(branch', LastUserOf(branch'), Len(branch') + 1)
    BY DEF LastUserOf
  <2>1. PICK h \in Handlers :
             \/ /\ SessionStop(h)
                /\ Continue(lastId + 1, event, branch')
             \/ /\ \E changed \in BOOLEAN : ModelSelected(h, changed)
                /\ handler[h] # IdleHandler
                /\ ownsSettlement(branch, handler[h].event)
                /\ Continue(handler[h].record, handler[h].event, branch)
    BY ContinuationIsStop
  <2>2. CASE SessionStop(h)
    BY <2>2, StopJournals DEF SessionStop, Append1
  <2>3. CASE /\ \E changed \in BOOLEAN : ModelSelected(h, changed)
             /\ ownsSettlement(branch, handler[h].event)
    <3>1. branch' = branch
      BY <2>3 DEF ModelSelected
    <3>2. branch \in Seq(Entry) /\ Attempts(branch)
      BY DEF StopInv, JournalsInv
    <3>3. duplicateSettle(branch, session, handler[h].event)
      BY <2>3 DEF ownsSettlement
    <3>4. QED
      BY <3>1, <3>2, <3>3, OwnedIsCertain
  <2>4. QED
    BY <2>1, <2>2, <2>3
<1>2. QED
  BY <1>1, StopInvariant, PTL DEF Spec, UnknownOutcomeBlocks

-----------------------------------------------------------------------------
(* Whose continuation it is.  An empty response is compared by content, so *)
(* two of them are one to the handler; every other response is continued   *)
(* at most once.  A response is spent when it was continued or a handler   *)
(* is selecting a model for it.                                            *)

Selects(h) == handler[h] # IdleHandler
For(h) == handler[h].event.assistant
Continued == {y.tip : y \in issued}
Spent(t) == t \in Continued \/ \E h \in Handlers : Selects(h) /\ For(h) = t
AttemptsFor(b, t) == {i \in DOMAIN b : b[i].kind = "recovery" /\ b[i].data.assistant = t}

\* A spent response is one the branch holds an attempt for.
EventOwn ==
    event # NoEvent =>
        /\ event.output # "empty"
        /\ Spent(event.assistant) => AttemptsFor(branch, event.assistant) # {}
        /\ AttemptsFor(away.branch, event.assistant) = {}

ContinuedOld == \A t \in Continued : t <= lastId

\* A handler that selects a model is the only one to do so for its response,
\* and no place holds another attempt for it than the handler's.
HandlersOwn ==
    \A h \in Handlers : Selects(h) =>
        /\ handler[h].event.output # "empty"
        /\ For(h) <= lastId /\ For(h) \notin Continued
        /\ \A i \in Handlers : Selects(i) /\ For(i) = For(h) => i = h
        /\ \A b \in {branch, away.branch} :
              \A i \in AttemptsFor(b, For(h)) : b[i].id = handler[h].record

OwnInv == EventOwn /\ ContinuedOld /\ HandlersOwn

\* The step brings no attempt that neither place had.
NoNewAttempt ==
    \A c \in {branch', away'.branch} : \A i \in DOMAIN c : c[i].kind = "recovery" =>
        \E b \in {branch, away.branch} : \E j \in DOMAIN b : b[j] = c[i]

BranchGrows ==
    /\ away' = away
    /\ \A i \in DOMAIN branch : i \in DOMAIN branch' /\ branch'[i] = branch[i]

LEMMA QuietGrowth ==
    ASSUME branch \in Seq(Entry), Here,
           \/ \E e : e.kind # "recovery" /\ branch' = Append(branch, e)
           \/ \E x, y : x.kind # "recovery" /\ y.kind # "recovery"
                          /\ branch' = branch \o <<x, y>>
           \/ branch' = branch
    PROVE  NoNewAttempt /\ BranchGrows
<1>1. ASSUME NEW e, e.kind # "recovery", branch' = Append(branch, e)
      PROVE  NoNewAttempt /\ BranchGrows
  <2>1. branch \in Seq(Entry \cup {e})
    BY SeqMonotonic
  <2>2. /\ Len(branch') = Len(branch) + 1 /\ branch' \in Seq(Entry \cup {e})
        /\ branch'[Len(branch) + 1] = e
        /\ \A i \in 1 .. Len(branch) : branch'[i] = branch[i]
    BY <1>1, <2>1, AppendProperties
  <2>3. DOMAIN branch' = 1 .. Len(branch') /\ DOMAIN branch = 1 .. Len(branch)
          /\ Len(branch) \in Nat
    BY <2>1, <2>2, LenProperties
  <2>4. BranchGrows
    BY <2>2, <2>3 DEF BranchGrows, Here
  <2>5. \A i \in DOMAIN branch' : branch'[i].kind = "recovery" =>
           i \in DOMAIN branch /\ branch[i] = branch'[i]
    <3> SUFFICES ASSUME NEW i \in DOMAIN branch', branch'[i].kind = "recovery"
                 PROVE  i \in DOMAIN branch /\ branch[i] = branch'[i]
      OBVIOUS
    <3>1. i # Len(branch) + 1
      BY <1>1, <2>2
    <3>2. i \in 1 .. Len(branch)
      BY <2>2, <2>3, <3>1
    <3>3. QED
      BY <2>2, <2>3, <3>2
  <2>6. QED
    BY <2>4, <2>5 DEF NoNewAttempt, Here
<1>2. ASSUME NEW x, NEW y, x.kind # "recovery", y.kind # "recovery",
             branch' = branch \o <<x, y>>
      PROVE  NoNewAttempt /\ BranchGrows
  <2>1. branch \in Seq(Entry \cup {x, y}) /\ <<x, y>> \in Seq(Entry \cup {x, y})
    BY SeqMonotonic
  <2>2. Len(<<x, y>>) = 2 /\ <<x, y>>[1] = x /\ <<x, y>>[2] = y
    OBVIOUS
  <2>3. /\ Len(branch') = Len(branch) + 2 /\ branch' \in Seq(Entry \cup {x, y})
        /\ \A i \in 1 .. Len(branch) + 2 :
              branch'[i] = IF i <= Len(branch) THEN branch[i] ELSE <<x, y>>[i - Len(branch)]
    BY <1>2, <2>1, <2>2, ConcatProperties
  <2>4. DOMAIN branch' = 1 .. Len(branch) + 2 /\ DOMAIN branch = 1 .. Len(branch)
          /\ Len(branch) \in Nat
    BY <2>3
  <2>5. BranchGrows
    BY <2>3, <2>4 DEF BranchGrows, Here
  <2>6. \A i \in DOMAIN branch' :
           i \in DOMAIN branch \/ i - Len(branch) = 1 \/ i - Len(branch) = 2
    BY <2>4
  <2>7. \A i \in DOMAIN branch' : branch'[i].kind = "recovery" =>
           i \in DOMAIN branch /\ branch[i] = branch'[i]
    <3> SUFFICES ASSUME NEW i \in DOMAIN branch', branch'[i].kind = "recovery"
                 PROVE  i \in DOMAIN branch /\ branch[i] = branch'[i]
      OBVIOUS
    <3>1. CASE i \in DOMAIN branch
      BY <2>3, <2>4, <3>1
    <3>0. i \in 1 .. Len(branch) + 2 /\ Len(branch) \in Nat /\ i \in Int
      BY <2>4
    <3>2. CASE i - Len(branch) = 1
      <4>1. ~ (i <= Len(branch))
        BY <3>0, <3>2
      <4>2. branch'[i] = <<x, y>>[i - Len(branch)]
        BY <2>3, <3>0, <4>1
      <4>3. branch'[i] = x
        BY <2>2, <3>2, <4>2
      <4>4. QED
        BY <1>2, <4>3
    <3>3. CASE i - Len(branch) = 2
      <4>1. ~ (i <= Len(branch))
        BY <3>0, <3>3
      <4>2. branch'[i] = <<x, y>>[i - Len(branch)]
        BY <2>3, <3>0, <4>1
      <4>3. branch'[i] = y
        BY <2>2, <3>3, <4>2
      <4>4. QED
        BY <1>2, <4>3
    <3>4. QED
      BY <2>6, <3>1, <3>2, <3>3
  <2>8. QED
    BY <2>5, <2>7 DEF NoNewAttempt, Here
<1>3. CASE branch' = branch
  BY <1>3 DEF NoNewAttempt, BranchGrows, Here
<1>4. QED
  BY <1>1, <1>2, <1>3

\* What a step does to the invariant that continues nothing, selects nothing
\* and journals no attempt.
LEMMA OwnKept ==
    ASSUME StopInv, OwnInv, NoNewAttempt,
           issued' = issued, lastId' \in Nat, lastId <= lastId',
           \A h \in Handlers : handler'[h] # IdleHandler =>
              /\ handler[h] # IdleHandler
              /\ handler'[h].event = handler[h].event
              /\ handler'[h].record = handler[h].record
    PROVE  /\ ContinuedOld' /\ HandlersOwn'
           /\ event' = NoEvent \/ (event' = event /\ BranchGrows) => OwnInv'
<1>0. lastId \in Nat /\ issued \subseteq [record : Nat, planned : Nat, tip : Nat]
        /\ \A h \in Handlers : Selects(h) => For(h) \in Nat
  BY StopInvIs DEF Rest, Selection, Selects, For, Event, JournalsInv
<1>1. \A h \in Handlers : Selects(h)' => Selects(h) /\ For(h)' = For(h)
  BY DEF Selects, For
<1>2. Continued' = Continued
  BY DEF Continued
<1>3. \A t : Spent(t)' => Spent(t)
  BY <1>1, <1>2 DEF Spent
<1>4. ContinuedOld'
  <2>1. \A t \in Continued : t \in Nat
    BY <1>0 DEF Continued
  <2>2. QED
    BY <1>0, <1>2, <2>1 DEF OwnInv, ContinuedOld
<1>5. ASSUME NEW h \in Handlers, Selects(h)'
      PROVE  /\ handler'[h].event.output # "empty"
             /\ For(h)' <= lastId' /\ For(h)' \notin Continued'
             /\ \A i \in Handlers : Selects(i)' /\ For(i)' = For(h)' => i = h
             /\ \A b \in {branch', away'.branch} :
                   \A i \in AttemptsFor(b, For(h)') : b[i].id = handler'[h].record
  <2>1. /\ handler[h].event.output # "empty"
        /\ For(h) <= lastId /\ For(h) \notin Continued
        /\ \A i \in Handlers : Selects(i) /\ For(i) = For(h) => i = h
        /\ \A b \in {branch, away.branch} :
              \A i \in AttemptsFor(b, For(h)) : b[i].id = handler[h].record
    BY <1>1, <1>5 DEF OwnInv, HandlersOwn
  <2>2. handler'[h].event = handler[h].event /\ handler'[h].record = handler[h].record
    BY <1>5 DEF Selects
  <2>3. For(h)' = For(h) /\ For(h) \in Nat
    BY <1>0, <1>1, <1>5
  <2>4. For(h)' <= lastId'
    BY <1>0, <2>1, <2>3
  <2>5. \A i \in Handlers : Selects(i)' /\ For(i)' = For(h)' => i = h
    BY <1>1, <2>1, <2>3
  <2>6. ASSUME NEW b \in {branch', away'.branch}, NEW i \in AttemptsFor(b, For(h))
        PROVE  b[i].id = handler[h].record
    <3>1. i \in DOMAIN b /\ b[i].kind = "recovery" /\ b[i].data.assistant = For(h)
      BY DEF AttemptsFor
    <3>2. PICK d \in {branch, away.branch} : \E j \in DOMAIN d : d[j] = b[i]
      BY <3>1 DEF NoNewAttempt
    <3>3. PICK j \in DOMAIN d : d[j] = b[i]
      BY <3>2
    <3>4. j \in AttemptsFor(d, For(h))
      BY <3>1, <3>3 DEF AttemptsFor
    <3>5. QED
      BY <2>1, <3>3, <3>4
  <2>7. QED
    BY <1>2, <2>1, <2>2, <2>3, <2>4, <2>5, <2>6
<1>6. HandlersOwn'
  BY <1>5 DEF HandlersOwn
<1>7. ASSUME event' = NoEvent \/ (event' = event /\ BranchGrows)
      PROVE  EventOwn'
  <2>1. CASE event' = NoEvent
    BY <2>1 DEF EventOwn
  <2>2. CASE event' = event /\ BranchGrows
    <3>1. \A t : AttemptsFor(branch, t) \subseteq AttemptsFor(branch', t)
      BY <2>2 DEF BranchGrows, AttemptsFor
    <3>2. away' = away
      BY <2>2 DEF BranchGrows
    <3>3. QED
      BY <1>3, <2>2, <3>1, <3>2 DEF OwnInv, EventOwn
  <2>3. QED
    BY <1>7, <2>1, <2>2
<1>8. QED
  BY <1>4, <1>6, <1>7 DEF OwnInv

\* The response an attempt is made for is an earlier entry.
LEMMA AttemptsLookBack ==
    ASSUME NEW b \in Seq(Entry), NEW n \in Nat, IdsIncrease(b, n), Attempts(b),
           NEW t, AttemptsFor(b, t) # {}
    PROVE  t \in 1 .. n
<1>1. PICK i \in DOMAIN b : b[i].kind = "recovery" /\ b[i].data.assistant = t
  BY DEF AttemptsFor
<1>2. PICK k \in Messages(b) : b[i].data.assistant = b[k].id
  BY <1>1, AttemptFacts
<1>3. k \in DOMAIN b
  BY DEF Messages
<1>4. QED
  BY <1>1, <1>2, <1>3 DEF IdsIncrease

\* The response the handler is about to journal an attempt for has none yet,
\* of this plan or of an earlier one.
LEMMA NoAttemptYet ==
    ASSUME StopInv, event # NoEvent, event.output # "empty",
           planIntelligentRecovery(branch, session, event)
    PROVE  /\ Tip(branch).id = event.assistant
           /\ event.assistant \in 1 .. lastId
           /\ AttemptsFor(branch, event.assistant) = {}
<1>0. /\ branch \in Seq(Entry) /\ session \in Sessions /\ event \in Event
      /\ IdsIncrease(branch, lastId) /\ lastId \in Nat
      /\ Attempts(branch) /\ Ends(branch, event)
      /\ DOMAIN branch = 1 .. Len(branch) /\ Len(branch) \in Nat
  BY DEF StopInv, TypeOK, JournalsInv
<1>1. Eligible(branch, session, event) /\ Tip(branch).id = event.assistant
  BY DEF planIntelligentRecovery, Eligible, Settlement, latestAssistantEntry
<1>2. /\ Last(Messages(branch)) \in DOMAIN branch
      /\ \A i \in Records(branch) : branch[i].data.assistant # event.assistant
  BY <1>0, <1>1, Fresh DEF IdsIncrease
<1>3. event.assistant \in 1 .. lastId
  BY <1>0, <1>1, <1>2 DEF Tip, IdsIncrease
<1>4. ASSUME NEW i \in AttemptsFor(branch, event.assistant)
      PROVE  FALSE
  <2>1. i \in DOMAIN branch /\ branch[i].kind = "recovery"
          /\ branch[i].data.assistant = event.assistant
    BY DEF AttemptsFor
  <2>2. PICK k \in DOMAIN branch :
          /\ branch[k].kind = "stop"
          /\ branch[k].id = event.assistant
    BY <1>0 DEF Ends
  <2>3. PICK l \in Messages(branch) : l < i /\ branch[l].id = event.assistant
    BY <1>0, <2>1, AttemptFacts
  <2>4. l = k
    <3>1. l \in DOMAIN branch /\ branch[l].id = branch[k].id /\ branch[k].id \in Nat
            /\ branch[l].id \in Nat
      BY <1>0, <2>2, <2>3, EntryIds DEF Messages
    <3>2. ~ (l < k) /\ ~ (k < l)
      BY <1>0, <3>1 DEF IdsIncrease
    <3>3. QED
      BY <1>0, <3>1, <3>2
  \* the plan began before the rounds the response ended
  <2>5. Anchor(branch) <= k
    <3>1. PICK r \in event.rounds :
             \E p \in Rounds(branch, Anchor(branch), Len(branch) + 1) : branch[p] = r
      BY <1>1 DEF Eligible, ToolsKnown
    <3>2. PICK p \in DOMAIN branch : Anchor(branch) < p /\ branch[p] = r
      BY <3>1 DEF Rounds
    <3>3. branch[p].id < branch[k].id
      BY <1>0, <2>2, <3>2 DEF Ends
    <3>4. ~ (k < p) /\ p # k
      <4>1. branch[p].id \in Nat /\ branch[k].id \in Nat
        BY <1>0, <2>2, <3>2, EntryIds
      <4>2. QED
        BY <1>0, <2>2, <3>2, <3>3, <4>1 DEF IdsIncrease
    <3>5. QED
      BY <1>0, <2>2, <3>2, <3>4, AnchorIs
  <2>6. i \in Records(branch)
    BY <1>0, <2>1, <2>3, <2>4, <2>5, AnchorIs DEF Records
  <2>7. QED
    BY <1>2, <2>1, <2>6
<1>5. QED
  BY <1>1, <1>3, <1>4

\* What session_stop does to the invariant, whichever of its three ends it has.
LEMMA OwnAtStop ==
    ASSUME StopInv, OwnInv, StopInv', NEW h \in Handlers, SessionStop(h)
    PROVE  OwnInv'
<1> DEFINE r == AttemptRecord(branch, session)
           e == [kind |-> "recovery", id |-> lastId + 1, data |-> r]
           t == event.assistant
           m == Len(branch) + 1
<1>0. /\ branch \in Seq(Entry) /\ lastId \in Nat /\ event \in Event /\ Len(branch) \in Nat
      /\ handler \in [Handlers -> {IdleHandler} \cup Selection]
      /\ event # NoEvent /\ event.output # "empty" /\ handler[h] = IdleHandler
      /\ planIntelligentRecovery(branch, session, event)
  BY StopInvIs DEF SessionStop, JournalsInv, Rest, OwnInv, EventOwn
<1>1. /\ Tip(branch).id = t /\ t \in 1 .. lastId /\ AttemptsFor(branch, t) = {}
      /\ AttemptsFor(away.branch, t) = {}
  BY <1>0, NoAttemptYet DEF OwnInv, EventOwn
<1>2. ~ Spent(t)
  BY <1>0, <1>1 DEF OwnInv, EventOwn
<1>3. /\ branch' = Append(branch, e) /\ lastId' = lastId + 1
      /\ event' = event /\ away' = away
  BY DEF SessionStop, Append1, Here
<1>4. e \in Entry /\ r.assistant = t /\ Tip(branch').id = t
  BY <1>0, <1>1, <1>3, StopJournals
<1>5. e.kind = "recovery" /\ e.data.assistant = t /\ e.id = lastId + 1
  BY <1>4
<1>6. \/ Settles /\ UNCHANGED handler
      \/ Selecting(h, lastId + 1) /\ Settles
      \/ Continue(lastId + 1, event, branch') /\ UNCHANGED handler
  BY DEF SessionStop
<1> HIDE DEF e, r
<1>7. /\ DOMAIN branch' = DOMAIN branch \cup {m} /\ DOMAIN branch = 1 .. Len(branch)
      /\ branch'[m] = e
      /\ \A i \in 1 .. Len(branch) : branch'[i] = branch[i]
  BY <1>0, <1>3, <1>4, Appended
<1>8. AttemptsFor(branch', t) = {m}
  BY <1>1, <1>5, <1>7 DEF AttemptsFor
<1>9. \A u : u # t => AttemptsFor(branch', u) = AttemptsFor(branch, u)
  BY <1>5, <1>7 DEF AttemptsFor
<1>10. EventOwn'
  BY <1>0, <1>1, <1>3, <1>8 DEF EventOwn
<1>11. Continued' = Continued \/ Continued' = Continued \cup {t}
  <2>1. CASE issued' = issued
    BY <2>1 DEF Continued
  <2>2. CASE Continue(lastId + 1, event, branch')
    BY <1>4, <2>2 DEF Continue, Continued
  <2>3. QED
    BY <1>6, <2>1, <2>2 DEF Settles
<1>12. ContinuedOld'
  <2>1. \A u \in Continued : u \in Nat /\ u <= lastId
    <3>1. issued \subseteq [record : Nat, planned : Nat, tip : Nat]
      BY StopInvIs DEF Rest
    <3>2. QED
      BY <3>1 DEF Continued, OwnInv, ContinuedOld
  <2>2. QED
    BY <1>0, <1>1, <1>3, <1>11, <2>1 DEF ContinuedOld
\* a handler that was selecting before
<1>13. ASSUME NEW i \in Handlers, Selects(i)
       PROVE  /\ i # h /\ handler'[i] = handler[i] /\ For(i) # t
              /\ handler[i].event.output # "empty"
              /\ For(i) <= lastId' /\ For(i) \notin Continued'
              /\ \A k \in Handlers : Selects(k) /\ For(k) = For(i) => k = i
              /\ \A b \in {branch', away'.branch} :
                    \A j \in AttemptsFor(b, For(i)) : b[j].id = handler[i].record
  <2>1. i # h
    BY <1>0, <1>13 DEF Selects
  <2>2. handler'[i] = handler[i]
    BY <1>0, <1>6, <2>1 DEF Selecting
  <2>3. For(i) # t
    BY <1>2, <1>13 DEF Spent
  <2>4. /\ handler[i].event.output # "empty"
        /\ For(i) <= lastId /\ For(i) \notin Continued
        /\ \A k \in Handlers : Selects(k) /\ For(k) = For(i) => k = i
        /\ \A b \in {branch, away.branch} :
              \A j \in AttemptsFor(b, For(i)) : b[j].id = handler[i].record
    BY <1>13 DEF OwnInv, HandlersOwn
  <2>5. For(i) <= lastId'
    <3>1. For(i) \in Nat
      BY <1>0, <1>13 DEF Selects, For, Selection, Event
    <3>2. QED
      BY <1>0, <1>3, <2>4, <3>1
  <2>6. For(i) \notin Continued'
    BY <1>11, <2>3, <2>4
  <2>7. AttemptsFor(branch', For(i)) = AttemptsFor(branch, For(i))
    BY <1>9, <2>3
  <2>8. \A j \in AttemptsFor(branch', For(i)) : branch'[j] = branch[j]
    BY <1>7, <2>7 DEF AttemptsFor
  <2>9. \A b \in {branch', away'.branch} :
           \A j \in AttemptsFor(b, For(i)) : b[j].id = handler[i].record
    BY <1>3, <2>4, <2>7, <2>8
  <2>10. QED
    BY <2>1, <2>2, <2>3, <2>4, <2>5, <2>6, <2>9
<1>14. CASE UNCHANGED handler
  <2>1. \A i \in Handlers : Selects(i)' <=> Selects(i)
    BY <1>14 DEF Selects
  <2>2. \A i \in Handlers : For(i)' = For(i)
    BY <1>14 DEF For
  <2>3. HandlersOwn'
    BY <1>13, <1>14, <2>1, <2>2 DEF HandlersOwn
  <2>4. QED
    BY <1>10, <1>12, <2>3 DEF OwnInv
<1>15. CASE Selecting(h, lastId + 1) /\ Settles
  <2>1. /\ handler'[h].event = event /\ handler'[h].record = lastId + 1
        /\ \A i \in Handlers : i # h => handler'[i] = handler[i]
    BY <1>0, <1>15 DEF Selecting
  <2>2. For(h)' = t /\ \A i \in Handlers : i # h => For(i)' = For(i) /\ (Selects(i)' <=> Selects(i))
    BY <2>1 DEF For, Selects
  <2>3. Continued' = Continued
    BY <1>15 DEF Settles, Continued
  <2>4. ASSUME NEW i \in Handlers, Selects(i)'
        PROVE  /\ handler'[i].event.output # "empty"
               /\ For(i)' <= lastId' /\ For(i)' \notin Continued'
               /\ \A k \in Handlers : Selects(k)' /\ For(k)' = For(i)' => k = i
               /\ \A b \in {branch', away'.branch} :
                     \A j \in AttemptsFor(b, For(i)') : b[j].id = handler'[i].record
    <3>1. CASE i # h
      <4>1. Selects(i) /\ For(i)' = For(i)
        BY <2>2, <2>4, <3>1
      <4>2. \A k \in Handlers : Selects(k)' /\ For(k)' = For(i)' => k = i
        BY <1>13, <2>2, <4>1
      <4>3. QED
        BY <1>13, <4>1, <4>2
    <3>2. CASE i = h
      <4>1. t <= lastId' /\ t \notin Continued'
        BY <1>0, <1>1, <1>2, <1>3, <2>3 DEF Spent
      <4>2. \A k \in Handlers : Selects(k)' /\ For(k)' = t => k = h
        BY <1>13, <2>2
      <4>3. \A j \in AttemptsFor(branch', t) : branch'[j].id = lastId + 1
        BY <1>5, <1>7, <1>8
      <4>4. AttemptsFor(away'.branch, t) = {}
        BY <1>1, <1>3
      <4>5. \A b \in {branch', away'.branch} :
               \A j \in AttemptsFor(b, t) : b[j].id = lastId + 1
        BY <4>3, <4>4
      <4>6. QED
        BY <1>0, <2>1, <2>2, <3>2, <4>1, <4>2, <4>5
    <3>3. QED
      BY <3>1, <3>2
  <2>5. HandlersOwn'
    BY <2>4 DEF HandlersOwn
  <2>6. QED
    BY <1>10, <1>12, <2>5 DEF OwnInv
<1>16. QED
  BY <1>6, <1>14, <1>15

\* A handler whose model was selected: the response it continues is its own.
LEMMA SelectedIsOwn ==
    ASSUME StopInv, OwnInv, NEW h \in Handlers, handler[h] # IdleHandler,
           ownsSettlement(branch, handler[h].event)
    PROVE  /\ Tip(branch).id = For(h) /\ ~ busy
           /\ Records(branch) # {}
           /\ branch[Last(Records(branch))].id = handler[h].record
<1>1. /\ ~ busy /\ Records(branch) # {}
      /\ branch[Last(Records(branch))].data.assistant = Tip(branch).id
      /\ handler[h].event.output = "empty" \/ Tip(branch).id = For(h)
  BY DEF ownsSettlement, duplicateSettle, Settlement, latestAssistantEntry, AlreadySpent, For
<1>2. /\ handler[h].event.output # "empty"
      /\ \A i \in AttemptsFor(branch, For(h)) : branch[i].id = handler[h].record
  BY DEF OwnInv, HandlersOwn, Selects
<1>3. Records(branch) \subseteq DOMAIN branch /\ branch \in Seq(Entry)
  BY DEF Records, StopInv, TypeOK
<1>4. Last(Records(branch)) \in Records(branch)
  BY <1>1, <1>3, LastPosition, Zenon
<1>5. Last(Records(branch)) \in AttemptsFor(branch, For(h))
  BY <1>1, <1>2, <1>4 DEF AttemptsFor, Records
<1>6. QED
  BY <1>1, <1>2, <1>5

LEMMA OwnAtSelected ==
    ASSUME StopInv, OwnInv, NEW h \in Handlers, NEW changed \in BOOLEAN,
           ModelSelected(h, changed)
    PROVE  OwnInv'
<1>0. /\ handler \in [Handlers -> {IdleHandler} \cup Selection]
      /\ handler[h] # IdleHandler /\ lastId \in Nat
      /\ branch' = branch /\ away' = away /\ lastId' = lastId /\ event' = event
  BY StopInvIs DEF ModelSelected, Here, Rest, JournalsInv
<1>1. /\ handler'[h] = IdleHandler
      /\ \A i \in Handlers : i # h => handler'[i] = handler[i]
  BY <1>0 DEF ModelSelected
<1>2. Continued' = Continued \/ Continued' = Continued \cup {For(h)}
  <2>1. CASE issued' = issued
    BY <2>1 DEF Continued
  <2>2. CASE /\ ownsSettlement(branch, handler[h].event)
             /\ Continue(handler[h].record, handler[h].event, branch)
    <3>1. Tip(branch).id = For(h)
      BY <1>0, <2>2, SelectedIsOwn
    <3>2. QED
      BY <2>2, <3>1 DEF Continue, Continued
  <2>3. QED
    BY <2>1, <2>2 DEF ModelSelected, Settles
<1>3. /\ For(h) <= lastId /\ Selects(h)
      /\ \A i \in Handlers : Selects(i) /\ For(i) = For(h) => i = h
  BY <1>0 DEF OwnInv, HandlersOwn, Selects
<1>4. \A i \in Handlers : Selects(i)' => i # h /\ Selects(i) /\ For(i)' = For(i)
  BY <1>1 DEF Selects, For
<1>5. \A t : Spent(t)' => Spent(t)
  BY <1>2, <1>3, <1>4 DEF Spent
<1>6. EventOwn'
  BY <1>0, <1>5 DEF OwnInv, EventOwn
<1>7. ContinuedOld'
  BY <1>0, <1>2, <1>3 DEF OwnInv, ContinuedOld
<1>8. HandlersOwn'
  <2> SUFFICES ASSUME NEW i \in Handlers, Selects(i)'
               PROVE  /\ handler'[i].event.output # "empty"
                      /\ For(i)' <= lastId' /\ For(i)' \notin Continued'
                      /\ \A k \in Handlers : Selects(k)' /\ For(k)' = For(i)' => k = i
                      /\ \A b \in {branch', away'.branch} :
                            \A j \in AttemptsFor(b, For(i)') : b[j].id = handler'[i].record
    BY DEF HandlersOwn
  <2>1. i # h /\ Selects(i) /\ For(i)' = For(i) /\ handler'[i] = handler[i]
    BY <1>1, <1>4
  <2>2. For(i) # For(h)
    BY <1>3, <2>1
  <2>3. /\ handler[i].event.output # "empty"
        /\ For(i) <= lastId /\ For(i) \notin Continued
        /\ \A k \in Handlers : Selects(k) /\ For(k) = For(i) => k = i
        /\ \A b \in {branch, away.branch} :
              \A j \in AttemptsFor(b, For(i)) : b[j].id = handler[i].record
    BY <2>1 DEF OwnInv, HandlersOwn
  <2>4. For(i) \notin Continued'
    BY <1>2, <2>2, <2>3
  <2>5. \A k \in Handlers : Selects(k)' /\ For(k)' = For(i)' => k = i
    BY <1>4, <2>1, <2>3
  <2>6. QED
    BY <1>0, <2>1, <2>3, <2>4, <2>5
<1>9. QED
  BY <1>6, <1>7, <1>8 DEF OwnInv

\* A response that has just arrived is nobody's yet.
LEMMA OwnAtSettle ==
    ASSUME StopInv, OwnInv, NEW output \in Outputs, output # "empty", Settle(output)
    PROVE  OwnInv'
<1>0. /\ branch \in Seq(Entry) /\ lastId \in Nat
      /\ IdsIncrease(away.branch, lastId) /\ Attempts(away.branch)
      /\ away.branch \in Seq(Entry)
  BY DEF StopInv, JournalsInv
<1>1. /\ lastId' = lastId + 1 /\ issued' = issued /\ handler' = handler /\ away' = away
      /\ event'.assistant = lastId + 1 /\ event'.output = output
  BY DEF Settle, Append1, Here
<1>2. NoNewAttempt
  <2> DEFINE e == [kind |-> "stop", id |-> lastId + 1, output |-> output]
  <2>1. e.kind # "recovery" /\ branch' = Append(branch, e) /\ Here
    BY DEF Settle, Append1
  <2> HIDE DEF e
  <2>2. QED
    BY <1>0, <2>1, QuietGrowth
<1>3. ContinuedOld' /\ HandlersOwn'
  BY <1>0, <1>1, <1>2, OwnKept
<1>4. EventOwn'
  <2>1. \A t \in Continued' : t <= lastId
    BY <1>1 DEF Continued, OwnInv, ContinuedOld
  <2>2. \A h \in Handlers : Selects(h)' => For(h)' <= lastId
    BY <1>1 DEF Selects, For, OwnInv, HandlersOwn
  <2>3. \A t : t = lastId + 1 => ~ Spent(t)'
    <3>1. ~ (lastId + 1 <= lastId)
      BY <1>0
    <3>2. lastId + 1 \notin Continued'
      BY <2>1, <3>1
    <3>3. \A h \in Handlers : Selects(h)' => For(h)' # lastId + 1
      BY <2>2, <3>1
    <3>4. QED
      BY <3>2, <3>3 DEF Spent
  <2>4. AttemptsFor(away'.branch, lastId + 1) = {}
    <3>1. lastId + 1 \notin 1 .. lastId
      BY <1>0
    <3>2. QED
      BY <1>0, <1>1, <3>1, AttemptsLookBack
  <2>5. QED
    BY <1>1, <2>3, <2>4 DEF EventOwn
<1>5. QED
  BY <1>3, <1>4 DEF OwnInv

LEMMA OwnInitially == Init => OwnInv
<1> SUFFICES ASSUME Init PROVE OwnInv
  OBVIOUS
<1>1. event = NoEvent /\ issued = {} /\ \A h \in Handlers : handler[h] = IdleHandler
  BY DEF Init
<1>2. EventOwn
  BY <1>1 DEF EventOwn
<1>3. ContinuedOld
  <2>1. Continued = {}
    BY <1>1, Zenon DEF Continued
  <2>2. QED
    BY <2>1 DEF ContinuedOld
<1>4. HandlersOwn
  BY <1>1 DEF HandlersOwn, Selects
<1>5. QED
  BY <1>2, <1>3, <1>4 DEF OwnInv

LEMMA OwnStep ==
    ASSUME "empty" \notin RunOutputs, StopInv, StopInv', OwnInv, [Next]_vars
    PROVE  OwnInv'
<1>0. branch \in Seq(Entry) /\ lastId \in Nat /\ lastId' \in Nat
        /\ handler \in [Handlers -> {IdleHandler} \cup Selection]
  <2>1. branch \in Seq(Entry) /\ lastId \in Nat /\ lastId' \in Nat
    BY DEF StopInv, JournalsInv
  <2>2. handler \in [Handlers -> {IdleHandler} \cup Selection]
    BY StopInvIs DEF Rest
  <2>3. QED
    BY <2>1, <2>2
<1>1. ASSUME NEW h \in Handlers, SessionStop(h) PROVE OwnInv'
  BY <1>1, OwnAtStop
<1>2. ASSUME NEW h \in Handlers, NEW changed \in BOOLEAN, ModelSelected(h, changed)
      PROVE  OwnInv'
  BY <1>2, OwnAtSelected
<1>3. ASSUME NEW output \in RunOutputs, Settle(output) PROVE OwnInv'
  <2>1. output \in Outputs /\ output # "empty"
    BY SessionStopAssumption
  <2>2. QED
    BY <1>3, <2>1, OwnAtSettle
\* a step of the agent that is not one of these: entries that are no attempt
<1>4. ASSUME Here, UNCHANGED <<handler, issued>>, event' = NoEvent \/ event' = event,
             lastId' \in {lastId, lastId + 1, lastId + 2},
             \/ \E e : e.kind # "recovery" /\ branch' = Append(branch, e)
             \/ \E x, y : x.kind # "recovery" /\ y.kind # "recovery"
                            /\ branch' = branch \o <<x, y>>
             \/ branch' = branch
      PROVE  OwnInv'
  <2>1. NoNewAttempt /\ BranchGrows
    BY <1>0, <1>4, QuietGrowth
  <2>2. lastId <= lastId'
    BY <1>0, <1>4
  <2>3. QED
    BY <1>0, <1>4, <2>1, <2>2, OwnKept
<1>5. ASSUME NEW p \in UserPrompts, BeforeAgentStart(p) PROVE OwnInv'
  <2> DEFINE x == CheckpointEntry(lastId + 1, createExecutionCheckpoint(session, "session", p.sha))
             y == [kind |-> "user", id |-> lastId + 2]
  <2>1. x.kind = "checkpoint" /\ y.kind = "user" /\ New("user").kind = "user"
    BY DEF CheckpointEntry, New
  <2>2. \/ lastId' = lastId + 2 /\ branch' = branch \o <<x, y>>
        \/ lastId' = lastId + 1 /\ branch' = Append(branch, New("user"))
    BY <1>5 DEF BeforeAgentStart, Append1
  <2>3. Here /\ UNCHANGED <<handler, issued>> /\ event' = NoEvent
    BY <1>5 DEF BeforeAgentStart
  <2> HIDE DEF x, y
  <2>4. QED
    BY <1>4, <2>1, <2>2, <2>3
<1>6. ASSUME NEW sig \in Signatures, NEW result \in RunResults, ToolRound(sig, result)
      PROVE  OwnInv'
  <2> DEFINE e == [kind |-> "round", id |-> lastId + 1, sig |-> sig, result |-> result]
  <2>1. e.kind # "recovery" /\ branch' = Append(branch, e) /\ lastId' = lastId + 1
          /\ Here /\ UNCHANGED <<handler, issued, event>>
    BY <1>6 DEF ToolRound, Append1
  <2> HIDE DEF e
  <2>2. QED
    BY <1>4, <2>1
<1>7. ASSUME NEW c, Append1(CheckpointEntry(lastId + 1, c)), Here,
             UNCHANGED <<handler, issued, event>>
      PROVE  OwnInv'
  <2> DEFINE e == CheckpointEntry(lastId + 1, c)
  <2>1. e.kind # "recovery" /\ branch' = Append(branch, e) /\ lastId' = lastId + 1
    BY <1>7 DEF CheckpointEntry, Append1
  <2> HIDE DEF e
  <2>2. QED
    BY <1>4, <1>7, <2>1
<1>8. ASSUME AgentEnd PROVE OwnInv'
  <2>1. \/ UNCHANGED <<lastId, branch>>
        \/ Append1(CheckpointEntry(lastId + 1, observeExecutionTurn(Plan)))
    BY <1>8 DEF AgentEnd
  <2>2. Here /\ UNCHANGED <<handler, issued, event>>
    BY <1>8 DEF AgentEnd
  <2>3. QED
    BY <1>4, <1>7, <2>1, <2>2
<1>18. ASSUME CommandBegin PROVE OwnInv'
  BY <1>7, <1>18 DEF CommandBegin
<1>9. ASSUME CommandTransition PROVE OwnInv'
  <2>1. PICK c : Append1(CheckpointEntry(lastId + 1, c))
    BY <1>9 DEF CommandTransition
  <2>2. Here /\ UNCHANGED <<handler, issued, event>>
    BY <1>9 DEF CommandTransition
  <2>3. QED
    BY <1>7, <2>1, <2>2
<1>10. ASSUME ForeignEntry PROVE OwnInv'
  <2> DEFINE e == New("foreign")
  <2>1. e.kind # "recovery" /\ branch' = Append(branch, e) /\ lastId' = lastId + 1
          /\ Here /\ UNCHANGED <<handler, issued, event>>
    BY <1>10 DEF ForeignEntry, New, Append1
  <2> HIDE DEF e
  <2>2. QED
    BY <1>4, <2>1
<1>11. ASSUME Busy \/ OtherHook \/ UNCHANGED vars PROVE OwnInv'
  <2>1. branch' = branch /\ lastId' = lastId /\ Here /\ UNCHANGED <<handler, issued, event>>
    BY <1>11 DEF Busy, OtherHook, vars, Here
  <2>2. QED
    BY <1>4, <2>1
\* handlers that are aborted, or gone
<1>12. ASSUME Interrupt \/ Crash PROVE OwnInv'
  <2>1. branch' = branch /\ lastId' = lastId /\ issued' = issued /\ Here /\ event' = NoEvent
    BY <1>12 DEF Interrupt, Crash
  <2>2. NoNewAttempt
    BY <1>0, <2>1, QuietGrowth
  <2>3. \A h \in Handlers : handler'[h] # IdleHandler =>
           /\ handler[h] # IdleHandler
           /\ handler'[h].event = handler[h].event
           /\ handler'[h].record = handler[h].record
    <3>1. CASE Crash
      BY <3>1 DEF Crash
    <3>2. CASE Interrupt
      <4>1. ASSUME NEW h \in Handlers, handler[h] # IdleHandler
            PROVE  /\ [handler[h] EXCEPT !.aborted = TRUE].event = handler[h].event
                   /\ [handler[h] EXCEPT !.aborted = TRUE].record = handler[h].record
        BY <1>0, <4>1 DEF Selection
      <4>2. \A h \in Handlers :
               handler'[h] = IF handler[h] = IdleHandler THEN IdleHandler
                             ELSE [handler[h] EXCEPT !.aborted = TRUE]
        BY <3>2 DEF Interrupt
      <4>3. QED
        BY <4>1, <4>2
    <3>3. QED
      BY <1>12, <3>1, <3>2
  <2>4. lastId <= lastId'
    BY <1>0, <2>1
  <2>5. QED
    BY <1>0, <2>1, <2>2, <2>3, <2>4, OwnKept
\* the places change, the attempts do not
<1>13. ASSUME Leave,
              \/ branch' = branch
              \/ branch' = away.branch
              \/ \E n \in 0 .. Len(branch) : branch' = SubSeq(branch, 1, n)
       PROVE  OwnInv'
  <2>1. lastId' = lastId /\ UNCHANGED <<handler, issued>> /\ event' = NoEvent
          /\ away'.branch = branch
    BY <1>13 DEF Leave
  <2>2. \A i \in DOMAIN branch' : \E b \in {branch, away.branch} :
           \E j \in DOMAIN b : b[j] = branch'[i]
    <3>1. CASE branch' = branch \/ branch' = away.branch
      BY <3>1
    <3>2. ASSUME NEW n \in 0 .. Len(branch), branch' = SubSeq(branch, 1, n)
          PROVE  \A i \in DOMAIN branch' : i \in DOMAIN branch /\ branch[i] = branch'[i]
      <4>1. /\ branch' \in Seq(Entry) /\ Len(branch') = n
            /\ Agree(branch, branch', n)
        BY <1>0, <3>2, Prefixes
      <4>2. QED
        BY <1>0, <4>1 DEF Agree
    <3>3. QED
      BY <1>13, <3>1, <3>2
  <2>3. NoNewAttempt
    BY <2>1, <2>2 DEF NoNewAttempt
  <2>4. lastId <= lastId'
    BY <1>0, <2>1
  <2>5. QED
    BY <1>0, <2>1, <2>3, <2>4, OwnKept
<1>14. ASSUME NEW n \in 0 .. MaxId, Rewind(n) PROVE OwnInv'
  <2>1. n \in 0 .. Len(branch)
    BY <1>0, <1>14 DEF Rewind
  <2>2. QED
    BY <1>13, <1>14, <2>1 DEF Rewind
<1>15. ASSUME NEW s \in Sessions, Fork(s) PROVE OwnInv'
  BY <1>13, <1>15 DEF Fork
<1>16. ASSUME Return PROVE OwnInv'
  BY <1>13, <1>16 DEF Return
<1>17. QED
  <2>1. CASE Handle
    BY <1>1, <1>2, <2>1 DEF Handle
  <2>2. CASE Agent
    BY <1>3, <1>5, <1>6, <1>8, <1>9, <1>18, <2>2 DEF Agent
  <2>3. CASE Environment
    BY <1>10, <1>11, <1>12, <1>14, <1>15, <1>16, <2>3 DEF Environment
  <2>4. QED
    BY <1>11, <2>1, <2>2, <2>3 DEF Next

\* What a step that continues a response says of it.
LEMMA ContinuesItsOwn ==
    ASSUME StopInv, OwnInv, [Next]_vars, NEW x \in issued' \ issued
    PROVE  /\ x.planned = x.tip
           /\ x.tip \notin {y.tip : y \in issued}
           /\ Records(branch') # {}
           /\ branch'[Last(Records(branch'))].id = x.record
           /\ ~ busy
<1>1. PICK h \in Handlers :
         \/ /\ SessionStop(h)
            /\ Continue(lastId + 1, event, branch')
         \/ /\ \E changed \in BOOLEAN : ModelSelected(h, changed)
            /\ handler[h] # IdleHandler
            /\ ownsSettlement(branch, handler[h].event)
            /\ Continue(handler[h].record, handler[h].event, branch)
  BY ContinuationIsStop
<1>2. CASE SessionStop(h) /\ Continue(lastId + 1, event, branch')
  <2> DEFINE e == [kind |-> "recovery", id |-> lastId + 1,
                   data |-> AttemptRecord(branch, session)]
  <2>1. event # NoEvent /\ ~ busy /\ planIntelligentRecovery(branch, session, event)
          /\ event.output # "empty" /\ branch' = Append(branch, e)
    BY <1>2 DEF SessionStop, Append1, OwnInv, EventOwn
  <2>2. /\ e \in Entry /\ Tip(branch') = Tip(branch)
        /\ Records(branch') # {} /\ Last(Records(branch')) = Len(branch) + 1
    BY <2>1, StopJournals
  <2>3. e.id = lastId + 1
    OBVIOUS
  <2> HIDE DEF e
  <2>4. branch'[Len(branch) + 1] = e
    BY <2>1, <2>2, Appended DEF StopInv, JournalsInv
  <2>5. Tip(branch).id = event.assistant /\ AttemptsFor(branch, event.assistant) = {}
    BY <2>1, NoAttemptYet
  <2>6. ~ Spent(event.assistant)
    BY <2>1, <2>5 DEF OwnInv, EventOwn
  <2>7. x = [record |-> lastId + 1, planned |-> event.assistant, tip |-> Tip(branch').id]
    BY <1>2 DEF Continue
  <2>8. QED
    BY <2>1, <2>2, <2>3, <2>4, <2>5, <2>6, <2>7 DEF Spent, Continued
<1>3. CASE /\ \E changed \in BOOLEAN : ModelSelected(h, changed)
           /\ handler[h] # IdleHandler
           /\ ownsSettlement(branch, handler[h].event)
           /\ Continue(handler[h].record, handler[h].event, branch)
  <2>1. /\ Tip(branch).id = For(h) /\ ~ busy
        /\ Records(branch) # {}
        /\ branch[Last(Records(branch))].id = handler[h].record
    BY <1>3, SelectedIsOwn
  <2>2. For(h) \notin Continued
    BY <1>3 DEF OwnInv, HandlersOwn, Selects
  <2>3. x = [record |-> handler[h].record, planned |-> For(h), tip |-> Tip(branch).id]
    BY <1>3 DEF Continue, For
  <2>4. branch' = branch
    BY <1>3 DEF ModelSelected
  <2>5. QED
    BY <2>1, <2>2, <2>3, <2>4 DEF Continued
<1>4. QED
  BY <1>1, <1>2, <1>3

\* A response with something in it is continued at most once, for the attempt
\* that is the last of the branch and only while it is the last message and
\* nothing has taken over.
THEOREM OnlyOwnContinuations ==
    ASSUME "empty" \notin RunOutputs
    PROVE  Spec => ContinuationOwned
<1>1. OwnInv /\ StopInv /\ StopInv' /\ [Next]_vars => OwnInv'
  BY OwnStep
<1>2. OwnInv /\ StopInv /\ [Next]_vars =>
        [\A x \in issued' \ issued :
          /\ x.planned = x.tip
          /\ x.tip \notin {y.tip : y \in issued}
          /\ Records(branch') # {}
          /\ branch'[Last(Records(branch'))].id = x.record
          /\ ~ busy]_vars
  BY ContinuesItsOwn
<1>3. QED
  BY <1>1, <1>2, OwnInitially, StopInvariant, PTL DEF Spec, ContinuationOwned

=============================================================================
