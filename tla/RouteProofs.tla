------------------------------ MODULE RouteProofs ------------------------------
(***************************************************************************)
(* Proofs about reading the rules (RuleInventory), about the catalogues a  *)
(* session uses (RouteSession) and about the history of a request on its   *)
(* way to the gateway (ReasoningReplay), for any rules, any number of      *)
(* edits between any two pages, any page limit and any length of history.  *)
(*                                                                         *)
(* The second read can return the profile's policy only if each rule of it *)
(* was there after the first capture; as a version is never used again, it *)
(* was there at the first capture too.  And there was no other: a read     *)
(* that ends has read at least as many rules as the gateway has then.      *)
(*                                                                         *)
(* Of each run the cleanup keeps an item that is more than reasoning if    *)
(* there is one, and an item that thinks unless the contract lets it go,   *)
(* so the runs of the cleaned history correspond to those of the history.  *)
(*                                                                         *)
(* A request sent member by member is of an alias that has one rule, which *)
(* leaves the gateway one order.  The route's profile is in that order,    *)
(* the attempts are what is left of the profile cut into parts, and an     *)
(* attestation found the rules of the route in force.                      *)
(*                                                                         *)
(* Every source knows numbers as limits, so every member of a catalogue    *)
(* and every promise has one, and a budget is no greater than any ceiling  *)
(* it was made from.  It is made from all the gateway may try: of a rule   *)
(* that is a member, and the members of an alias on offer, as those of a   *)
(* profile none of which was excluded, are the chain.                      *)
(***************************************************************************)
EXTENDS RuleInventory, RouteSession, ReasoningReplay, SequenceTheorems, FiniteSetTheorems,
    WellFoundedInduction, TLAPS

RuleRows == [id : Ids, version : Nat]

\* What an attestation has read is made of rules, of which an edit makes new
\* versions; a canonical answer without rules is never read on.
Reading ==
    /\ ruleRows \in Seq(RuleRows) /\ ruleEdits \in Nat /\ answering \in Apis
    /\ paging \in [path : {"none", "canonical", "legacy"}, rows : Seq(RuleRows), seen : SUBSET Seq(Ids)]
    /\ attesting \in {"idle", "first", "second", "live", "blocked", "sent"}
    /\ unedited \in BOOLEAN /\ wasProfile \in BOOLEAN
    /\ ~ Shown(paging.path) => paging.rows = <<>>

\* The profile's policy: each rule once, in its first version.
Profile ==
    /\ IsFiniteSet(DOMAIN profiled)
    /\ profiled = [r \in DOMAIN profiled |-> 1]
    /\ \A r \in DOMAIN profiled : r.version = 0

\* If the first capture is of the profile's policy although that was not the
\* gateway's when it was complete, a rule of it has gone, and the second read
\* misses it.
SecondReadMisses ==
    attesting = "second" /\ firstCapture = profiled /\ ~ wasProfile
        => \E r \in DOMAIN profiled : r \notin ToSet(ruleRows) \cup ToSet(paging.rows)

\* Without an edit the first read proceeds through the rules.
QuietReadProceeds ==
    unedited /\ attesting = "first"
        => /\ Len(paging.rows) <= Len(ruleRows)
           /\ paging.rows = SubSeq(ruleRows, 1, Len(paging.rows))

InventoryInv == Reading /\ Profile /\ SecondReadMisses /\ QuietReadProceeds /\ QuietReadIsComplete

-----------------------------------------------------------------------------
(* Counting rules.                                                         *)

\* The smaller of two numbers.
LEMMA SmallerOfTwo ==
    ASSUME NEW a \in Int, NEW b \in Int
    PROVE  Min({a, b}) = IF a <= b THEN a ELSE b
<1> DEFINE m == IF a <= b THEN a ELSE b
<1>1. m \in {a, b} /\ \A y \in {a, b} : m <= y
  OBVIOUS
<1>2. \A x \in {a, b} : (\A y \in {a, b} : x <= y) => x = m
  OBVIOUS
<1> HIDE DEF m
<1>3. Min({a, b}) = m
  BY <1>1, <1>2 DEF Min
<1>4. QED
  BY <1>3 DEF m

\* A sequence of rules has them as its elements.
LEMMA Elements ==
    ASSUME NEW rows \in Seq(RuleRows)
    PROVE  /\ Len(rows) \in Nat /\ DOMAIN rows = 1 .. Len(rows)
           /\ rows \in [1 .. Len(rows) -> RuleRows]
           /\ ToSet(rows) = {rows[i] : i \in 1 .. Len(rows)}
           /\ ToSet(rows) \subseteq RuleRows
BY DEF ToSet

\* The positions of a sequence are as many as its length.
LEMMA Positions ==
    ASSUME NEW n \in Nat
    PROVE  IsFiniteSet(1 .. n) /\ Cardinality(1 .. n) = n
<1>1. 1 \in Int /\ n \in Int /\ n - 1 + 1 = n /\ (1 > n => n = 0)
  OBVIOUS
<1>2. IsFiniteSet(1 .. n) /\ Cardinality(1 .. n) = IF 1 > n THEN 0 ELSE n - 1 + 1
  BY <1>1, FS_Interval, Zenon
<1>3. QED
  BY <1>1, <1>2

\* An inventory that has the profile's fingerprint has as many rows as rules.
LEMMA ProfileCounted ==
    ASSUME Profile, NEW rows \in Seq(RuleRows), routePolicyFingerprint(rows) = profiled
    PROVE  Len(rows) = Cardinality(DOMAIN profiled) /\ DOMAIN profiled = ToSet(rows)
<1> DEFINE P == DOMAIN profiled
           n == Len(rows)
<1>1. P = ToSet(rows)
  BY DEF routePolicyFingerprint
<1>2. n \in Nat /\ DOMAIN rows = 1 .. n /\ P = {rows[i] : i \in 1 .. n}
  BY <1>1, Elements
<1>3. ASSUME NEW r \in P PROVE Cardinality({i \in 1 .. n : rows[i] = r}) = 1
  <2>1. profiled[r] = Cardinality({i \in DOMAIN rows : rows[i] = r})
    BY <1>1 DEF routePolicyFingerprint
  <2>2. profiled[r] = 1
    <3>1. [x \in DOMAIN profiled |-> 1][r] = 1
      OBVIOUS
    <3>2. QED
      BY <3>1, Zenon DEF Profile
  <2>3. QED
    BY <1>2, <2>1, <2>2, Zenon
<1>4. ASSUME NEW i \in 1 .. n, NEW j \in 1 .. n, rows[i] = rows[j]
      PROVE  i = j
  <2> DEFINE At == {k \in 1 .. n : rows[k] = rows[i]}
  <2>1. IsFiniteSet(At)
    BY <1>2, Positions, FS_Subset
  <2>2. Cardinality(At) = 1
    BY <1>2, <1>3
  <2>3. i \in At /\ j \in At
    BY <1>4
  <2> HIDE DEF At
  <2>4. PICK x : At = {x}
    BY <2>1, <2>2, FS_Singleton
  <2>5. QED
    BY <2>3, <2>4
<1>5. rows \in [1 .. n -> P]
  BY <1>2, Elements
<1>6. rows \in Bijection(1 .. n, P)
  BY <1>2, <1>4, <1>5 DEF Bijection, Injection, Surjection, IsInjective
<1>7. Cardinality(P) = Cardinality(1 .. n)
  <2>1. ExistsBijection(1 .. n, P)
    BY <1>6 DEF ExistsBijection
  <2>2. QED
    BY <1>2, <2>1, Positions, FS_Bijection
<1>8. QED
  BY <1>1, <1>2, <1>7, Positions

\* No more rows than the profile has rules, and each rule among them: it is
\* the profile's policy.
LEMMA ProfileFound ==
    ASSUME Profile, NEW rows \in Seq(RuleRows),
           DOMAIN profiled \subseteq ToSet(rows), Len(rows) <= Cardinality(DOMAIN profiled)
    PROVE  routePolicyFingerprint(rows) = profiled
<1> DEFINE P == DOMAIN profiled
           n == Len(rows)
           S == ToSet(rows)
<1>1. n \in Nat /\ DOMAIN rows = 1 .. n /\ S = {rows[i] : i \in 1 .. n}
  BY Elements
<1>2. rows \in Surjection(1 .. n, S)
  <2>1. rows \in [1 .. n -> S]
    BY <1>1, Elements
  <2>2. QED
    BY <1>1, <2>1 DEF Surjection
<1>3. IsFiniteSet(1 .. n) /\ Cardinality(1 .. n) = n
  BY <1>1, Positions
<1>4. /\ IsFiniteSet(S) /\ Cardinality(S) <= n
      /\ Cardinality(S) = n <=> rows \in Injection(1 .. n, S)
  BY <1>2, <1>3, FS_Surjection
<1>5. Cardinality(P) <= Cardinality(S) /\ (Cardinality(S) = Cardinality(P) => S = P)
  BY <1>4, FS_Subset
<1>6. Cardinality(S) \in Nat /\ Cardinality(P) \in Nat
  BY <1>4, FS_CardinalityType DEF Profile
<1>7. S = P /\ rows \in Injection(1 .. n, S)
  BY <1>1, <1>4, <1>5, <1>6
<1>8. ASSUME NEW r \in S
      PROVE  Cardinality({i \in DOMAIN rows : rows[i] = r}) = 1
  <2>1. PICK i \in 1 .. n : rows[i] = r
    BY <1>1
  <2>2. {k \in DOMAIN rows : rows[k] = r} = {i}
    BY <1>1, <1>7, <2>1 DEF Injection, IsInjective
  <2>3. QED
    BY <2>2, FS_Singleton
<1>9. QED
  BY <1>7, <1>8 DEF routePolicyFingerprint, Profile

-----------------------------------------------------------------------------
(* Pages.                                                                  *)

\* A page has rules of the gateway, and a short one reaches the last of them.
LEMMA PageRows ==
    ASSUME ruleRows \in Seq(RuleRows), NEW offset \in Nat
    PROVE  /\ PageAt(offset) \in Seq(RuleRows)
           /\ ToSet(PageAt(offset)) \subseteq ToSet(ruleRows)
           /\ offset <= Len(ruleRows) =>
                 /\ offset + Len(PageAt(offset)) <= Len(ruleRows)
                 /\ PageAt(offset) = SubSeq(ruleRows, offset + 1, offset + Len(PageAt(offset)))
           /\ Len(PageAt(offset)) < PageLimit => offset + Len(PageAt(offset)) >= Len(ruleRows)
<1> DEFINE m == Min({offset + PageLimit, Len(ruleRows)})
           page == SubSeq(ruleRows, offset + 1, m)
<1>1. PageLimit \in Nat \ {0}
  BY InventoryAssumption
<1>2. Len(ruleRows) \in Nat
  BY Elements
<1>3. m = IF offset + PageLimit <= Len(ruleRows) THEN offset + PageLimit ELSE Len(ruleRows)
  BY <1>1, <1>2, SmallerOfTwo
<1>4. m \in Nat /\ m <= Len(ruleRows)
  BY <1>1, <1>2, <1>3
<1> HIDE DEF m
<1>5. \A i \in offset + 1 .. m : ruleRows[i] \in ToSet(ruleRows) /\ ruleRows[i] \in RuleRows
  BY <1>2, <1>4, Elements
<1>6. /\ page \in Seq(ToSet(ruleRows)) /\ page \in Seq(RuleRows)
      /\ Len(page) = IF offset + 1 <= m THEN m - (offset + 1) + 1 ELSE 0
  BY <1>4, <1>5, SubSeqProperties
<1>7. PageAt(offset) = page
  BY DEF PageAt, m
<1>8. ToSet(page) \subseteq ToSet(ruleRows)
  <2>1. \A i \in DOMAIN page : page[i] \in ToSet(ruleRows)
    BY <1>6
  <2> HIDE DEF page
  <2>2. QED
    BY <2>1 DEF ToSet
<1>9. offset <= Len(ruleRows) =>
        offset + Len(page) <= Len(ruleRows) /\ page = SubSeq(ruleRows, offset + 1, offset + Len(page))
  <2>1. offset <= m => offset + Len(page) = m
    BY <1>4, <1>6
  <2>2. offset <= Len(ruleRows) => offset <= m
    BY <1>1, <1>2, <1>3
  <2>3. QED
    BY <1>4, <2>1, <2>2
<1>10. Len(page) < PageLimit => offset + Len(page) >= Len(ruleRows)
  BY <1>1, <1>2, <1>3, <1>4, <1>6
<1> HIDE DEF page
<1>11. QED
  BY <1>6, <1>7, <1>8, <1>9, <1>10

\* The page that was asked for, and what has been read with it.
NewPage == IF Shown(paging.path) THEN PageAt(nextOffset(paging)) ELSE <<>>
Got == paging.rows \o NewPage

\* What has been read with a page.
LEMMA GotRows ==
    ASSUME Reading
    PROVE  /\ Got \in Seq(RuleRows)
           /\ Len(Got) = Len(paging.rows) + Len(NewPage)
           /\ ToSet(Got) \subseteq ToSet(paging.rows) \cup ToSet(ruleRows)
           /\ NewPage \in Seq(RuleRows)
<1>1. paging.rows \in Seq(RuleRows) /\ Len(paging.rows) \in Nat
  BY Elements DEF Reading
<1>2. NewPage \in Seq(RuleRows) /\ ToSet(NewPage) \subseteq ToSet(ruleRows)
  <2>1. ruleRows \in Seq(RuleRows)
    BY DEF Reading
  <2>2. nextOffset(paging) \in Nat
    BY <1>1 DEF nextOffset
  <2>3. <<>> \in Seq(RuleRows) /\ ToSet(<<>>) = {}
    BY DEF ToSet
  <2>4. QED
    BY <2>1, <2>2, <2>3, PageRows DEF NewPage
<1>3. /\ Got \in Seq(RuleRows) /\ Len(Got) = Len(paging.rows) + Len(NewPage)
      /\ \A i \in 1 .. Len(paging.rows) + Len(NewPage) : Got[i] =
            IF i <= Len(paging.rows) THEN paging.rows[i] ELSE NewPage[i - Len(paging.rows)]
  BY <1>1, <1>2, ConcatProperties DEF Got
<1>4. ASSUME NEW r \in ToSet(Got)
      PROVE  r \in ToSet(paging.rows) \cup ToSet(ruleRows)
  <2>1. PICK i \in 1 .. Len(Got) : r = Got[i]
    BY <1>3, Elements
  <2>2. CASE i <= Len(paging.rows)
    BY <1>1, <1>3, <2>1, <2>2, Elements
  <2>3. CASE i > Len(paging.rows)
    <3>1. i - Len(paging.rows) \in 1 .. Len(NewPage)
      BY <1>1, <1>2, <1>3, <2>1, <2>3, Elements
    <3>2. r \in ToSet(NewPage)
      BY <1>1, <1>2, <1>3, <2>1, <2>3, <3>1, Elements
    <3>3. QED
      BY <1>2, <3>2
  <2>4. QED
    BY <1>1, <1>3, <2>1, <2>2, <2>3
<1>5. QED
  BY <1>1, <1>2, <1>3, <1>4

\* A read that ends has read at least as many rules as there are.
LEMMA EndedRead ==
    ASSUME Reading, NEW repeated,
           pageVerdict(Total(paging.path), Got, NewPage, repeated) = "end",
           ~ (paging.path = "canonical" /\ Got = <<>>)
    PROVE  /\ Shown(paging.path)
           /\ Len(Got) >= Len(ruleRows)
<1>1. Shown(paging.path)
  <2>1. ASSUME ~ Shown(paging.path)
        PROVE  FALSE
    <3>1. paging.rows = <<>> /\ NewPage = <<>> /\ paging.path = "canonical"
      BY <2>1 DEF Reading, NewPage, Shown
    <3>2. Got = <<>>
      BY <3>1 DEF Got
    <3>3. QED
      BY <3>1, <3>2
  <2>2. QED
    BY <2>1
<1>2. Len(ruleRows) \in Nat /\ Len(Got) \in Nat /\ Len(paging.rows) \in Nat
  BY GotRows, Elements DEF Reading
<1>3. CASE Len(Got) >= Len(ruleRows)
  BY <1>1, <1>3
<1>4. CASE Len(NewPage) < PageLimit
  BY <1>1, <1>2, <1>4, GotRows, PageRows DEF Reading, NewPage, nextOffset
<1>5. Len(Got) >= Len(ruleRows) \/ Len(NewPage) < PageLimit
  BY <1>1 DEF pageVerdict, Total
<1>6. QED
  BY <1>1, <1>3, <1>4, <1>5

-----------------------------------------------------------------------------
(* The invariant.                                                          *)

\* The rules the gateway has at first are the profile's.
LEMMA InventoryInitInv == InventoryInit => InventoryInv
<1> SUFFICES ASSUME InventoryInit PROVE InventoryInv
  OBVIOUS
<1>1. ruleRows \in Seq([id : Ids, version : {0}]) /\ Distinct(ruleRows)
  <2> DEFINE First == [id : Ids, version : {0}]
  <2>1. ruleRows \in BoundedSeq(First, MaxRules) /\ Distinct(ruleRows)
    BY DEF InventoryInit
  <2>2. PICK m \in 0 .. MaxRules : ruleRows \in [1 .. m -> First]
    BY <2>1 DEF BoundedSeq, SeqOf
  <2>3. m \in Nat
    BY InventoryAssumption
  <2> HIDE DEF First
  <2>4. ruleRows \in Seq(First)
    BY <2>2, <2>3
  <2>5. QED
    BY <2>1, <2>4 DEF First
<1>2. ruleRows \in Seq(RuleRows) /\ \A r \in ToSet(ruleRows) : r.version = 0
  <2> DEFINE First == [id : Ids, version : {0}]
  <2>1. First \subseteq RuleRows /\ \A r \in First : r.version = 0
    BY DEF RuleRows
  <2>2. ruleRows \in Seq(First)
    BY <1>1
  <2> HIDE DEF First
  <2>3. ruleRows \in Seq(RuleRows)
    BY <2>1, <2>2, SeqMonotonic
  <2>4. \A i \in DOMAIN ruleRows : ruleRows[i] \in First
    BY <2>2
  <2>5. QED
    BY <2>1, <2>3, <2>4 DEF ToSet
<1>3. Reading
  <2>1. paging = [path |-> "none", rows |-> <<>>, seen |-> {}]
    BY DEF InventoryInit, NoRead, Start
  <2>2. <<>> \in Seq(RuleRows)
    OBVIOUS
  <2>3. paging \in [path : {"none", "canonical", "legacy"}, rows : Seq(RuleRows), seen : SUBSET Seq(Ids)]
    BY <2>1, <2>2
  <2>4. paging.rows = <<>>
    BY <2>1
  <2>5. QED
    BY <1>2, <2>3, <2>4 DEF InventoryInit, Reading
<1>4. \A r \in ToSet(ruleRows) : Cardinality({i \in DOMAIN ruleRows : ruleRows[i] = r}) = 1
  <2> SUFFICES ASSUME NEW r \in ToSet(ruleRows)
               PROVE  Cardinality({i \in DOMAIN ruleRows : ruleRows[i] = r}) = 1
    OBVIOUS
  <2>1. PICK i \in DOMAIN ruleRows : ruleRows[i] = r
    BY DEF ToSet
  <2>2. {k \in DOMAIN ruleRows : ruleRows[k] = r} = {i}
    BY <1>1, <2>1 DEF Distinct
  <2>3. QED
    BY <2>2, FS_Singleton
<1>5. Profile
  <2>1. profiled = [r \in ToSet(ruleRows) |-> 1]
    BY <1>4 DEF InventoryInit, routePolicyFingerprint
  <2>2. IsFiniteSet(ToSet(ruleRows))
    <3>1. Len(ruleRows) \in Nat /\ ruleRows \in Surjection(1 .. Len(ruleRows), ToSet(ruleRows))
      BY <1>2, Elements DEF Surjection
    <3>2. QED
      BY <3>1, Positions, FS_Surjection
  <2>3. QED
    BY <1>2, <2>1, <2>2 DEF Profile
<1>6. attesting = "idle"
  BY DEF InventoryInit
<1>7. QED
  BY <1>3, <1>5, <1>6
     DEF InventoryInv, SecondReadMisses, QuietReadProceeds, QuietReadIsComplete

\* An edit adds rules only in versions that are new.
LEMMA EditedRows ==
    ASSUME Reading, EditRules
    PROVE  /\ ruleRows' \in Seq(RuleRows) /\ ruleEdits' \in Nat
           /\ \A r \in ToSet(ruleRows') : r \in ToSet(ruleRows) \/ r.version # 0
<1>1. ruleRows \in Seq(RuleRows) /\ ruleEdits' \in Nat /\ ruleEdits' # 0
  BY DEF Reading, EditRules
<1>2. ASSUME NEW rows \in Seq(RuleRows), ruleRows' = rows,
             \A i \in 1 .. Len(rows) : rows[i] \in ToSet(ruleRows) \/ rows[i].version # 0
      PROVE  /\ ruleRows' \in Seq(RuleRows)
             /\ \A r \in ToSet(ruleRows') : r \in ToSet(ruleRows) \/ r.version # 0
  BY <1>2, Elements
<1>3. Len(ruleRows) \in Nat /\ \A i \in 1 .. Len(ruleRows) : ruleRows[i] \in ToSet(ruleRows)
  BY <1>1, Elements
<1>4. \A i \in 1 .. Len(ruleRows) : ruleRows[i] \in RuleRows
  BY <1>1, Elements
\* Parts of the gateway's rules.
<1>5. ASSUME NEW m \in Nat, NEW n \in Nat, 1 <= m, n <= Len(ruleRows)
      PROVE  /\ SubSeq(ruleRows, m, n) \in Seq(RuleRows)
             /\ \A i \in 1 .. Len(SubSeq(ruleRows, m, n)) :
                   SubSeq(ruleRows, m, n)[i] \in ToSet(ruleRows)
  <2> DEFINE part == SubSeq(ruleRows, m, n)
  <2>1. \A i \in m .. n : ruleRows[i] \in RuleRows /\ ruleRows[i] \in ToSet(ruleRows)
    BY <1>3, <1>4, <1>5
  <2>2. part \in Seq(RuleRows) /\ part \in Seq(ToSet(ruleRows))
    BY <2>1, SubSeqProperties
  <2> HIDE DEF part
  <2>3. \A i \in 1 .. Len(part) : part[i] \in ToSet(ruleRows)
    BY <2>2
  <2>4. QED
    BY <2>2, <2>3 DEF part
\* Two such parts, one after the other, or a new rule behind one.
<1>6. ASSUME NEW s \in Seq(RuleRows), NEW t \in Seq(RuleRows),
             \A i \in 1 .. Len(s) : s[i] \in ToSet(ruleRows) \/ s[i].version # 0,
             \A i \in 1 .. Len(t) : t[i] \in ToSet(ruleRows) \/ t[i].version # 0
      PROVE  /\ s \o t \in Seq(RuleRows)
             /\ \A i \in 1 .. Len(s \o t) :
                   (s \o t)[i] \in ToSet(ruleRows) \/ (s \o t)[i].version # 0
  <2>1. /\ s \o t \in Seq(RuleRows) /\ Len(s \o t) = Len(s) + Len(t)
        /\ \A i \in 1 .. Len(s) + Len(t) :
              (s \o t)[i] = IF i <= Len(s) THEN s[i] ELSE t[i - Len(s)]
    BY ConcatProperties
  <2>2. Len(s) \in Nat /\ Len(t) \in Nat
    BY Elements
  <2>3. ASSUME NEW i \in 1 .. Len(s) + Len(t)
        PROVE  (s \o t)[i] \in ToSet(ruleRows) \/ (s \o t)[i].version # 0
    <3>1. CASE i <= Len(s)
      BY <1>6, <2>1, <2>2, <2>3, <3>1
    <3>2. CASE i > Len(s)
      <4>1. i - Len(s) \in 1 .. Len(t)
        BY <2>2, <2>3, <3>2
      <4>2. (s \o t)[i] = t[i - Len(s)]
        BY <2>1, <2>2, <2>3, <3>2
      <4>3. QED
        BY <1>6, <4>1, <4>2
    <3>3. QED
      BY <2>2, <3>1, <3>2
  <2>4. QED
    BY <2>1, <2>3
<1>7. ASSUME NEW i \in 1 .. Len(ruleRows) + 1, NEW d \in Ids,
             ruleRows' = InsertAt(ruleRows, i, [id |-> d, version |-> ruleEdits'])
      PROVE  \E rows \in Seq(RuleRows) :
                /\ ruleRows' = rows
                /\ \A k \in 1 .. Len(rows) : rows[k] \in ToSet(ruleRows) \/ rows[k].version # 0
  <2> DEFINE new == <<[id |-> d, version |-> ruleEdits']>>
             front == SubSeq(ruleRows, 1, i - 1)
             back == SubSeq(ruleRows, i, Len(ruleRows))
  <2>1. /\ front \in Seq(RuleRows)
        /\ \A k \in 1 .. Len(front) : front[k] \in ToSet(ruleRows)
    BY <1>3, <1>5
  <2>2. /\ back \in Seq(RuleRows)
        /\ \A k \in 1 .. Len(back) : back[k] \in ToSet(ruleRows)
    BY <1>3, <1>5
  <2>3. /\ new \in Seq(RuleRows)
        /\ \A k \in 1 .. Len(new) : new[k].version # 0
    BY <1>1 DEF RuleRows
  <2>4. ruleRows' = front \o new \o back
    BY <1>7 DEF InsertAt
  <2> HIDE DEF new, front, back
  <2>5. /\ front \o new \in Seq(RuleRows)
        /\ \A k \in 1 .. Len(front \o new) :
              (front \o new)[k] \in ToSet(ruleRows) \/ (front \o new)[k].version # 0
    BY <1>6, <2>1, <2>3
  <2> DEFINE start == front \o new
  <2> HIDE DEF start
  <2>6. /\ start \o back \in Seq(RuleRows)
        /\ \A k \in 1 .. Len(start \o back) :
              (start \o back)[k] \in ToSet(ruleRows) \/ (start \o back)[k].version # 0
    BY <1>6, <2>2, <2>5 DEF start
  <2>7. QED
    BY <2>4, <2>6 DEF start
<1>8. ASSUME NEW i \in DOMAIN ruleRows, ruleRows' = [ruleRows EXCEPT ![i].version = ruleEdits']
      PROVE  \E rows \in Seq(RuleRows) :
                /\ ruleRows' = rows
                /\ \A k \in 1 .. Len(rows) : rows[k] \in ToSet(ruleRows) \/ rows[k].version # 0
  <2> DEFINE new == [ruleRows[i] EXCEPT !.version = ruleEdits']
  <2>1. i \in 1 .. Len(ruleRows) /\ new \in RuleRows /\ new.version # 0
    BY <1>1, <1>4, Elements DEF RuleRows
  <2>2. ruleRows' = [ruleRows EXCEPT ![i] = new]
    BY <1>8
  <2> HIDE DEF new
  <2>3. /\ [ruleRows EXCEPT ![i] = new] \in Seq(RuleRows)
        /\ Len([ruleRows EXCEPT ![i] = new]) = Len(ruleRows)
        /\ \A k \in 1 .. Len(ruleRows) :
              [ruleRows EXCEPT ![i] = new][k] = IF k = i THEN new ELSE ruleRows[k]
    BY <1>1, <2>1, ExceptSeq
  <2>4. QED
    BY <1>3, <2>1, <2>2, <2>3
<1>9. ASSUME NEW i \in DOMAIN ruleRows, ruleRows' = RemoveAt(ruleRows, i)
      PROVE  \E rows \in Seq(RuleRows) :
                /\ ruleRows' = rows
                /\ \A k \in 1 .. Len(rows) : rows[k] \in ToSet(ruleRows) \/ rows[k].version # 0
  <2> DEFINE front == SubSeq(ruleRows, 1, i - 1)
             back == SubSeq(ruleRows, i + 1, Len(ruleRows))
  <2>1. i \in 1 .. Len(ruleRows)
    BY <1>1, Elements
  <2>2. /\ front \in Seq(RuleRows)
        /\ \A k \in 1 .. Len(front) : front[k] \in ToSet(ruleRows)
    BY <1>3, <1>5, <2>1
  <2>3. /\ back \in Seq(RuleRows)
        /\ \A k \in 1 .. Len(back) : back[k] \in ToSet(ruleRows)
    <3>1. Len(ruleRows) \in Nat
      BY <1>1, Elements
    <3>2. i + 1 \in 1 .. Len(ruleRows) + 1 /\ Len(ruleRows) \in 0 .. Len(ruleRows)
      BY <2>1, <3>1
    <3>3. QED
      BY <1>3, <1>5, <3>1, <3>2
  <2>4. ruleRows' = front \o back
    BY <1>9 DEF RemoveAt
  <2> HIDE DEF front, back
  <2>5. QED
    BY <1>6, <2>2, <2>3, <2>4
<1>10. \E rows \in Seq(RuleRows) :
          /\ ruleRows' = rows
          /\ \A k \in 1 .. Len(rows) : rows[k] \in ToSet(ruleRows) \/ rows[k].version # 0
  BY <1>7, <1>8, <1>9 DEF EditRules
<1>11. QED
  BY <1>1, <1>2, <1>10

\* An edit brings back no rule of the profile's that has gone.
LEMMA EditKeepsInv ==
    ASSUME InventoryInv, EditRules
    PROVE  InventoryInv'
<1>1. /\ UNCHANGED <<answering, profiled, paging, attesting, firstCapture, wasProfile>>
      /\ unedited' = FALSE
  BY DEF EditRules
<1>2. Reading'
  <2>2. (~ Shown(paging.path) => paging.rows = <<>>)'
    BY <1>1 DEF InventoryInv, Reading, Shown
  <2>3. QED
    BY <1>1, <2>2, EditedRows DEF InventoryInv, Reading
<1>3. Profile'
  BY <1>1 DEF InventoryInv, Profile
<1>4. SecondReadMisses'
  <2> SUFFICES ASSUME attesting' = "second", firstCapture' = profiled', ~ wasProfile'
               PROVE  \E r \in DOMAIN profiled' : r \notin ToSet(ruleRows') \cup ToSet(paging'.rows)
    BY DEF SecondReadMisses
  <2>1. PICK r \in DOMAIN profiled : r \notin ToSet(ruleRows) \cup ToSet(paging.rows)
    BY <1>1 DEF InventoryInv, SecondReadMisses
  <2>2. r.version = 0
    BY DEF InventoryInv, Profile
  <2>3. r \notin ToSet(ruleRows')
    BY <2>1, <2>2, EditedRows DEF InventoryInv
  <2>4. QED
    BY <1>1, <2>1, <2>3
<1>5. QED
  BY <1>1, <1>2, <1>3, <1>4 DEF InventoryInv, QuietReadProceeds, QuietReadIsComplete

\* A read starts with nothing read.
LEMMA Started ==
    ASSUME NEW path \in {"none", "canonical", "legacy"}
    PROVE  /\ Start(path) \in [path : {"none", "canonical", "legacy"}, rows : Seq(RuleRows),
                               seen : SUBSET Seq(Ids)]
           /\ Start(path).rows = <<>>
           /\ Start(path).path = path
BY DEF Start

\* A read that has not gone on keeps the invariant, whatever the outcome.
LEMMA StartsAfresh ==
    ASSUME InventoryInv, UNCHANGED <<gateway, profiled>>,
           NEW path \in {"none", "canonical", "legacy"}, paging' = Start(path),
           attesting' \in {"idle", "first", "second", "live", "blocked", "sent"},
           unedited' \in BOOLEAN, wasProfile' \in BOOLEAN,
           attesting' = "second" =>
               /\ firstCapture' = profiled /\ ~ wasProfile'
                     => \E r \in DOMAIN profiled : r \notin ToSet(ruleRows)
               /\ unedited' => firstCapture' = routePolicyFingerprint(ruleRows)
    PROVE  InventoryInv'
<1>1. /\ UNCHANGED <<ruleRows, ruleEdits, answering, profiled>>
      /\ paging'.rows = <<>> /\ ToSet(<<>>) = {} /\ Len(<<>>) = 0
  BY Started DEF gateway, ToSet
<1>2. Reading'
  <2>1. paging' \in [path : {"none", "canonical", "legacy"}, rows : Seq(RuleRows), seen : SUBSET Seq(Ids)]
    BY Started
  <2>2. (~ Shown(paging.path) => paging.rows = <<>>)'
    BY <1>1
  <2>3. QED
    BY <1>1, <2>1, <2>2 DEF InventoryInv, Reading
<1>3. Profile'
  BY <1>1 DEF InventoryInv, Profile
<1>4. SecondReadMisses'
  BY <1>1 DEF SecondReadMisses
<1>5. QuietReadProceeds'
  <2>1. SubSeq(ruleRows, 1, 0) = <<>> /\ Len(ruleRows) \in Nat
    BY Elements, SubSeqEmpty DEF InventoryInv, Reading
  <2>2. QED
    BY <1>1, <2>1 DEF QuietReadProceeds
<1>6. QuietReadIsComplete'
  BY <1>1 DEF QuietReadIsComplete, routePolicyFingerprint
<1>7. QED
  BY <1>2, <1>3, <1>4, <1>5, <1>6 DEF InventoryInv

\* Without an edit what has been read with a page is a beginning, too.
LEMMA QuietGot ==
    ASSUME Reading, QuietReadProceeds, unedited, attesting = "first", Shown(paging.path)
    PROVE  Len(Got) <= Len(ruleRows) /\ Got = SubSeq(ruleRows, 1, Len(Got))
<1> DEFINE n == Len(paging.rows)
           page == PageAt(n)
<1>1. n \in Nat /\ Len(ruleRows) \in Nat /\ n <= Len(ruleRows)
  BY Elements DEF Reading, QuietReadProceeds
<1>2. paging.rows = SubSeq(ruleRows, 1, n)
  BY DEF QuietReadProceeds
<1>3. NewPage = page
  BY DEF NewPage, nextOffset
<1>4. n + Len(page) <= Len(ruleRows) /\ page = SubSeq(ruleRows, n + 1, n + Len(page))
  BY <1>1, PageRows DEF Reading
<1>5. Len(Got) = n + Len(page) /\ Len(page) \in Nat
  BY <1>3, GotRows, Elements
<1> HIDE DEF page, n
<1>6. SubSeq(ruleRows, 1, n) \o SubSeq(ruleRows, n + 1, n + Len(page))
          = SubSeq(ruleRows, 1, n + Len(page))
  <2>1. /\ ruleRows \in Seq(RuleRows) /\ 1 \in 1 .. Len(ruleRows) + 1
        /\ n \in 1 - 1 .. Len(ruleRows) /\ n + Len(page) \in n .. Len(ruleRows)
    BY <1>1, <1>4, <1>5 DEF Reading
  <2>2. QED
    BY <2>1, ConcatAdjacentSubSeq
<1>7. Got = SubSeq(ruleRows, 1, n) \o SubSeq(ruleRows, n + 1, n + Len(page))
  BY <1>2, <1>3, <1>4 DEF Got, n
<1>8. QED
  BY <1>4, <1>5, <1>6, <1>7

\* A page in the middle of a read.
LEMMA PageKeepsInv ==
    ASSUME InventoryInv, UNCHANGED <<gateway, profiled>>,
           UNCHANGED <<attesting, firstCapture, unedited, wasProfile>>,
           NEW seen \in SUBSET Seq(Ids),
           Shown(paging.path),
           paging' = [paging EXCEPT !.rows = Got, !.seen = seen]
    PROVE  InventoryInv'
<1>1. /\ UNCHANGED <<ruleRows, ruleEdits, answering, profiled>>
      /\ paging'.rows = Got /\ paging'.path = paging.path
  BY DEF gateway, InventoryInv, Reading
<1>2. Reading
  BY DEF InventoryInv
<1>3. Reading'
  <2>1. paging' \in [path : {"none", "canonical", "legacy"}, rows : Seq(RuleRows), seen : SUBSET Seq(Ids)]
    BY <1>2, GotRows DEF Reading
  <2>2. Shown(paging.path)'
    BY <1>1 DEF Shown
  <2>3. QED
    BY <1>1, <1>2, <2>1, <2>2 DEF Reading
<1>4. Profile'
  BY <1>1 DEF InventoryInv, Profile
<1>5. SecondReadMisses'
  <2> SUFFICES ASSUME attesting = "second", firstCapture = profiled, ~ wasProfile
               PROVE  \E r \in DOMAIN profiled : r \notin ToSet(ruleRows) \cup ToSet(Got)
    BY <1>1 DEF SecondReadMisses
  <2>1. PICK r \in DOMAIN profiled : r \notin ToSet(ruleRows) \cup ToSet(paging.rows)
    BY DEF InventoryInv, SecondReadMisses
  <2>2. QED
    BY <1>2, <2>1, GotRows
<1>6. QuietReadProceeds'
  BY <1>1, QuietGot DEF InventoryInv, QuietReadProceeds
<1>7. QuietReadIsComplete'
  BY <1>1 DEF InventoryInv, QuietReadIsComplete, routePolicyFingerprint
<1>8. QED
  BY <1>3, <1>4, <1>5, <1>6, <1>7 DEF InventoryInv

-----------------------------------------------------------------------------
(* The attestation.                                                        *)

\* A read that has ended: the rules are counted.
LEMMA CapturedPolicy ==
    ASSUME InventoryInv, Shown(paging.path), Len(Got) >= Len(ruleRows),
           routePolicyFingerprint(Got) = profiled,
           routePolicyFingerprint(ruleRows) # profiled
    PROVE  \E r \in DOMAIN profiled : r \notin ToSet(ruleRows)
<1>1. Profile /\ Got \in Seq(RuleRows) /\ ruleRows \in Seq(RuleRows)
  BY GotRows DEF InventoryInv, Reading
<1>2. Len(Got) = Cardinality(DOMAIN profiled)
  BY <1>1, ProfileCounted
<1>3. QED
  BY <1>1, <1>2, ProfileFound

\* Without an edit it has read the gateway's rules.
LEMMA CapturedQuietly ==
    ASSUME InventoryInv, Shown(paging.path), Len(Got) >= Len(ruleRows),
           unedited, attesting = "first"
    PROVE  Got = ruleRows
<1>1. ruleRows \in Seq(RuleRows) /\ Len(ruleRows) \in Nat /\ Len(Got) \in Nat
  BY GotRows, Elements DEF InventoryInv, Reading
<1>2. Len(Got) <= Len(ruleRows) /\ Got = SubSeq(ruleRows, 1, Len(Got))
  BY QuietGot DEF InventoryInv
<1>3. Got = SubSeq(ruleRows, 1, Len(ruleRows))
  BY <1>1, <1>2
<1>4. QED
  BY <1>1, <1>3, SubSeqFull

\* What the session can tell of its attestation; see Live.
Stage == CASE attesting = "first" -> "asked"
           [] attesting = "second" -> IF wasProfile THEN "live" ELSE "blocked"
           [] OTHER -> attesting

\* What LiveCheck permits.
Attests ==
    \/ UNCHANGED <<profiled, Stage>>
    \/ /\ UNCHANGED <<ruleRows, profiled>>
       /\ \/ Stage = "idle" /\ Stage' = "asked"
          \/ /\ Stage = "asked"
             /\ Stage' = IF routePolicyFingerprint(ruleRows) = profiled THEN "live" ELSE "blocked"
          \/ Stage \in {"asked", "live"} /\ Stage' = "blocked"
          \/ Stage = "live" /\ Stage' = "sent"

\* An attestation that is given up.
LEMMA BlockStep ==
    ASSUME InventoryInv, attesting \in {"first", "second", "live"}, Block,
           UNCHANGED <<gateway, profiled>>
    PROVE  InventoryInv' /\ Attests
<1>1. InventoryInv'
  <2>1. paging' = Start("none") /\ attesting' = "blocked" /\ UNCHANGED <<unedited, wasProfile>>
    BY DEF Block, NoRead
  <2>2. unedited \in BOOLEAN /\ wasProfile \in BOOLEAN
    BY DEF InventoryInv, Reading
  <2>3. QED
    BY <2>1, <2>2, StartsAfresh
<1>2. attesting' = "blocked" /\ Stage' = "blocked"
  BY DEF Block, Stage
<1>3. Stage \in {"asked", "live", "blocked"}
  BY DEF Stage
<1>4. QED
  BY <1>1, <1>2, <1>3 DEF Attests, gateway

\* The first capture is the look at the policy; the second confirms it.
LEMMA CapturedStep ==
    ASSUME InventoryInv, attesting \in {"first", "second"}, UNCHANGED <<gateway, profiled>>,
           Shown(paging.path), Len(Got) >= Len(ruleRows), Captured(Got)
    PROVE  InventoryInv' /\ Attests
<1>1. CASE Got = <<>>
  BY <1>1, BlockStep DEF Captured
<1>2. unedited \in BOOLEAN /\ wasProfile \in BOOLEAN
  BY DEF InventoryInv, Reading
<1>3. CASE /\ attesting = "first"
           /\ firstCapture' = routePolicyFingerprint(Got)
           /\ wasProfile' = (routePolicyFingerprint(ruleRows) = profiled)
           /\ attesting' = "second" /\ paging' = Start("canonical")
           /\ UNCHANGED unedited
  <2>1. firstCapture' = profiled /\ ~ wasProfile' => \E r \in DOMAIN profiled : r \notin ToSet(ruleRows)
    BY <1>3, CapturedPolicy
  <2>2. unedited' => firstCapture' = routePolicyFingerprint(ruleRows)
    BY <1>3, CapturedQuietly
  <2>3. attesting' = "second" /\ paging' = Start("canonical") /\ unedited' \in BOOLEAN
    BY <1>2, <1>3
  <2>4. wasProfile' \in BOOLEAN
    BY <1>3
  <2>5. InventoryInv'
    BY <2>1, <2>2, <2>3, <2>4, StartsAfresh
  <2>6. Stage = "asked" /\ Stage' = IF wasProfile' THEN "live" ELSE "blocked"
    BY <1>3 DEF Stage
  <2>7. wasProfile' <=> routePolicyFingerprint(ruleRows) = profiled
    BY <1>3
  <2>8. QED
    BY <2>5, <2>6, <2>7 DEF Attests, gateway
<1>4. CASE /\ attesting = "second"
           /\ attesting' = IF /\ routePolicyFingerprint(Got) = firstCapture
                          /\ Compatible(Got)
                          /\ firstCapture = profiled
                       THEN "live" ELSE "blocked"
           /\ paging' = NoRead
           /\ UNCHANGED <<firstCapture, wasProfile, unedited>>
  <2>1. attesting' = "live" => wasProfile
    <3> SUFFICES ASSUME attesting' = "live", ~ wasProfile PROVE FALSE
      OBVIOUS
    <3>1. routePolicyFingerprint(Got) = profiled /\ firstCapture = profiled
      BY <1>4
    <3>2. PICK r \in DOMAIN profiled : r \notin ToSet(ruleRows) \cup ToSet(paging.rows)
      BY <1>4, <3>1 DEF InventoryInv, SecondReadMisses
    <3>3. Reading /\ Profile
      BY DEF InventoryInv
    <3>4. r \in ToSet(Got)
      BY <3>1, <3>3, GotRows, ProfileCounted
    <3>5. QED
      BY <3>2, <3>3, <3>4, GotRows
  <2>2. InventoryInv'
    <3>1. paging' = Start("none") /\ attesting' \in {"live", "blocked"}
      BY <1>4 DEF NoRead
    <3>2. unedited' \in BOOLEAN /\ wasProfile' \in BOOLEAN
      BY <1>2, <1>4
    <3>3. QED
      BY <3>1, <3>2, StartsAfresh
  <2>3. attesting' \in {"live", "blocked"} /\ Stage' = attesting'
    BY <1>4 DEF Stage
  <2>4. Stage = IF wasProfile THEN "live" ELSE "blocked"
    BY <1>4 DEF Stage
  <2>5. QED
    BY <2>1, <2>2, <2>3, <2>4 DEF Attests, gateway
<1>5. QED
  BY <1>1, <1>3, <1>4 DEF Captured

\* A page more.
LEMMA ReadPageStep ==
    ASSUME InventoryInv, ReadPage
    PROVE  InventoryInv' /\ Attests
<1> DEFINE ids == [i \in DOMAIN NewPage |-> NewPage[i].id]
           verdict == pageVerdict(Total(paging.path), Got, NewPage, ids \in paging.seen)
<1>1. attesting \in {"first", "second"} /\ UNCHANGED <<gateway, profiled>>
  BY DEF ReadPage
<1>2. Reading /\ unedited \in BOOLEAN /\ wasProfile \in BOOLEAN
  BY DEF InventoryInv, Reading
<1>3. ASSUME Restarted
      PROVE  InventoryInv' /\ Attests
  <2>1. /\ paging' = Start("legacy")
        /\ UNCHANGED <<attesting, firstCapture, wasProfile, unedited>>
    BY <1>3 DEF Restarted
  <2>2. attesting = "second" =>
            /\ firstCapture = profiled /\ ~ wasProfile
                   => \E r \in DOMAIN profiled : r \notin ToSet(ruleRows)
            /\ unedited => firstCapture = routePolicyFingerprint(ruleRows)
    BY DEF InventoryInv, SecondReadMisses, QuietReadIsComplete
  <2>3. InventoryInv'
    BY <1>1, <1>2, <2>1, <2>2, StartsAfresh
  <2>4. UNCHANGED <<profiled, Stage>>
    BY <1>1, <2>1 DEF Stage
  <2>5. QED
    BY <2>3, <2>4 DEF Attests
<1>4. CASE paging.path = "canonical" /\ answering.paths = "legacy"
  BY <1>3, <1>4 DEF ReadPage
<1>5. CASE ~ (paging.path = "canonical" /\ answering.paths = "legacy")
  <2>1. \/ verdict = "refuse" /\ Block
        \/ /\ verdict = "more"
           /\ paging' = [paging EXCEPT !.rows = Got, !.seen = @ \cup {ids}]
           /\ UNCHANGED <<attesting, firstCapture, unedited, wasProfile>>
        \/ /\ verdict = "end"
           /\ IF paging.path = "canonical" /\ Got = <<>> THEN Restarted ELSE Captured(Got)
    BY <1>5 DEF ReadPage, NewPage, Got
  <2>2. CASE verdict = "refuse" /\ Block
    BY <1>1, <2>2, BlockStep
  <2>3. CASE /\ verdict = "more"
             /\ paging' = [paging EXCEPT !.rows = Got, !.seen = @ \cup {ids}]
             /\ UNCHANGED <<attesting, firstCapture, unedited, wasProfile>>
    <3>1. Shown(paging.path)
      <4>1. ASSUME ~ Shown(paging.path) PROVE FALSE
        <5>1. paging.rows = <<>> /\ NewPage = <<>> /\ Total(paging.path) = 0
          BY <1>2, <4>1 DEF Reading, NewPage, Total
        <5>2. Got = <<>> /\ Len(Got) = 0 /\ Len(NewPage) = 0
          BY <5>1 DEF Got
        <5>3. PageLimit \in Nat \ {0}
          BY InventoryAssumption
        <5>4. verdict # "more"
          BY <5>1, <5>2, <5>3 DEF pageVerdict
        <5>5. QED
          BY <2>3, <5>4
      <4>2. QED
        BY <4>1
    <3>2. ids \in Seq(Ids)
      <4>1. NewPage \in Seq(RuleRows)
        BY <1>2, GotRows
      <4>2. /\ Len(NewPage) \in Nat /\ DOMAIN NewPage = 1 .. Len(NewPage)
            /\ \A i \in 1 .. Len(NewPage) : NewPage[i].id \in Ids
        BY <4>1, Elements DEF RuleRows
      <4>3. ids \in [1 .. Len(NewPage) -> Ids]
        BY <4>2
      <4> HIDE DEF ids
      <4>4. QED
        BY <4>2, <4>3
    <3> HIDE DEF ids
    <3>3. paging.seen \cup {ids} \in SUBSET Seq(Ids)
      BY <1>2, <3>2 DEF Reading
    <3>4. paging' = [paging EXCEPT !.rows = Got, !.seen = paging.seen \cup {ids}]
      BY <2>3
    <3>5. UNCHANGED <<attesting, firstCapture, unedited, wasProfile>>
      BY <2>3
    <3>6. InventoryInv'
      BY <1>1, <3>1, <3>3, <3>4, <3>5, PageKeepsInv
    <3>7. UNCHANGED <<profiled, Stage>>
      BY <1>1, <3>5 DEF Stage
    <3>8. QED
      BY <3>6, <3>7 DEF Attests
  <2>4. CASE verdict = "end" /\ paging.path = "canonical" /\ Got = <<>> /\ Restarted
    BY <1>3, <2>4
  <2>5. CASE verdict = "end" /\ ~ (paging.path = "canonical" /\ Got = <<>>) /\ Captured(Got)
    <3>1. Shown(paging.path) /\ Len(Got) >= Len(ruleRows)
      BY <1>2, <2>5, EndedRead
    <3>2. QED
      BY <1>1, <2>5, <3>1, CapturedStep
  <2>6. QED
    BY <2>1, <2>2, <2>3, <2>4, <2>5
<1>6. QED
  BY <1>4, <1>5

\* Every step keeps the invariant and is one the session may see.
LEMMA InventoryStep ==
    ASSUME InventoryInv, [InventoryNext]_inventoryVars
    PROVE  InventoryInv' /\ Attests
<1>1. CASE UNCHANGED inventoryVars
  <2>1. UNCHANGED <<ruleRows, ruleEdits, answering, profiled, paging, attesting, firstCapture,
                    unedited, wasProfile>>
    BY <1>1 DEF inventoryVars, gateway
  <2>2. InventoryInv'
    BY <2>1 DEF InventoryInv, Reading, Profile, SecondReadMisses, QuietReadProceeds,
                QuietReadIsComplete, Shown, routePolicyFingerprint
  <2>3. QED
    BY <2>1, <2>2 DEF Attests, Stage
<1>2. CASE EditRules
  <2>1. UNCHANGED <<profiled, Stage>>
    BY <1>2 DEF EditRules, Stage
  <2>2. QED
    BY <1>2, <2>1, EditKeepsInv DEF Attests
<1>3. CASE AskAttestation
  <2>1. /\ attesting = "idle" /\ attesting' = "first" /\ paging' = Start("canonical")
        /\ unedited' = TRUE /\ UNCHANGED <<gateway, profiled, firstCapture, wasProfile>>
    BY <1>3 DEF AskAttestation
  <2>2. wasProfile \in BOOLEAN
    BY DEF InventoryInv, Reading
  <2>3. InventoryInv'
    BY <2>1, <2>2, StartsAfresh
  <2>4. Stage = "idle" /\ Stage' = "asked"
    BY <2>1 DEF Stage
  <2>5. QED
    BY <2>1, <2>3, <2>4 DEF Attests, gateway
<1>4. CASE ReadPage
  BY <1>4, ReadPageStep
<1>5. CASE AttestFails
  BY <1>5, BlockStep DEF AttestFails
<1>6. CASE DispatchLive
  <2>1. /\ attesting = "live" /\ attesting' = "sent"
        /\ UNCHANGED <<gateway, profiled, paging, firstCapture, unedited, wasProfile>>
    BY <1>6 DEF DispatchLive
  <2>2. InventoryInv'
    BY <2>1 DEF gateway, InventoryInv, Reading, Profile, SecondReadMisses, QuietReadProceeds,
                QuietReadIsComplete, Shown
  <2>3. Stage = "live" /\ Stage' = "sent"
    BY <2>1 DEF Stage
  <2>4. QED
    BY <2>1, <2>2, <2>3 DEF Attests, gateway
<1>7. QED
  BY <1>1, <1>2, <1>3, <1>4, <1>5, <1>6 DEF InventoryNext

\* What an attestation has read is consistent at every step.
THEOREM InventoryInvariant == InventorySpec => []InventoryInv
BY InventoryInitInv, InventoryStep, PTL DEF InventorySpec

\* A first capture that no edit interfered with is the gateway's policy,
\* wherever page limits cut it and on whichever path it was answered.
THEOREM QuietReadsAreComplete == InventorySpec => []QuietReadIsComplete
<1>1. InventoryInv => QuietReadIsComplete
  BY DEF InventoryInv
<1>2. QED
  BY <1>1, InventoryInvariant, PTL

\* The attestation of two paged reads is an atomic look at the policy, for any
\* inventory, page limit and edits between the pages.
THEOREM AttestationAtomic == InventorySpec => AttestationIsAtomic
<1>1. InventoryInit => Live!Init
  BY DEF InventoryInit, Live!Init
<1>2. InventoryInv /\ [InventoryNext]_inventoryVars => [Live!Next]_(Live!vars)
  <2> SUFFICES ASSUME InventoryInv, [InventoryNext]_inventoryVars
               PROVE  [Live!Next]_(Live!vars)
    OBVIOUS
  <2>1. Attests
    BY InventoryStep
  <2>2. UNCHANGED ruleRows => UNCHANGED routePolicyFingerprint(ruleRows)
    BY DEF routePolicyFingerprint
  <2>3. QED
    BY <2>1, <2>2 DEF Attests, Stage, Live!Next, Live!Edit, Live!Ask, Live!Check, Live!Refuse,
                      Live!Dispatch, Live!vars
<1>3. QED
  BY InventoryInvariant, <1>1, <1>2, PTL DEF InventorySpec, AttestationIsAtomic, Live!Spec

-----------------------------------------------------------------------------
(* Whose catalogue a session uses.                                         *)

\* Routes come from a cache of the session's key or from a fetch, so they are
\* of one of its two keys, whatever the other sessions write to the shared cache
\* and whatever key the environment names.
THEOREM RoutesAreOwn == Spec => []RoutesOfSessionKeys
<1>1. Init => RoutesOfSessionKeys
  BY DEF Init, RoutesOfSessionKeys, Nothing
<1>2. RoutesOfSessionKeys /\ [Next]_vars => RoutesOfSessionKeys'
  <2> SUFFICES ASSUME RoutesOfSessionKeys, [Next]_vars
               PROVE  RoutesOfSessionKeys'
    OBVIOUS
  <2>1. CASE UNCHANGED routes
    BY <2>1 DEF RoutesOfSessionKeys
  <2>2. CASE LoadCache
    BY <2>2 DEF LoadCache, usableCache, RoutesOfSessionKeys
  <2>3. \A m : \A registers \in BOOLEAN : Fetched(m, registers) => RoutesOfSessionKeys'
    BY DEF Fetched, RoutesOfSessionKeys
  <2>4. CASE EndFetch
    <3>1. routes'.key = DiscoveryKey
      BY <2>4 DEF EndFetch, Fetched
    <3>2. QED
      BY <3>1 DEF RoutesOfSessionKeys
  <2>5. CASE EndCommand
    BY <2>1, <2>3, <2>5 DEF EndCommand
  <2>6. CASE \/ Edit \/ Sync \/ OtherSession \/ StartFetch \/ FetchFails \/ StartCommand
             \/ \E a \in Offered(models), n \in DOMAIN Needs : Ask(a, n)
             \/ Attest \/ Dispatch \/ NextAttempt \/ Finish
    <3>1. UNCHANGED routes
      BY <2>6 DEF Edit, Sync, OtherSession, StartFetch, FetchFails, StartCommand, Ask, Attest,
                  Dispatch, NextAttempt, Finish, Catalogued
    <3>2. QED
      BY <2>1, <3>1
  <2>7. QED
    BY <2>1, <2>2, <2>4, <2>5, <2>6 DEF Next, vars
<1>3. QED
  BY <1>1, <1>2, PTL DEF Spec

-----------------------------------------------------------------------------
(* Subsequences.                                                           *)

\* A set of natural numbers that is not empty has a least one.
LEMMA LeastNumber ==
    ASSUME NEW S \in SUBSET Nat, S # {}
    PROVE  \E i \in S : \A j \in S : i <= j
<1> DEFINE R == OpToRel(<, Nat)
<1>1. \E x \in S : \A y \in S : ~ (<<y, x>> \in R)
  <2> HIDE DEF R
  <2>1. IsWellFoundedOn(R, Nat)
    BY NatLessThanWellFounded, Zenon DEF R
  <2>2. QED
    BY <2>1, WFMin, Zenon
<1>2. \A x, y \in Nat : <<y, x>> \in R <=> y < x
  BY DEF OpToRel
<1>3. PICK i \in S : \A j \in S : ~ (j < i)
  BY <1>1, <1>2
<1>4. QED
  BY <1>3

\* Later positions have higher ranks.
LEMMA Ranked ==
    ASSUME NEW N \in Nat, NEW keep \in SUBSET (1 .. N)
    PROVE  /\ IsFiniteSet(keep) /\ Cardinality(keep) \in Nat
           /\ \A i \in keep : Rank(keep, i) \in 1 .. Cardinality(keep)
           /\ \A i, j \in keep : i < j => Rank(keep, i) < Rank(keep, j)
<1> DEFINE upTo(i) == {j \in keep : j <= i}
<1>1. IsFiniteSet(keep) /\ Cardinality(keep) \in Nat
  <2>1. IsFiniteSet(1 .. N)
    BY FS_Interval
  <2>2. IsFiniteSet(keep)
    BY <2>1, FS_Subset
  <2>3. QED
    BY <2>2, FS_CardinalityType
<1>2. ASSUME NEW i \in keep
      PROVE  /\ IsFiniteSet(upTo(i)) /\ Cardinality(upTo(i)) \in 1 .. Cardinality(keep)
             /\ Rank(keep, i) = Cardinality(upTo(i))
  <2>1. upTo(i) \in SUBSET keep /\ i \in upTo(i)
    OBVIOUS
  <2>2. Rank(keep, i) = Cardinality(upTo(i))
    BY DEF Rank
  <2> HIDE DEF upTo
  <2>3. IsFiniteSet(upTo(i)) /\ Cardinality(upTo(i)) <= Cardinality(keep)
    BY <1>1, <2>1, FS_Subset
  <2>4. Cardinality(upTo(i)) \in Nat /\ Cardinality(upTo(i)) # 0
    BY <2>1, <2>3, FS_CardinalityType, FS_EmptySet
  <2>5. QED
    BY <1>1, <2>2, <2>3, <2>4
<1>3. ASSUME NEW i \in keep, NEW j \in keep, i < j PROVE Rank(keep, i) < Rank(keep, j)
  <2>0. i \in Int /\ j \in Int /\ \A k \in keep : k \in Int
    OBVIOUS
  <2>1. upTo(i) \in SUBSET (upTo(j) \ {j}) /\ j \in upTo(j)
    <3>1. \A k \in keep : k <= i => k <= j /\ k # j
      BY <1>3, <2>0
    <3>2. \A k : k \in upTo(i) => k \in upTo(j) \ {j}
      BY <3>1
    <3>3. j \in upTo(j)
      BY <2>0
    <3> HIDE DEF upTo
    <3>4. QED
      BY <3>2, <3>3
  <2> HIDE DEF upTo
  <2>2. IsFiniteSet(upTo(j) \ {j}) /\ Cardinality(upTo(j) \ {j}) = Cardinality(upTo(j)) - 1
    BY <1>2, <2>1, FS_RemoveElement
  <2>3. Cardinality(upTo(i)) <= Cardinality(upTo(j) \ {j})
    BY <2>1, <2>2, FS_Subset
  <2>4. Rank(keep, i) = Cardinality(upTo(i)) /\ Rank(keep, j) = Cardinality(upTo(j))
        /\ Cardinality(upTo(i)) \in Nat /\ Cardinality(upTo(j)) \in Nat
    BY <1>2
  <2>5. QED
    BY <2>2, <2>3, <2>4
<1>4. QED
  BY <1>1, <1>2, <1>3

\* Each rank has its position.
LEMMA Placed ==
    ASSUME NEW N \in Nat, NEW keep \in SUBSET (1 .. N)
    PROVE  /\ Cardinality(keep) \in Nat
           /\ \A n \in 1 .. Cardinality(keep) :
                Place(keep, n) \in keep /\ Rank(keep, Place(keep, n)) = n
           /\ \A i \in keep :
                Rank(keep, i) \in 1 .. Cardinality(keep) /\ Place(keep, Rank(keep, i)) = i
           /\ \A m, n \in 1 .. Cardinality(keep) : m < n <=> Place(keep, m) < Place(keep, n)
<1> DEFINE f == [i \in keep |-> Rank(keep, i)]
           c == Cardinality(keep)
<1>1. /\ IsFiniteSet(keep) /\ c \in Nat
      /\ \A i \in keep : Rank(keep, i) \in 1 .. c
      /\ \A i, j \in keep : i < j => Rank(keep, i) < Rank(keep, j)
  BY Ranked
<1>2. \A i, j \in keep : Rank(keep, i) = Rank(keep, j) => i = j
  <2> SUFFICES ASSUME NEW i \in keep, NEW j \in keep, Rank(keep, i) = Rank(keep, j) PROVE i = j
    OBVIOUS
  <2>1. i \in Int /\ j \in Int
    OBVIOUS
  <2>2. ~ (i < j) /\ ~ (j < i)
    BY <1>1
  <2>3. QED
    BY <2>1, <2>2
<1>3. f \in Injection(keep, 1 .. c)
  BY <1>1, <1>2 DEF Injection, IsInjective
<1>4. f \in Surjection(keep, 1 .. c)
  <2>1. IsFiniteSet(1 .. c) /\ Cardinality(1 .. c) = c
    BY <1>1, FS_Interval
  <2> HIDE DEF f
  <2>2. QED
    BY <1>3, <2>1, FS_Injection
<1>5. \A n \in 1 .. c : \E i \in keep : Rank(keep, i) = n
  BY <1>4 DEF Surjection
<1>6. \A n \in 1 .. c : Place(keep, n) \in keep /\ Rank(keep, Place(keep, n)) = n
  BY <1>5, Zenon DEF Place
<1>7. \A i \in keep : Place(keep, Rank(keep, i)) = i
  BY <1>1, <1>2, <1>6, Zenon
<1>8. ASSUME NEW m \in 1 .. c, NEW n \in 1 .. c PROVE m < n <=> Place(keep, m) < Place(keep, n)
  <2> DEFINE x == Place(keep, m)
             y == Place(keep, n)
  <2>1. x \in keep /\ y \in keep /\ Rank(keep, x) = m /\ Rank(keep, y) = n
    BY <1>6
  <2> HIDE DEF x, y
  <2>2. (x < y => m < n) /\ (y < x => n < m) /\ (x = y => m = n)
    BY <1>1, <2>1
  <2>3. x \in Int /\ y \in Int
    BY <2>1
  <2>4. x < y <=> m < n
    BY <2>2, <2>3
  <2>5. QED
    BY <2>4 DEF x, y
<1>9. QED
  BY <1>1, <1>6, <1>7, <1>8

\* A subsequence has as many items as there are positions selected.
LEMMA SelectedItems ==
    ASSUME NEW X, NEW s \in Seq(X), NEW keep \in SUBSET DOMAIN s
    PROVE  /\ Selected(s, keep) \in Seq(X)
           /\ Cardinality(keep) \in Nat
           /\ DOMAIN Selected(s, keep) = 1 .. Cardinality(keep)
           /\ Len(Selected(s, keep)) = Cardinality(keep)
           /\ \A n \in 1 .. Cardinality(keep) : Selected(s, keep)[n] = s[Place(keep, n)]
<1>1. Len(s) \in Nat /\ keep \in SUBSET (1 .. Len(s)) /\ \A i \in keep : s[i] \in X
  OBVIOUS
<1>2. Cardinality(keep) \in Nat /\ \A n \in 1 .. Cardinality(keep) : Place(keep, n) \in keep
  BY <1>1, Placed
<1> DEFINE c == Cardinality(keep)
           t == [n \in 1 .. c |-> s[Place(keep, n)]]
<1>3. Selected(s, keep) = t
  BY DEF Selected
<1>4. t \in [1 .. c -> X]
  <2> HIDE DEF c
  <2>1. QED
    BY <1>1, <1>2 DEF c
<1>5. t \in Seq(X) /\ Len(t) = c
  <2> HIDE DEF t
  <2>1. QED
    BY <1>2, <1>4
<1>6. QED
  BY <1>2, <1>3, <1>5

\* Selecting of a selection.
LEMMA Matched ==
    ASSUME NEW N \in Nat, NEW keep \in SUBSET (1 .. N),
           NEW A \in SUBSET (1 .. Cardinality(keep)), NEW B \in SUBSET keep,
           \A n \in 1 .. Cardinality(keep) : n \in A <=> Place(keep, n) \in B
    PROVE  Cardinality(A) = Cardinality(B)
<1> DEFINE f == [n \in A |-> Place(keep, n)]
<1>1. /\ Cardinality(keep) \in Nat
      /\ \A n \in 1 .. Cardinality(keep) :
            Place(keep, n) \in keep /\ Rank(keep, Place(keep, n)) = n
      /\ \A i \in keep :
            Rank(keep, i) \in 1 .. Cardinality(keep) /\ Place(keep, Rank(keep, i)) = i
  BY Placed
<1>2. f \in [A -> B] /\ \A m, n \in A : f[m] = f[n] => m = n
  <2>1. \A n \in A : n \in 1 .. Cardinality(keep) /\ Place(keep, n) \in B
    OBVIOUS
  <2>2. QED
    BY <1>1, <2>1, Zenon
<1>3. \A i \in B : \E n \in A : f[n] = i
  <2> SUFFICES ASSUME NEW i \in B PROVE Rank(keep, i) \in A /\ f[Rank(keep, i)] = i
    BY Zenon
  <2>1. i \in keep
    OBVIOUS
  <2>2. QED
    BY <1>1, <2>1, Zenon
<1>4. f \in Bijection(A, B)
  <2> HIDE DEF f
  <2>1. QED
    BY <1>2, <1>3, Zenon DEF Bijection, Injection, Surjection, IsInjective
<1>5. ExistsBijection(A, B)
  <2> HIDE DEF f
  <2>1. QED
    BY <1>4, Zenon DEF ExistsBijection
<1>6. IsFiniteSet(A)
  <2>1. IsFiniteSet(1 .. Cardinality(keep))
    BY <1>1, FS_Interval
  <2>2. QED
    BY <2>1, FS_Subset
<1>7. QED
  BY <1>5, <1>6, FS_Bijection, Zenon

\* To select from a subsequence is to select from the sequence.
LEMMA SelectedTwice ==
    ASSUME NEW X, NEW s \in Seq(X), NEW keep \in SUBSET DOMAIN s, NEW outer \in SUBSET keep,
           NEW inner \in SUBSET (1 .. Cardinality(keep)),
           \A n \in 1 .. Cardinality(keep) : n \in inner <=> Place(keep, n) \in outer
    PROVE  Selected(Selected(s, keep), inner) = Selected(s, outer)
<1> DEFINE N == Len(s)
           c == Cardinality(keep)
           t == Selected(s, keep)
<1>1. N \in Nat /\ keep \in SUBSET (1 .. N) /\ outer \in SUBSET (1 .. N)
  OBVIOUS
<1>2. c \in Nat /\ inner \in SUBSET (1 .. c) /\ \A n \in 1 .. c : t[n] = s[Place(keep, n)]
  BY SelectedItems
<1>0. c = Cardinality(keep)
  OBVIOUS
<1> HIDE DEF N, t, c
<1>3. \A n \in 1 .. c : n \in inner <=> Place(keep, n) \in outer
  BY <1>0
<1>match. \A U \in SUBSET (1 .. Cardinality(keep)), V \in SUBSET keep :
            (\A n \in 1 .. Cardinality(keep) : n \in U <=> Place(keep, n) \in V)
                => Cardinality(U) = Cardinality(V)
  BY <1>1, Matched
<1>4. Cardinality(inner) = Cardinality(outer)
  BY <1>match
<1>5. ASSUME NEW n \in inner PROVE Rank(inner, n) = Rank(outer, Place(keep, n))
  <2> DEFINE A == {m \in inner : m <= n}
             B == {j \in outer : j <= Place(keep, n)}
  <2>1. ASSUME NEW m \in 1 .. c PROVE m \in A <=> Place(keep, m) \in B
    <3>1. n \in 1 .. c
      BY <1>2
    <3>2. /\ Place(keep, m) \in keep /\ Place(keep, n) \in keep
          /\ n < m <=> Place(keep, n) < Place(keep, m)
      BY <1>0, <1>1, <3>1, Placed
    <3>3. Place(keep, m) \in Int /\ Place(keep, n) \in Int /\ m \in Int /\ n \in Int
      BY <1>1, <3>1, <3>2
    <3>4. m <= n <=> Place(keep, m) <= Place(keep, n)
      BY <3>2, <3>3
    <3>5. QED
      BY <1>3, <3>4
  <2>2. A \in SUBSET (1 .. Cardinality(keep)) /\ B \in SUBSET keep
    BY <1>0, <1>2
  <2>3. \A m \in 1 .. Cardinality(keep) : m \in A <=> Place(keep, m) \in B
    <3> HIDE DEF A, B
    <3>1. QED
      BY <1>0, <2>1
  <2> HIDE DEF A, B
  <2>4. Cardinality(A) = Cardinality(B)
    BY <1>match, <2>2, <2>3, Zenon
  <2>5. QED
    BY <2>4, Zenon DEF A, B, Rank
<1>6. ASSUME NEW k \in 1 .. Cardinality(inner) PROVE t[Place(inner, k)] = s[Place(outer, k)]
  <2> DEFINE n == Place(inner, k)
  <2>1. n \in inner /\ Rank(inner, n) = k
    BY <1>0, <1>2, Placed
  <2> HIDE DEF n
  <2>2. Place(keep, n) \in outer /\ Rank(outer, Place(keep, n)) = k /\ t[n] = s[Place(keep, n)]
    BY <1>2, <1>3, <1>5, <2>1
  <2>3. Place(outer, k) = Place(keep, n)
    BY <1>1, <2>2, Placed
  <2>4. QED
    BY <2>2, <2>3 DEF n
<1>7. QED
  <2>1. Selected(t, inner) = [k \in 1 .. Cardinality(inner) |-> t[Place(inner, k)]]
    BY DEF Selected
  <2>2. Selected(s, outer) = [k \in 1 .. Cardinality(inner) |-> s[Place(outer, k)]]
    BY <1>4 DEF Selected
  <2>3. QED
    BY <1>6, <2>1, <2>2 DEF t

-----------------------------------------------------------------------------
(* The cleanup of a replayed history.  A run is what lies between two      *)
(* boundaries: to be of one run is an equivalence.                         *)

\* k is from i to j or from j to i.
Between(i, j, k) == (i <= k /\ k <= j) \/ (j <= k /\ k <= i)

\* An item is of a run if no boundary is between.
LEMMA InRun ==
    ASSUME NEW X, NEW h \in Seq(X), NEW i \in DOMAIN h, NEW j \in DOMAIN h
    PROVE  j \in RunOf(h, i) <=> \A k \in DOMAIN h : Between(i, j, k) => h[k] # "user"
<1> DEFINE span == IF i < j THEN i .. j ELSE j .. i
<1>1. j \in RunOf(h, i) <=> \A k \in span : ~ isBoundary(h[k])
  BY DEF RunOf
<1>2. \A k : k \in span <=> k \in DOMAIN h /\ Between(i, j, k)
  <2>1. DOMAIN h = 1 .. Len(h) /\ Len(h) \in Nat
    OBVIOUS
  <2>2. i \in 1 .. Len(h) /\ j \in 1 .. Len(h)
    BY <2>1
  <2> HIDE <2>1
  <2>3. \A k : k \in span <=> k \in 1 .. Len(h) /\ Between(i, j, k)
    BY <2>1, <2>2 DEF Between
  <2>4. QED
    BY <2>1, <2>3
<1> HIDE DEF span
<1>3. QED
  BY <1>1, <1>2, Zenon DEF isBoundary

\* Every item of a run that is no boundary has that run.
LEMMA RunsAreClasses ==
    ASSUME NEW X, NEW h \in Seq(X), NEW i \in DOMAIN h, h[i] # "user"
    PROVE  /\ i \in RunOf(h, i)
           /\ \A j \in RunOf(h, i) : j \in DOMAIN h /\ h[j] # "user" /\ RunOf(h, j) = RunOf(h, i)
<1>0. DOMAIN h \in SUBSET Int
  OBVIOUS
<1>1. ASSUME NEW k \in DOMAIN h, Between(i, i, k) PROVE k = i
  BY <1>0, <1>1 DEF Between
<1>2. i \in RunOf(h, i)
  BY <1>1, InRun, Zenon
<1>3. ASSUME NEW j \in RunOf(h, i)
      PROVE  j \in DOMAIN h /\ h[j] # "user" /\ RunOf(h, j) = RunOf(h, i)
  <2>1. j \in DOMAIN h
    BY DEF RunOf
  <2>2. \A k \in DOMAIN h : Between(i, j, k) => h[k] # "user"
    BY <2>1, InRun, Zenon
  <2>3. Between(i, j, j)
    BY <1>0, <2>1 DEF Between
  <2>4. ASSUME NEW l \in DOMAIN h
        PROVE  l \in RunOf(h, j) <=> l \in RunOf(h, i)
    <3>1. \A k \in DOMAIN h : /\ Between(i, l, k) => Between(i, j, k) \/ Between(j, l, k)
                              /\ Between(j, l, k) => Between(i, j, k) \/ Between(i, l, k)
      BY <1>0, <2>1 DEF Between
    <3>2. l \in RunOf(h, i) <=> \A k \in DOMAIN h : Between(i, l, k) => h[k] # "user"
      BY InRun, Zenon
    <3>3. l \in RunOf(h, j) <=> \A k \in DOMAIN h : Between(j, l, k) => h[k] # "user"
      BY <2>1, InRun, Zenon
    <3>4. QED
      BY <2>2, <3>1, <3>2, <3>3, Zenon
  <2>5. RunOf(h, j) \in SUBSET DOMAIN h /\ RunOf(h, i) \in SUBSET DOMAIN h
    BY DEF RunOf
  <2>6. RunOf(h, j) = RunOf(h, i)
    BY <2>4, <2>5
  <2>7. QED
    BY <2>1, <2>2, <2>3, <2>6, Zenon
<1>4. QED
  BY <1>2, <1>3, Zenon

\* What is removed is a placeholder or, where that is allowed, synthetic.
LEMMA WhatIsRemoved ==
    ASSUME NEW h, NEW may \in BOOLEAN, NEW i \in Removed(h, may)
    PROVE  /\ i \in DOMAIN h
           /\ \/ h[i] = "pure"
              \/ may /\ isSyntheticReasoningReplay(h[i]) /\ hasMeaningful(h, RunOf(h, i))
BY DEF Removed, Redundant, Omitted

\* Something of a run always stays: something meaningful, the first
\* placeholder, or all of it.
LEMMA SubstanceStays ==
    ASSUME NEW h \in Seq(Items), NEW may \in BOOLEAN, NEW i \in DOMAIN h, h[i] # "user",
           NEW x \in RunOf(h, i), ~ Thinks(h[x])
    PROVE  \E j \in RunOf(h, i) : ~ Thinks(h[j]) /\ j \notin Removed(h, may)
<1> DEFINE run == RunOf(h, i)
<1>1. \A j \in run : j \in DOMAIN h /\ h[j] # "user" /\ RunOf(h, j) = run /\ h[j] \in Items
  <2>1. \A j \in DOMAIN h : h[j] \in Items
    OBVIOUS
  <2>2. QED
    BY <2>1, RunsAreClasses, Zenon
<1> HIDE DEF run
<1>2. CASE hasMeaningful(h, run)
  <2>1. PICK j \in run : isMeaningfulAssistant(h[j])
    BY <1>2, Zenon DEF hasMeaningful
  <2>2. h[j] # "pure" /\ ~ isSyntheticReasoningReplay(h[j]) /\ ~ Thinks(h[j])
    BY <2>1 DEF isMeaningfulAssistant, isSyntheticReasoningReplay, Thinks
  <2>3. j \notin Removed(h, may)
    BY <2>2, WhatIsRemoved, Zenon
  <2>4. QED
    BY <2>2, <2>3 DEF run
<1>3. CASE ~ hasMeaningful(h, run)
  <2> DEFINE S == {j \in run : h[j] = "pure"}
  <2>1. S \in SUBSET Nat
    <3>1. DOMAIN h \in SUBSET Nat
      OBVIOUS
    <3>2. QED
      BY <1>1, <3>1
  <2>2. x \in S
    <3>1. x \in run
      BY DEF run
    <3>2. h[x] \in Items /\ h[x] # "user" /\ ~ isMeaningfulAssistant(h[x])
      BY <1>1, <1>3, <3>1, Zenon DEF hasMeaningful
    <3>3. h[x] = "pure"
      BY <3>2 DEF Items, isMeaningfulAssistant, Thinks, isSyntheticReasoningReplay
    <3>4. QED
      BY <3>1, <3>3
  <2>3. PICK j \in S : \A k \in S : j <= k
    <3> HIDE DEF S
    <3>1. QED
      BY <2>1, <2>2, LeastNumber
  <2>4. h[j] = "pure" /\ j \in run /\ RunOf(h, j) = run
    BY <1>1, <2>3
  <2>5. ~ \E k \in run : k < j /\ h[k] = "pure"
    <3>1. \A k \in run : h[k] = "pure" => j <= k /\ k \in Nat
      BY <2>1, <2>3
    <3>2. j \in Nat
      BY <2>1, <2>3
    <3>3. QED
      BY <3>1, <3>2
  <2>6. ~ Redundant(h, j) /\ ~ Omitted(h, j)
    <3>1. ~ Redundant(h, j)
      BY <1>3, <2>4, <2>5, Zenon DEF Redundant
    <3>2. ~ Omitted(h, j)
      BY <1>3, <2>4, Zenon DEF Omitted
    <3>3. QED
      BY <3>1, <3>2
  <2>7. j \notin Removed(h, may) /\ ~ Thinks(h[j])
    BY <2>4, <2>6 DEF Removed, Thinks, isSyntheticReasoningReplay
  <2>8. QED
    BY <2>4, <2>7 DEF run
<1>4. QED
  BY <1>2, <1>3

\* No run is removed as a whole.
LEMMA RunStays ==
    ASSUME NEW h \in Seq(Items), NEW may \in BOOLEAN, NEW i \in DOMAIN h, h[i] # "user"
    PROVE  \E j \in RunOf(h, i) : j \notin Removed(h, may)
<1>1. CASE \E x \in RunOf(h, i) : ~ Thinks(h[x])
  BY <1>1, SubstanceStays, Zenon
<1>2. CASE \A x \in RunOf(h, i) : Thinks(h[x])
  <2>1. i \in RunOf(h, i)
    BY RunsAreClasses, Zenon
  <2>2. ~ hasMeaningful(h, RunOf(h, i)) /\ h[i] # "pure"
    BY <1>2, <2>1 DEF hasMeaningful, isMeaningfulAssistant, Thinks, isSyntheticReasoningReplay
  <2>3. i \notin Removed(h, may)
    BY <2>2, WhatIsRemoved, Zenon
  <2>4. QED
    BY <2>1, <2>3, Zenon
<1>3. QED
  BY <1>1, <1>2, Zenon

\* The cleaned history, item by item.
Stay(h, may) == DOMAIN h \ Removed(h, may)

\* What is left is of the history, in its order.
LEMMA CleanedItems ==
    ASSUME NEW h \in Seq(Items), NEW may \in BOOLEAN
    PROVE  /\ Stay(h, may) \in SUBSET DOMAIN h
           /\ normalizeResponsesReplay(h, may) \in Seq(Items)
           /\ Cardinality(Stay(h, may)) \in Nat
           /\ DOMAIN normalizeResponsesReplay(h, may) = 1 .. Cardinality(Stay(h, may))
           /\ \A n \in DOMAIN normalizeResponsesReplay(h, may) :
                /\ n \in Int
                /\ Place(Stay(h, may), n) \in Stay(h, may)
                /\ Place(Stay(h, may), n) \in DOMAIN h
                /\ Place(Stay(h, may), n) \in Int
                /\ normalizeResponsesReplay(h, may)[n]
                    = mixedSyntheticReplacement(h, Place(Stay(h, may), n))
           /\ \A i \in Stay(h, may) :
                /\ Rank(Stay(h, may), i) \in DOMAIN normalizeResponsesReplay(h, may)
                /\ Place(Stay(h, may), Rank(Stay(h, may), i)) = i
           /\ \A m, n \in DOMAIN normalizeResponsesReplay(h, may) :
                m < n <=> Place(Stay(h, may), m) < Place(Stay(h, may), n)
<1> DEFINE K == Stay(h, may)
           M == [i \in DOMAIN h |-> mixedSyntheticReplacement(h, i)]
           c == Cardinality(K)
           P == normalizeResponsesReplay(h, may)
<1>1. K \in SUBSET DOMAIN h /\ K \in SUBSET (1 .. Len(h)) /\ Len(h) \in Nat
  BY DEF Stay
<1>2. M \in Seq(Items) /\ DOMAIN M = DOMAIN h
  <2>1. \A i \in DOMAIN h : mixedSyntheticReplacement(h, i) \in Items
    BY DEF mixedSyntheticReplacement, Items
  <2>2. DOMAIN h = 1 .. Len(h) /\ Len(h) \in Nat
    OBVIOUS
  <2>3. QED
    BY <2>1, <2>2
<1>3. P = Selected(M, K)
  BY DEF normalizeResponsesReplay, Stay
<1>4. \A i \in DOMAIN h : M[i] = mixedSyntheticReplacement(h, i)
  OBVIOUS
<1> HIDE DEF K, M, P
<1>5. /\ Selected(M, K) \in Seq(Items) /\ c \in Nat /\ DOMAIN Selected(M, K) = 1 .. c
      /\ \A n \in 1 .. c : Selected(M, K)[n] = M[Place(K, n)]
  BY <1>1, <1>2, SelectedItems
<1>6. /\ \A n \in 1 .. c : Place(K, n) \in K
      /\ \A i \in K : Rank(K, i) \in 1 .. c /\ Place(K, Rank(K, i)) = i
      /\ \A m, n \in 1 .. c : m < n <=> Place(K, m) < Place(K, n)
  BY <1>1, Placed, Zenon
<1>7. \A n \in 1 .. c : /\ n \in Int /\ Place(K, n) \in K /\ Place(K, n) \in DOMAIN h
                        /\ Place(K, n) \in Int
  BY <1>1, <1>6
<1>8. \A n \in 1 .. c : Selected(M, K)[n] = mixedSyntheticReplacement(h, Place(K, n))
  BY <1>4, <1>5, <1>7
<1>9. QED
  BY <1>1, <1>3, <1>5, <1>6, <1>7, <1>8 DEF K, P

\* What the model or the user has said, called or thought stays, in its order.
LEMMA SubstanceKept ==
    ASSUME NEW h \in Seq(Items), NEW may \in BOOLEAN
    PROVE  Substance(normalizeResponsesReplay(h, may)) = Substance(h)
<1> DEFINE K == Stay(h, may)
           P == normalizeResponsesReplay(h, may)
           c == Cardinality(K)
<1>1. /\ K \in SUBSET DOMAIN h /\ P \in Seq(Items) /\ DOMAIN P = 1 .. c
      /\ \A n \in DOMAIN P : /\ Place(K, n) \in K /\ Place(K, n) \in DOMAIN h
                             /\ P[n] = mixedSyntheticReplacement(h, Place(K, n))
  BY CleanedItems
<1> HIDE DEF K, P
<1>2. Plain(h) \in Seq(Items) /\ DOMAIN Plain(h) = DOMAIN h
  <2>1. \A i \in DOMAIN h : Plain(h)[i] \in Items
    BY DEF Plain, Items
  <2>2. DOMAIN h = 1 .. Len(h) /\ Len(h) \in Nat
    OBVIOUS
  <2>3. QED
    BY <2>1, <2>2 DEF Plain
<1>3. Plain(P) = Selected(Plain(h), K)
  <2>1. ASSUME NEW n \in 1 .. c
        PROVE  (IF P[n] = "mixed" THEN "text" ELSE P[n]) = Plain(h)[Place(K, n)]
    BY <1>1 DEF Plain, mixedSyntheticReplacement
  <2>2. Plain(P) = [n \in 1 .. c |-> Plain(h)[Place(K, n)]]
    BY <1>1, <2>1 DEF Plain
  <2>3. QED
    BY <2>2 DEF Selected
<1>4. Substantial(h) \in SUBSET K
  <2>1. \A i \in Substantial(h) : i \in DOMAIN h /\ h[i] # "pure" /\ ~ isSyntheticReasoningReplay(h[i])
    BY DEF Substantial, isSyntheticReasoningReplay
  <2>2. \A i \in Substantial(h) : i \notin Removed(h, may)
    BY <2>1, WhatIsRemoved, Zenon
  <2>3. QED
    BY <2>1, <2>2 DEF K, Stay
<1>5. Substantial(P) \in SUBSET (1 .. c)
      /\ \A n \in 1 .. c : n \in Substantial(P) <=> Place(K, n) \in Substantial(h)
  BY <1>1 DEF Substantial, mixedSyntheticReplacement
<1>6. Selected(Selected(Plain(h), K), Substantial(P)) = Selected(Plain(h), Substantial(h))
  <2>1. K \in SUBSET DOMAIN Plain(h)
    BY <1>1, <1>2
  <2>2. QED
    BY <1>2, <1>4, <1>5, <2>1, SelectedTwice
<1>7. QED
  BY <1>3, <1>6 DEF Substance, P

\* The runs of the cleaned history are what is left of the runs.
LEMMA RunsCorrespond ==
    ASSUME NEW h \in Seq(Items), NEW may \in BOOLEAN,
           NEW n \in DOMAIN normalizeResponsesReplay(h, may),
           NEW m \in DOMAIN normalizeResponsesReplay(h, may)
    PROVE  m \in RunOf(normalizeResponsesReplay(h, may), n)
            <=> Place(Stay(h, may), m) \in RunOf(h, Place(Stay(h, may), n))
<1> DEFINE K == Stay(h, may)
           P == normalizeResponsesReplay(h, may)
<1>1. /\ K \in SUBSET DOMAIN h /\ P \in Seq(Items)
      /\ \A k \in DOMAIN P : /\ k \in Int /\ Place(K, k) \in DOMAIN h /\ Place(K, k) \in Int
                             /\ P[k] = mixedSyntheticReplacement(h, Place(K, k))
      /\ \A k \in K : Rank(K, k) \in DOMAIN P /\ Place(K, Rank(K, k)) = k
      /\ \A k, l \in DOMAIN P : k < l <=> Place(K, k) < Place(K, l)
  BY CleanedItems
<1>2. \A k \in DOMAIN h : h[k] = "user" => k \in K
  <2>1. \A k \in DOMAIN h : h[k] = "user" => h[k] # "pure" /\ ~ isSyntheticReasoningReplay(h[k])
    BY DEF isSyntheticReasoningReplay
  <2>2. QED
    BY <2>1, WhatIsRemoved DEF Stay
<1>3. n \in DOMAIN P /\ m \in DOMAIN P
  OBVIOUS
<1> HIDE DEF K, P
<1>4. \A k \in DOMAIN P : P[k] = "user" <=> h[Place(K, k)] = "user"
  BY <1>1 DEF mixedSyntheticReplacement
<1>5. \A k \in DOMAIN P : Between(n, m, k) <=> Between(Place(K, n), Place(K, m), Place(K, k))
  <2> SUFFICES ASSUME NEW k \in DOMAIN P
               PROVE  Between(n, m, k) <=> Between(Place(K, n), Place(K, m), Place(K, k))
    OBVIOUS
  <2>1. /\ n \in Int /\ m \in Int /\ k \in Int
        /\ Place(K, n) \in Int /\ Place(K, m) \in Int /\ Place(K, k) \in Int
    BY <1>1, <1>3
  <2>2. /\ k < n <=> Place(K, k) < Place(K, n)
        /\ n < k <=> Place(K, n) < Place(K, k)
        /\ k < m <=> Place(K, k) < Place(K, m)
        /\ m < k <=> Place(K, m) < Place(K, k)
    BY <1>1, <1>3, Zenon
  <2>3. QED
    BY <2>1, <2>2 DEF Between
<1>6. m \in RunOf(P, n) <=> \A k \in DOMAIN P : Between(n, m, k) => P[k] # "user"
  BY <1>1, <1>3, InRun, Zenon
<1>7. Place(K, m) \in RunOf(h, Place(K, n))
        <=> \A k \in DOMAIN h : Between(Place(K, n), Place(K, m), k) => h[k] # "user"
  BY <1>1, <1>3, InRun, Zenon
<1>8. (\A k \in DOMAIN P : Between(n, m, k) => P[k] # "user")
        <=> \A k \in DOMAIN h : Between(Place(K, n), Place(K, m), k) => h[k] # "user"
  BY <1>1, <1>2, <1>4, <1>5, Zenon
<1>9. QED
  BY <1>6, <1>7, <1>8 DEF K, P

\* Where nothing synthetic is omitted, the guard sees the same runs.
Demanding(h, i, requirement) ==
    /\ i \in DOMAIN h /\ h[i] # "user"
    /\ reasoningRequired(requirement, \E j \in RunOf(h, i) : h[j] = "call")
    /\ ~ \E j \in RunOf(h, i) : Thinks(h[j])

\* The guard refuses a history if some item's run lacks what it must have.
LEMMA WhenIncompatible ==
    ASSUME NEW h, NEW requirement
    PROVE  incompatible(h, requirement) <=> \E i \in DOMAIN h : Demanding(h, i, requirement)
<1>1. incompatible(h, requirement)
        <=> \E i \in DOMAIN h :
                /\ ~ isBoundary(h[i])
                /\ reasoningRequired(requirement, \E j \in RunOf(h, i) : h[j] = "call")
                /\ ~ \E j \in RunOf(h, i) : Thinks(h[j])
  <2>1. incompatible(h, requirement)
        <=> \E run \in AssistantRuns(h) :
                /\ reasoningRequired(requirement, \E j \in run : h[j] = "call")
                /\ ~ \E j \in run : Thinks(h[j])
    BY DEF incompatible, missingRequiredRuns
  <2>2. \A run : run \in AssistantRuns(h)
                    <=> \E i \in DOMAIN h : ~ isBoundary(h[i]) /\ run = RunOf(h, i)
    BY DEF AssistantRuns
  <2>3. QED
    BY <2>1, <2>2
<1>2. QED
  BY <1>1, Zenon DEF Demanding, isBoundary

\* A run demands of the cleaned history what it demands of the history.
LEMMA RunsAlike ==
    ASSUME NEW h \in Seq(Items), NEW requirement,
           NEW n \in DOMAIN normalizeResponsesReplay(h, FALSE)
    PROVE  Demanding(normalizeResponsesReplay(h, FALSE), n, requirement)
            <=> Demanding(h, Place(Stay(h, FALSE), n), requirement)
<1> DEFINE K == Stay(h, FALSE)
           P == normalizeResponsesReplay(h, FALSE)
           i == Place(K, n)
<1>1. /\ K \in SUBSET DOMAIN h /\ P \in Seq(Items)
      /\ \A k \in DOMAIN P : /\ Place(K, k) \in DOMAIN h
                             /\ P[k] = mixedSyntheticReplacement(h, Place(K, k))
      /\ \A k \in K : Rank(K, k) \in DOMAIN P /\ Place(K, Rank(K, k)) = k
  BY CleanedItems
<1>2. \A m \in DOMAIN P : m \in RunOf(P, n) <=> Place(K, m) \in RunOf(h, i)
  BY RunsCorrespond
<1>3. n \in DOMAIN P
  OBVIOUS
<1>4. \A k \in DOMAIN h : k \notin K => h[k] = "pure"
  BY WhatIsRemoved DEF Stay
<1> HIDE DEF K, P, i
<1>5. \A k \in DOMAIN P : /\ P[k] = "user" <=> h[Place(K, k)] = "user"
                          /\ P[k] = "call" <=> h[Place(K, k)] = "call"
                          /\ Thinks(P[k]) <=> Thinks(h[Place(K, k)])
  BY <1>1 DEF mixedSyntheticReplacement, Thinks, isSyntheticReasoningReplay
<1>6. \A j \in RunOf(P, n) : j \in DOMAIN P
  BY DEF RunOf
<1>7. \A j \in RunOf(h, i) : j \in DOMAIN h
  BY DEF RunOf
<1>8. \A j \in RunOf(h, i) : h[j] = "call" \/ Thinks(h[j]) => j \in K
  BY <1>4, <1>7 DEF Thinks, isSyntheticReasoningReplay
<1>9. (\E j \in RunOf(P, n) : P[j] = "call") <=> (\E j \in RunOf(h, i) : h[j] = "call")
  BY <1>1, <1>2, <1>5, <1>6, <1>8, Zenon
<1>10. (\E j \in RunOf(P, n) : Thinks(P[j])) <=> (\E j \in RunOf(h, i) : Thinks(h[j]))
  BY <1>1, <1>2, <1>5, <1>6, <1>8, Zenon
<1>11. i \in DOMAIN h /\ (P[n] = "user" <=> h[i] = "user")
  BY <1>1, <1>3, <1>5, Zenon DEF i
<1> DEFINE called == \E j \in RunOf(h, i) : h[j] = "call"
<1>12. reasoningRequired(requirement, \E j \in RunOf(P, n) : P[j] = "call")
        <=> reasoningRequired(requirement, called)
  BY <1>9 DEF reasoningRequired
<1>13. QED
  BY <1>3, <1>10, <1>11, <1>12, Zenon DEF Demanding, P, K, i

\* Where synthetic reasoning stays, the guard decides as before.
LEMMA GuardAgrees ==
    ASSUME NEW h \in Seq(Items), NEW requirement
    PROVE  incompatible(normalizeResponsesReplay(h, FALSE), requirement)
            <=> incompatible(h, requirement)
<1> DEFINE K == Stay(h, FALSE)
           P == normalizeResponsesReplay(h, FALSE)
<1>1. /\ \A k \in DOMAIN P : Place(K, k) \in DOMAIN h
      /\ \A k \in K : Rank(K, k) \in DOMAIN P /\ Place(K, Rank(K, k)) = k
  BY CleanedItems
<1>2. \A n \in DOMAIN P : Demanding(P, n, requirement) <=> Demanding(h, Place(K, n), requirement)
  BY RunsAlike
<1>3. ASSUME NEW i \in DOMAIN h, Demanding(h, i, requirement)
      PROVE  \E j \in K : Demanding(h, j, requirement)
  <2>1. h[i] # "user"
    BY <1>3 DEF Demanding
  <2>2. PICK j \in RunOf(h, i) : j \notin Removed(h, FALSE)
    BY <2>1, RunStays
  <2>3. j \in DOMAIN h /\ h[j] # "user" /\ RunOf(h, j) = RunOf(h, i)
    BY <2>1, RunsAreClasses, Zenon
  <2>4. j \in K
    BY <2>2, <2>3 DEF Stay
  <2>5. Demanding(h, j, requirement)
    BY <1>3, <2>3 DEF Demanding
  <2>6. QED
    BY <2>4, <2>5
<1> HIDE DEF K, P
<1>4. (\E n \in DOMAIN P : Demanding(P, n, requirement))
        <=> \E i \in DOMAIN h : Demanding(h, i, requirement)
  BY <1>1, <1>2, <1>3, Zenon
<1>5. QED
  BY <1>4, WhenIncompatible, Zenon DEF P

\* A contract that lets synthetic reasoning go requires none.
LEMMA ContractsAgree ==
    /\ \A c \in OwnContracts : c[1] \in BOOLEAN /\ (c[1] => c[2] = "not-required")
    /\ \A c \in AliasContracts : c[1] = FALSE
<1>1. ASSUME NEW c \in OwnContracts
      PROVE  c[1] \in BOOLEAN /\ (c[1] => c[2] = "not-required")
  <2>1. PICK d \in Compats, strictFamily \in BOOLEAN :
            c = <<mayOmitSyntheticReasoning(d, strictFamily), reasoningReplayRequirementFromCompat(d)>>
    BY DEF OwnContracts
  <2>2. c[1] = mayOmitSyntheticReasoning(d, strictFamily)
        /\ c[2] = reasoningReplayRequirementFromCompat(d)
    BY <2>1
  <2>3. c[1] \in BOOLEAN
    BY <2>2 DEF mayOmitSyntheticReasoning
  <2>4. ASSUME d.turns = "no", d.calls = "no"
        PROVE  reasoningReplayRequirementFromCompat(d) = "not-required"
    BY <2>4 DEF reasoningReplayRequirementFromCompat
  <2>5. QED
    BY <2>2, <2>3, <2>4 DEF mayOmitSyntheticReasoning
<1>2. ASSUME NEW c \in AliasContracts PROVE c[1] = FALSE
  <2>1. PICK d \in Compats, r \in Strict, strictFamily \in BOOLEAN :
            c = AliasContract(d, r, strictFamily)
    BY DEF AliasContracts
  <2>2. unanimousStrictReasoningRequirement({r}, TRUE) = r
    <3>1. \A x \in Strict : {r} = {x} <=> x = r
      OBVIOUS
    <3>2. (CHOOSE x \in Strict : {r} = {x}) = r
      BY <3>1
    <3>3. \E x \in Strict : {r} = {x}
      BY <3>1
    <3>4. QED
      BY <3>2, <3>3 DEF unanimousStrictReasoningRequirement
  <2>3. c[1] = mayOmitSyntheticReasoning(strictReplayCompatOverrides(d, r), strictFamily)
    BY <2>1, <2>2 DEF AliasContract
  <2>4. d \in [turns : Switches, calls : Switches]
    BY DEF Compats
  <2>5. CASE r = "all-assistant-runs"
    <3>1. strictReplayCompatOverrides(d, r) = [turns |-> "yes", calls |-> "yes"]
      BY <2>5 DEF strictReplayCompatOverrides
    <3>2. strictReplayCompatOverrides(d, r).turns = "yes"
      BY <3>1
    <3>3. QED
      BY <2>3, <3>2 DEF mayOmitSyntheticReasoning
  <2>6. CASE r = "tool-call-runs"
    <3>1. strictReplayCompatOverrides(d, r) = [d EXCEPT !.calls = "yes"]
      BY <2>6 DEF strictReplayCompatOverrides
    <3>2. strictReplayCompatOverrides(d, r).calls = "yes"
      BY <2>4, <3>1
    <3>3. QED
      BY <2>3, <3>2 DEF mayOmitSyntheticReasoning
  <2>7. QED
    BY <2>5, <2>6 DEF Strict
<1>3. QED
  BY <1>1, <1>2

\* A cleanup that lets synthetic reasoning go only where none is required is faithful.
LEMMA AlwaysFaithful ==
    ASSUME history \in Seq(Items), NEW path \in Paths, NEW may \in BOOLEAN, NEW requirement,
           may => requirement = "not-required"
    PROVE  Faithful(path, may, requirement)
<1>1. SaysSomething(path, may)
  <2> SUFFICES ASSUME NEW run \in AssistantRuns(history), NEW x \in run, ~ Thinks(history[x])
               PROVE  \E j \in run : /\ ~ Thinks(history[j])
                                     /\ Unchanged(path, may) \/ j \notin Removed(history, may)
    BY Zenon DEF SaysSomething
  <2>1. PICK i \in DOMAIN history : history[i] # "user" /\ run = RunOf(history, i)
    BY DEF AssistantRuns, isBoundary
  <2>2. QED
    BY <2>1, SubstanceStays, Zenon
<1>2. CASE Unchanged(path, may)
  <2>1. payload(path, may) = history
    BY <1>2, Zenon DEF payload
  <2>2. QED
    BY <1>1, <2>1, Zenon DEF Faithful
<1>3. CASE ~ Unchanged(path, may)
  <2> DEFINE P == normalizeResponsesReplay(history, may)
  <2>1. payload(path, may) = P
    BY <1>3, Zenon DEF payload
  <2>2. Substance(P) = Substance(history)
    BY SubstanceKept, Zenon
  <2>3. incompatible(P, requirement) = incompatible(history, requirement)
    <3>1. CASE may
      <4>1. \A h, i : ~ Demanding(h, i, requirement)
        BY <3>1 DEF Demanding, reasoningRequired
      <4>2. ~ incompatible(P, requirement) /\ ~ incompatible(history, requirement)
        <5> HIDE DEF P
        <5>1. QED
          BY <4>1, WhenIncompatible, Zenon
      <4>3. incompatible(P, requirement) \in BOOLEAN /\ incompatible(history, requirement) \in BOOLEAN
        BY DEF incompatible
      <4>4. QED
        BY <4>2, <4>3
    <3>2. CASE ~ may
      <4>1. may = FALSE
        BY <3>2
      <4>2. incompatible(P, requirement) <=> incompatible(history, requirement)
        BY <4>1, GuardAgrees, Zenon
      <4>3. incompatible(P, requirement) \in BOOLEAN /\ incompatible(history, requirement) \in BOOLEAN
        BY DEF incompatible
      <4>4. QED
        BY <4>2, <4>3
    <3>3. QED
      BY <3>1, <3>2
  <2> HIDE DEF P
  <2>4. QED
    BY <1>1, <2>1, <2>2, <2>3, Zenon DEF Faithful
<1>4. QED
  BY <1>2, <1>3

\* A chat message is cleaned of the placeholder in its text and of nothing else.
LEMMA CleanedMessage ==
    ASSUME NEW m \in Messages
    PROVE  /\ Own(Cleaned(m)) = Own(m)
           /\ m.id = "opaque" => Cleaned(m) = m
           /\ Cleaned(m).call = m.call /\ Cleaned(m).reasoning = m.reasoning
<1>1. CASE Cleaned(m) = m
  BY <1>1
<1>2. CASE m.text = "mixed" /\ m.id # "opaque" /\ Cleaned(m) = [m EXCEPT !.text = "text"]
  <2>1. Cleaned(m) \in [reasoning : {"none", "native", "synthetic"},
                        text : {"none", "mixed", "text"}, id : {"none", "opaque", "number"},
                        call : BOOLEAN]
    BY <1>2 DEF Messages
  <2>2. Cleaned(m).text = "text" /\ Cleaned(m).call = m.call
        /\ Cleaned(m).reasoning = m.reasoning /\ Cleaned(m).id = m.id
    BY <1>2 DEF Messages
  <2>3. Own(m) = [m EXCEPT !.text = "text"]
    BY <1>2 DEF Own
  <2>4. Own(Cleaned(m)) = [Cleaned(m) EXCEPT !.text = "text"]
    BY <2>2 DEF Own
  <2>5. [Cleaned(m) EXCEPT !.text = "text"] = [m EXCEPT !.text = "text"]
    BY <1>2 DEF Messages
  <2>6. QED
    BY <1>2, <2>2, <2>3, <2>4, <2>5
<1>3. QED
  BY <1>1, <1>2 DEF Cleaned

\* The messages of a chat, cleaned or not, are faithful.
LEMMA ChatFaithful ==
    ASSUME history \in Seq(Messages)
    PROVE  FaithfulChat(normalizeCompletionsReplay(history)) /\ FaithfulChat(history)
<1>1. FaithfulChat(history)
  BY DEF FaithfulChat
<1> DEFINE t == normalizeCompletionsReplay(history)
<1>2. \A i \in DOMAIN history : history[i] \in Messages
  OBVIOUS
<1>3. DOMAIN t = DOMAIN history /\ \A i \in DOMAIN history : t[i] = Cleaned(history[i])
  BY DEF normalizeCompletionsReplay
<1> HIDE DEF t
<1>4. OwnText(t) = OwnText(history)
  <2>1. \A i \in DOMAIN history : Own(t[i]) = Own(history[i])
    BY <1>2, <1>3, CleanedMessage, Zenon
  <2>2. QED
    BY <1>3, <2>1, Zenon DEF OwnText
<1>5. \A i \in DOMAIN history : history[i].id = "opaque" => t[i] = history[i]
  BY <1>2, <1>3, CleanedMessage, Zenon
<1>6. \A i \in DOMAIN history : t[i].call = history[i].call /\ t[i].reasoning = history[i].reasoning
  BY <1>2, <1>3, CleanedMessage, Zenon
<1>7. \A r \in Strict : missingRequiredMessages(t, r) = missingRequiredMessages(history, r)
  BY <1>3, <1>6 DEF missingRequiredMessages, chatNativeReasoning
<1>8. QED
  BY <1>1, <1>4, <1>5, <1>7 DEF FaithfulChat, t

\* A history of Responses is made of items, one of Chat of messages.
ReplayTypes ==
    /\ protocol = "responses" => history \in Seq(Items)
    /\ protocol = "chat" => history \in Seq(Messages)

LEMMA ReplayTypesStep == ReplayTypes /\ [ReplayNext]_replayVars => ReplayTypes'
<1> SUFFICES ASSUME ReplayTypes, [ReplayNext]_replayVars PROVE ReplayTypes'
  OBVIOUS
<1>1. ASSUME NEW item \in Items, ReplayItem(item) PROVE ReplayTypes'
  <2>1. history' \in Seq(Items) /\ protocol' = "responses"
    BY <1>1 DEF ReplayTypes, ReplayItem
  <2>2. QED
    BY <2>1 DEF ReplayTypes
<1>2. ASSUME NEW m \in Messages, ReplayMessage(m) PROVE ReplayTypes'
  <2>1. history \in Seq(Messages) /\ protocol = "chat" /\ history' = Append(history, m) /\ protocol' = protocol
    BY <1>2 DEF ReplayTypes, ReplayMessage
  <2>2. history' \in Seq(Messages)
    BY <2>1
  <2>3. QED
    BY <2>1, <2>2 DEF ReplayTypes
<1>3. ASSUME UNCHANGED replayVars PROVE ReplayTypes'
  BY <1>3 DEF ReplayTypes, replayVars
<1>4. QED
  BY <1>1, <1>2, <1>3 DEF ReplayNext

\* Whatever a client has replayed and however long it is, the cleanup
\* (normalizeResponsesReasoningReplay and its variant for Chat,
\* reasoning-replay.ts) loses nothing of substance, leaves no run with
\* reasoning only, and does not change what the guard decides.
THEOREM CleanupIsFaithful == ReplaySpec => []CleanupKeepsTheContract
<1>1. ReplayInit => ReplayTypes
  BY DEF ReplayInit, ReplayTypes
<1>2. ReplayTypes => CleanupKeepsTheContract
  <2> SUFFICES ASSUME ReplayTypes PROVE CleanupKeepsTheContract
    OBVIOUS
  <2>1. ASSUME protocol = "responses", NEW path \in Paths, NEW c \in OwnContracts
        PROVE  Faithful(path, c[1], c[2])
    BY <2>1, AlwaysFaithful, ContractsAgree DEF ReplayTypes
  <2>2. ASSUME protocol = "responses", NEW c \in AliasContracts
        PROVE  Faithful("direct", c[1], c[2])
    BY <2>2, AlwaysFaithful, ContractsAgree DEF ReplayTypes, Paths
  <2>3. ASSUME protocol = "chat"
        PROVE  FaithfulChat(attemptMessages(history)) /\ FaithfulChat(directMessages(history))
    <3>1. FaithfulChat(normalizeCompletionsReplay(history)) /\ FaithfulChat(history)
      BY <2>3, ChatFaithful DEF ReplayTypes
    <3>2. QED
      BY <3>1, Zenon DEF attemptMessages, directMessages
  <2>4. QED
    BY <2>1, <2>2, <2>3, Zenon DEF CleanupKeepsTheContract
<1>3. QED
  BY <1>1, <1>2, ReplayTypesStep, PTL DEF ReplaySpec

-----------------------------------------------------------------------------
(* Lists selected, without repetition, and joined.                         *)

\* The elements of a subsequence are those at the selected positions.
LEMMA SelectedSet ==
    ASSUME NEW X, NEW s \in Seq(X), NEW keep \in SUBSET DOMAIN s
    PROVE  ToSet(Selected(s, keep)) = {s[i] : i \in keep}
<1>1. Len(s) \in Nat /\ DOMAIN s = 1 .. Len(s) /\ keep \in SUBSET (1 .. Len(s))
  OBVIOUS
<1>2. /\ DOMAIN Selected(s, keep) = 1 .. Cardinality(keep)
      /\ \A n \in 1 .. Cardinality(keep) : Selected(s, keep)[n] = s[Place(keep, n)]
  BY SelectedItems
<1>3. /\ \A n \in 1 .. Cardinality(keep) : Place(keep, n) \in keep
      /\ \A i \in keep : Rank(keep, i) \in 1 .. Cardinality(keep) /\ Place(keep, Rank(keep, i)) = i
  BY <1>1, Placed
<1>4. ToSet(Selected(s, keep)) = {s[Place(keep, n)] : n \in 1 .. Cardinality(keep)}
  BY <1>2 DEF ToSet
<1>5. QED
  BY <1>3, <1>4

-----------------------------------------------------------------------------
(* Lists without repetition.                                               *)

\* The first occurrences in a list.
Firsts(s) == {i \in DOMAIN s : \A j \in 1 .. (i - 1) : s[j] # s[i]}

\* Every element has a first occurrence.
LEMMA FirstOccurs ==
    ASSUME NEW X, NEW s \in Seq(X), NEW i \in DOMAIN s
    PROVE  \E j \in Firsts(s) : j <= i /\ s[j] = s[i]
<1> DEFINE S == {j \in DOMAIN s : s[j] = s[i]}
<1>1. Len(s) \in Nat /\ DOMAIN s = 1 .. Len(s) /\ i \in 1 .. Len(s)
  OBVIOUS
<1>2. S \in SUBSET Nat /\ i \in S
  BY <1>1
<1>3. PICK j \in S : \A k \in S : j <= k
  <2> HIDE DEF S
  <2>1. QED
    BY <1>2, LeastNumber
<1>4. j \in DOMAIN s /\ s[j] = s[i] /\ j <= i
  BY <1>2, <1>3
<1>5. ASSUME NEW k \in 1 .. (j - 1), s[k] = s[j] PROVE FALSE
  <2>1. k \in S
    BY <1>1, <1>4, <1>5
  <2>2. j <= k
    BY <1>3, <2>1
  <2>3. QED
    BY <1>1, <1>4, <2>2
<1>6. QED
  BY <1>4, <1>5 DEF Firsts

\* A list keeps its elements when its repetitions are taken away.
LEMMA UniqueItems ==
    ASSUME NEW X, NEW s \in Seq(X)
    PROVE  /\ unique(s) = Selected(s, Firsts(s)) /\ Firsts(s) \in SUBSET DOMAIN s
           /\ unique(s) \in Seq(X) /\ ToSet(unique(s)) = ToSet(s)
           /\ \A m, n \in DOMAIN unique(s) : unique(s)[m] = unique(s)[n] => m = n
<1>1. unique(s) = Selected(s, Firsts(s)) /\ Firsts(s) \in SUBSET DOMAIN s
  BY DEF unique, Firsts
<1>2. unique(s) \in Seq(X)
  BY <1>1, SelectedItems
<1>3. ToSet(unique(s)) = ToSet(s)
  <2>1. ToSet(unique(s)) = {s[i] : i \in Firsts(s)}
    BY <1>1, SelectedSet
  <2>2. \A i \in DOMAIN s : \E j \in Firsts(s) : s[j] = s[i]
    BY FirstOccurs
  <2>3. ToSet(s) = {s[i] : i \in DOMAIN s}
    BY DEF ToSet
  <2>4. QED
    BY <1>1, <2>1, <2>2, <2>3
<1>4. ASSUME NEW m \in DOMAIN unique(s), NEW n \in DOMAIN unique(s), unique(s)[m] = unique(s)[n]
      PROVE  m = n
  <2> DEFINE K == Firsts(s)
  <2>1. /\ DOMAIN unique(s) = 1 .. Cardinality(K) /\ Cardinality(K) \in Nat
        /\ unique(s)[m] = s[Place(K, m)] /\ unique(s)[n] = s[Place(K, n)]
    BY <1>1, SelectedItems
  <2>2. Len(s) \in Nat /\ DOMAIN s = 1 .. Len(s) /\ K \in SUBSET (1 .. Len(s))
    BY <1>1
  <2>3. /\ Place(K, m) \in K /\ Place(K, n) \in K
        /\ m < n <=> Place(K, m) < Place(K, n)
        /\ n < m <=> Place(K, n) < Place(K, m)
    <3> HIDE DEF K
    <3>1. /\ \A p \in 1 .. Cardinality(K) : Place(K, p) \in K
          /\ \A p, q \in 1 .. Cardinality(K) : p < q <=> Place(K, p) < Place(K, q)
      BY <2>2, Placed
    <3>2. m \in 1 .. Cardinality(K) /\ n \in 1 .. Cardinality(K)
      BY <2>1
    <3>3. QED
      BY <3>1, <3>2
  <2>4. ASSUME NEW i \in K, NEW j \in K, i < j PROVE s[i] # s[j]
    <3>1. i \in 1 .. Len(s) /\ j \in 1 .. Len(s)
      BY <2>2
    <3>2. i \in 1 .. (j - 1)
      BY <2>4, <3>1
    <3>3. QED
      BY <3>2 DEF Firsts
  <2>5. Place(K, m) = Place(K, n)
    <3> HIDE DEF K
    <3>1. Place(K, m) \in 1 .. Len(s) /\ Place(K, n) \in 1 .. Len(s)
      BY <2>2, <2>3
    <3>2. s[Place(K, m)] = s[Place(K, n)]
      BY <1>4, <2>1
    <3>3. ~ (Place(K, m) < Place(K, n)) /\ ~ (Place(K, n) < Place(K, m))
      BY <2>3, <2>4, <3>2
    <3>4. QED
      BY <3>1, <3>3
  <2>6. m \in Int /\ n \in Int
    BY <2>1
  <2>7. QED
    <3> HIDE DEF K
    <3>1. Place(K, m) \in 1 .. Len(s)
      BY <2>2, <2>3
    <3>2. QED
      BY <2>3, <2>5, <2>6, <3>1
<1>5. QED
  BY <1>1, <1>2, <1>3, <1>4

\* Taking away some of the repetitions first makes no difference.
LEMMA UniqueOfSelected ==
    ASSUME NEW X, NEW s \in Seq(X), NEW keep \in SUBSET DOMAIN s, Firsts(s) \subseteq keep
    PROVE  unique(Selected(s, keep)) = unique(s)
<1> DEFINE t == Selected(s, keep)
           c == Cardinality(keep)
<1>1. /\ t \in Seq(X) /\ c \in Nat /\ DOMAIN t = 1 .. c
      /\ \A n \in 1 .. c : t[n] = s[Place(keep, n)]
  BY SelectedItems
<1>2. Len(s) \in Nat /\ DOMAIN s = 1 .. Len(s) /\ keep \in SUBSET (1 .. Len(s))
  OBVIOUS
<1>3. /\ \A n \in 1 .. c : Place(keep, n) \in keep
      /\ \A i \in keep : Rank(keep, i) \in 1 .. c /\ Place(keep, Rank(keep, i)) = i
      /\ \A m, n \in 1 .. c : m < n <=> Place(keep, m) < Place(keep, n)
  BY <1>2, Placed
<1> HIDE DEF t, c
<1>4. ASSUME NEW n \in 1 .. c PROVE n \in Firsts(t) <=> Place(keep, n) \in Firsts(s)
  <2>0. Place(keep, n) \in 1 .. Len(s) /\ t[n] = s[Place(keep, n)] /\ n \in Nat
    BY <1>1, <1>2, <1>3
  <2>1. ASSUME n \in Firsts(t), Place(keep, n) \notin Firsts(s) PROVE FALSE
    <3>1. PICK j \in Firsts(s) : j <= Place(keep, n) /\ s[j] = s[Place(keep, n)]
      BY <1>2, <2>0, FirstOccurs
    <3>2. j \in keep /\ j \in 1 .. Len(s) /\ j # Place(keep, n)
      BY <1>2, <2>1, <3>1
    <3>3. j < Place(keep, n)
      BY <2>0, <3>1, <3>2
    <3>4. Rank(keep, j) \in 1 .. c /\ Place(keep, Rank(keep, j)) = j
      BY <1>3, <3>2
    <3>5. Rank(keep, j) < n
      BY <1>3, <3>3, <3>4
    <3>6. t[Rank(keep, j)] = t[n]
      BY <1>1, <2>0, <3>1, <3>4
    <3>7. Rank(keep, j) \in 1 .. (n - 1)
      BY <1>1, <2>0, <3>4, <3>5
    <3>8. QED
      BY <2>1, <3>6, <3>7 DEF Firsts
  <2>2. ASSUME Place(keep, n) \in Firsts(s), n \notin Firsts(t) PROVE FALSE
    <3>1. PICK m \in 1 .. (n - 1) : t[m] = t[n]
      BY <1>1, <2>2 DEF Firsts
    <3>2. m \in 1 .. c /\ m < n
      BY <1>1, <2>0
    <3>3. Place(keep, m) < Place(keep, n) /\ Place(keep, m) \in 1 .. Len(s)
          /\ s[Place(keep, m)] = s[Place(keep, n)]
      BY <1>1, <1>2, <1>3, <2>0, <3>1, <3>2
    <3>4. Place(keep, m) \in 1 .. (Place(keep, n) - 1)
      BY <2>0, <3>3
    <3>5. QED
      BY <2>2, <3>3, <3>4 DEF Firsts
  <2>3. QED
    BY <2>1, <2>2
<1>5. Firsts(t) \in SUBSET (1 .. c) /\ Firsts(s) \in SUBSET keep
  BY <1>1 DEF Firsts
<1>6. Selected(t, Firsts(t)) = Selected(s, Firsts(s))
  <2>1. \A outer \in SUBSET keep, inner \in SUBSET (1 .. Cardinality(keep)) :
            (\A n \in 1 .. Cardinality(keep) : n \in inner <=> Place(keep, n) \in outer)
                => Selected(Selected(s, keep), inner) = Selected(s, outer)
    BY SelectedTwice
  <2>2. QED
    BY <1>4, <1>5, <2>1 DEF t, c
<1>7. unique(t) = Selected(t, Firsts(t)) /\ unique(s) = Selected(s, Firsts(s))
  BY DEF unique, Firsts
<1>8. QED
  BY <1>6, <1>7 DEF t
-----------------------------------------------------------------------------
(* Lists joined.                                                           *)

\* What holds at zero and is passed on holds up to any number.
LEMMA CountedUp ==
    ASSUME NEW N \in Nat, NEW S, 0 \in S, \A k \in 0 .. (N - 1) : k \in S => k + 1 \in S
    PROVE  \A k \in 0 .. N : k \in S
<1> DEFINE bad == {k \in 0 .. N : k \notin S}
<1>1. SUFFICES ASSUME bad # {} PROVE FALSE
  OBVIOUS
<1>2. bad \in SUBSET Nat
  OBVIOUS
<1>3. PICK k \in bad : \A j \in bad : k <= j
  <2> HIDE DEF bad
  <2>1. QED
    BY <1>1, <1>2, LeastNumber
<1>4. k \in 0 .. N /\ k \notin S /\ k # 0
  BY <1>3
<1>5. k - 1 \in 0 .. (N - 1) /\ k - 1 \notin bad
  BY <1>3, <1>4
<1>6. k - 1 \in S
  BY <1>5
<1>7. QED
  BY <1>4, <1>5, <1>6

\* FlattenSeq joins one list after the other.
LEMMA Joins ==
    ASSUME NEW X, NEW seqs \in Seq(Seq(X))
    PROVE  \E flat : /\ flat[0] = <<>>
                     /\ \A i \in 1 .. Len(seqs) : flat[i] = flat[i - 1] \o seqs[i]
                     /\ \A i \in 0 .. Len(seqs) : flat[i] \in Seq(X)
                     /\ FlattenSeq(seqs) = flat[Len(seqs)]
<1> DEFINE N == Len(seqs)
           turn(f, i) == IF i = 1 THEN seqs[i] ELSE f[i - 1] \o seqs[i]
           Runs(f, m) == f = [i \in 1 .. m |-> turn(f, i)]
           S == {m \in Nat : \E f : Runs(f, m)}
<1>0. N \in Nat /\ \A i \in 1 .. N : seqs[i] \in Seq(X)
  OBVIOUS
<1>1. 0 \in S
  <2> DEFINE f == [i \in 1 .. 0 |-> <<>>]
  <2>1. \A i \in 1 .. 0 : FALSE
    OBVIOUS
  <2>2. f = [i \in 1 .. 0 |-> turn(f, i)]
    BY <2>1
  <2>3. QED
    BY <2>2
<1>2. ASSUME NEW k \in 0 .. (N - 1), k \in S PROVE k + 1 \in S
  <2>1. PICK f : Runs(f, k)
    BY <1>2
  <2> DEFINE m == k + 1
             h == [i \in 1 .. m |-> IF i = m THEN turn(f, m) ELSE f[i]]
  <2>2. k \in Nat /\ m \in Nat
    BY <1>0
  <2>3. \A i \in 1 .. m : h[i] = turn(h, i)
    <3> SUFFICES ASSUME NEW i \in 1 .. m PROVE h[i] = turn(h, i)
      BY Zenon
    <3>1. CASE i = m
      <4>1. h[i] = turn(f, m) /\ (m # 1 => h[m - 1] = f[m - 1])
        <5> HIDE DEF turn
        <5>1. QED
          BY <2>2, <3>1
      <4> HIDE DEF h
      <4>2. QED
        BY <3>1, <4>1
    <3>2. CASE i # m
      <4>1. h[i] = f[i] /\ (i # 1 => h[i - 1] = f[i - 1]) /\ i \in 1 .. k
        <5> HIDE DEF turn
        <5>1. QED
          BY <2>2, <3>2
      <4>2. f[i] = turn(f, i)
        <5> HIDE DEF turn
        <5>1. QED
          BY <2>1, <4>1
      <4> HIDE DEF h
      <4>3. QED
        BY <4>1, <4>2
    <3>3. QED
      BY <3>1, <3>2, Zenon
  <2>4. Runs(h, m)
    <3>1. h = [i \in 1 .. m |-> h[i]]
      BY Zenon
    <3>2. [i \in 1 .. m |-> h[i]] = [i \in 1 .. m |-> turn(h, i)]
      <4> HIDE DEF h, turn
      <4>1. QED
        BY <2>3
    <3> HIDE DEF h, turn
    <3>3. QED
      BY <3>1, <3>2, Zenon
  <2> HIDE DEF Runs, h, m
  <2>5. m \in S
    BY <2>2, <2>4
  <2>6. QED
    BY <2>5 DEF m
<1>3. \A k \in 0 .. N : k \in S
  <2> HIDE DEF S, N
  <2>1. QED
    BY <1>0, <1>1, <1>2, CountedUp
<1>4. CASE N = 0
  <2>1. seqs = <<>>
    BY <1>4
  <2>2. FlattenSeq(seqs) = <<>>
    BY <2>1 DEF FlattenSeq
  <2> DEFINE flat == [i \in {0} |-> <<>>]
  <2>3. flat[0] = <<>> /\ <<>> \in Seq(X)
    OBVIOUS
  <2>4. \A i \in 0 .. Len(seqs) : i = 0
    BY <1>4
  <2>5. \A i \in 1 .. Len(seqs) : FALSE
    BY <1>4
  <2> HIDE DEF flat
  <2>6. FlattenSeq(seqs) = flat[Len(seqs)]
    BY <1>4, <2>2, <2>3
  <2>7. \A i \in 1 .. Len(seqs) : flat[i] = flat[i - 1] \o seqs[i]
    BY <2>5, Zenon
  <2>8. \A i \in 0 .. Len(seqs) : flat[i] \in Seq(X)
    BY <2>3, <2>4, Zenon
  <2>9. QED
    BY <2>3, <2>6, <2>7, <2>8, Zenon
<1>5. CASE N # 0
  <2> DEFINE flatten == CHOOSE f : Runs(f, N)
  <2>1. N \in S
    <3> HIDE DEF S
    <3>1. QED
      BY <1>0, <1>3
  <2>2. Runs(flatten, N)
    <3> HIDE DEF Runs
    <3>1. QED
      BY <2>1
  <2>3. FlattenSeq(seqs) = flatten[N]
    BY <1>5 DEF FlattenSeq
  <2> HIDE DEF flatten
  <2>4. \A i \in 1 .. N : flatten[i] = turn(flatten, i)
    BY <2>2
  <2> DEFINE flat == [i \in 0 .. N |-> IF i = 0 THEN <<>> ELSE flatten[i]]
             T == {i \in 0 .. N : flat[i] \in Seq(X)}
  <2>5. flat[0] = <<>> /\ \A i \in 1 .. N : flat[i] = flatten[i]
    BY <1>0
  <2>6. ASSUME NEW i \in 1 .. N PROVE flat[i] = flat[i - 1] \o seqs[i]
    <3>1. CASE i = 1
      <4>1. flat[i - 1] = <<>> /\ flat[i] = seqs[i]
        BY <2>4, <2>5, <3>1
      <4> HIDE DEF flat
      <4>2. seqs[i] \in Seq(X)
        BY <1>0
      <4>3. QED
        BY <4>1, <4>2
    <3>2. CASE i # 1
      <4>1. i - 1 \in 1 .. N
        BY <1>0, <3>2
      <4>2. flat[i] = flatten[i] /\ flat[i - 1] = flatten[i - 1]
        BY <2>5, <4>1
      <4> HIDE DEF flat
      <4>3. QED
        BY <2>4, <3>2, <4>2
    <3>3. QED
      BY <3>1, <3>2
  <2> HIDE DEF flat
  <2>7. 0 \in T
    <3>1. <<>> \in Seq(X) /\ 0 \in 0 .. N
      BY <1>0
    <3>2. QED
      BY <2>5, <3>1
  <2>8. ASSUME NEW k \in 0 .. (N - 1), k \in T PROVE k + 1 \in T
    <3>1. k + 1 \in 1 .. N /\ (k + 1) - 1 = k
      BY <1>0
    <3>2. flat[k + 1] = flat[k] \o seqs[k + 1]
      BY <2>6, <3>1
    <3>3. flat[k] \in Seq(X) /\ seqs[k + 1] \in Seq(X)
      BY <1>0, <2>8, <3>1
    <3>4. flat[k] \o seqs[k + 1] \in Seq(X) /\ k + 1 \in 0 .. N
      BY <1>0, <3>1, <3>3
    <3>5. QED
      BY <3>2, <3>4
  <2>9. \A k \in 0 .. N : k \in T
    <3> HIDE DEF T, N
    <3>1. QED
      BY <1>0, <2>7, <2>8, CountedUp
  <2>10. flat[N] = flatten[N]
    BY <1>0, <1>5, <2>5
  <2>11. QED
    BY <2>3, <2>5, <2>6, <2>9, <2>10
<1>6. QED
  BY <1>4, <1>5

-----------------------------------------------------------------------------
(* What a rule leaves open.                                                *)

References == ToSet(ByLength)
Targets == [ref : References, weight : Nat, pinned : BOOLEAN]
Fallbacks == [ref : References, pinned : BOOLEAN]

\* The references of a subsequence of entries.
LEMMA RefsOfSelected ==
    ASSUME NEW X, NEW e \in Seq(X), NEW keep \in SUBSET DOMAIN e, NEW Y,
           \A x \in X : x.ref \in Y
    PROVE  /\ Refs(e) \in Seq(Y) /\ DOMAIN Refs(e) = DOMAIN e
           /\ \A i \in DOMAIN e : Refs(e)[i] = e[i].ref
           /\ Refs(Selected(e, keep)) = Selected(Refs(e), keep)
<1> DEFINE c == Cardinality(keep)
           t == Selected(e, keep)
           u == Refs(e)
<1>1. Len(e) \in Nat /\ DOMAIN e = 1 .. Len(e) /\ \A i \in 1 .. Len(e) : e[i].ref \in Y
  OBVIOUS
<1>2. u = [i \in 1 .. Len(e) |-> e[i].ref]
  BY <1>1 DEF Refs
<1>3. u \in Seq(Y) /\ DOMAIN u = DOMAIN e /\ \A i \in DOMAIN e : u[i] = e[i].ref
  <2> HIDE DEF u
  <2>1. QED
    BY <1>1, <1>2
<1>4. /\ t \in Seq(X) /\ c \in Nat /\ DOMAIN t = 1 .. c
      /\ \A n \in 1 .. c : t[n] = e[Place(keep, n)]
  BY SelectedItems
<1>5. \A n \in 1 .. c : Place(keep, n) \in keep
  BY <1>1, Placed
<1>6. Refs(t) = [n \in 1 .. c |-> t[n].ref]
  BY <1>4 DEF Refs
<1>7. Selected(u, keep) = [n \in 1 .. c |-> u[Place(keep, n)]]
  BY DEF Selected
<1>8. \A n \in 1 .. c : t[n].ref = u[Place(keep, n)]
  <2> HIDE DEF t, u, c
  <2>1. QED
    BY <1>3, <1>4, <1>5
<1>9. Refs(t) = Selected(u, keep)
  <2> HIDE DEF t, u, c
  <2>1. QED
    BY <1>6, <1>7, <1>8
<1>10. QED
  BY <1>3, <1>9

\* A list of length one.
LEMMA OnlyItem ==
    ASSUME NEW X, NEW s \in Seq(X), Len(s) = 1
    PROVE  s = <<s[1]>> /\ DOMAIN s = {1} /\ ToSet(s) = {s[1]} /\ s[1] \in X
<1>1. DOMAIN s = {1} /\ s[1] \in X
  OBVIOUS
<1>2. s = <<s[1]>>
  BY <1>1
<1>3. ToSet(s) = {s[1]}
  BY <1>1 DEF ToSet
<1>4. QED
  BY <1>1, <1>2, <1>3

\* A target alone is the first.
LEMMA OnlyTarget ==
    ASSUME NEW X, NEW s \in Seq(X), Len(s) = 1, s[1].weight \in Nat
    PROVE  ByWeight(s) = s
<1>1. DOMAIN s = {1} /\ s = <<s[1]>>
  BY OnlyItem
<1> DEFINE before(i) == {j \in DOMAIN s :
                        \/ s[j].weight > s[i].weight
                        \/ s[j].weight = s[i].weight /\ j < i}
           c == CHOOSE i \in DOMAIN s : Cardinality(before(i)) = 1 - 1
<1>2. before(1) = {}
  <2>1. \A j \in {1} : ~ (s[j].weight > s[1].weight) /\ ~ (j < 1)
    OBVIOUS
  <2>2. QED
    BY <1>1, <2>1
<1>3. Cardinality(before(1)) = 1 - 1
  <2>1. Cardinality({}) = 0 /\ 1 - 1 = 0
    BY FS_EmptySet
  <2> HIDE DEF before
  <2>2. QED
    BY <1>2, <2>1
<1>4. c = 1
  <2> HIDE DEF before
  <2>1. c \in DOMAIN s
    BY <1>1, <1>3
  <2>2. QED
    BY <1>1, <2>1
<1>5. ByWeight(s) = [n \in DOMAIN s |->
            s[CHOOSE i \in DOMAIN s : Cardinality(before(i)) = n - 1]]
  BY DEF ByWeight
<1>6. ByWeight(s) = [n \in {1} |-> s[1]]
  <2>1. \A n \in DOMAIN s : s[CHOOSE i \in DOMAIN s : Cardinality(before(i)) = n - 1] = s[1]
    <3> HIDE DEF before
    <3>1. \A n \in DOMAIN s : n = 1
      BY <1>1
    <3>2. QED
      BY <1>4, <3>1
  <2> HIDE DEF before
  <2>2. QED
    BY <1>1, <1>5, <2>1
<1>7. s = [n \in 1 .. Len(s) |-> s[n]] /\ 1 .. Len(s) = {1}
  OBVIOUS
<1>8. [n \in {1} |-> s[n]] = [n \in {1} |-> s[1]]
  OBVIOUS
<1>9. QED
  BY <1>6, <1>7, <1>8, Zenon

\* A rule with a target has a member.
LEMMA HasMembers ==
    ASSUME NEW rule, WellFormed(rule)
    PROVE  routingRuleMembers(rule) # <<>>
<1> DEFINE n == Len(rule.targets)
           m == Len(rule.fallbacks)
           l == Refs(ByWeight(rule.targets)) \o Refs(rule.fallbacks)
<1>1. n \in Nat /\ n # 0 /\ m \in Nat /\ DOMAIN rule.targets = 1 .. n
      /\ DOMAIN rule.fallbacks = 1 .. m
  BY DEF WellFormed
<1> DEFINE w == ByWeight(rule.targets)
           X == {w[i].ref : i \in 1 .. n} \cup {rule.fallbacks[i].ref : i \in 1 .. m}
<1>2. DOMAIN w = 1 .. n
  BY <1>1 DEF ByWeight
<1>3. Refs(w) = [i \in 1 .. n |-> w[i].ref] /\ Refs(rule.fallbacks) = [i \in 1 .. m |-> rule.fallbacks[i].ref]
  <2> HIDE DEF w, n, m
  <2>1. QED
    BY <1>1, <1>2 DEF Refs
<1> HIDE DEF w, n, m
<1>4. Refs(w) \in Seq(X) /\ Len(Refs(w)) = n /\ Refs(rule.fallbacks) \in Seq(X)
      /\ Len(Refs(rule.fallbacks)) = m
  <2>1. (\A i \in 1 .. n : w[i].ref \in X) /\ \A i \in 1 .. m : rule.fallbacks[i].ref \in X
    OBVIOUS
  <2> HIDE DEF X
  <2>2. QED
    BY <1>1, <1>3, <2>1
<1> HIDE DEF X
<1>5. l \in Seq(X) /\ Len(l) = n + m
  BY <1>4 DEF w
<1> HIDE DEF l
<1>6. 1 \in DOMAIN l
  BY <1>1, <1>5
<1>7. ToSet(unique(l)) = ToSet(l) /\ l[1] \in ToSet(l)
  <2>1. ToSet(unique(l)) = ToSet(l)
    BY <1>5, UniqueItems
  <2>2. l[1] \in ToSet(l)
    BY <1>6, Zenon DEF ToSet
  <2>3. QED
    BY <2>1, <2>2
<1>8. unique(l) # <<>>
  <2>1. ToSet(<<>>) = {}
    BY DEF ToSet
  <2>2. QED
    BY <1>7, <2>1
<1>9. QED
  BY <1>8 DEF routingRuleMembers, l, w

\* The rules of a gateway.
RulesOf(rules) == rules \in Seq(ToSet(rules)) /\ \A rule \in ToSet(rules) : WellFormed(rule)

\* A rule that leaves no choice: the gateway tries its members in this order.
LEMMA OneOrder ==
    ASSUME NEW rule, WellFormed(rule), isContextDynamicRuleSafe(rule)
    PROVE  \E o : /\ RuleOrders(rule) = {o} /\ \A i \in DOMAIN o : ~ o[i].pinned
                  /\ routingRuleMembers(rule) = unique(Refs(o))
                  /\ routingRuleMembers(rule) \in Seq(References)
                  /\ unique(routingRuleMembers(rule)) = routingRuleMembers(rule)
<1> DEFINE t == rule.targets[1]
           e == <<t>> \o rule.fallbacks
           K == {i \in DOMAIN e : i = 1 \/ e[i].ref # t.ref}
           o == Selected(e, K)
           X == Targets \cup Fallbacks
           l == Refs(e)
<1>1. /\ rule.targets \in Seq(Targets) /\ rule.fallbacks \in Seq(Fallbacks)
      /\ Len(rule.targets) = 1 /\ t.weight > 0
  BY DEF WellFormed, isContextDynamicRuleSafe, Targets, Fallbacks, References
<1>2. /\ rule.targets = <<t>> /\ DOMAIN rule.targets = {1} /\ ToSet(rule.targets) = {t}
      /\ t \in Targets
  BY <1>1, OnlyItem
<1>3. ByWeight(rule.targets) = rule.targets
  <2>1. rule.targets[1].weight \in Nat
    BY <1>2 DEF Targets
  <2>2. QED
    BY <1>1, <2>1, OnlyTarget
<1>4. e \in Seq(X) /\ Len(e) = 1 + Len(rule.fallbacks) /\ 1 \in DOMAIN e /\ e[1] = t
      /\ \A i \in 1 .. Len(rule.fallbacks) : e[i + 1] = rule.fallbacks[i]
  <2> HIDE DEF t
  <2>1. <<t>> \in Seq(X) /\ rule.fallbacks \in Seq(X)
    BY <1>1, <1>2
  <2> HIDE DEF X
  <2>2. QED
    BY <2>1
<1>5. \A x \in X : x.ref \in References
  BY DEF Targets, Fallbacks
<1>6. l = Refs(rule.targets) \o Refs(rule.fallbacks)
  <2>1. l = [i \in 1 .. (1 + Len(rule.fallbacks)) |-> e[i].ref]
    <3> HIDE DEF e
    <3>1. DOMAIN e = 1 .. (1 + Len(rule.fallbacks))
      BY <1>4
    <3>2. QED
      BY <3>1 DEF Refs
  <2>2. Refs(rule.targets) = <<t.ref>>
    <3>1. Refs(rule.targets) = [i \in {1} |-> rule.targets[i].ref]
      BY <1>2 DEF Refs
    <3>2. [i \in {1} |-> rule.targets[i].ref] = [i \in 1 .. 1 |-> t.ref]
      BY <1>2
    <3>3. [i \in 1 .. 1 |-> t.ref] = <<t.ref>>
      OBVIOUS
    <3>4. QED
      BY <3>1, <3>2, <3>3
  <2>3. Refs(rule.fallbacks) = [i \in 1 .. Len(rule.fallbacks) |-> rule.fallbacks[i].ref]
    BY <1>1 DEF Refs
  <2> DEFINE N == Len(rule.fallbacks)
             f == [i \in 1 .. N |-> rule.fallbacks[i].ref]
  <2>4. N \in Nat /\ f \in Seq(References) /\ Len(f) = N
    <3>1. N \in Nat /\ \A i \in 1 .. N : rule.fallbacks[i] \in Fallbacks
      BY <1>1
    <3>2. \A i \in 1 .. N : rule.fallbacks[i].ref \in References
      BY <3>1 DEF Fallbacks
    <3> HIDE DEF N
    <3>3. f \in [1 .. N -> References]
      BY <3>2
    <3>4. QED
      BY <3>1, <3>3
  <2>5. <<t.ref>> \in Seq(References) /\ Len(<<t.ref>>) = 1 /\ <<t.ref>>[1] = t.ref
    BY <1>2, <1>5
  <2>6. \A i \in 1 .. (1 + N) : e[i].ref = (<<t.ref>> \o f)[i]
    <3> SUFFICES ASSUME NEW i \in 1 .. (1 + N) PROVE e[i].ref = (<<t.ref>> \o f)[i]
      OBVIOUS
    <3>1. CASE i = 1
      <4> HIDE DEF e, f, N
      <4>1. QED
        BY <1>4, <2>4, <2>5, <3>1
    <3>2. CASE i # 1
      <4>1. i - 1 \in 1 .. N /\ (i - 1) + 1 = i
        BY <2>4, <3>2
      <4>2. e[i] = rule.fallbacks[i - 1]
        <5> HIDE DEF e
        <5>1. QED
          BY <1>4, <4>1
      <4>3. f[i - 1] = rule.fallbacks[i - 1].ref
        BY <4>1
      <4> HIDE DEF e, f, N
      <4>4. (<<t.ref>> \o f)[i] = f[i - 1]
        BY <2>4, <2>5, <4>1
      <4>5. QED
        BY <4>2, <4>3, <4>4
    <3>3. QED
      BY <3>1, <3>2
  <2>7. <<t.ref>> \o f = [i \in 1 .. (1 + N) |-> (<<t.ref>> \o f)[i]]
    <3> HIDE DEF f, N
    <3>1. <<t.ref>> \o f \in Seq(References) /\ Len(<<t.ref>> \o f) = 1 + N
      BY <2>4, <2>5
    <3> DEFINE h == <<t.ref>> \o f
    <3> HIDE DEF h
    <3>2. h = [i \in 1 .. (1 + N) |-> h[i]]
      BY <3>1 DEF h
    <3>3. QED
      BY <3>2 DEF h
  <2>8. l = <<t.ref>> \o f
    <3> HIDE DEF e, f, l
    <3>1. QED
      BY <2>1, <2>6, <2>7 DEF N
  <2>9. QED
    BY <2>2, <2>3, <2>8
<1>7. K \in SUBSET DOMAIN e
  OBVIOUS
<1>8. \A i \in DOMAIN e : i \in K <=> i = 1 \/ e[i].ref # e[1].ref
  BY <1>4
<1>9. o = Selected(e, K)
  OBVIOUS
<1>10. RuleOrders(rule) = {o}
  <2>1. {u \in ToSet(rule.targets) : u.weight > 0} = {t}
    BY <1>1, <1>2
  <2>2. rule.targets # <<>>
    BY <1>1
  <2>3. RuleOrders(rule) =
        {Selected(<<u>> \o rule.fallbacks,
                  {i \in DOMAIN (<<u>> \o rule.fallbacks) :
                        i = 1 \/ (<<u>> \o rule.fallbacks)[i].ref # u.ref}) : u \in {t}}
    BY <2>1, <2>2 DEF RuleOrders
  <2>4. QED
    BY <2>3
<1> HIDE DEF e, K, o, l, X
<1>11. /\ l \in Seq(References) /\ DOMAIN l = DOMAIN e /\ \A i \in DOMAIN e : l[i] = e[i].ref
       /\ Refs(o) = Selected(l, K)
  <2>1. \A k \in SUBSET DOMAIN e : Refs(e) \in Seq(References) /\ DOMAIN Refs(e) = DOMAIN e
            /\ (\A i \in DOMAIN e : Refs(e)[i] = e[i].ref)
            /\ Refs(Selected(e, k)) = Selected(Refs(e), k)
    BY <1>4, <1>5, RefsOfSelected
  <2>2. QED
    BY <1>7, <1>9, <2>1 DEF l
<1>12. Firsts(l) \subseteq K
  <2> SUFFICES ASSUME NEW i \in Firsts(l), i # 1, e[i].ref = e[1].ref PROVE FALSE
    BY <1>8, <1>11 DEF Firsts
  <2>1. i \in DOMAIN l /\ \A j \in 1 .. (i - 1) : l[j] # l[i]
    BY DEF Firsts
  <2>2. 1 \in 1 .. (i - 1)
    BY <1>11, <2>1
  <2>3. QED
    BY <1>4, <1>11, <2>1, <2>2
<1>13. unique(Refs(o)) = unique(l)
  <2>1. \A k \in SUBSET DOMAIN l : Firsts(l) \subseteq k => unique(Selected(l, k)) = unique(l)
    BY <1>11, UniqueOfSelected
  <2>2. QED
    BY <1>7, <1>11, <1>12, <2>1
<1>14. routingRuleMembers(rule) = unique(l)
  BY <1>3, <1>6 DEF routingRuleMembers
<1>15. unique(l) \in Seq(References) /\ unique(unique(l)) = unique(l)
  <2>1. unique(l) = Selected(l, Firsts(l)) /\ Firsts(l) \in SUBSET DOMAIN l
        /\ unique(l) \in Seq(References)
    BY <1>11, UniqueItems
  <2>2. \A k \in SUBSET DOMAIN l : Firsts(l) \subseteq k => unique(Selected(l, k)) = unique(l)
    BY <1>11, UniqueOfSelected
  <2>3. QED
    BY <2>1, <2>2
<1>16. \A i \in DOMAIN o : ~ o[i].pinned
  <2>1. \A x \in ToSet(rule.targets) \cup ToSet(rule.fallbacks) : ~ x.pinned
    BY DEF isContextDynamicRuleSafe, routingRulePins
  <2>2. \A i \in DOMAIN e : ~ e[i].pinned
    <3> SUFFICES ASSUME NEW i \in DOMAIN e PROVE ~ e[i].pinned
      OBVIOUS
    <3>1. CASE i = 1
      BY <1>2, <1>4, <2>1, <3>1
    <3>2. CASE i # 1
      <4>1. i - 1 \in 1 .. Len(rule.fallbacks) /\ (i - 1) + 1 = i
        BY <1>1, <1>4, <3>2
      <4>2. rule.fallbacks[i - 1] \in ToSet(rule.fallbacks)
        <5>1. i - 1 \in DOMAIN rule.fallbacks
          BY <1>1, <4>1
        <5>2. QED
          BY <5>1 DEF ToSet
      <4>3. e[i] = rule.fallbacks[i - 1]
        BY <1>4, <4>1
      <4>4. QED
        BY <2>1, <4>2, <4>3
    <3>3. QED
      BY <3>1, <3>2
  <2>3. /\ Cardinality(K) \in Nat /\ DOMAIN o = 1 .. Cardinality(K)
        /\ \A n \in 1 .. Cardinality(K) : o[n] = e[Place(K, n)]
    <3>1. \A k \in SUBSET DOMAIN e : Cardinality(k) \in Nat /\ DOMAIN Selected(e, k) = 1 .. Cardinality(k)
            /\ \A n \in 1 .. Cardinality(k) : Selected(e, k)[n] = e[Place(k, n)]
      BY <1>4, SelectedItems
    <3>2. QED
      BY <1>7, <1>9, <3>1
  <2>4. \A n \in 1 .. Cardinality(K) : Place(K, n) \in K
    <3>1. Len(e) \in Nat /\ K \in SUBSET (1 .. Len(e))
      BY <1>4, <1>7
    <3>2. QED
      BY <3>1, Placed
  <2>5. QED
    BY <1>7, <2>2, <2>3, <2>4
<1>17. QED
  BY <1>10, <1>13, <1>14, <1>15, <1>16

\* A list of one list is joined to that list.
LEMMA OneJoined ==
    ASSUME NEW X, NEW s \in Seq(X)
    PROVE  FlattenSeq(<<s>>) = s
<1> DEFINE q == <<s>>
<1>1. q \in Seq(Seq(X)) /\ Len(q) = 1 /\ q[1] = s
  OBVIOUS
<1> HIDE DEF q
<1>2. PICK flat : /\ flat[0] = <<>> /\ \A i \in 1 .. Len(q) : flat[i] = flat[i - 1] \o q[i]
                  /\ FlattenSeq(q) = flat[Len(q)]
  BY <1>1, Joins
<1>3. flat[1] = flat[0] \o s
  <2>1. 1 \in 1 .. Len(q) /\ 1 - 1 = 0
    BY <1>1
  <2>2. flat[1] = flat[1 - 1] \o q[1]
    BY <1>2, <2>1
  <2>3. QED
    BY <1>1, <2>1, <2>2
<1>4. <<>> \o s = s
  OBVIOUS
<1>5. QED
  BY <1>1, <1>2, <1>3, <1>4 DEF q

\* Of a dynamic alias the gateway can only try the members of the chain, in
\* their order and under any provider key.
LEMMA TheOnlyOrder ==
    ASSUME NEW rules, RulesOf(rules), NEW a \in DOMAIN deriveAliasesFromRules(rules),
           deriveAliasesFromRules(rules)[a].dynamic
    PROVE  /\ deriveAliasesFromRules(rules)[a].chain \in Seq(References)
           /\ \A m, n \in DOMAIN deriveAliasesFromRules(rules)[a].chain :
                deriveAliasesFromRules(rules)[a].chain[m] = deriveAliasesFromRules(rules)[a].chain[n]
                    => m = n
           /\ \E o : /\ GatewayOrders(rules, a) = {o} /\ \A i \in DOMAIN o : ~ o[i].pinned
                     /\ deriveAliasesFromRules(rules)[a].chain = unique(Refs(o))
<1> DEFINE K == {i \in DOMAIN rules :
                    rules[i].enabled /\ rules[i].alias = a /\ routingRuleMembers(rules[i]) # <<>>}
           E == {i \in DOMAIN rules : rules[i].enabled}
           related == Related(rules, a)
           rule == related[1]
           chain == deriveAliasesFromRules(rules)[a].chain
<1>1. chain = unique(reachable(rules, a)) /\ Len(related) = 1 /\ isContextDynamicRuleSafe(rule)
  BY DEF deriveAliasesFromRules
<1>2. rules \in Seq(ToSet(rules)) /\ (\A i \in DOMAIN rules : rules[i] \in ToSet(rules))
      /\ \A r \in ToSet(rules) : WellFormed(r)
  <2>1. \A i \in DOMAIN rules : rules[i] \in ToSet(rules)
    BY DEF ToSet
  <2>2. QED
    BY <2>1 DEF RulesOf
<1>3. related = Selected(rules, K)
  BY DEF Related
<1>4. K \in SUBSET DOMAIN rules /\ E \in SUBSET DOMAIN rules
  OBVIOUS
<1>5. \A i \in DOMAIN rules : i \in K <=> i \in E /\ rules[i].alias = a
  BY <1>2, HasMembers
<1> HIDE DEF K
<1>6. related \in Seq(ToSet(rules)) /\ ToSet(related) = {rules[i] : i \in K}
  BY <1>2, <1>3, <1>4, SelectedItems, SelectedSet
<1>7. ToSet(Enabled(rules)) = {rules[i] : i \in E}
  BY <1>2, <1>4, SelectedSet DEF Enabled
<1> HIDE DEF E, related
<1>8. related = <<rule>> /\ DOMAIN related = {1} /\ ToSet(related) = {rule} /\ rule \in ToSet(rules)
  <2>1. \A s \in Seq(ToSet(rules)) : Len(s) = 1 =>
            s = <<s[1]>> /\ DOMAIN s = {1} /\ ToSet(s) = {s[1]} /\ s[1] \in ToSet(rules)
    BY OnlyItem
  <2>2. QED
    BY <1>1, <1>6, <2>1
<1>9. {r \in ToSet(Enabled(rules)) : r.alias = a} = {rule}
  <2>1. {r \in {rules[i] : i \in E} : r.alias = a} = {rules[i] : i \in K}
    BY <1>4, <1>5
  <2>2. QED
    BY <1>6, <1>7, <1>8, <2>1
<1>10. rule.exact /\ rule.global /\ ~ rule.chain
  BY <1>1 DEF isContextDynamicRuleSafe
<1>11. GatewayOrders(rules, a) = RuleOrders(rule)
  <2> DEFINE mine == {r \in ToSet(Enabled(rules)) : r.alias = a}
             reached == IF \E r \in mine : r.chain THEN mine \cup ToSet(Enabled(rules)) ELSE mine
             rest == IF \E r \in mine : r.exact /\ r.global THEN {} ELSE {<<>>}
  <2>1. GatewayOrders(rules, a) = (UNION {RuleOrders(r) : r \in reached}) \cup rest
    BY DEF GatewayOrders
  <2>2. mine = {rule}
    BY <1>9
  <2> HIDE DEF mine
  <2>3. reached = {rule} /\ rest = {}
    BY <1>10, <2>2
  <2> HIDE DEF reached, rest
  <2>4. UNION {RuleOrders(r) : r \in {rule}} = RuleOrders(rule)
    OBVIOUS
  <2>5. QED
    BY <2>1, <2>3, <2>4
<1> DEFINE members == routingRuleMembers(rule)
<1>12. PICK o : /\ RuleOrders(rule) = {o} /\ \A i \in DOMAIN o : ~ o[i].pinned
                /\ members = unique(Refs(o)) /\ members \in Seq(References)
                /\ unique(members) = members
  BY <1>1, <1>2, <1>8, OneOrder
<1>13. reachable(rules, a) = members
  <2> DEFINE lists == [i \in DOMAIN related |-> routingRuleMembers(related[i])]
  <2>1. ~ \E i \in DOMAIN related : related[i].chain
    BY <1>8, <1>10
  <2>2. reachable(rules, a) = FlattenSeq(lists) \o <<>>
    BY <2>1 DEF reachable, related
  <2>3. lists = <<members>>
    <3>1. lists = [i \in {1} |-> routingRuleMembers(related[i])]
      BY <1>8
    <3>2. [i \in {1} |-> routingRuleMembers(related[i])] = [i \in 1 .. 1 |-> members]
      OBVIOUS
    <3> HIDE DEF members
    <3>3. [i \in 1 .. 1 |-> members] = <<members>>
      OBVIOUS
    <3>4. QED
      BY <3>1, <3>2, <3>3
  <2> HIDE DEF lists, members
  <2>4. FlattenSeq(lists) = members
    BY <1>12, <2>3, OneJoined
  <2>5. members \o <<>> = members
    BY <1>12
  <2>6. QED
    BY <2>2, <2>4, <2>5
<1>14. chain = members
  BY <1>1, <1>12, <1>13
<1>15. \A m, n \in DOMAIN chain : chain[m] = chain[n] => m = n
  <2> HIDE DEF members, chain
  <2>1. \A m, n \in DOMAIN unique(members) : unique(members)[m] = unique(members)[n] => m = n
    BY <1>12, UniqueItems
  <2>2. QED
    BY <1>12, <1>14, <2>1
<1>16. QED
  BY <1>11, <1>12, <1>14, <1>15

-----------------------------------------------------------------------------
(* The attempts of a plan.                                                 *)

\* The parts of a list, joined, are the list.
LEMMA PartsJoin ==
    ASSUME NEW X, NEW s \in Seq(X), NEW starts \in SUBSET DOMAIN s, s # <<>> => 1 \in starts
    PROVE  /\ Parts(s, starts) \in Seq(Seq(X)) /\ FlattenSeq(Parts(s, starts)) = s
           /\ Cardinality(starts) \in Nat
           /\ \A n \in 1 .. Cardinality(starts) :
                /\ Place(starts, n) \in 1 .. Len(s)
                /\ PartEnd(s, starts, n) \in (Place(starts, n)) .. Len(s)
<1> DEFINE N == Len(s)
           c == Cardinality(starts)
           from(n) == Place(starts, n)
           to(n) == IF n = 0 THEN 0 ELSE PartEnd(s, starts, n)
           q == Parts(s, starts)
<1>1. N \in Nat /\ DOMAIN s = 1 .. N /\ starts \in SUBSET (1 .. N) /\ (N # 0 => 1 \in starts)
  OBVIOUS
<1>2. /\ c \in Nat /\ \A n \in 1 .. c : from(n) \in starts
      /\ \A m, n \in 1 .. c : m < n <=> from(m) < from(n)
      /\ \A i \in starts : Rank(starts, i) \in 1 .. c /\ from(Rank(starts, i)) = i
  BY <1>1, Placed
<1>3. q = [n \in 1 .. c |-> SubSeq(s, from(n), to(n))]
  <2>1. \A n \in 1 .. c : to(n) = PartEnd(s, starts, n)
    OBVIOUS
  <2> HIDE DEF to
  <2>2. QED
    BY <2>1 DEF Parts
<1>4. \A n \in 1 .. (c - 1) : to(n) = from(n + 1) - 1
  BY <1>2 DEF PartEnd
<1>5. (c # 0 => to(c) = N) /\ to(0) = 0
  BY DEF PartEnd
<1> HIDE DEF from, to, c, N, q
<1>6. ASSUME c # 0 PROVE from(1) = 1
  <2>1. 1 \in 1 .. c
    BY <1>2, <1>6
  <2>2. from(1) \in 1 .. N /\ 1 \in starts
    BY <1>1, <1>2, <2>1
  <2>3. PICK r \in 1 .. c : from(r) = 1
    BY <1>2, <2>2
  <2>4. ~ (1 < r)
    BY <1>2, <2>1, <2>2, <2>3
  <2>5. QED
    BY <1>2, <2>3, <2>4
<1>7. \A n \in 1 .. c : from(n) = to(n - 1) + 1 /\ from(n) \in 1 .. N
  <2> SUFFICES ASSUME NEW n \in 1 .. c PROVE from(n) = to(n - 1) + 1 /\ from(n) \in 1 .. N
    OBVIOUS
  <2>1. from(n) \in 1 .. N
    BY <1>1, <1>2
  <2>2. CASE n = 1
    BY <1>2, <1>5, <1>6, <2>1, <2>2
  <2>3. CASE n # 1
    <3>1. n - 1 \in 1 .. (c - 1) /\ (n - 1) + 1 = n
      BY <1>2, <2>3
    <3>2. QED
      BY <1>4, <2>1, <3>1
  <2>4. QED
    BY <2>2, <2>3
<1>8. \A n \in 1 .. c : to(n) \in (from(n)) .. N
  <2> SUFFICES ASSUME NEW n \in 1 .. c PROVE to(n) \in (from(n)) .. N
    OBVIOUS
  <2>1. from(n) \in 1 .. N /\ n \in Nat
    BY <1>2, <1>7
  <2>2. CASE n = c
    BY <1>1, <1>2, <1>5, <2>1, <2>2
  <2>3. CASE n # c
    <3>1. n \in 1 .. (c - 1) /\ n + 1 \in 1 .. c /\ n < n + 1
      BY <1>2, <2>3
    <3>2. from(n) < from(n + 1) /\ from(n + 1) \in 1 .. N
      BY <1>2, <1>7, <3>1
    <3>3. QED
      BY <1>1, <1>4, <2>1, <3>1, <3>2
  <2>4. QED
    BY <2>2, <2>3
<1>9. q \in Seq(Seq(X)) /\ Len(q) = c /\ \A n \in 1 .. c : q[n] = SubSeq(s, from(n), to(n))
  <2>1. \A n \in 1 .. c : SubSeq(s, from(n), to(n)) \in Seq(X)
    <3> SUFFICES ASSUME NEW n \in 1 .. c PROVE SubSeq(s, from(n), to(n)) \in Seq(X)
      OBVIOUS
    <3>1. from(n) \in Int /\ to(n) \in Int /\ \A i \in (from(n)) .. (to(n)) : i \in DOMAIN s
      BY <1>1, <1>7, <1>8
    <3>2. \A i \in (from(n)) .. (to(n)) : s[i] \in X
      BY <3>1
    <3>3. QED
      BY <3>1, <3>2, SubSeqProperties
  <2> DEFINE Y == Seq(X)
  <2>2. \A n \in 1 .. c : SubSeq(s, from(n), to(n)) \in Y
    BY <2>1
  <2> HIDE DEF Y
  <2>3. q \in [1 .. c -> Y]
    BY <1>3, <2>2
  <2>4. q \in Seq(Y) /\ Len(q) = c
    BY <1>2, <2>3
  <2>5. QED
    BY <1>3, <2>4 DEF Y
<1>10. PICK flat : /\ flat[0] = <<>>
                   /\ \A i \in 1 .. c : flat[i] = flat[i - 1] \o q[i]
                   /\ FlattenSeq(q) = flat[c]
  BY <1>9, Joins
<1> DEFINE S == {k \in 0 .. c : flat[k] = SubSeq(s, 1, to(k))}
<1>11. 0 \in S
  <2>1. SubSeq(s, 1, 0) = <<>>
    BY SubSeqEmpty
  <2>2. 0 \in 0 .. c
    BY <1>2
  <2>3. QED
    BY <1>5, <1>10, <2>1, <2>2
<1>12. ASSUME NEW k \in 0 .. (c - 1), k \in S PROVE k + 1 \in S
  <2>1. k + 1 \in 1 .. c /\ (k + 1) - 1 = k /\ k \in Nat
    BY <1>2
  <2>2. flat[k + 1] = SubSeq(s, 1, to(k)) \o SubSeq(s, from(k + 1), to(k + 1))
    BY <1>9, <1>10, <1>12, <2>1
  <2>3. from(k + 1) = to(k) + 1 /\ from(k + 1) \in 1 .. N /\ to(k + 1) \in (from(k + 1)) .. N
    BY <1>7, <1>8, <2>1
  <2>4. to(k) \in 0 .. N /\ to(k + 1) \in (to(k)) .. N
    <3>1. k = 0 \/ k \in 1 .. c
      BY <1>2
    <3>2. to(k) \in Int
      BY <1>5, <1>8, <3>1
    <3>3. QED
      BY <1>1, <2>3, <3>2
  <2>5. SubSeq(s, 1, to(k)) \o SubSeq(s, to(k) + 1, to(k + 1)) = SubSeq(s, 1, to(k + 1))
    <3>1. \A m \in 1 .. Len(s) + 1 : \A i \in m - 1 .. Len(s) : \A n \in i .. Len(s) :
                SubSeq(s, m, i) \o SubSeq(s, i + 1, n) = SubSeq(s, m, n)
      BY ConcatAdjacentSubSeq
    <3>2. 1 \in 1 .. Len(s) + 1 /\ to(k) \in 1 - 1 .. Len(s) /\ to(k + 1) \in (to(k)) .. Len(s)
      BY <1>1, <2>4 DEF N
    <3>3. QED
      BY <3>1, <3>2
  <2>6. k + 1 \in 0 .. c
    BY <1>2, <2>1
  <2>7. QED
    BY <2>2, <2>3, <2>5, <2>6
<1>13. c \in S
  <2> HIDE DEF S
  <2>1. \A k \in 0 .. c : k \in S
    BY <1>2, <1>11, <1>12, CountedUp
  <2>2. QED
    BY <1>2, <2>1
<1>14. to(c) = N
  <2>1. CASE c = 0
    <3>1. N = 0
      <4>1. CASE N # 0
        <5>1. 1 \in starts
          BY <1>1, <4>1
        <5>2. QED
          BY <1>2, <2>1, <5>1
      <4>2. QED
        BY <4>1
    <3>2. QED
      BY <1>5, <2>1, <3>1
  <2>2. QED
    BY <1>5, <2>1
<1>15. SubSeq(s, 1, N) = s
  BY SubSeqFull DEF N
<1>16. \A n \in 1 .. c : to(n) = PartEnd(s, starts, n)
  BY <1>2 DEF to
<1>17. /\ c \in Nat
       /\ \A n \in 1 .. c :
            /\ Place(starts, n) \in 1 .. Len(s)
            /\ PartEnd(s, starts, n) \in (Place(starts, n)) .. Len(s)
  BY <1>2, <1>7, <1>8, <1>16 DEF from, N
<1>18. Parts(s, starts) \in Seq(Seq(X)) /\ FlattenSeq(Parts(s, starts)) = s
  BY <1>9, <1>10, <1>13, <1>14, <1>15 DEF q
<1>19. QED
  BY <1>17, <1>18 DEF c

\* The ids of members, and of the members of each attempt.
Named(members) == [i \in DOMAIN members |-> members[i].id]
AllNamed(attempts) == [i \in DOMAIN attempts |-> Named(attempts[i])]

\* What is selected or cut of the members is selected or cut of their ids.
LEMMA NamedSelected ==
    ASSUME NEW X, NEW s \in Seq(X), NEW keep \in SUBSET DOMAIN s, NEW Y, \A x \in X : x.id \in Y
    PROVE  /\ Named(s) \in Seq(Y) /\ DOMAIN Named(s) = DOMAIN s /\ Len(Named(s)) = Len(s)
           /\ \A i \in DOMAIN s : Named(s)[i] = s[i].id
           /\ Named(Selected(s, keep)) = Selected(Named(s), keep)
<1> DEFINE c == Cardinality(keep)
           t == Selected(s, keep)
           u == Named(s)
<1>1. Len(s) \in Nat /\ DOMAIN s = 1 .. Len(s) /\ \A i \in 1 .. Len(s) : s[i].id \in Y
  OBVIOUS
<1>2. u = [i \in 1 .. Len(s) |-> s[i].id]
  BY <1>1 DEF Named
<1>3. u \in Seq(Y) /\ DOMAIN u = DOMAIN s /\ Len(u) = Len(s) /\ \A i \in DOMAIN s : u[i] = s[i].id
  <2> HIDE DEF u
  <2>1. QED
    BY <1>1, <1>2
<1>4. /\ t \in Seq(X) /\ c \in Nat /\ DOMAIN t = 1 .. c
      /\ \A n \in 1 .. c : t[n] = s[Place(keep, n)]
  BY SelectedItems
<1>5. \A n \in 1 .. c : Place(keep, n) \in keep
  BY <1>1, Placed
<1>6. Named(t) = [n \in 1 .. c |-> t[n].id]
  BY <1>4 DEF Named
<1>7. Selected(u, keep) = [n \in 1 .. c |-> u[Place(keep, n)]]
  BY DEF Selected
<1>8. \A n \in 1 .. c : t[n].id = u[Place(keep, n)]
  <2> HIDE DEF t, u, c
  <2>1. QED
    BY <1>3, <1>4, <1>5
<1>9. Named(t) = Selected(u, keep)
  <2> HIDE DEF t, u, c
  <2>1. QED
    BY <1>6, <1>7, <1>8
<1>10. QED
  BY <1>3, <1>9

\* The ids of the parts of a sequence, joined, are the ids of the sequence.
LEMMA NamedParts ==
    ASSUME NEW X, NEW s \in Seq(X), NEW starts \in SUBSET DOMAIN s, s # <<>> => 1 \in starts,
           NEW Y, \A x \in X : x.id \in Y
    PROVE  FlattenSeq(AllNamed(Parts(s, starts))) = Named(s)
<1> DEFINE u == Named(s)
           c == Cardinality(starts)
           q == Parts(s, starts)
           from(n) == Place(starts, n)
           to(n) == PartEnd(s, starts, n)
<1>1. u \in Seq(Y) /\ DOMAIN u = DOMAIN s /\ Len(u) = Len(s) /\ \A i \in DOMAIN s : u[i] = s[i].id
  BY NamedSelected
<1>2. c \in Nat /\ \A n \in 1 .. c : from(n) \in 1 .. Len(s) /\ to(n) \in (from(n)) .. Len(s)
  BY PartsJoin
<1> HIDE DEF u
<1>3. starts \in SUBSET DOMAIN u /\ (u # <<>> => 1 \in starts)
  <2>1. s = <<>> => u = <<>>
    BY <1>1
  <2>2. QED
    BY <1>1, <2>1
<1>4. FlattenSeq(Parts(u, starts)) = u
  BY <1>1, <1>3, PartsJoin
<1>5. Parts(u, starts) = [n \in 1 .. c |-> SubSeq(u, from(n), to(n))]
  <2>1. \A n : PartEnd(u, starts, n) = PartEnd(s, starts, n)
    BY <1>1, Zenon DEF PartEnd
  <2>2. QED
    BY <2>1 DEF Parts
<1>6. q = [n \in 1 .. c |-> SubSeq(s, from(n), to(n))]
  BY DEF Parts
<1>7. AllNamed(q) = [n \in 1 .. c |-> Named(q[n])]
  BY <1>6 DEF AllNamed
<1>8. ASSUME NEW n \in 1 .. c PROVE Named(q[n]) = SubSeq(u, from(n), to(n))
  <2> DEFINE a == from(n)
             b == to(n)
             p == SubSeq(s, a, b)
             r == SubSeq(u, a, b)
  <2>1. a \in 1 .. Len(s) /\ b \in a .. Len(s) /\ Len(s) \in Nat
    BY <1>2
  <2>2. q[n] = p
    BY <1>6
  <2> HIDE DEF a, b, from, to
  <2>3. a \in Int /\ b \in Int /\ \A i \in a .. b : i \in DOMAIN s /\ s[i] \in X /\ u[i] \in Y
    BY <1>1, <2>1
  <2>4. p \in Seq(X) /\ Len(p) = b - a + 1 /\ \A i \in 1 .. b - a + 1 : p[i] = s[a + i - 1]
    BY <2>1, <2>3, SubSeqProperties
  <2>5. r \in Seq(Y) /\ Len(r) = b - a + 1 /\ \A i \in 1 .. b - a + 1 : r[i] = u[a + i - 1]
    BY <2>1, <2>3, SubSeqProperties
  <2> HIDE DEF p, r
  <2>6. \A i \in 1 .. b - a + 1 : p[i].id = r[i]
    <3> SUFFICES ASSUME NEW i \in 1 .. b - a + 1 PROVE p[i].id = r[i]
      OBVIOUS
    <3>1. a + i - 1 \in DOMAIN s
      BY <2>1
    <3>2. QED
      BY <1>1, <2>4, <2>5, <3>1
  <2>7. Named(p) = [i \in 1 .. b - a + 1 |-> p[i].id]
    <3>1. DOMAIN p = 1 .. b - a + 1
      BY <2>4
    <3>2. QED
      BY <3>1 DEF Named
  <2>8. r = [i \in 1 .. b - a + 1 |-> r[i]]
    BY <2>5
  <2>9. Named(p) = r
    BY <2>6, <2>7, <2>8
  <2>10. QED
    BY <2>2, <2>9 DEF r, a, b
<1>9. AllNamed(q) = Parts(u, starts)
  <2> HIDE DEF q
  <2>1. QED
    BY <1>5, <1>7, <1>8
<1>10. QED
  BY <1>4, <1>9 DEF u

\* Attempts that try a part of the members, in their order.
InOrder(attempts, members) ==
    \E K \in SUBSET DOMAIN members : FlattenSeq(AllNamed(attempts)) = Selected(Named(members), K)

\* The attempts of a plan try a part of the profile, in its order.
LEMMA AttemptsSelect ==
    ASSUME NEW deployment, NEW X, NEW profile \in Seq(X), NEW advert, NEW need,
           NEW Y, \A x \in X : x.id \in Y
    PROVE  InOrder(planDynamicRouteAttempts(deployment, profile, advert, need).attempts, profile)
<1> DEFINE K == {i \in DOMAIN profile :
                    evaluateRouteMemberEligibility(profile[i], need, Requested(advert, need),
                                                   UsesReasoning(profile, need))}
           eligible == Selected(profile, K)
           shares(m, n) == /\ MemberProtocol(m, need) = MemberProtocol(n, need)
                           /\ KnownEncoder(deployment, m) /\ KnownEncoder(deployment, n)
                           /\ physicalRequestContractKey(deployment, m, need)
                                = physicalRequestContractKey(deployment, n, need)
           starts == {i \in DOMAIN eligible : i > 1 => ~ shares(eligible[i - 1], eligible[i])}
<1>1. K \in SUBSET DOMAIN profile
  OBVIOUS
<1>2. planDynamicRouteAttempts(deployment, profile, advert, need).attempts = Parts(eligible, starts)
  BY Zenon DEF planDynamicRouteAttempts, Grouped
<1> HIDE DEF K
<1>3. eligible \in Seq(X)
  BY <1>1, SelectedItems
<1>4. Named(eligible) = Selected(Named(profile), K)
  <2>1. \A k \in SUBSET DOMAIN profile : Named(Selected(profile, k)) = Selected(Named(profile), k)
    BY NamedSelected
  <2>2. QED
    BY <1>1, <2>1
<1> HIDE DEF eligible
<1>5. starts \in SUBSET DOMAIN eligible /\ (eligible # <<>> => 1 \in starts)
  <2>1. eligible # <<>> => 1 \in DOMAIN eligible
    BY <1>3
  <2> HIDE DEF shares
  <2>2. QED
    BY <2>1
<1> HIDE DEF starts
<1>6. FlattenSeq(AllNamed(Parts(eligible, starts))) = Named(eligible)
  BY <1>3, <1>5, NamedParts
<1>7. QED
  BY <1>1, <1>2, <1>4, <1>6 DEF InOrder

-----------------------------------------------------------------------------
(* The catalogue.                                                          *)

\* A list with at most one item appended.
LEMMA Extended ==
    ASSUME NEW X, NEW s \in Seq(X), NEW t \in Seq(X), Len(t) <= 1
    PROVE  /\ Len(s) \in Nat /\ Len(t) \in {0, 1} /\ Len(s \o t) = Len(s) + Len(t)
           /\ DOMAIN (s \o t) = 1 .. (Len(s) + Len(t)) /\ DOMAIN s = 1 .. Len(s)
           /\ \A i \in 1 .. Len(s) : (s \o t)[i] = s[i]
           /\ Len(t) = 1 => (s \o t)[Len(s) + 1] = t[1]
           /\ \A i \in 1 .. (Len(s) + Len(t)) : i \in 1 .. Len(s) \/ (i = Len(s) + 1 /\ Len(t) = 1)
<1>1. Len(s) \in Nat /\ Len(t) \in Nat /\ DOMAIN s = 1 .. Len(s)
  OBVIOUS
<1>2. Len(t) \in {0, 1}
  <2>1. \A n \in Nat : n <= 1 => n \in {0, 1}
    OBVIOUS
  <2>2. QED
    BY <1>1, <2>1, Zenon
<1>3. Len(s \o t) = Len(s) + Len(t) /\ DOMAIN (s \o t) = 1 .. (Len(s) + Len(t))
  OBVIOUS
<1>4. \A i \in 1 .. Len(s) : (s \o t)[i] = s[i]
  OBVIOUS
<1>5. ASSUME Len(t) = 1 PROVE (s \o t)[Len(s) + 1] = t[1]
  <2>1. \A i \in 1 .. Len(s) + Len(t) : (s \o t)[i] = IF i <= Len(s) THEN s[i] ELSE t[i - Len(s)]
    BY ConcatProperties
  <2> DEFINE l == Len(s)
  <2>2. l + 1 \in 1 .. (l + 1) /\ ~ (l + 1 <= l) /\ (l + 1) - l = 1
    <3>1. l \in Nat
      BY <1>1
    <3> HIDE DEF l
    <3>2. QED
      BY <3>1
  <2>3. QED
    BY <1>5, <2>1, <2>2
<1>6. \A i \in 1 .. (Len(s) + Len(t)) : i \in 1 .. Len(s) \/ (i = Len(s) + 1 /\ Len(t) = 1)
  BY <1>1, <1>2
<1>7. QED
  BY <1>1, <1>2, <1>3, <1>4, <1>5, <1>6

\* Joined lists of at most one item each: if none is missing, each item is
\* in the place of its list.
LEMMA ShortJoin ==
    ASSUME NEW X, NEW q \in Seq(Seq(X)), \A i \in DOMAIN q : Len(q[i]) <= 1
    PROVE  /\ FlattenSeq(q) \in Seq(X)
           /\ Len(FlattenSeq(q)) = Len(q) =>
                \A i \in 1 .. Len(q) : Len(q[i]) = 1 /\ FlattenSeq(q)[i] = q[i][1]
<1> DEFINE N == Len(q)
<1>1. N \in Nat /\ DOMAIN q = 1 .. N
      /\ \A i \in 1 .. N : q[i] \in Seq(X) /\ Len(q[i]) \in {0, 1}
  <2>1. N \in Nat /\ DOMAIN q = 1 .. N /\ \A i \in 1 .. N : q[i] \in Seq(X)
    OBVIOUS
  <2> HIDE DEF N
  <2>2. \A i \in 1 .. N : Len(q[i]) \in Nat
    BY <2>1
  <2>3. \A i \in 1 .. N : Len(q[i]) <= 1
    BY <2>1, Zenon
  <2>4. \A n \in Nat : n <= 1 => n \in {0, 1}
    OBVIOUS
  <2>5. QED
    BY <2>1, <2>2, <2>3, <2>4, Zenon
<1>2. PICK flat : /\ flat[0] = <<>>
                  /\ \A i \in 1 .. N : flat[i] = flat[i - 1] \o q[i]
                  /\ \A i \in 0 .. N : flat[i] \in Seq(X)
                  /\ FlattenSeq(q) = flat[N]
  BY Joins
<1> HIDE DEF N
<1> DEFINE S == {k \in 0 .. N :
                    /\ Len(flat[k]) <= k
                    /\ Len(flat[k]) = k =>
                        \A i \in 1 .. k : Len(q[i]) = 1 /\ flat[k][i] = q[i][1]}
<1>3. 0 \in S
  <2>1. 0 \in 0 .. N /\ Len(flat[0]) = 0
    BY <1>1, <1>2
  <2>2. \A i \in 1 .. 0 : FALSE
    OBVIOUS
  <2>3. QED
    BY <2>1, <2>2
<1>4. ASSUME NEW k \in 0 .. (N - 1), k \in S PROVE k + 1 \in S
  <2>1. k + 1 \in 1 .. N /\ (k + 1) - 1 = k /\ k \in Nat /\ k \in 0 .. N /\ k + 1 \in 0 .. N
    BY <1>1
  <2> DEFINE s == flat[k]
             e == q[k + 1]
             h == flat[k + 1]
  <2>2. h = s \o e /\ s \in Seq(X) /\ e \in Seq(X) /\ Len(e) <= 1
    <3>1. Len(e) \in {0, 1} /\ e \in Seq(X)
      BY <1>1, <2>1
    <3>2. \A n \in {0, 1} : n <= 1
      OBVIOUS
    <3>3. h = s \o e /\ s \in Seq(X)
      BY <1>2, <2>1, Zenon
    <3>4. QED
      BY <3>1, <3>2, <3>3, Zenon
  <2>3. Len(s) <= k /\ (Len(s) = k => \A i \in 1 .. k : Len(q[i]) = 1 /\ s[i] = q[i][1])
    BY <1>4
  <2> HIDE DEF s, e, h
  <2>4. /\ Len(s) \in Nat /\ Len(e) \in {0, 1} /\ Len(h) = Len(s) + Len(e)
        /\ \A i \in 1 .. Len(s) : h[i] = s[i]
        /\ Len(e) = 1 => h[Len(s) + 1] = e[1]
    BY <2>2, Extended
  <2> DEFINE l == Len(s)
             m == Len(e)
             n == Len(h)
  <2>x. l \in Nat /\ m \in {0, 1} /\ n = l + m /\ l <= k /\ k \in Nat
    BY <2>1, <2>3, <2>4
  <2> HIDE DEF l, m, n
  <2>y. n <= k + 1 /\ (n = k + 1 => l = k /\ m = 1)
    BY <2>x
  <2>5. Len(h) <= k + 1
    BY <2>y DEF n
  <2>6. ASSUME Len(h) = k + 1, NEW i \in 1 .. (k + 1)
        PROVE  Len(q[i]) = 1 /\ h[i] = q[i][1]
    <3>1. Len(s) = k /\ Len(e) = 1
      BY <2>6, <2>y DEF l, m, n
    <3>2. i \in 1 .. k \/ i = k + 1
      BY <2>1
    <3>3. CASE i = k + 1
      BY <2>4, <3>1, <3>3 DEF e
    <3>4. CASE i \in 1 .. k
      BY <2>3, <2>4, <3>1, <3>4
    <3>5. QED
      BY <3>2, <3>3, <3>4
  <2>7. QED
    BY <2>1, <2>5, <2>6 DEF h
<1>5. N \in S
  <2> HIDE DEF S
  <2>1. \A k \in 0 .. N : k \in S
    BY <1>1, <1>3, <1>4, CountedUp
  <2>2. QED
    BY <1>1, <2>1
<1>6. FlattenSeq(q) \in Seq(X)
  BY <1>1, <1>2
<1>7. QED
  BY <1>2, <1>5, <1>6 DEF N

\* If the lists differ in their items, no two joined items have one id.
LEMMA DistinctJoin ==
    ASSUME NEW X, NEW q \in Seq(Seq(X)), \A i \in DOMAIN q : Len(q[i]) <= 1,
           \A i, j \in DOMAIN q :
                i # j /\ Len(q[i]) = 1 /\ Len(q[j]) = 1 => q[i][1].id # q[j][1].id
    PROVE  /\ FlattenSeq(q) \in Seq(X)
           /\ \A m, n \in DOMAIN FlattenSeq(q) :
                FlattenSeq(q)[m].id = FlattenSeq(q)[n].id => m = n
<1> DEFINE N == Len(q)
<1>1. N \in Nat /\ DOMAIN q = 1 .. N
      /\ \A i \in 1 .. N : q[i] \in Seq(X) /\ Len(q[i]) \in {0, 1}
  <2>1. N \in Nat /\ DOMAIN q = 1 .. N /\ \A i \in 1 .. N : q[i] \in Seq(X)
    OBVIOUS
  <2> HIDE DEF N
  <2>2. \A i \in 1 .. N : Len(q[i]) \in Nat
    BY <2>1
  <2>3. \A i \in 1 .. N : Len(q[i]) <= 1
    BY <2>1, Zenon
  <2>4. \A n \in Nat : n <= 1 => n \in {0, 1}
    OBVIOUS
  <2>5. QED
    BY <2>1, <2>2, <2>3, <2>4, Zenon
<1>2. PICK flat : /\ flat[0] = <<>>
                  /\ \A i \in 1 .. N : flat[i] = flat[i - 1] \o q[i]
                  /\ \A i \in 0 .. N : flat[i] \in Seq(X)
                  /\ FlattenSeq(q) = flat[N]
  BY Joins
<1>d. \A i, j \in 1 .. N : i # j /\ Len(q[i]) = 1 /\ Len(q[j]) = 1 => q[i][1].id # q[j][1].id
  BY <1>1
<1> HIDE DEF N
<1> DEFINE Of(k) == \A m \in DOMAIN flat[k] : \E i \in 1 .. k : Len(q[i]) = 1 /\ flat[k][m] = q[i][1]
           Apart(k) == \A m, n \in DOMAIN flat[k] : flat[k][m].id = flat[k][n].id => m = n
           S == {k \in 0 .. N : Of(k) /\ Apart(k)}
<1>3. 0 \in S
  <2>1. 0 \in 0 .. N /\ DOMAIN flat[0] = {}
    BY <1>1, <1>2
  <2>2. QED
    BY <2>1
<1>4. ASSUME NEW k \in 0 .. (N - 1), k \in S PROVE k + 1 \in S
  <2>1. k + 1 \in 1 .. N /\ (k + 1) - 1 = k /\ k \in Nat /\ k \in 0 .. N /\ k + 1 \in 0 .. N
    BY <1>1
  <2> DEFINE s == flat[k]
             e == q[k + 1]
             h == flat[k + 1]
             L == Len(s)
  <2>2. h = s \o e /\ s \in Seq(X) /\ e \in Seq(X) /\ Len(e) <= 1
    <3>1. Len(e) \in {0, 1} /\ e \in Seq(X)
      BY <1>1, <2>1
    <3>2. \A n \in {0, 1} : n <= 1
      OBVIOUS
    <3>3. h = s \o e /\ s \in Seq(X)
      BY <1>2, <2>1, Zenon
    <3>4. QED
      BY <3>1, <3>2, <3>3, Zenon
  <2>3. /\ \A m \in DOMAIN s : \E i \in 1 .. k : Len(q[i]) = 1 /\ s[m] = q[i][1]
        /\ \A m, n \in DOMAIN s : s[m].id = s[n].id => m = n
    BY <1>4
  <2> HIDE DEF s, e, h
  <2>4. /\ L \in Nat /\ Len(e) \in {0, 1} /\ DOMAIN h = 1 .. (L + Len(e)) /\ DOMAIN s = 1 .. L
        /\ \A m \in 1 .. L : h[m] = s[m]
        /\ Len(e) = 1 => h[L + 1] = e[1]
        /\ \A m \in 1 .. (L + Len(e)) : m \in 1 .. L \/ (m = L + 1 /\ Len(e) = 1)
    BY <2>2, Extended
  <2> HIDE DEF L
  <2>5. Len(e) = 1 => Len(q[k + 1]) = 1 /\ h[L + 1] = q[k + 1][1]
    BY <2>4 DEF e
  <2>6. \A m, n \in 1 .. L : h[m].id = h[n].id => m = n
    BY <2>3, <2>4
  <2>7. \A m \in DOMAIN h : m \in 1 .. L \/ (m = L + 1 /\ Len(e) = 1)
    BY <2>4
  <2>8. \A m \in 1 .. L : \E i \in 1 .. k : Len(q[i]) = 1 /\ h[m] = q[i][1]
    <3> SUFFICES ASSUME NEW m \in 1 .. L PROVE \E i \in 1 .. k : Len(q[i]) = 1 /\ h[m] = q[i][1]
      OBVIOUS
    <3>1. m \in DOMAIN s /\ h[m] = s[m]
      BY <2>4
    <3>2. QED
      BY <2>3, <3>1
  <2>9. \A i \in 1 .. k : i \in 1 .. (k + 1) /\ i \in 1 .. N /\ i # k + 1
    BY <1>1, <2>1
  <2>10. Of(k + 1)
    <3> SUFFICES ASSUME NEW m \in DOMAIN h
                 PROVE  \E i \in 1 .. (k + 1) : Len(q[i]) = 1 /\ h[m] = q[i][1]
      BY DEF h
    <3>1. CASE m \in 1 .. L
      BY <2>8, <2>9, <3>1
    <3>2. CASE m = L + 1 /\ Len(e) = 1
      <4>1. k + 1 \in 1 .. (k + 1)
        BY <2>1
      <4>2. QED
        BY <2>5, <3>2, <4>1
    <3>3. QED
      BY <2>7, <3>1, <3>2
  <2>11. ASSUME NEW m \in 1 .. L, Len(e) = 1 PROVE h[m].id # h[L + 1].id
    <3>1. PICK i \in 1 .. k : Len(q[i]) = 1 /\ h[m] = q[i][1]
      BY <2>8
    <3>2. i \in 1 .. N /\ i # k + 1
      BY <2>9
    <3>3. q[i][1].id # q[k + 1][1].id
      BY <1>d, <2>1, <2>5, <2>11, <3>1, <3>2
    <3>4. QED
      BY <2>5, <2>11, <3>1, <3>3
  <2>12. Apart(k + 1)
    <3> SUFFICES ASSUME NEW m \in DOMAIN h, NEW n \in DOMAIN h, h[m].id = h[n].id PROVE m = n
      BY DEF h
    <3>1. CASE m \in 1 .. L /\ n \in 1 .. L
      BY <2>6, <3>1
    <3>2. CASE m = L + 1 /\ n = L + 1
      BY <3>2
    <3>3. CASE Len(e) = 1 /\ m \in 1 .. L /\ n = L + 1
      BY <2>11, <3>3
    <3>4. CASE Len(e) = 1 /\ n \in 1 .. L /\ m = L + 1
      BY <2>11, <3>4
    <3>5. QED
      BY <2>7, <3>1, <3>2, <3>3, <3>4
  <2> HIDE DEF Of, Apart
  <2>13. QED
    BY <2>1, <2>10, <2>12
<1>5. N \in S
  <2> HIDE DEF S
  <2>1. \A k \in 0 .. N : k \in S
    BY <1>1, <1>3, <1>4, CountedUp
  <2>2. QED
    BY <1>1, <2>1
<1>6. FlattenSeq(q) \in Seq(X)
  BY <1>1, <1>2
<1>7. QED
  BY <1>2, <1>5, <1>6

\* What is selected of a list without repetition has none.
LEMMA SelectedApart ==
    ASSUME NEW X, NEW s \in Seq(X), NEW keep \in SUBSET DOMAIN s,
           \A i, j \in DOMAIN s : s[i] = s[j] => i = j
    PROVE  \A m, n \in DOMAIN Selected(s, keep) :
                Selected(s, keep)[m] = Selected(s, keep)[n] => m = n
<1>1. /\ DOMAIN Selected(s, keep) = 1 .. Cardinality(keep)
      /\ \A n \in 1 .. Cardinality(keep) : Selected(s, keep)[n] = s[Place(keep, n)]
  BY SelectedItems
<1>2. /\ \A n \in 1 .. Cardinality(keep) : Place(keep, n) \in keep /\ Rank(keep, Place(keep, n)) = n
  <2>1. Len(s) \in Nat /\ keep \in SUBSET (1 .. Len(s))
    OBVIOUS
  <2>2. QED
    BY <2>1, Placed
<1>3. QED
  BY <1>1, <1>2

\* What is known of a model: nothing, or one member under the given id.
LEMMA OneMember ==
    ASSUME NEW deployment, NEW ref, NEW id, NEW live
    PROVE  \/ RichModel(deployment, ref, id, live) = <<>>
           \/ \E x : RichModel(deployment, ref, id, live) = <<x>> /\ x.id = ref
<1> DEFINE rows == Rows(deployment, ref, id, live)
<1>1. RichModel(deployment, ref, id, live) = enrich(deployment, ref, rows)
  BY Zenon DEF RichModel
<1> HIDE DEF rows
<1>2. \/ enrich(deployment, ref, rows) = <<>>
      \/ \E x : enrich(deployment, ref, rows) = <<x>> /\ x.id = ref
  <2>1. enrich(deployment, ref, rows) # <<>> => enrich(deployment, ref, rows)[1].id = ref
    BY DEF enrich
  <2>2. enrich(deployment, ref, rows) # <<>> => \E x : enrich(deployment, ref, rows) = <<x>>
    BY ZenonT(40) DEF enrich
  <2> DEFINE e == enrich(deployment, ref, rows)
  <2>3. ASSUME e # <<>> PROVE \E x : e = <<x>> /\ x.id = ref
    <3>1. PICK x : e = <<x>>
      BY <2>2, <2>3
    <3> HIDE DEF e
    <3>2. e[1] = x
      BY <3>1
    <3>3. QED
      BY <2>1, <2>3, <3>1, <3>2 DEF e
  <2>4. QED
    BY <2>3
<1>3. QED
  BY <1>1, <1>2

\* In a catalogue no two members have one id.
LEMMA CatalogueApart ==
    ASSUME NEW deployment, NEW ids, NEW refs \in Seq(References),
           \A i, j \in DOMAIN refs : refs[i] = refs[j] => i = j
    PROVE  LET catalog == buildRichRouteCatalog(deployment, ids, refs)
           IN  \E X : /\ catalog \in Seq(X) /\ \A x \in X : x.id \in References
                      /\ \A m, n \in DOMAIN catalog : catalog[m].id = catalog[n].id => m = n
<1> DEFINE live(id) == IF id \in ToSet(ids) THEN toProviderModel(deployment, id) ELSE [choice |-> TRUE]
           rich(ref, match) ==
                IF match.found THEN RichModel(deployment, ref, match.id, live(match.id)) ELSE <<>>
           inventory == augmentLiveInventoryForRoutes(ids, refs)
           q == [i \in DOMAIN refs |-> rich(refs[i], resolveModelReference(refs[i], inventory))]
<1>1. buildRichRouteCatalog(deployment, ids, refs) = FlattenSeq(q)
  BY Zenon DEF buildRichRouteCatalog
<1>2. Len(refs) \in Nat /\ DOMAIN refs = 1 .. Len(refs)
      /\ \A i \in 1 .. Len(refs) : refs[i] \in References
  OBVIOUS
<1>3. DOMAIN q = 1 .. Len(refs)
  BY <1>2
<1>4. ASSUME NEW i \in 1 .. Len(refs)
      PROVE  q[i] = <<>> \/ \E x : q[i] = <<x>> /\ x.id = refs[i]
  <2> DEFINE match == resolveModelReference(refs[i], inventory)
  <2>1. q[i] = rich(refs[i], match)
    BY <1>2
  <2> HIDE DEF match, q, live, inventory
  <2>2. match.found \/ q[i] = <<>>
    BY <2>1
  <2>3. CASE match.found
    <3>1. q[i] = RichModel(deployment, refs[i], match.id, live(match.id))
      BY <2>1, <2>3
    <3>2. \A ref, id, told : \/ RichModel(deployment, ref, id, told) = <<>>
                           \/ \E x : RichModel(deployment, ref, id, told) = <<x>> /\ x.id = ref
      BY OneMember
    <3>3. QED
      BY <3>1, <3>2
  <2>4. QED
    BY <2>2, <2>3
<1>5. q = [i \in 1 .. Len(refs) |-> q[i]]
  BY <1>2, Zenon
<1> HIDE DEF q, rich, live, inventory
<1> DEFINE X == {q[i][1] : i \in {j \in 1 .. Len(refs) : q[j] # <<>>}}
           N == Len(refs)
           Y == Seq(X)
<1>6. ASSUME NEW i \in 1 .. N
      PROVE  q[i] \in Y /\ Len(q[i]) <= 1 /\ (q[i] # <<>> => Len(q[i]) = 1 /\ q[i][1].id = refs[i])
             /\ (Len(q[i]) = 1 => q[i] # <<>>)
  <2>1. CASE q[i] = <<>>
    BY <2>1
  <2>2. CASE q[i] # <<>>
    <3>1. PICK x : q[i] = <<x>> /\ x.id = refs[i]
      BY <1>4, <2>2
    <3>2. q[i][1] = x /\ Len(q[i]) = 1
      BY <3>1
    <3>3. x \in X
      BY <2>2, <3>2
    <3> HIDE DEF X
    <3>4. q[i] \in Seq(X)
      BY <3>1, <3>3
    <3>5. QED
      BY <2>2, <3>1, <3>2, <3>4
  <2>3. QED
    BY <2>1, <2>2
<1>7. \A x \in X : x.id \in References
  <2> SUFFICES ASSUME NEW x \in X PROVE x.id \in References
    OBVIOUS
  <2>1. PICK i \in 1 .. N : q[i] # <<>> /\ x = q[i][1]
    OBVIOUS
  <2>2. x.id = refs[i]
    BY <1>6, <2>1
  <2>3. QED
    BY <1>2, <2>2
<1> HIDE DEF X, Y, N
<1>8. q \in Seq(Y)
  <2>1. q \in [1 .. N -> Y]
    BY <1>5, <1>6 DEF N
  <2>2. QED
    BY <1>2, <2>1 DEF N
<1>9. \A i, j \in DOMAIN q :
            i # j /\ Len(q[i]) = 1 /\ Len(q[j]) = 1 => q[i][1].id # q[j][1].id
  BY <1>2, <1>3, <1>6 DEF N
<1>10. /\ FlattenSeq(q) \in Seq(X)
       /\ \A m, n \in DOMAIN FlattenSeq(q) : FlattenSeq(q)[m].id = FlattenSeq(q)[n].id => m = n
  <2>1. q \in Seq(Seq(X)) /\ \A i \in DOMAIN q : Len(q[i]) <= 1
    BY <1>3, <1>6, <1>8 DEF N, Y
  <2>2. QED
    BY <1>9, <2>1, DistinctJoin
<1>11. QED
  BY <1>1, <1>7, <1>10

\* An alias without a profile.
Bare(alias) ==
    alias = [members |-> alias.members, profile |-> <<>>,
             offered |-> alias.offered, advert |-> alias.advert]

\* An alias is synthesized without a profile.
LEMMA NoProfileYet ==
    ASSUME NEW chain, NEW catalog
    PROVE  Bare(synthesizeAlias(chain, catalog))
<1> DEFINE found == [i \in DOMAIN chain |->
                        resolveModelReference(chain[i], [j \in DOMAIN catalog |-> catalog[j].id])]
           named(i, match) ==
                FlattenSeq([j \in DOMAIN catalog |->
                    IF match.found /\ match.id = catalog[j].id
                    THEN <<[catalog[j] EXCEPT !.id = chain[i]]>> ELSE <<>>])
           members == FlattenSeq([i \in DOMAIN chain |-> named(i, found[i])])
           offered == members # <<>> /\ [i \in DOMAIN members |-> members[i].id] = chain
           advert == IF members = <<>> THEN NoFacts ELSE Advert(members)
<1>1. synthesizeAlias(chain, catalog) = [members |-> members, profile |-> <<>>,
                                         offered |-> offered, advert |-> advert]
  BY Zenon DEF synthesizeAlias
<1> HIDE DEF members, offered, advert
<1> DEFINE alias == synthesizeAlias(chain, catalog)
<1> HIDE DEF alias
<1>2. alias = [members |-> members, profile |-> <<>>, offered |-> offered, advert |-> advert]
  BY <1>1 DEF alias
<1>3. Bare(alias)
  BY <1>2 DEF Bare
<1>4. QED
  BY <1>3 DEF alias

\* A profile is there for dynamic aliases only, and its members are those of
\* the chain.
LEMMA ProfileIsChain ==
    ASSUME NEW X, NEW catalog \in Seq(X),
           \A m, n \in DOMAIN catalog : catalog[m].id = catalog[n].id => m = n,
           NEW definition, definition.dynamic => definition.chain \in Seq(References),
           NEW alias, alias = synthesizeAlias(definition.chain, catalog)
    PROVE  LET profile == applyDynamicRouteProfiles(alias, definition, catalog).profile
           IN  profile # <<>> =>
                /\ definition.dynamic /\ profile \in Seq(X) /\ Named(profile) = definition.chain
<1> DEFINE own(r) == Selected(catalog, {j \in DOMAIN catalog : catalog[j].id = r})
           chain == definition.chain
           q == [i \in DOMAIN chain |-> own(chain[i])]
           profile == FlattenSeq(q)
           window == Greatest({profile[i].window : i \in DOMAIN profile})
           applied == applyDynamicRouteProfiles(alias, definition, catalog)
<1>1. applied = IF alias.offered /\ definition.dynamic /\ Len(profile) = Len(chain)
                THEN [alias EXCEPT !.profile = profile, !.advert.window = window]
                ELSE alias
  BY Zenon DEF applyDynamicRouteProfiles
<1>2. alias = [members |-> alias.members, profile |-> <<>>,
               offered |-> alias.offered, advert |-> alias.advert]
  <2>1. Bare(alias)
    BY NoProfileYet, Zenon
  <2>2. QED
    BY <2>1, Zenon DEF Bare
<1> HIDE DEF applied, q, own, profile, chain, window
<1>3. SUFFICES ASSUME definition.dynamic, Len(profile) = Len(chain)
               PROVE  profile \in Seq(X) /\ Named(profile) = chain
  <2>1. alias.profile = <<>>
    BY <1>2
  <2>2. [alias EXCEPT !.profile = profile, !.advert.window = window].profile = profile
    BY <1>2
  <2>3. QED
    BY <1>1, <2>1, <2>2 DEF applied, chain
<1>4. chain \in Seq(References) /\ Len(chain) \in Nat /\ DOMAIN chain = 1 .. Len(chain)
  BY <1>3 DEF chain
<1>5. ASSUME NEW r
      PROVE  own(r) \in Seq(X) /\ Len(own(r)) <= 1 /\ (Len(own(r)) = 1 => own(r)[1].id = r)
  <2> DEFINE J == {j \in DOMAIN catalog : catalog[j].id = r}
  <2>1. J \in SUBSET DOMAIN catalog /\ (\A j \in J : catalog[j].id = r)
        /\ \A m, n \in J : m = n
    OBVIOUS
  <2>2. own(r) = Selected(catalog, J)
    BY DEF own
  <2> HIDE DEF J
  <2>3. /\ own(r) \in Seq(X) /\ Len(own(r)) = Cardinality(J) /\ Cardinality(J) \in Nat
        /\ \A n \in 1 .. Cardinality(J) : own(r)[n] = catalog[Place(J, n)]
    BY <2>1, <2>2, SelectedItems
  <2>4. \A n \in 1 .. Cardinality(J) : Place(J, n) \in J /\ Rank(J, Place(J, n)) = n
    <3>1. Len(catalog) \in Nat /\ J \in SUBSET (1 .. Len(catalog))
      BY <2>1
    <3>2. QED
      BY <3>1, Placed
  <2>5. \A m, n \in 1 .. Cardinality(J) : m = n
    BY <2>1, <2>4
  <2>6. Cardinality(J) <= 1
    <3>1. CASE Cardinality(J) > 1
      <4>1. 1 \in 1 .. Cardinality(J) /\ 2 \in 1 .. Cardinality(J)
        BY <2>3, <3>1
      <4>2. 1 = 2
        BY <2>5, <4>1
      <4>3. QED
        BY <4>2
    <3>2. QED
      BY <2>3, <3>1
  <2>7. ASSUME Len(own(r)) = 1 PROVE own(r)[1].id = r
    <3>1. 1 \in 1 .. Cardinality(J)
      BY <2>3, <2>7
    <3>2. own(r)[1] = catalog[Place(J, 1)] /\ Place(J, 1) \in J
      BY <2>3, <2>4, <3>1
    <3>3. QED
      BY <2>1, <3>2
  <2>8. Len(own(r)) <= 1
    BY <2>3, <2>6, Zenon
  <2>9. QED
    BY <2>3, <2>7, <2>8
<1> DEFINE N == Len(chain)
           Y == Seq(X)
<1>6. q = [i \in 1 .. N |-> own(chain[i])]
  BY <1>4 DEF q
<1>7. q \in Seq(Seq(X)) /\ Len(q) = N /\ DOMAIN q = 1 .. N
      /\ \A i \in 1 .. N : q[i] = own(chain[i])
  <2>1. \A i \in 1 .. N : own(chain[i]) \in Y
    BY <1>5
  <2> HIDE DEF Y, N
  <2>2. q \in [1 .. N -> Y]
    BY <1>6, <2>1
  <2>3. q \in Seq(Y) /\ Len(q) = N /\ DOMAIN q = 1 .. N
    BY <1>4, <2>2 DEF N
  <2>4. QED
    BY <1>6, <2>3 DEF Y
<1> HIDE DEF N, Y
<1>8. \A i \in DOMAIN q : Len(q[i]) <= 1
  BY <1>5, <1>7
<1>9. /\ profile \in Seq(X)
      /\ \A i \in 1 .. N : Len(q[i]) = 1 /\ profile[i] = q[i][1]
  <2>1. FlattenSeq(q) \in Seq(X)
        /\ (Len(FlattenSeq(q)) = Len(q) =>
                \A i \in 1 .. Len(q) : Len(q[i]) = 1 /\ FlattenSeq(q)[i] = q[i][1])
    BY <1>7, <1>8, ShortJoin
  <2>2. QED
    BY <1>3, <1>7, <2>1 DEF profile, N
<1>10. Named(profile) = [i \in 1 .. N |-> profile[i].id]
  <2>1. DOMAIN profile = 1 .. N
    BY <1>3, <1>9 DEF N
  <2>2. QED
    BY <2>1 DEF Named
<1>11. \A i \in 1 .. N : profile[i].id = chain[i]
  BY <1>5, <1>7, <1>9
<1>12. chain = [i \in 1 .. N |-> chain[i]]
  BY <1>4 DEF N
<1>13. Named(profile) = chain
  BY <1>10, <1>11, <1>12
<1>14. QED
  BY <1>9, <1>13

-----------------------------------------------------------------------------
(* Attempts addressed to members follow the rules.                         *)

\* A fresh catalogue has a profile for dynamic aliases only, and the members of
\* the profile are those of the chain, in its order.
LEMMA FreshProfile ==
    ASSUME NEW rules, RulesOf(rules), NEW a \in DOMAIN deriveAliasesFromRules(rules),
           NEW deployment, NEW ids,
           fetchFreshCatalog(deployment, ids, deriveAliasesFromRules(rules))[a].profile # <<>>
    PROVE  /\ deriveAliasesFromRules(rules)[a].dynamic
           /\ \E X : /\ fetchFreshCatalog(deployment, ids, deriveAliasesFromRules(rules))[a].profile \in Seq(X)
                     /\ \A x \in X : x.id \in References
           /\ Named(fetchFreshCatalog(deployment, ids, deriveAliasesFromRules(rules))[a].profile)
                = deriveAliasesFromRules(rules)[a].chain
<1> DEFINE aliases == deriveAliasesFromRules(rules)
           keep == {i \in DOMAIN ByLength :
                        \E b \in DOMAIN aliases : ByLength[i] \in ToSet(aliases[b].chain)}
           refs == routeReferences(aliases)
           catalog == buildRichRouteCatalog(deployment, ids, refs)
           alias == synthesizeAlias(aliases[a].chain, catalog)
           route == applyDynamicRouteProfiles(alias, aliases[a], catalog)
           fresh == fetchFreshCatalog(deployment, ids, aliases)
<1>1. refs = Selected(ByLength, keep) /\ keep \in SUBSET DOMAIN ByLength
  BY Zenon DEF routeReferences
<1>2. fresh[a] = route
  <2>1. fresh = [b \in DOMAIN aliases |->
            applyDynamicRouteProfiles(synthesizeAlias(aliases[b].chain, catalog), aliases[b], catalog)]
    BY Zenon DEF fetchFreshCatalog
  <2>2. QED
    BY <2>1, Zenon
<1>3. aliases[a].dynamic => aliases[a].chain \in Seq(References)
  BY TheOnlyOrder
<1> HIDE DEF keep, refs, aliases
<1>4. ByLength \in Seq(References) /\ \A i, j \in DOMAIN ByLength : ByLength[i] = ByLength[j] => i = j
  BY DeploymentAssumption DEF References
<1>5. refs \in Seq(References) /\ \A i, j \in DOMAIN refs : refs[i] = refs[j] => i = j
  <2>1. refs \in Seq(References)
    BY <1>1, <1>4, SelectedItems
  <2>2. \A i, j \in DOMAIN refs : refs[i] = refs[j] => i = j
    BY <1>1, <1>4, SelectedApart
  <2>3. QED
    BY <2>1, <2>2
<1>6. PICK X : /\ catalog \in Seq(X) /\ \A x \in X : x.id \in References
               /\ \A m, n \in DOMAIN catalog : catalog[m].id = catalog[n].id => m = n
  BY <1>5, CatalogueApart
<1> HIDE DEF catalog
<1>7. LET profile == route.profile
      IN  profile # <<>> => /\ aliases[a].dynamic /\ profile \in Seq(X)
                            /\ Named(profile) = aliases[a].chain
  <2>1. alias = synthesizeAlias(aliases[a].chain, catalog)
    OBVIOUS
  <2> HIDE DEF alias
  <2>2. QED
    BY <1>3, <1>6, <2>1, ProfileIsChain
<1> HIDE DEF route, fresh
<1>8. route.profile # <<>>
  BY <1>2 DEF fresh, aliases
<1>9. QED
  BY <1>2, <1>6, <1>7, <1>8 DEF fresh, aliases

\* What is planned from a catalogue made for some rules follows those rules.
LEMMA PlanFollows ==
    ASSUME NEW rules, RulesOf(rules), NEW a \in DOMAIN deriveAliasesFromRules(rules),
           NEW deployment, NEW ids, NEW route,
           route = fetchFreshCatalog(deployment, ids, deriveAliasesFromRules(rules))[a],
           NEW advert, NEW need, NEW aged,
           Decision(deployment, route, advert, need, aged).mode = "physical"
    PROVE  Follows(rules, a, AllNamed(Decision(deployment, route, advert, need, aged).attempts))
<1> DEFINE definition == deriveAliasesFromRules(rules)[a]
           chain == definition.chain
           profile == route.profile
           attempts == planDynamicRouteAttempts(deployment, profile, advert, need).attempts
           refs == FlattenSeq(AllNamed(attempts))
<1>1. profile # <<>> /\ Decision(deployment, route, advert, need, aged).attempts = attempts
  <2> DEFINE plan == planDynamicRouteAttempts(deployment, profile, advert, need)
             mode == CASE profile = <<>> -> "direct"
                       [] profile # <<>> /\ plan.attempts = <<>> -> "no member"
                       [] profile # <<>> /\ plan.attempts # <<>>
                             /\ canUseNativeBifrostRoute(plan, need) -> "native"
                       [] OTHER -> IF compatibilityExecutionError(plan, aged)
                                   THEN "refused" ELSE "physical"
  <2>1. Decision(deployment, route, advert, need, aged) =
            [mode |-> mode,
             attempts |-> IF mode \in {"native", "physical"} THEN plan.attempts ELSE <<>>]
    BY Zenon DEF Decision
  <2>2. mode = "physical"
    <3> HIDE DEF mode, plan
    <3>1. QED
      BY <2>1
  <2>3. profile # <<>>
    <3>1. profile = <<>> => mode = "direct"
      <4> HIDE DEF plan, profile
      <4>1. QED
        OBVIOUS
    <3> HIDE DEF mode
    <3>2. QED
      BY <2>2, <3>1
  <2> HIDE DEF mode, plan
  <2>4. Decision(deployment, route, advert, need, aged).attempts = plan.attempts
    BY <2>1, <2>2
  <2>5. QED
    BY <2>3, <2>4 DEF plan
<1>2. definition.dynamic /\ Named(profile) = chain
  BY <1>1, FreshProfile
<1>3. PICK X : profile \in Seq(X) /\ \A x \in X : x.id \in References
  BY <1>1, FreshProfile
<1>4. PICK o : /\ GatewayOrders(rules, a) = {o} /\ \A i \in DOMAIN o : ~ o[i].pinned
               /\ chain = unique(Refs(o))
  BY <1>2, TheOnlyOrder
<1>5. chain \in Seq(References) /\ \A m, n \in DOMAIN chain : chain[m] = chain[n] => m = n
  BY <1>2, TheOnlyOrder
<1> HIDE DEF definition, chain, profile
<1>6. DOMAIN chain = DOMAIN profile
  BY <1>2 DEF Named
<1>7. PICK K \in SUBSET DOMAIN profile : refs = Selected(Named(profile), K)
  <2>1. InOrder(attempts, profile)
    BY <1>3, AttemptsSelect
  <2>2. QED
    BY <2>1 DEF InOrder, refs
<1> HIDE DEF refs
<1>8. refs = Selected(chain, K) /\ K \in SUBSET DOMAIN chain
  BY <1>2, <1>6, <1>7
<1>9. ToSet(refs) = {chain[i] : i \in K}
  BY <1>5, <1>8, SelectedSet
<1>10. {i \in DOMAIN chain : chain[i] \in ToSet(refs)} = K
  BY <1>5, <1>8, <1>9
<1>11. refs = Selected(chain, {i \in DOMAIN chain : chain[i] \in ToSet(refs)})
  BY <1>8, <1>10
<1>12. Follows(rules, a, AllNamed(attempts))
  BY <1>4, <1>11 DEF Follows, refs
<1>13. QED
  BY <1>1, <1>12

-----------------------------------------------------------------------------
(* The session.                                                            *)

\* A catalogue that was fetched: with a key, for synchronized rules.
Made(c) == c.key \in Keys /\ c.manifest \in DOMAIN g.rules /\ c.answer \in DOMAIN g.answers[c.key]

\* The cached, the published and the registered catalogue were fetched.
Fetches ==
    /\ cache = Nothing \/ Made(cache)
    /\ routes = Nothing \/ Made(routes)
    /\ models = Nothing \/ Made(models)

\* Where the published routes, the registered models and the rules they were
\* made for come from.
Sources ==
    /\ world \in DOMAIN Gateways
    /\ policy \in DOMAIN g.rules /\ manifest \in DOMAIN g.rules /\ aliasSource \in DOMAIN g.rules
    /\ fetch = NoFetch \/ fetch.manifest \in DOMAIN g.rules
    /\ command = NoCommand \/ command \in DOMAIN g.rules
    /\ Fetches

\* The attempts follow the rules the published route was made for, and those
\* are the rules the gateway had when the attempt was attested.
RequestFollows ==
    request # Idle =>
        /\ {"stage", "alias", "seen", "mode", "k", "checked", "attempts"} \subseteq DOMAIN request
        /\ request.mode = "physical" =>
            /\ Follows(Rules(request.seen.manifest), request.alias, request.attempts)
            /\ request.stage \in {"attested", "sent"} =>
                /\ request.checked \in DOMAIN g.rules
                /\ Rules(request.checked) = Rules(request.seen.manifest)

\* A catalogue is what its identity says.
LEMMA Looked ==
    ASSUME world \in DOMAIN Gateways, NEW c, Made(c)
    PROVE  Catalogue(c) = fetchFreshCatalog(g, fetchBifrostModels(g.answers[c.key][c.answer]),
                                            deriveAliasesFromRules(Rules(c.manifest)))
<1>1. \A f : Table(f) = f
  BY Zenon DEF Table
<1> DEFINE answered(w, k, m) == [i \in DOMAIN Gateways[w].answers[k] |-> Table(CatalogueOf(w, k, m, i))]
           made(w, k) == [m \in DOMAIN Gateways[w].rules |-> Table(answered(w, k, m))]
           keyed(w) == [k \in Keys |-> Table(made(w, k))]
           all == [w \in DOMAIN Gateways |-> Table(keyed(w))]
<1>2. Catalogues = Table(all)
  BY Zenon DEF Catalogues
<1>m. /\ world \in DOMAIN Gateways /\ c.key \in Keys /\ c.manifest \in DOMAIN Gateways[world].rules
      /\ c.answer \in DOMAIN Gateways[world].answers[c.key]
  BY Zenon DEF Made, g
<1>3. Catalogues[world][c.key][c.manifest][c.answer] = CatalogueOf(world, c.key, c.manifest, c.answer)
  <2>1. all[world] = keyed(world)
    BY <1>1, <1>m, Zenon
  <2>2. keyed(world)[c.key] = made(world, c.key)
    BY <1>1, <1>m, Zenon
  <2>3. made(world, c.key)[c.manifest] = answered(world, c.key, c.manifest)
    BY <1>1, <1>m, Zenon
  <2>4. answered(world, c.key, c.manifest)[c.answer] = CatalogueOf(world, c.key, c.manifest, c.answer)
    BY <1>1, <1>m, Zenon
  <2> HIDE DEF all, keyed, made, answered
  <2>5. Catalogues = all
    BY <1>1, <1>2, Zenon
  <2>6. QED
    BY <2>1, <2>2, <2>3, <2>4, <2>5, Zenon
<1>4. Catalogue(c) = CatalogueOf(world, c.key, c.manifest, c.answer)
  BY <1>3, Zenon DEF Catalogue
<1>5. CatalogueOf(world, c.key, c.manifest, c.answer)
        = fetchFreshCatalog(g, fetchBifrostModels(g.answers[c.key][c.answer]),
                            deriveAliasesFromRules(Rules(c.manifest)))
  BY Zenon DEF CatalogueOf, Rules, g
<1>6. QED
  BY <1>4, <1>5

\* A request is planned from a published route.
LEMMA AskFollows ==
    ASSUME Sources, RequestFollows, NEW a, NEW n, Ask(a, n)
    PROVE  RequestFollows'
<1>1. PICK offer, route, aged :
            /\ route = Published(routes, a)
            /\ request' = Planned(a, n, offer, route, Decision(g, route, offer, Needs[n], aged))
  BY Zenon DEF Ask
<1> DEFINE d == Decision(g, route, offer, Needs[n], aged)
<1>2. world' = world /\ routes' = routes
  BY DEF Ask
<1>3. /\ {"stage", "alias", "seen", "mode", "k", "checked", "attempts"} \subseteq DOMAIN request'
      /\ request'.alias = a /\ request'.seen = routes /\ request'.mode = d.mode
      /\ request'.attempts = AllNamed(d.attempts)
      /\ d.mode = "physical" => request'.stage = "planned"
  <2>1. request' = Planned(a, n, offer, route, d)
    BY <1>1
  <2> HIDE DEF d
  <2> DEFINE attempts == [i \in DOMAIN d.attempts |->
                            [j \in DOMAIN d.attempts[i] |-> d.attempts[i][j].id]]
             stage == CASE d.mode = "physical" -> "planned"
                        [] d.mode \in {"direct", "native"} -> "sent"
                        [] d.mode \in {"no member", "refused"} -> "failed"
             caps == [k \in 1..(CASE d.mode = "physical" -> Len(d.attempts)
                                  [] d.mode \in {"direct", "native"} -> 1
                                  [] OTHER -> 0)
                        |-> Cap(g, route, offer, Needs[n], d, k)]
  <2>2. request' = [stage |-> stage, alias |-> a, need |-> n, seen |-> routes, offer |-> models,
                    mode |-> d.mode, k |-> 1, checked |-> 0, attempts |-> attempts, caps |-> caps]
    BY <2>1, Zenon DEF Planned
  <2>3. attempts = AllNamed(d.attempts)
    BY Zenon DEF AllNamed, Named
  <2>4. d.mode = "physical" => stage = "planned"
    OBVIOUS
  <2> HIDE DEF attempts, stage, caps
  <2>5. QED
    BY <2>2, <2>3, <2>4
<1>4. ASSUME d.mode = "physical"
      PROVE  Follows(Rules(routes.manifest), a, AllNamed(d.attempts))
  <2>1. route.profile # <<>>
    <3>1. route.profile = <<>> => d.mode = "direct"
      BY DEF Decision
    <3>2. QED
      BY <1>4, <3>1
  <2>2. routes # Nothing /\ a \in DOMAIN Catalogue(routes) /\ route = Catalogue(routes)[a]
    BY <1>1, <2>1 DEF Published, NoRoute
  <2>3. Made(routes) /\ world \in DOMAIN Gateways
    BY <2>2 DEF Sources, Fetches
  <2> DEFINE rules == Rules(routes.manifest)
             aliases == deriveAliasesFromRules(rules)
             ids == fetchBifrostModels(g.answers[routes.key][routes.answer])
  <2>4. Catalogue(routes) = fetchFreshCatalog(g, ids, aliases)
    BY <2>3, Looked
  <2>5. a \in DOMAIN aliases
    <3>1. DOMAIN fetchFreshCatalog(g, ids, aliases) = DOMAIN aliases
      BY Zenon DEF fetchFreshCatalog
    <3>2. QED
      BY <2>2, <2>4, <3>1
  <2>6. RulesOf(rules)
    <3>1. \A w \in DOMAIN Gateways : \A m \in DOMAIN Gateways[w].rules :
                RulesOf(Gateways[w].rules[m])
      BY DeploymentAssumption, Zenon DEF RulesOf
    <3>2. QED
      BY <2>3, <3>1, Zenon DEF Made, Rules, g
  <2> HIDE DEF rules, ids
  <2>7. Follows(rules, a, AllNamed(d.attempts))
    <3>1. route = fetchFreshCatalog(g, ids, deriveAliasesFromRules(rules))[a]
      BY <2>2, <2>4
    <3>2. QED
      BY <1>4, <2>5, <2>6, <3>1, PlanFollows
  <2>8. QED
    BY <2>7 DEF rules
<1> HIDE DEF d
<1>5. Rules(request.seen.manifest)' = Rules(routes.manifest)
  BY <1>2, <1>3 DEF Rules, g
<1>6. request'.mode = "physical" =>
        /\ Follows(Rules(request.seen.manifest), request.alias, request.attempts)'
        /\ request'.stage = "planned"
  BY <1>3, <1>4, <1>5
<1>7. QED
  BY <1>3, <1>6 DEF RequestFollows

\* The rules in force, synchronized, loaded and fetched for are rules of the
\* gateway; a catalogue is made for such rules.
LEMMA SourcesStep == Sources /\ [Next]_vars => Sources'
<1> SUFFICES ASSUME Sources, [Next]_vars PROVE Sources'
  OBVIOUS
<1> USE DEF Sources, Fetches
<1>1. ASSUME NEW c, world' = world, c = Nothing \/ Made(c)
      PROVE  c = Nothing \/ Made(c)'
  BY <1>1 DEF Made, g
<1>2. world' = world => g' = g
  BY DEF g
<1>3. DiscoveryKey \in Keys
  BY DeploymentAssumption DEF DiscoveryKey
<1>4. ASSUME NEW m \in DOMAIN g.rules, NEW i \in Answered(DiscoveryKey)
      PROVE  Made([key |-> DiscoveryKey, manifest |-> m, answer |-> i])
  BY <1>3, <1>4 DEF Made, Answered
<1>5. CASE Edit
  BY <1>1, <1>2, <1>5 DEF Edit
<1>6. CASE Sync
  BY <1>1, <1>2, <1>6 DEF Sync
<1>7. CASE OtherSession
  <2>1. PICK k \in Keys :
            \E i \in Answered(k) : cache' = [key |-> k, manifest |-> manifest, answer |-> i]
    BY <1>7 DEF OtherSession
  <2>2. Made(cache')
    BY <2>1 DEF Made, Answered
  <2>3. world' = world /\ routes' = routes /\ models' = models
    BY <1>7 DEF OtherSession
  <2>4. Made(cache)'
    BY <2>2, <2>3 DEF Made, g
  <2>5. (routes' = Nothing \/ Made(routes)') /\ (models' = Nothing \/ Made(models)')
    BY <2>3 DEF Made, g
  <2>6. QED
    BY <1>2, <1>7, <2>4, <2>5 DEF OtherSession
<1>8. CASE LoadCache
  <2>1. /\ world' = world /\ cache' = cache /\ routes' = cache /\ models' = cache
        /\ cache # Nothing
    BY <1>8 DEF LoadCache, usableCache
  <2>2. Made(cache)' /\ Made(routes)' /\ Made(models)'
    BY <2>1 DEF Made, g
  <2>3. fetch' = NoFetch \/ fetch'.manifest \in DOMAIN g.rules
    BY <1>8 DEF LoadCache
  <2>4. QED
    BY <1>2, <1>8, <2>1, <2>2, <2>3 DEF LoadCache
<1>9. CASE StartFetch
  <2>1. world' = world /\ cache' = cache /\ routes' = routes /\ models' = models
    BY <1>9 DEF StartFetch
  <2>2. /\ cache = Nothing \/ Made(cache)
        /\ routes = Nothing \/ Made(routes)
        /\ models = Nothing \/ Made(models)
    OBVIOUS
  <2>3. Fetches'
    BY <2>1, <2>2 DEF Made, g
  <2>4. fetch'.manifest \in DOMAIN g.rules
    BY <1>9 DEF StartFetch
  <2>5. QED
    BY <1>2, <1>9, <2>1, <2>3, <2>4 DEF StartFetch
<1>10. ASSUME NEW m \in DOMAIN g.rules, NEW registers, Fetched(m, registers), world' = world
       PROVE  Fetches'
  <2>1. PICK i \in Answered(DiscoveryKey) :
            /\ routes' = [key |-> DiscoveryKey, manifest |-> m, answer |-> i]
            /\ cache' = [key |-> DiscoveryKey, manifest |-> m, answer |-> i] \/ cache' = cache
            /\ models' = [key |-> DiscoveryKey, manifest |-> m, answer |-> i] \/ models' = models
    BY <1>10 DEF Fetched
  <2>2. Made(routes') /\ (cache' = Nothing \/ Made(cache')) /\ (models' = Nothing \/ Made(models'))
    BY <1>4, <2>1
  <2>3. QED
    BY <1>10, <2>2 DEF Made, g
<1>11. CASE EndFetch
  <2>1. world' = world /\ Fetched(fetch.manifest, fetch.waited) /\ fetch.manifest \in DOMAIN g.rules
    BY <1>11 DEF EndFetch
  <2>2. Fetches'
    BY <1>10, <2>1
  <2>3. QED
    BY <1>2, <1>11, <2>2 DEF EndFetch
<1>12. CASE EndCommand
  <2>1. world' = world /\ command \in DOMAIN g.rules
    BY <1>12 DEF EndCommand
  <2>2. Fetches'
    <3>1. CASE Fetched(command, FALSE)
      BY <1>10, <2>1, <3>1
    <3>2. CASE UNCHANGED <<routes, cache, models>>
      BY <2>1, <3>2 DEF Made, g
    <3>3. QED
      BY <1>12, <3>1, <3>2 DEF EndCommand
  <2>3. QED
    BY <1>2, <1>12, <2>2 DEF EndCommand
<1>13. CASE FetchFails
  BY <1>1, <1>2, <1>13 DEF FetchFails
<1>14. CASE StartCommand
  BY <1>1, <1>2, <1>14 DEF StartCommand
<1>15. CASE \/ \E a \in Offered(models), n \in DOMAIN Needs : Ask(a, n)
            \/ Attest \/ Dispatch \/ NextAttempt \/ Finish \/ UNCHANGED vars
  <2>1. UNCHANGED <<world, policy, edits, manifest, aliasSource, cache, fetch, command, routes, models>>
    BY <1>15 DEF Ask, Attest, Dispatch, NextAttempt, Finish, Catalogued, vars
  <2>2. QED
    BY <1>1, <1>2, <2>1
<1>16. QED
  BY <1>5, <1>6, <1>7, <1>8, <1>9, <1>11, <1>12, <1>13, <1>14, <1>15 DEF Next

\* An attested attempt was attested against the rules of its route.
LEMMA RequestStep == Sources /\ RequestFollows /\ [Next]_vars => RequestFollows'
<1> SUFFICES ASSUME Sources, RequestFollows, [Next]_vars PROVE RequestFollows'
  OBVIOUS
<1> DEFINE fields == {"stage", "alias", "seen", "mode", "k", "checked", "attempts"}
<1>1. ASSUME world' = world, request' = request PROVE RequestFollows'
  BY <1>1 DEF RequestFollows, Rules, g
<1>2. CASE \E a \in Offered(models), n \in DOMAIN Needs : Ask(a, n)
  BY <1>2, AskFollows
<1>3. ASSUME NEW stage, NEW k, NEW checked, request # Idle, world' = world,
             request' = [request EXCEPT !.stage = stage, !.k = k, !.checked = checked],
             request.mode = "physical" /\ stage \in {"attested", "sent"} =>
                /\ checked \in DOMAIN g.rules
                /\ Rules(checked) = Rules(request.seen.manifest)
      PROVE  RequestFollows'
  <2>1. fields \subseteq DOMAIN request
    BY <1>3 DEF RequestFollows
  <2>2. /\ fields \subseteq DOMAIN request' /\ request'.mode = request.mode
        /\ request'.alias = request.alias /\ request'.seen = request.seen
        /\ request'.attempts = request.attempts /\ request'.stage = stage
        /\ request'.checked = checked
    BY <1>3, <2>1
  <2>3. request.mode = "physical" =>
            Follows(Rules(request.seen.manifest), request.alias, request.attempts)
    BY <1>3 DEF RequestFollows
  <2>4. /\ Rules(request.seen.manifest)' = Rules(request.seen.manifest)
        /\ Rules(request.checked)' = Rules(checked) /\ g' = g
    BY <1>3, <2>2 DEF Rules, g
  <2>5. QED
    BY <1>3, <2>2, <2>3, <2>4 DEF RequestFollows
<1>4. CASE Attest
  <2>1. request # Idle /\ world' = world /\ mustAttest
    BY <1>4 DEF Attest, Idle, Catalogued, mustAttest
  <2>2. CASE Rules(policy) = Rules(request.seen.manifest)
    <3>1. request' = [request EXCEPT !.stage = "attested", !.checked = policy]
      BY <1>4, <2>1, <2>2 DEF Attest
    <3>2. request' = [request EXCEPT !.stage = "attested", !.k = request.k, !.checked = policy]
      BY <2>1, <3>1 DEF RequestFollows
    <3>3. QED
      BY <1>3, <2>1, <2>2, <3>2 DEF Sources
  <2>3. CASE Rules(policy) # Rules(request.seen.manifest)
    <3>1. request' = [request EXCEPT !.stage = "failed"]
      BY <1>4, <2>1, <2>3 DEF Attest
    <3>2. request' = [request EXCEPT !.stage = "failed", !.k = request.k, !.checked = request.checked]
      BY <2>1, <3>1 DEF RequestFollows
    <3>3. QED
      BY <1>3, <2>1, <3>2
  <2>4. QED
    BY <2>2, <2>3
<1>5. CASE Dispatch
  <2>1. request # Idle /\ world' = world /\ request.stage = "attested"
    BY <1>5 DEF Dispatch, Idle, Catalogued
  <2>2. request' = [request EXCEPT !.stage = "sent"]
    BY <1>5 DEF Dispatch
  <2>3. request' = [request EXCEPT !.stage = "sent", !.k = request.k, !.checked = request.checked]
    BY <2>1, <2>2 DEF RequestFollows
  <2>4. request.mode = "physical" =>
            /\ request.checked \in DOMAIN g.rules
            /\ Rules(request.checked) = Rules(request.seen.manifest)
    BY <2>1 DEF RequestFollows
  <2>5. QED
    BY <1>3, <2>1, <2>3, <2>4
<1>6. CASE NextAttempt
  <2>1. request # Idle /\ world' = world
    BY <1>6 DEF NextAttempt, Idle, Catalogued
  <2>2. request' = [request EXCEPT !.stage = "planned", !.k = request.k + 1, !.checked = 0]
    BY <1>6 DEF NextAttempt
  <2>3. QED
    BY <1>3, <2>1, <2>2
<1>7. CASE Finish
  BY <1>7 DEF Finish, RequestFollows, Idle
<1>8. CASE \/ Edit \/ Sync \/ OtherSession \/ LoadCache \/ StartFetch \/ EndFetch \/ FetchFails
           \/ StartCommand \/ EndCommand \/ UNCHANGED vars
  <2>1. world' = world /\ request' = request
    BY <1>8 DEF Edit, Sync, OtherSession, LoadCache, StartFetch, EndFetch, FetchFails,
                StartCommand, EndCommand, vars
  <2>2. QED
    BY <1>1, <2>1
<1>9. QED
  BY <1>2, <1>4, <1>5, <1>6, <1>7, <1>8 DEF Next

\* An attempt addressed to members instead of the alias is in the only order
\* the gateway's own rules, attested since the attempt before, leave it.
THEOREM AttemptsAreLive == Spec => []AttemptsFollowLiveRules
<1>1. Init => Sources /\ RequestFollows
  <2> SUFFICES ASSUME Init PROVE Sources /\ RequestFollows
    OBVIOUS
  <2>1. 1 \in DOMAIN g.rules
    BY DeploymentAssumption DEF Init, g
  <2>2. QED
    BY <2>1 DEF Init, Sources, Fetches, RequestFollows
<1>2. Sources /\ RequestFollows /\ [Next]_vars => (Sources /\ RequestFollows)'
  BY SourcesStep, RequestStep
<1>3. Sources /\ RequestFollows => AttemptsFollowLiveRules
  <2> SUFFICES ASSUME Sources, RequestFollows, Sent, request.mode = "physical"
               PROVE  /\ request.checked # 0
                      /\ Follows(Rules(request.checked), request.alias, request.attempts)
    BY DEF AttemptsFollowLiveRules
  <2>1. request # Idle /\ request.stage = "sent"
    BY DEF Sent, Idle
  <2>2. /\ Follows(Rules(request.seen.manifest), request.alias, request.attempts)
        /\ request.checked \in DOMAIN g.rules
        /\ Rules(request.checked) = Rules(request.seen.manifest)
    BY <2>1 DEF RequestFollows
  <2>3. 0 \notin DOMAIN g.rules
    BY DeploymentAssumption DEF Sources, g
  <2>4. QED
    BY <2>2, <2>3
<1>4. QED
  BY <1>1, <1>2, <1>3, PTL DEF Spec
-----------------------------------------------------------------------------
(* What is known of a model's limits is a number.                          *)

\* The least of some natural numbers is one of them.
LEMMA LeastOfSome ==
    ASSUME NEW S \in SUBSET Nat, S # {}
    PROVE  Least(S) \in S /\ Least(S) \in Nat /\ \A y \in S : Least(S) <= y
<1>1. \E x \in S : \A y \in S : x <= y
  BY LeastNumber
<1>2. QED
  BY <1>1 DEF Least

\* What a row knows first is a number if all say numbers.
LEMMA FirstKnownNumeric ==
    ASSUME NEW rows, DOMAIN rows \in SUBSET Nat, \A i \in DOMAIN rows : Numeric(rows[i])
    PROVE  Numeric(FirstKnown(rows))
<1> SUFFICES ASSUME NEW f \in {"window", "output"}, f \in DOMAIN FirstKnown(rows)
             PROVE  FirstKnown(rows)[f] \in Nat
  BY DEF Numeric
<1> DEFINE S == {i \in DOMAIN rows : f \in DOMAIN rows[i]}
<1>1. /\ f \in UNION {DOMAIN rows[i] : i \in DOMAIN rows}
      /\ FirstKnown(rows)[f] = rows[Least(S)][f]
  BY DEF FirstKnown
<1>2. S \in SUBSET Nat /\ S # {}
  BY <1>1
<1>3. Least(S) \in S
  <2> HIDE DEF S
  <2>1. QED
    BY <1>2, LeastOfSome
<1>4. QED
  BY <1>1, <1>3 DEF Numeric

\* A fact alone.
LEMMA OnlyNumeric ==
    ASSUME NEW f, NEW known, NEW value, f \in {"window", "output"} => value \in Nat
    PROVE  Numeric(Only(f, known, value))
BY DEF Only, NoFacts, Numeric

\* No fact at all.
LEMMA NoFactsNumeric == Numeric(NoFacts)
BY DEF NoFacts, Numeric

\* What the gateway tells of a model.
LEMMA ProviderNumeric ==
    ASSUME NEW deployment, NumericTables(deployment), NEW id \in DOMAIN deployment.api
    PROVE  Numeric(toProviderModel(deployment, id))
<1> DEFINE e == deployment.api[id]
           listed == "parameters" \in DOMAIN e
           words == Fact(e, "parameters", {})
           window == Fact(e, "window", DefaultWindow)
           least == Least({window, Fact(e, "output", DefaultOutput)})
           choice == {"tools", "tool_choice"} \subseteq words
           r1 == [choice |-> choice]
           r2 == Only("window", "window" \in DOMAIN e, window)
           r3 == Only("output", "output" \in DOMAIN e
                            /\ \A c \in Ceilings(deployment, id) : Fact(e, "output", 0) <= c, least)
           r4 == Only("image", Fact(e, "modalities", {}) # {}, "image" \in Fact(e, "modalities", {}))
           r5 == Only("reasoning", "reasoning" \in DOMAIN e \/ listed,
                      "reasoning" \in DOMAIN e \/ "reasoning" \in words)
           r6 == Only("efforts", Fact(e, "reasoning", {}) # {}, Fact(e, "reasoning", {}))
           r7 == Only("tools", listed, "tools" \in words)
           r8 == Only("toolChoice", listed, choice)
           r9 == Only("toolSearch", listed, "tool_search" \in words)
           r10 == Only("tier", listed, "service_tier" \in words)
           r11 == Only("tiers", Fact(e, "tiers", {}) # {}, Fact(e, "tiers", {}))
           r12 == Only("protocols", Fact(e, "protocols", <<>>) # <<>>, Fact(e, "protocols", <<>>))
           rows == <<r1, r2, r3, r4, r5, r6, r7, r8, r9, r10, r11, r12>>
<1>1. toProviderModel(deployment, id) = FirstKnown(rows)
  BY Zenon DEF toProviderModel
<1>2. window \in Nat /\ least \in Nat
  <2>1. Numeric(e)
    BY DEF NumericTables
  <2>2. window \in Nat /\ Fact(e, "output", DefaultOutput) \in Nat
    BY <2>1, LimitsAssumption DEF Numeric, Fact
  <2> HIDE DEF window
  <2>3. {window, Fact(e, "output", DefaultOutput)} \in SUBSET Nat
        /\ {window, Fact(e, "output", DefaultOutput)} # {}
    BY <2>2
  <2>4. least \in Nat
    BY <2>3, LeastOfSome
  <2>5. QED
    BY <2>2, <2>4
<1>3. Numeric(r1)
  BY DEF Numeric
<1> HIDE DEF least, window, words, listed, choice, e
<1>4. Numeric(r2) /\ Numeric(r3)
  BY <1>2, OnlyNumeric
<1>5. Numeric(r4) /\ Numeric(r5) /\ Numeric(r6) /\ Numeric(r7)
  <2>1. \A f \in {"image", "reasoning", "efforts", "tools"} : \A known, value : Numeric(Only(f, known, value))
    BY OnlyNumeric
  <2>2. QED
    BY <2>1, Zenon
<1>6. Numeric(r8) /\ Numeric(r9) /\ Numeric(r10) /\ Numeric(r11) /\ Numeric(r12)
  <2>1. \A f \in {"toolChoice", "toolSearch", "tier", "tiers", "protocols"} :
            \A known, value : Numeric(Only(f, known, value))
    BY OnlyNumeric
  <2>2. QED
    BY <2>1, Zenon
<1> HIDE DEF r1, r2, r3, r4, r5, r6, r7, r8, r9, r10, r11, r12
<1>7. DOMAIN rows \in SUBSET Nat /\ \A i \in DOMAIN rows : Numeric(rows[i])
  BY <1>3, <1>4, <1>5, <1>6
<1> HIDE DEF rows
<1>8. QED
  BY <1>1, <1>7, FirstKnownNumeric

\* How close two ids are.
Scores == {-1, 600, 900, 1000}

\* The greatest of some scores is one of them.
LEMMA GreatestScore ==
    ASSUME NEW S \in SUBSET Scores, S # {}
    PROVE  Greatest(S) \in S
<1>1. \E x \in S : \A y \in S : x >= y
  <2>1. CASE 1000 \in S
    <3>1. \A y \in S : 1000 >= y
      BY DEF Scores
    <3>2. QED
      BY <2>1, <3>1
  <2>2. CASE 1000 \notin S /\ 900 \in S
    <3>1. \A y \in S : 900 >= y
      BY <2>2 DEF Scores
    <3>2. QED
      BY <2>2, <3>1
  <2>3. CASE 1000 \notin S /\ 900 \notin S /\ 600 \in S
    <3>1. \A y \in S : 600 >= y
      BY <2>3 DEF Scores
    <3>2. QED
      BY <2>3, <3>1
  <2>4. CASE 1000 \notin S /\ 900 \notin S /\ 600 \notin S
    <3>1. \A y \in S : y = -1
      BY <2>4 DEF Scores
    <3>2. PICK x \in S : TRUE
      OBVIOUS
    <3>3. \A y \in S : x >= y
      BY <3>1, <3>2
    <3>4. QED
      BY <3>3
  <2>5. QED
    BY <2>1, <2>2, <2>3, <2>4
<1>2. QED
  BY <1>1 DEF Greatest

\* The shortest of some ids is one of them.
LEMMA ShortestOfSome ==
    ASSUME NEW ids \in SUBSET ToSet(ByLength), ids # {}
    PROVE  Shortest(ids) \in ids
<1> DEFINE S == {rank(id) : id \in ids}
<1>1. ASSUME NEW id \in ids PROVE rank(id) \in DOMAIN ByLength /\ ByLength[rank(id)] = id
  <2>1. \E n \in DOMAIN ByLength : ByLength[n] = id
    BY DEF ToSet
  <2>2. QED
    BY <2>1 DEF rank
<1>2. DOMAIN ByLength \in SUBSET Nat
  BY DeploymentAssumption
<1>3. S \in SUBSET Nat /\ S # {}
  BY <1>1, <1>2
<1>4. Min(S) \in S
  <2> HIDE DEF S
  <2>1. \E x \in S : \A y \in S : x <= y
    BY <1>3, LeastNumber
  <2>2. QED
    BY <2>1 DEF Min
<1>5. PICK id \in ids : Min(S) = rank(id)
  BY <1>4
<1>6. Shortest(ids) = id
  BY <1>1, <1>5 DEF Shortest
<1>7. QED
  BY <1>6

\* What the datasheets say of a model.
LEMMA SheetNumeric ==
    ASSUME NEW deployment, NumericTables(deployment), NEW ref, NEW id
    PROVE  Numeric(findDatasheetEntry(deployment, ref, id))
<1> DEFINE sheet == deployment.sheet
           score(key) == Greatest({sheetScore(key, target) : target \in {ref, id}})
           scores == [key \in DOMAIN sheet |-> score(key)]
           best == Greatest({scores[key] : key \in DOMAIN sheet} \cup {-1})
           closest == {key \in DOMAIN sheet : scores[key] = best}
<1>1. findDatasheetEntry(deployment, ref, id) = IF best < 0 THEN NoFacts ELSE sheet[Shortest(closest)]
  BY Zenon DEF findDatasheetEntry, closestRow
<1>2. DOMAIN sheet \subseteq ToSet(ByLength) /\ \A key \in DOMAIN sheet : Numeric(sheet[key])
  BY DEF NumericTables
<1>3. ASSUME NEW key PROVE score(key) \in Scores
  <2> DEFINE S == {sheetScore(key, target) : target \in {ref, id}}
  <2>1. \A target : sheetScore(key, target) \in Scores
    BY DEF sheetScore, Scores
  <2>2. S \in SUBSET Scores /\ S # {}
    BY <2>1
  <2> HIDE DEF S
  <2>3. Greatest(S) \in Scores
    BY <2>2, GreatestScore
  <2>4. QED
    BY <2>3 DEF S
<1> HIDE DEF score
<1>4. \A key \in DOMAIN sheet : scores[key] \in Scores
  BY <1>3
<1> HIDE DEF scores, sheet
<1> DEFINE S == {scores[key] : key \in DOMAIN sheet} \cup {-1}
<1>5. S \in SUBSET Scores /\ S # {}
  BY <1>4 DEF Scores
<1>6. best \in S
  <2> HIDE DEF S
  <2>1. Greatest(S) \in S
    BY <1>5, GreatestScore
  <2>2. QED
    BY <2>1 DEF S
<1> HIDE DEF best
<1>7. CASE best < 0
  BY <1>1, <1>7, NoFactsNumeric
<1>8. CASE ~ (best < 0)
  <2>1. best \in {scores[key] : key \in DOMAIN sheet}
    BY <1>6, <1>8
  <2>2. closest \in SUBSET ToSet(ByLength) /\ closest # {}
    BY <1>2, <2>1
  <2>3. Shortest(closest) \in closest
    <3> HIDE DEF closest
    <3>1. QED
      BY <2>2, ShortestOfSome
  <2>4. Numeric(sheet[Shortest(closest)])
    BY <1>2, <2>3
  <2>5. QED
    BY <1>1, <1>8, <2>4
<1>9. QED
  BY <1>7, <1>8

\* What was verified by hand.
LEMMA VendorNumeric ==
    ASSUME NEW deployment, NumericTables(deployment), NEW ref, NEW id
    PROVE  Numeric(findVendorCapabilityOverride(deployment, ref, id))
<1> DEFINE keys == {key \in DOMAIN deployment.vendor : SameModel(key, ref, id)}
<1>1. findVendorCapabilityOverride(deployment, ref, id)
        = IF keys = {} THEN NoFacts ELSE deployment.vendor[CHOOSE key \in keys : TRUE]
  BY Zenon DEF findVendorCapabilityOverride
<1>2. CASE keys = {}
  BY <1>1, <1>2, NoFactsNumeric
<1>3. CASE keys # {}
  <2>1. (CHOOSE key \in keys : TRUE) \in keys
    <3> HIDE DEF keys
    <3>1. QED
      BY <1>3
  <2>2. (CHOOSE key \in keys : TRUE) \in DOMAIN deployment.vendor
    BY <2>1
  <2> HIDE DEF keys
  <2>3. QED
    BY <1>1, <1>3, <2>2 DEF NumericTables
<1>4. QED
  BY <1>2, <1>3

\* What no complete row contradicts.
LEMMA FallbackNumeric ==
    ASSUME NEW rows, \A r \in rows : Numeric(r), NEW how
    PROVE  Numeric(toFallback(rows, how))
<1> DEFINE complete == {r \in rows : {"window", "output"} \subseteq DOMAIN r}
           all(f, default) == \A r \in complete : Fact(r, f, default)
           some(f, value) == \E r \in complete : Fact(r, f, ~ value) = value
           common(f) == {x \in UNION {Fact(r, f, {}) : r \in complete} :
                           \A r \in complete : x \in Fact(r, f, {})}
           agreed(f) == Only(f, some(f, FALSE) \/ \A r \in complete : f \in DOMAIN r, all(f, TRUE))
           wires == {Fact(r, "protocols", <<>>) : r \in complete}
           window == Least({r.window : r \in complete})
           output == Least({r.output : r \in complete})
           r1 == [window |-> window, output |-> output,
                  image |-> all("image", FALSE), reasoning |-> all("reasoning", FALSE),
                  tools |-> all("tools", TRUE), toolChoice |-> all("toolChoice", TRUE),
                  forced |-> all("forced", TRUE), named |-> all("named", TRUE),
                  suppress |-> some("suppress", TRUE), how |-> how,
                  tier |-> \A r \in complete : Fact(r, "tiers", {}) # {}]
           r2 == Only("efforts", all("reasoning", FALSE) /\ common("efforts") # {}, common("efforts"))
           r3 == Only("tiers", common("tiers") # {}, common("tiers"))
           r4 == agreed("withTools")
           r5 == agreed("betweenTools")
           r6 == Only("protocols", Cardinality(wires) = 1 /\ <<>> \notin wires, CHOOSE p \in wires : TRUE)
           s == <<r1, r2, r3, r4, r5, r6>>
<1>1. toFallback(rows, how) = IF complete = {} THEN NoFacts ELSE FirstKnown(s)
  BY Zenon DEF toFallback
<1>2. CASE complete = {}
  BY <1>1, <1>2, NoFactsNumeric
<1>3. CASE complete # {}
  <2>1. window \in Nat /\ output \in Nat
    <3> DEFINE W == {r.window : r \in complete}
               O == {r.output : r \in complete}
    <3>1. \A r \in complete : r.window \in Nat /\ r.output \in Nat
      BY DEF Numeric
    <3>2. W \in SUBSET Nat /\ W # {} /\ O \in SUBSET Nat /\ O # {}
      BY <1>3, <3>1
    <3> HIDE DEF W, O
    <3>3. Least(W) \in Nat /\ Least(O) \in Nat
      BY <3>2, LeastOfSome
    <3>4. QED
      BY <3>3 DEF W, O
  <2> HIDE DEF window, output, complete, all, some, common, wires
  <2>2. Numeric(r1)
    BY <2>1 DEF Numeric
  <2>3. Numeric(r2) /\ Numeric(r3) /\ Numeric(r4) /\ Numeric(r5) /\ Numeric(r6)
    <3>1. \A f \in {"efforts", "tiers", "withTools", "betweenTools", "protocols"} :
            \A known, value : Numeric(Only(f, known, value))
      BY OnlyNumeric
    <3>2. QED
      BY <3>1, Zenon
  <2> HIDE DEF r1, r2, r3, r4, r5, r6
  <2>4. DOMAIN s \in SUBSET Nat /\ \A i \in DOMAIN s : Numeric(s[i])
    BY <2>2, <2>3
  <2> HIDE DEF s
  <2>5. QED
    BY <1>1, <1>3, <2>4, FirstKnownNumeric
<1>4. QED
  BY <1>2, <1>3

\* What the host's own list says.
LEMMA BundledNumeric ==
    ASSUME NEW deployment, NumericTables(deployment), NEW ref, NEW id
    PROVE  Numeric(findCatalogCapabilityFallback(deployment, ref, id))
<1> DEFINE same == {b \in deployment.bundled : SameModel(b.id, ref, id)}
           near == {b.row : b \in {c \in same : c.provider = ref[1]}}
           far == {b.row : b \in same}
<1>1. findCatalogCapabilityFallback(deployment, ref, id)
        = preferred(toFallback(near, "fallback"), toFallback(far, "canonical-family"))
  BY Zenon DEF findCatalogCapabilityFallback
<1>2. (\A r \in near : Numeric(r)) /\ (\A r \in far : Numeric(r))
  BY DEF NumericTables
<1> HIDE DEF near, far
<1>3. Numeric(toFallback(near, "fallback")) /\ Numeric(toFallback(far, "canonical-family"))
  BY <1>2, FallbackNumeric
<1>4. QED
  BY <1>1, <1>3 DEF preferred

\* A limit selected from the sources, or zero.
LEMMA SelectNumeric ==
    ASSUME NEW rows, NEW f \in {"window", "output"},
           \A s \in {"live", "sheet", "vendor", "catalog"} : Numeric(rows[s])
    PROVE  Select(rows, f, 0) \in Nat
<1> DEFINE o == Order(f)
           K == {i \in DOMAIN o : f \in DOMAIN rows[o[i]]}
           known == Selected(o, K)
           Names == {"live", "sheet", "vendor", "catalog"}
<1>1. o = <<"live", "sheet", "vendor", "catalog">>
  BY DEF Order
<1>2. o \in Seq(Names) /\ K \in SUBSET DOMAIN o
  BY <1>1
<1>3. KnownBy(rows, f) = known
  BY Zenon DEF KnownBy
<1>4. CASE known = <<>>
  BY <1>3, <1>4 DEF Select
<1>5. CASE known # <<>>
  <2>1. known \in Seq(Names) /\ ToSet(known) = {o[i] : i \in K}
    <3> HIDE DEF K, o
    <3>1. QED
      BY <1>2, SelectedItems, SelectedSet
  <2>2. known[1] \in ToSet(known)
    <3> HIDE DEF known
    <3>1. QED
      BY <1>5, <2>1 DEF ToSet
  <2>3. PICK i \in K : known[1] = o[i]
    BY <2>1, <2>2
  <2>4. o[i] \in Names /\ f \in DOMAIN rows[o[i]]
    BY <1>1
  <2>5. rows[o[i]][f] \in Nat
    BY <2>4 DEF Numeric
  <2> HIDE DEF known, o
  <2>6. Select(rows, f, 0) = rows[known[1]][f]
    BY <1>3, <1>5 DEF Select
  <2>7. QED
    BY <2>3, <2>5, <2>6
<1>6. QED
  BY <1>4, <1>5

\* A member with a limit on its output.
Limited(x) == "output" \in DOMAIN x /\ x.output \in Nat
AllLimited(members) == \E X : members \in Seq(X) /\ \A x \in X : Limited(x)

\* A member's output limit is a number.
LEMMA MemberNumeric ==
    ASSUME NEW deployment, NumericTables(deployment), NEW ref, NEW id, NEW live, Numeric(live),
           NEW x, RichModel(deployment, ref, id, live) = <<x>>
    PROVE  Limited(x)
<1> DEFINE sheet == findDatasheetEntry(deployment, ref, id)
           vendor == findVendorCapabilityOverride(deployment, ref, id)
           catalog == findCatalogCapabilityFallback(deployment, ref, id)
           protocols == findCatalogProtocolCapability(deployment, ref)
           rows == Rows(deployment, ref, id, live)
           window == Select(rows, "window", 0)
           output == Least({Select(rows, "output", 0)} \cup Ceilings(deployment, ref))
<1>1. Numeric(sheet) /\ Numeric(vendor) /\ Numeric(catalog)
  BY SheetNumeric, VendorNumeric, BundledNumeric
<1>2. rows.live = live /\ rows.sheet = sheet /\ rows.vendor = vendor /\ rows.catalog = catalog
  <2> DEFINE base == [live |-> live, sheet |-> sheet, vendor |-> vendor, catalog |-> catalog,
                      policy |-> protocols]
  <2>1. rows = withPolicy(deployment, ref, base)
    BY Zenon DEF Rows
  <2>2. \E p : withPolicy(deployment, ref, base) = [base EXCEPT !.policy = p]
    BY DEF withPolicy
  <2> HIDE DEF rows, sheet, vendor, catalog, protocols
  <2>3. QED
    BY <2>1, <2>2
<1> HIDE DEF rows, sheet, vendor, catalog
<1>3. \A s \in {"live", "sheet", "vendor", "catalog"} : Numeric(rows[s])
  BY <1>1, <1>2
<1>4. window \in Nat /\ Select(rows, "output", 0) \in Nat
  BY <1>3, SelectNumeric
<1>5. output \in Nat
  <2> DEFINE S == {Select(rows, "output", 0)} \cup Ceilings(deployment, ref)
  <2>1. S \in SUBSET Nat /\ S # {}
    BY <1>4 DEF Ceilings, NumericTables
  <2> HIDE DEF S
  <2>2. Least(S) \in Nat
    BY <2>1, LeastOfSome
  <2>3. QED
    BY <2>2 DEF S
<1>6. Least({window, output}) \in Nat
  <2> HIDE DEF window, output
  <2>1. {window, output} \in SUBSET Nat /\ {window, output} # {}
    BY <1>4, <1>5
  <2>2. QED
    BY <2>1, LeastOfSome
<1>7. enrich(deployment, ref, rows) = <<x>>
  BY Zenon DEF RichModel, rows
<1>8. enrich(deployment, ref, rows) # <<>> =>
        /\ enrich(deployment, ref, rows)[1].output = Least({window, output})
        /\ "output" \in DOMAIN enrich(deployment, ref, rows)[1]
  BY DEF enrich
<1>9. <<x>> # <<>> /\ <<x>>[1] = x
  OBVIOUS
<1>10. x.output = Least({window, output}) /\ "output" \in DOMAIN x
  BY <1>7, <1>8, <1>9
<1>11. QED
  BY <1>6, <1>10 DEF Limited
-----------------------------------------------------------------------------
(* Whatever order the gateway chooses, it is of members of the chain.      *)

\* Sorting neither adds nor loses a target.
LEMMA ByWeightItems ==
    ASSUME NEW X, NEW s \in Seq(X), \A x \in X : x.weight \in Nat
    PROVE  ByWeight(s) \in Seq(X) /\ ToSet(ByWeight(s)) = ToSet(s)
<1> DEFINE N == Len(s)
           before(i) == {j \in DOMAIN s : \/ s[j].weight > s[i].weight
                                          \/ s[j].weight = s[i].weight /\ j < i}
           place == [i \in 1 .. N |-> Cardinality(before(i)) + 1]
           at(n) == CHOOSE i \in DOMAIN s : Cardinality(before(i)) = n - 1
<1>1. N \in Nat /\ DOMAIN s = 1 .. N /\ \A i \in 1 .. N : s[i] \in X /\ s[i].weight \in Nat
  OBVIOUS
<1>2. ByWeight(s) = [n \in DOMAIN s |-> s[at(n)]]
  BY Zenon DEF ByWeight
<1>3. \A i, j \in 1 .. N : i # j => i \in before(j) \/ j \in before(i)
  BY <1>1
<1>4. \A i, j \in 1 .. N : i \in before(j) => before(i) \subseteq before(j)
  BY <1>1
<1>5. \A i \in 1 .. N : before(i) \in SUBSET (1 .. N) /\ i \notin before(i)
  BY <1>1
<1> HIDE DEF before
<1>6. IsFiniteSet(1 .. N) /\ Cardinality(1 .. N) = N
  BY <1>1, FS_Interval
<1>7. ASSUME NEW i \in 1 .. N
      PROVE  IsFiniteSet(before(i)) /\ Cardinality(before(i)) \in 0 .. (N - 1)
  <2>1. IsFiniteSet(before(i)) /\ Cardinality(before(i)) <= N
        /\ (N = Cardinality(before(i)) => 1 .. N = before(i))
    BY <1>5, <1>6, FS_Subset
  <2>2. Cardinality(before(i)) \in Nat
    BY <2>1, FS_CardinalityType
  <2>3. Cardinality(before(i)) # N
    BY <1>5, <2>1
  <2>4. QED
    BY <1>1, <2>1, <2>2, <2>3
<1>8. ASSUME NEW i \in 1 .. N, NEW j \in 1 .. N, i \in before(j)
      PROVE  Cardinality(before(i)) # Cardinality(before(j))
  <2>1. before(i) \in SUBSET before(j) /\ before(i) # before(j)
    BY <1>4, <1>5, <1>8
  <2>2. QED
    BY <1>7, <2>1, FS_Subset
<1>9. \A i, j \in 1 .. N : Cardinality(before(i)) = Cardinality(before(j)) => i = j
  BY <1>3, <1>8
<1>10. place \in [1 .. N -> 1 .. N] /\ \A i \in 1 .. N : place[i] = Cardinality(before(i)) + 1
  BY <1>1, <1>7
<1>11. \A i, j \in 1 .. N : place[i] = place[j] => i = j
  BY <1>1, <1>7, <1>9, <1>10
<1> HIDE DEF place
<1>12. place \in Injection(1 .. N, 1 .. N)
  BY <1>10, <1>11 DEF Injection, IsInjective
<1>13. \A n \in 1 .. N : \E i \in 1 .. N : place[i] = n
  <2>1. place \in Surjection(1 .. N, 1 .. N)
    BY <1>6, <1>12, FS_Injection
  <2>2. QED
    BY <2>1 DEF Surjection
<1>14. ASSUME NEW n \in 1 .. N PROVE at(n) \in 1 .. N /\ place[at(n)] = n
  <2>1. PICK i \in 1 .. N : place[i] = n
    BY <1>13
  <2>2. Cardinality(before(i)) = n - 1
    BY <1>7, <1>10, <2>1
  <2>3. at(n) \in DOMAIN s /\ Cardinality(before(at(n))) = n - 1
    BY <1>1, <2>2
  <2> HIDE DEF at
  <2>4. place[at(n)] = (n - 1) + 1
    BY <1>1, <1>10, <2>3
  <2>5. QED
    BY <1>1, <2>3, <2>4
<1> HIDE DEF at
<1>15. \A i \in 1 .. N : at(place[i]) = i
  BY <1>10, <1>11, <1>14
<1>16. DOMAIN ByWeight(s) = 1 .. N /\ \A n \in 1 .. N : ByWeight(s)[n] = s[at(n)]
  BY <1>1, <1>2
<1>17. ByWeight(s) \in [1 .. N -> X]
  BY <1>1, <1>2, <1>14
<1>18. ByWeight(s) \in Seq(X)
  BY <1>1, <1>17
<1>19. ToSet(ByWeight(s)) = {s[at(n)] : n \in 1 .. N}
  BY <1>16 DEF ToSet
<1>20. ToSet(s) = {s[i] : i \in 1 .. N}
  BY <1>1 DEF ToSet
<1>21. ToSet(ByWeight(s)) = ToSet(s)
  BY <1>10, <1>14, <1>15, <1>19, <1>20
<1>22. QED
  BY <1>18, <1>21

\* A list is one of whatever its items are.
LEMMA ListOf ==
    ASSUME NEW X, NEW s \in Seq(X), NEW Y, \A i \in DOMAIN s : s[i] \in Y
    PROVE  s \in Seq(Y)
<1>1. Len(s) \in Nat /\ s \in [1 .. Len(s) -> X] /\ DOMAIN s = 1 .. Len(s)
  OBVIOUS
<1>2. s \in [1 .. Len(s) -> Y]
  BY <1>1
<1>3. QED
  BY <1>1, <1>2

\* Joining two lists joins their items.
LEMMA JoinedSets ==
    ASSUME NEW X, NEW s \in Seq(X), NEW t \in Seq(X)
    PROVE  s \o t \in Seq(X) /\ ToSet(s \o t) = ToSet(s) \cup ToSet(t)
<1> DEFINE M == Len(s)
           N == Len(t)
           u == s \o t
<1>1. /\ M \in Nat /\ DOMAIN s = 1 .. M /\ N \in Nat /\ DOMAIN t = 1 .. N
      /\ u \in Seq(X) /\ DOMAIN u = 1 .. (M + N)
  OBVIOUS
<1>2. \A i \in 1 .. M : u[i] = s[i]
  OBVIOUS
<1>3. \A i \in 1 .. N : u[M + i] = t[i]
  OBVIOUS
<1>4. \A i \in 1 .. (M + N) : i \in 1 .. M \/ (i - M \in 1 .. N /\ i = M + (i - M))
  BY <1>1
<1>5. \A i \in 1 .. N : M + i \in 1 .. (M + N)
  BY <1>1
<1>6. \A i \in 1 .. M : i \in 1 .. (M + N)
  BY <1>1
<1>7. /\ ToSet(u) = {u[i] : i \in 1 .. (M + N)} /\ ToSet(s) = {s[i] : i \in 1 .. M}
      /\ ToSet(t) = {t[i] : i \in 1 .. N}
  BY <1>1 DEF ToSet
<1> HIDE DEF u, M, N
<1>8. ToSet(u) \subseteq ToSet(s) \cup ToSet(t)
  BY <1>2, <1>3, <1>4, <1>7
<1>9. ToSet(s) \cup ToSet(t) \subseteq ToSet(u)
  BY <1>2, <1>3, <1>5, <1>6, <1>7
<1>10. QED
  BY <1>1, <1>8, <1>9 DEF u

\* Joining lists loses no item.
LEMMA JoinKeeps ==
    ASSUME NEW X, NEW q \in Seq(Seq(X))
    PROVE  FlattenSeq(q) \in Seq(X) /\ \A i \in DOMAIN q : ToSet(q[i]) \subseteq ToSet(FlattenSeq(q))
<1> DEFINE N == Len(q)
<1>1. N \in Nat /\ DOMAIN q = 1 .. N /\ \A i \in 1 .. N : q[i] \in Seq(X)
  OBVIOUS
<1>2. PICK flat : /\ flat[0] = <<>> /\ \A i \in 1 .. N : flat[i] = flat[i - 1] \o q[i]
                  /\ \A i \in 0 .. N : flat[i] \in Seq(X)
                  /\ FlattenSeq(q) = flat[N]
  BY Joins
<1> DEFINE S == {k \in Nat : \A i \in 1 .. k : ToSet(q[i]) \subseteq ToSet(flat[k])}
<1>3. 0 \in S
  OBVIOUS
<1> HIDE DEF N
<1>4. ASSUME NEW k \in 0 .. (N - 1), k \in S PROVE k + 1 \in S
  <2>1. /\ k + 1 \in 1 .. N /\ k + 1 \in Nat /\ k \in 0 .. N /\ (k + 1) - 1 = k
        /\ \A i \in 1 .. (k + 1) : i \in 1 .. k \/ i = k + 1
    BY <1>1
  <2>2. flat[k + 1] = flat[k] \o q[k + 1]
    BY <1>2, <2>1
  <2>3. flat[k] \in Seq(X) /\ q[k + 1] \in Seq(X)
    BY <1>1, <1>2, <2>1
  <2>4. ToSet(flat[k + 1]) = ToSet(flat[k]) \cup ToSet(q[k + 1])
    BY <2>2, <2>3, JoinedSets
  <2>5. \A i \in 1 .. (k + 1) : ToSet(q[i]) \subseteq ToSet(flat[k + 1])
    BY <1>4, <2>1, <2>4
  <2>6. QED
    BY <2>1, <2>5
<1>5. \A k \in 0 .. N : k \in S
  <2> HIDE DEF S
  <2>1. QED
    BY <1>1, <1>3, <1>4, CountedUp
<1>6. N \in S /\ N \in 0 .. N
  <2> HIDE DEF S
  <2>1. N \in 0 .. N
    BY <1>1
  <2>2. QED
    BY <1>5, <2>1
<1>7. QED
  BY <1>1, <1>2, <1>6

\* The members of a rule are those of its targets and its fallbacks.
LEMMA RuleMembers ==
    ASSUME NEW rule, WellFormed(rule)
    PROVE  /\ routingRuleMembers(rule) \in Seq(References)
           /\ ToSet(routingRuleMembers(rule))
                = {t.ref : t \in ToSet(rule.targets)} \cup {f.ref : f \in ToSet(rule.fallbacks)}
<1> DEFINE w == ByWeight(rule.targets)
           u == Refs(w)
           v == Refs(rule.fallbacks)
<1>1. rule.targets \in Seq(Targets) /\ rule.fallbacks \in Seq(Fallbacks)
  BY DEF WellFormed, Targets, Fallbacks, References
<1>2. w \in Seq(Targets) /\ ToSet(w) = ToSet(rule.targets)
  <2>1. \A x \in Targets : x.weight \in Nat
    BY DEF Targets
  <2>2. QED
    BY <1>1, <2>1, ByWeightItems
<1> HIDE DEF w
<1>3. /\ u \in Seq(References) /\ DOMAIN u = DOMAIN w /\ \A i \in DOMAIN w : u[i] = w[i].ref
      /\ v \in Seq(References) /\ DOMAIN v = DOMAIN rule.fallbacks
      /\ \A i \in DOMAIN rule.fallbacks : v[i] = rule.fallbacks[i].ref
  <2>1. \A x \in Targets : x.ref \in References
    BY DEF Targets
  <2>2. \A x \in Fallbacks : x.ref \in References
    BY DEF Fallbacks
  <2>3. {} \in SUBSET DOMAIN w /\ {} \in SUBSET DOMAIN rule.fallbacks
    OBVIOUS
  <2>4. u \in Seq(References) /\ DOMAIN u = DOMAIN w /\ \A i \in DOMAIN w : u[i] = w[i].ref
    BY <1>2, <2>1, <2>3, RefsOfSelected
  <2>5. /\ v \in Seq(References) /\ DOMAIN v = DOMAIN rule.fallbacks
        /\ \A i \in DOMAIN rule.fallbacks : v[i] = rule.fallbacks[i].ref
    BY <1>1, <2>2, <2>3, RefsOfSelected
  <2>6. QED
    BY <2>4, <2>5
<1> HIDE DEF u, v
<1>4. ToSet(u) = {t.ref : t \in ToSet(w)} /\ ToSet(v) = {f.ref : f \in ToSet(rule.fallbacks)}
  BY <1>3 DEF ToSet
<1>5. u \o v \in Seq(References) /\ ToSet(u \o v) = ToSet(u) \cup ToSet(v)
  BY <1>3, JoinedSets
<1>6. routingRuleMembers(rule) = unique(u \o v)
  BY Zenon DEF routingRuleMembers, u, v, w
<1> DEFINE all == u \o v
<1> HIDE DEF all
<1>7. unique(all) \in Seq(References) /\ ToSet(unique(all)) = ToSet(all)
  BY <1>5, UniqueItems DEF all
<1>8. QED
  BY <1>2, <1>4, <1>5, <1>6, <1>7 DEF all

\* What a rule makes the gateway try is among its members.
LEMMA OrderMembers ==
    ASSUME NEW rule, WellFormed(rule), NEW o \in RuleOrders(rule)
    PROVE  ToSet(Refs(o)) \subseteq ToSet(routingRuleMembers(rule))
<1> DEFINE first(t) == <<t>> \o rule.fallbacks
           K(t) == {i \in DOMAIN first(t) : i = 1 \/ first(t)[i].ref # t.ref}
<1>1. /\ rule.targets \in Seq(Targets) /\ rule.fallbacks \in Seq(Fallbacks)
      /\ rule.targets # <<>>
  BY DEF WellFormed, Targets, Fallbacks, References
<1>2. PICK t \in ToSet(rule.targets) : o = Selected(first(t), K(t))
  <2>1. RuleOrders(rule) = {Selected(first(t), K(t)) : t \in {u \in ToSet(rule.targets) : u.weight > 0}}
            \cup (IF rule.targets = <<>> THEN {rule.fallbacks} ELSE {})
    BY Zenon DEF RuleOrders
  <2> HIDE DEF first, K
  <2>2. QED
    BY <1>1, <2>1
<1> DEFINE X == {t} \cup ToSet(rule.fallbacks)
<1>3. first(t) \in Seq(X) /\ ToSet(first(t)) = X
  <2>1. <<t>> \in Seq(X) /\ ToSet(<<t>>) = {t}
    BY DEF ToSet
  <2>2. rule.fallbacks \in Seq(X)
    <3>1. \A i \in DOMAIN rule.fallbacks : rule.fallbacks[i] \in X
      BY DEF ToSet
    <3> HIDE DEF X
    <3>2. QED
      BY <1>1, <3>1, ListOf
  <2> DEFINE u == <<t>>
             v == rule.fallbacks
  <2>3. u \in Seq(X) /\ v \in Seq(X) /\ first(t) = u \o v
    BY <2>1, <2>2
  <2> HIDE DEF X, u, v
  <2>4. ToSet(u \o v) = ToSet(u) \cup ToSet(v) /\ u \o v \in Seq(X)
    BY <2>3, JoinedSets
  <2> HIDE DEF first
  <2>5. first(t) \in Seq(X) /\ ToSet(first(t)) = ToSet(u) \cup ToSet(v)
    BY <2>3, <2>4
  <2>6. QED
    BY <2>1, <2>5 DEF X, u, v
<1>4. K(t) \in SUBSET DOMAIN first(t)
  OBVIOUS
<1> HIDE DEF K, first
<1>5. ToSet(o) \subseteq X
  <2>1. o \in Seq(X)
    <3> HIDE DEF X
    <3>1. QED
      BY <1>2, <1>3, <1>4, SelectedItems
  <2> HIDE DEF X
  <2>2. QED
    BY <2>1 DEF ToSet
<1>6. ToSet(Refs(o)) = {x.ref : x \in ToSet(o)}
  BY DEF ToSet, Refs
<1>7. QED
  BY <1>2, <1>5, <1>6, RuleMembers

\* The chain of an alias is made of references, and the gateway tries no others.
LEMMA ChainMembers ==
    ASSUME NEW rules, RulesOf(rules), NEW a \in DOMAIN deriveAliasesFromRules(rules)
    PROVE  /\ deriveAliasesFromRules(rules)[a].chain \in Seq(References)
           /\ GatewayMembers(rules, a) \subseteq ToSet(deriveAliasesFromRules(rules)[a].chain)
<1> DEFINE K == {i \in DOMAIN rules :
                    rules[i].enabled /\ rules[i].alias = a /\ routingRuleMembers(rules[i]) # <<>>}
           E == {i \in DOMAIN rules : rules[i].enabled}
           related == Related(rules, a)
           all == Enabled(rules)
           q1 == [i \in DOMAIN related |-> routingRuleMembers(related[i])]
           q2 == [i \in DOMAIN all |-> routingRuleMembers(all[i])]
           more == IF \E i \in DOMAIN related : related[i].chain THEN FlattenSeq(q2) ELSE <<>>
           chain == deriveAliasesFromRules(rules)[a].chain
           X == ToSet(rules)
<1>1. related = Selected(rules, K) /\ all = Selected(rules, E)
  BY Zenon DEF Related, Enabled
<1>2. chain = unique(FlattenSeq(q1) \o more)
  <2>1. chain = unique(reachable(rules, a))
    BY DEF deriveAliasesFromRules
  <2>2. reachable(rules, a) = FlattenSeq(q1) \o more
    BY Zenon DEF reachable
  <2>3. QED
    BY <2>1, <2>2
<1>3. rules \in Seq(X) /\ \A rule \in X : WellFormed(rule)
  BY DEF RulesOf
<1>4. /\ related \in Seq(X) /\ ToSet(related) = {rules[i] : i \in K}
      /\ all \in Seq(X) /\ ToSet(all) = {rules[i] : i \in E}
  <2>1. K \in SUBSET DOMAIN rules /\ E \in SUBSET DOMAIN rules
    OBVIOUS
  <2> HIDE DEF K, E, X, related, all
  <2>2. QED
    BY <1>1, <1>3, <2>1, SelectedItems, SelectedSet
<1> HIDE DEF related, all, X
<1>5. \A rule \in X : routingRuleMembers(rule) \in Seq(References)
  BY <1>3, RuleMembers
<1>6. q1 \in Seq(Seq(References)) /\ q2 \in Seq(Seq(References))
      /\ DOMAIN q1 = DOMAIN related /\ DOMAIN q2 = DOMAIN all
  <2> DEFINE R == Seq(References)
  <2>0. \A rule \in X : routingRuleMembers(rule) \in R
    BY <1>5
  <2> HIDE DEF R
  <2>1. q1 \in Seq(R) /\ DOMAIN q1 = DOMAIN related
    BY <1>4, <2>0
  <2>2. q2 \in Seq(R) /\ DOMAIN q2 = DOMAIN all
    BY <1>4, <2>0
  <2>3. QED
    BY <2>1, <2>2 DEF R
<1>7. /\ FlattenSeq(q1) \in Seq(References) /\ FlattenSeq(q2) \in Seq(References)
      /\ \A i \in DOMAIN q1 : ToSet(q1[i]) \subseteq ToSet(FlattenSeq(q1))
      /\ \A i \in DOMAIN q2 : ToSet(q2[i]) \subseteq ToSet(FlattenSeq(q2))
  <2> HIDE DEF q1, q2
  <2>1. QED
    BY <1>6, JoinKeeps
<1>8. /\ \A rule \in ToSet(related) : ToSet(routingRuleMembers(rule)) \subseteq ToSet(FlattenSeq(q1))
      /\ \A rule \in ToSet(all) : ToSet(routingRuleMembers(rule)) \subseteq ToSet(FlattenSeq(q2))
  <2>1. \A i \in DOMAIN related : q1[i] = routingRuleMembers(related[i]) /\ i \in DOMAIN q1
    OBVIOUS
  <2>2. \A i \in DOMAIN all : q2[i] = routingRuleMembers(all[i]) /\ i \in DOMAIN q2
    OBVIOUS
  <2> HIDE DEF q1, q2
  <2>3. ToSet(related) = {related[i] : i \in DOMAIN related} /\ ToSet(all) = {all[i] : i \in DOMAIN all}
    BY DEF ToSet
  <2>4. \A rule \in ToSet(related) : ToSet(routingRuleMembers(rule)) \subseteq ToSet(FlattenSeq(q1))
    BY <1>7, <2>1, <2>3
  <2>5. \A rule \in ToSet(all) : ToSet(routingRuleMembers(rule)) \subseteq ToSet(FlattenSeq(q2))
    BY <1>7, <2>2, <2>3
  <2>6. QED
    BY <2>4, <2>5
<1> HIDE DEF q1, q2
<1>9. more \in Seq(References)
  BY <1>7
<1>10. chain \in Seq(References) /\ ToSet(chain) = ToSet(FlattenSeq(q1)) \cup ToSet(more)
  <2> HIDE DEF more
  <2> DEFINE u == FlattenSeq(q1) \o more
  <2>1. u \in Seq(References) /\ ToSet(u) = ToSet(FlattenSeq(q1)) \cup ToSet(more)
    BY <1>7, <1>9, JoinedSets
  <2> HIDE DEF u
  <2>2. unique(u) \in Seq(References) /\ ToSet(unique(u)) = ToSet(u)
    BY <2>1, UniqueItems
  <2>3. chain = unique(u)
    BY <1>2 DEF u
  <2> HIDE DEF chain
  <2>4. QED
    BY <2>1, <2>2, <2>3
<1> DEFINE mine == {r \in ToSet(all) : r.alias = a}
           chained == \E r \in mine : r.chain
<1>11. mine \subseteq ToSet(related)
  <2> SUFFICES ASSUME NEW i \in E, rules[i].alias = a PROVE rules[i] \in ToSet(related)
    BY <1>4
  <2>1. WellFormed(rules[i])
    BY <1>3
  <2>2. i \in K
    BY <2>1, HasMembers
  <2> HIDE DEF K, E
  <2>3. QED
    BY <1>4, <2>2
<1>12. chained => more = FlattenSeq(q2)
  <2>1. ToSet(related) = {related[i] : i \in DOMAIN related}
    BY DEF ToSet
  <2> HIDE DEF mine
  <2>2. QED
    BY <1>11, <2>1
<1>13. ASSUME NEW rule \in ToSet(all), rule \in mine \/ chained
       PROVE  ToSet(routingRuleMembers(rule)) \subseteq ToSet(chain)
  <2> HIDE DEF mine, more, chain
  <2>1. CASE rule \in mine
    BY <1>8, <1>10, <1>11, <2>1
  <2>2. CASE chained
    BY <1>8, <1>10, <1>12, <2>2
  <2>3. QED
    BY <1>13, <2>1, <2>2
<1>14. ASSUME NEW o \in GatewayOrders(rules, a) PROVE ToSet(Refs(o)) \subseteq ToSet(chain)
  <2> DEFINE certain(r) == r.exact /\ r.global
             reached == IF chained THEN mine \cup ToSet(all) ELSE mine
  <2>1. GatewayOrders(rules, a)
            = (UNION {RuleOrders(r) : r \in reached}) \cup (IF \E r \in mine : certain(r) THEN {} ELSE {<<>>})
    BY Zenon DEF GatewayOrders, all
  <2>2. \A r \in reached : r \in ToSet(all) /\ (r \in mine \/ chained)
    OBVIOUS
  <2> HIDE DEF reached, certain, mine, chained, chain
  <2>3. CASE o = <<>>
    <3>1. ToSet(Refs(o)) = {}
      BY <2>3 DEF ToSet, Refs
    <3>2. QED
      BY <3>1
  <2>4. CASE \E r \in reached : o \in RuleOrders(r)
    <3>1. PICK r \in reached : o \in RuleOrders(r)
      BY <2>4
    <3>2. r \in ToSet(all) /\ (r \in mine \/ chained)
      BY <2>2, <3>1
    <3>3. WellFormed(r)
      <4>1. ToSet(all) \subseteq X
        BY <1>4 DEF ToSet
      <4>2. r \in X
        BY <3>2, <4>1
      <4>3. QED
        BY <1>3, <4>2
    <3>4. ToSet(Refs(o)) \subseteq ToSet(routingRuleMembers(r))
      BY <3>1, <3>3, OrderMembers
    <3>5. QED
      BY <1>13, <3>2, <3>4
  <2>5. QED
    BY <2>1, <2>3, <2>4
<1>15. GatewayMembers(rules, a) \subseteq ToSet(chain)
  <2> HIDE DEF chain
  <2>1. GatewayMembers(rules, a) = UNION {ToSet(Refs(o)) : o \in GatewayOrders(rules, a)}
    BY Zenon DEF GatewayMembers
  <2>2. QED
    BY <1>14, <2>1
<1>16. QED
  BY <1>10, <1>15
-----------------------------------------------------------------------------
(* The members and the profile of a route have limits on their output.     *)

\* The members of a catalogue have limits.
LEMMA CatalogueLimited ==
    ASSUME NEW deployment, NumericTables(deployment),
           NEW ids, ToSet(ids) \subseteq DOMAIN deployment.api, NEW refs \in Seq(References)
    PROVE  AllLimited(buildRichRouteCatalog(deployment, ids, refs))
<1> DEFINE live(id) == IF id \in ToSet(ids) THEN toProviderModel(deployment, id) ELSE [choice |-> TRUE]
           rich(ref, match) ==
                IF match.found THEN RichModel(deployment, ref, match.id, live(match.id)) ELSE <<>>
           inventory == augmentLiveInventoryForRoutes(ids, refs)
           q == [i \in DOMAIN refs |-> rich(refs[i], resolveModelReference(refs[i], inventory))]
           N == Len(refs)
           X == {q[i][1] : i \in {j \in 1 .. N : q[j] # <<>>}}
           Y == Seq(X)
<1>1. buildRichRouteCatalog(deployment, ids, refs) = FlattenSeq(q)
  BY Zenon DEF buildRichRouteCatalog
<1>2. N \in Nat /\ DOMAIN refs = 1 .. N
  OBVIOUS
<1>3. \A id : Numeric(live(id))
  <2>1. Numeric([choice |-> TRUE])
    BY DEF Numeric
  <2>2. \A id \in ToSet(ids) : Numeric(toProviderModel(deployment, id))
    BY ProviderNumeric
  <2>3. QED
    BY <2>1, <2>2
<1>4. ASSUME NEW i \in 1 .. N PROVE q[i] = <<>> \/ \E x : q[i] = <<x>> /\ Limited(x)
  <2> DEFINE match == resolveModelReference(refs[i], inventory)
  <2>1. q[i] = rich(refs[i], match)
    BY <1>2
  <2> HIDE DEF match, q, live, inventory
  <2>2. CASE ~ match.found
    BY <2>1, <2>2
  <2>3. CASE match.found
    <3>1. q[i] = RichModel(deployment, refs[i], match.id, live(match.id))
      BY <2>1, <2>3
    <3>2. q[i] = <<>> \/ \E x : q[i] = <<x>>
      BY <3>1, OneMember
    <3>3. Numeric(live(match.id))
      BY <1>3
    <3>4. \A x : q[i] = <<x>> => Limited(x)
      BY <3>1, <3>3, MemberNumeric
    <3>5. QED
      BY <3>2, <3>4
  <2>4. QED
    BY <2>2, <2>3
<1>5. q = [i \in 1 .. N |-> q[i]]
  BY <1>2, Zenon
<1> HIDE DEF q, rich, live, inventory
<1>6. ASSUME NEW i \in 1 .. N PROVE q[i] \in Y
  <2>1. CASE q[i] = <<>>
    BY <2>1
  <2>2. CASE q[i] # <<>>
    <3>1. PICK x : q[i] = <<x>>
      BY <1>4, <2>2
    <3>2. q[i][1] = x
      BY <3>1
    <3>3. x \in X
      BY <2>2, <3>2
    <3> HIDE DEF X
    <3>4. QED
      BY <3>1, <3>3
  <2>3. QED
    BY <2>1, <2>2
<1>7. \A x \in X : Limited(x)
  <2> SUFFICES ASSUME NEW x \in X PROVE Limited(x)
    OBVIOUS
  <2>1. PICK i \in 1 .. N : q[i] # <<>> /\ x = q[i][1]
    OBVIOUS
  <2>2. PICK y : q[i] = <<y>> /\ Limited(y)
    BY <1>4, <2>1
  <2>3. x = y
    BY <2>1, <2>2
  <2>4. QED
    BY <2>2, <2>3
<1> HIDE DEF X, Y, N
<1>8. q \in Seq(Y)
  <2>1. q \in [1 .. N -> Y]
    BY <1>5, <1>6
  <2>2. QED
    BY <1>2, <2>1
<1>9. FlattenSeq(q) \in Seq(X)
  BY <1>8, JoinKeeps DEF Y
<1>10. QED
  BY <1>1, <1>7, <1>9 DEF AllLimited

\* The least limit of the members is one.
LEMMA AdvertLimited ==
    ASSUME NEW members, AllLimited(members), members # <<>>
    PROVE  Limited(Advert(members))
<1> DEFINE S == {members[i].output : i \in DOMAIN members}
<1>1. PICK X : members \in Seq(X) /\ \A x \in X : Limited(x)
  BY DEF AllLimited
<1>2. DOMAIN members # {} /\ \A i \in DOMAIN members : members[i] \in X
  BY <1>1
<1>3. S \in SUBSET Nat /\ S # {}
  BY <1>1, <1>2 DEF Limited
<1>4. Advert(members).output = Least(S) /\ "output" \in DOMAIN Advert(members)
  BY DEF Advert
<1> HIDE DEF S
<1>5. Least(S) \in Nat
  BY <1>3, LeastOfSome
<1>6. QED
  BY <1>4, <1>5 DEF Limited

\* An alias on offer has the members of its chain.
LEMMA AliasLimited ==
    ASSUME NEW catalog, AllLimited(catalog), NEW chain \in Seq(References),
           NEW alias, alias = synthesizeAlias(chain, catalog)
    PROVE  /\ AllLimited(alias.members)
           /\ alias.offered => Named(alias.members) = chain /\ Limited(alias.advert)
<1> DEFINE found == [i \in DOMAIN chain |->
                        resolveModelReference(chain[i], [j \in DOMAIN catalog |-> catalog[j].id])]
           copy(i, j) == [catalog[j] EXCEPT !.id = chain[i]]
           piece(i, match, j) == IF match.found /\ match.id = catalog[j].id THEN <<copy(i, j)>> ELSE <<>>
           pieces(i, match) == [j \in DOMAIN catalog |-> piece(i, match, j)]
           named(i, match) == FlattenSeq(pieces(i, match))
           q == [i \in DOMAIN chain |-> named(i, found[i])]
           members == FlattenSeq(q)
           offered == members # <<>> /\ [i \in DOMAIN members |-> members[i].id] = chain
           advert == IF members = <<>> THEN NoFacts ELSE Advert(members)
           Y == {copy(i, j) : i \in DOMAIN chain, j \in DOMAIN catalog}
<1>1. alias = [members |-> members, profile |-> <<>>, offered |-> offered, advert |-> advert]
  BY Zenon DEF synthesizeAlias
<1>2. PICK X : catalog \in Seq(X) /\ \A x \in X : Limited(x)
  BY DEF AllLimited
<1>3. \A y \in Y : Limited(y)
  <2> SUFFICES ASSUME NEW i \in DOMAIN chain, NEW j \in DOMAIN catalog PROVE Limited(copy(i, j))
    OBVIOUS
  <2>1. Limited(catalog[j])
    BY <1>2
  <2>2. QED
    BY <2>1 DEF Limited
<1>4. /\ Len(chain) \in Nat /\ DOMAIN chain = 1 .. Len(chain)
      /\ Len(catalog) \in Nat /\ DOMAIN catalog = 1 .. Len(catalog)
  BY <1>2
<1>5. \A i \in DOMAIN chain, j \in DOMAIN catalog : copy(i, j) \in Y
  OBVIOUS
<1> HIDE DEF copy, Y, found
<1>6. ASSUME NEW i \in DOMAIN chain, NEW match PROVE named(i, match) \in Seq(Y)
  <2> DEFINE Z == Seq(Y)
  <2>1. \A j \in DOMAIN catalog : piece(i, match, j) \in Z
    BY <1>5
  <2> HIDE DEF piece, Z
  <2>2. pieces(i, match) \in Seq(Z)
    BY <1>4, <2>1
  <2> HIDE DEF pieces
  <2>3. QED
    BY <2>2, JoinKeeps DEF Z
<1>7. members \in Seq(Y)
  <2> DEFINE Z == Seq(Y)
  <2>1. \A i \in DOMAIN chain : named(i, found[i]) \in Z
    BY <1>6
  <2> HIDE DEF named, Z
  <2>2. q \in Seq(Z)
    BY <1>4, <2>1
  <2> HIDE DEF q
  <2>3. QED
    BY <2>2, JoinKeeps DEF Z
<1> HIDE DEF members
<1>8. AllLimited(members)
  BY <1>3, <1>7 DEF AllLimited
<1>9. /\ alias.members = members /\ alias.offered = offered /\ alias.advert = advert
  <2> HIDE DEF offered, advert
  <2>1. QED
    BY <1>1
<1>10. ASSUME alias.offered PROVE Named(alias.members) = chain /\ Limited(alias.advert)
  <2>1. members # <<>> /\ [i \in DOMAIN members |-> members[i].id] = chain
    BY <1>9, <1>10
  <2>2. Named(members) = chain
    BY <2>1 DEF Named
  <2>3. advert = Advert(members)
    BY <2>1
  <2>4. Limited(Advert(members))
    BY <1>8, <2>1, AdvertLimited
  <2>5. QED
    BY <1>9, <2>2, <2>3, <2>4
<1>11. QED
  BY <1>8, <1>9, <1>10

\* A route has an alias's members and promise, and perhaps a profile.
Route(route, chain) ==
    /\ AllLimited(route.members) /\ AllLimited(route.profile)
    /\ route.offered => Named(route.members) = chain /\ Limited(route.advert)

\* A profile adds members of the catalogue and a window.
LEMMA RouteLimited ==
    ASSUME NEW catalog, AllLimited(catalog), NEW definition, definition.chain \in Seq(References),
           NEW alias, alias = synthesizeAlias(definition.chain, catalog)
    PROVE  Route(applyDynamicRouteProfiles(alias, definition, catalog), definition.chain)
<1> DEFINE own(r) == Selected(catalog, {j \in DOMAIN catalog : catalog[j].id = r})
           chain == definition.chain
           q == [i \in DOMAIN chain |-> own(chain[i])]
           profile == FlattenSeq(q)
           window == Greatest({profile[i].window : i \in DOMAIN profile})
           applied == applyDynamicRouteProfiles(alias, definition, catalog)
           more == [alias EXCEPT !.profile = profile, !.advert.window = window]
<1>1. applied = IF alias.offered /\ definition.dynamic /\ Len(profile) = Len(chain)
                THEN more ELSE alias
  BY Zenon DEF applyDynamicRouteProfiles
<1>2. alias = [members |-> alias.members, profile |-> <<>>,
               offered |-> alias.offered, advert |-> alias.advert]
  <2>1. Bare(alias)
    BY NoProfileYet, Zenon
  <2>2. QED
    BY <2>1, Zenon DEF Bare
<1>3. /\ AllLimited(alias.members)
      /\ alias.offered => Named(alias.members) = chain /\ Limited(alias.advert)
  BY AliasLimited
<1>4. PICK X : catalog \in Seq(X) /\ \A x \in X : Limited(x)
  BY DEF AllLimited
<1> HIDE DEF applied, window, more
<1>5. profile \in Seq(X)
  <2> DEFINE Z == Seq(X)
  <2>1. \A r : own(r) \in Z
    <3> SUFFICES ASSUME NEW r PROVE own(r) \in Seq(X)
      OBVIOUS
    <3> DEFINE J == {j \in DOMAIN catalog : catalog[j].id = r}
    <3>1. J \in SUBSET DOMAIN catalog
      OBVIOUS
    <3> HIDE DEF J
    <3>2. Selected(catalog, J) \in Seq(X)
      BY <1>4, <3>1, SelectedItems
    <3>3. QED
      BY <3>2 DEF J
  <2> HIDE DEF own, Z
  <2>2. q \in Seq(Z)
    <3>1. Len(chain) \in Nat /\ DOMAIN chain = 1 .. Len(chain)
      OBVIOUS
    <3>2. QED
      BY <2>1, <3>1
  <2> HIDE DEF q
  <2>3. QED
    BY <2>2, JoinKeeps DEF Z
<1> HIDE DEF profile
<1>6. AllLimited(profile) /\ AllLimited(<<>>)
  <2>1. AllLimited(profile)
    BY <1>4, <1>5 DEF AllLimited
  <2>2. <<>> \in Seq(X)
    OBVIOUS
  <2>3. AllLimited(<<>>)
    BY <1>4, <2>2 DEF AllLimited
  <2>4. QED
    BY <2>1, <2>3
<1> HIDE DEF chain
<1>7. Route(alias, chain)
  <2>1. alias.profile = <<>>
    BY <1>2
  <2>2. QED
    BY <1>3, <1>6, <2>1 DEF Route
<1>8. Route(more, chain)
  <2>1. more = [alias EXCEPT !.profile = profile, !.advert = [@ EXCEPT !.window = window]]
    BY Zenon DEF more
  <2>2. /\ more.members = alias.members /\ more.profile = profile
        /\ more.offered = alias.offered /\ more.advert = [alias.advert EXCEPT !.window = window]
    BY <1>2, <2>1
  <2>3. Limited(alias.advert) => Limited([alias.advert EXCEPT !.window = window])
    BY DEF Limited
  <2>4. QED
    BY <1>3, <1>6, <2>2, <2>3 DEF Route
<1>9. QED
  BY <1>1, <1>7, <1>8 DEF applied, chain

\* In a fresh catalogue all limits are numbers, and a profile has the members
\* of the chain.
LEMMA FreshLimited ==
    ASSUME NEW rules, RulesOf(rules), NEW a \in DOMAIN deriveAliasesFromRules(rules),
           NEW deployment, NumericTables(deployment),
           NEW ids, ToSet(ids) \subseteq DOMAIN deployment.api
    PROVE  Route(fetchFreshCatalog(deployment, ids, deriveAliasesFromRules(rules))[a],
                 deriveAliasesFromRules(rules)[a].chain)
<1> DEFINE aliases == deriveAliasesFromRules(rules)
           keep == {i \in DOMAIN ByLength :
                        \E b \in DOMAIN aliases : ByLength[i] \in ToSet(aliases[b].chain)}
           refs == routeReferences(aliases)
           catalog == buildRichRouteCatalog(deployment, ids, refs)
           alias == synthesizeAlias(aliases[a].chain, catalog)
           route == applyDynamicRouteProfiles(alias, aliases[a], catalog)
           fresh == fetchFreshCatalog(deployment, ids, aliases)
<1>1. refs = Selected(ByLength, keep) /\ keep \in SUBSET DOMAIN ByLength
  BY Zenon DEF routeReferences
<1>2. fresh[a] = route
  <2>1. fresh = [b \in DOMAIN aliases |->
            applyDynamicRouteProfiles(synthesizeAlias(aliases[b].chain, catalog), aliases[b], catalog)]
    BY Zenon DEF fetchFreshCatalog
  <2>2. QED
    BY <2>1, Zenon
<1>3. aliases[a].chain \in Seq(References)
  BY ChainMembers
<1> HIDE DEF keep, refs, aliases
<1>4. refs \in Seq(References)
  <2>1. ByLength \in Seq(References)
    BY DeploymentAssumption DEF References
  <2>2. QED
    BY <1>1, <2>1, SelectedItems
<1>5. AllLimited(catalog)
  BY <1>4, CatalogueLimited
<1> HIDE DEF catalog
<1>6. alias = synthesizeAlias(aliases[a].chain, catalog)
  OBVIOUS
<1> HIDE DEF alias
<1>7. Route(route, aliases[a].chain)
  BY <1>3, <1>5, <1>6, RouteLimited
<1>8. QED
  BY <1>2, <1>7 DEF fresh, aliases

\* The budget of a request is a number, and no ceiling of whatever it may
\* reach is below it.
LEMMA BudgetNumeric ==
    ASSUME NEW deployment, NumericTables(deployment), NEW members, AllLimited(members),
           NEW asked \in Nat, NEW how
    PROVE  LET budget == resolveOutputBudget(deployment, members, asked, how)
           IN  /\ budget \in Nat
               /\ how = "gateway" =>
                    \A m \in ToSet(members) : \A c \in Ceilings(deployment, m.id) : budget <= c
               /\ how # "gateway" /\ members # <<>> =>
                    \A c \in Ceilings(deployment, members[1].id) : budget <= c
<1> DEFINE reached == IF how = "gateway" THEN ToSet(members)
                      ELSE IF members = <<>> THEN {} ELSE {members[1]}
           known == UNION {Ceilings(deployment, m.id) : m \in reached}
           own == IF how = "gateway" THEN {} ELSE {m.output : m \in {n \in reached : n.source # "fallback"}}
           S == ({asked} \cup known) \cup own
           budget == resolveOutputBudget(deployment, members, asked, how)
<1>1. budget = Least(S)
  BY Zenon DEF resolveOutputBudget
<1>2. PICK X : members \in Seq(X) /\ \A x \in X : Limited(x)
  BY DEF AllLimited
<1>3. \A m \in reached : Limited(m)
  BY <1>2 DEF ToSet
<1>4. \A m \in reached : \A c \in Ceilings(deployment, m.id) : c \in Nat /\ c \in known
  <2>1. \A ref : \A c \in Ceilings(deployment, ref) : c \in Nat
    BY DEF Ceilings, NumericTables
  <2> HIDE DEF reached
  <2>2. QED
    BY <2>1
<1>5. known \in SUBSET Nat
  <2> HIDE DEF reached
  <2>1. QED
    BY <1>4
<1>6. own \in SUBSET Nat
  <2> HIDE DEF reached
  <2>1. QED
    BY <1>3 DEF Limited
<1>7. S \in SUBSET Nat /\ S # {} /\ known \subseteq S
  <2> HIDE DEF known, own
  <2>1. QED
    BY <1>5, <1>6
<1>8. budget \in Nat /\ \A m \in reached : \A c \in Ceilings(deployment, m.id) : budget <= c
  <2> HIDE DEF S, known, own, reached, budget
  <2>1. Least(S) \in Nat /\ \A y \in S : Least(S) <= y
    BY <1>7, LeastOfSome
  <2>2. QED
    BY <1>1, <1>4, <1>7, <2>1
<1> HIDE DEF budget
<1>9. QED
  BY <1>8 DEF budget

\* Each attempt has members.
Whole(attempts) == \A n \in DOMAIN attempts : attempts[n] # <<>> /\ AllLimited(attempts[n])

\* The attempts of a plan are made of limited members; where no member was
\* excluded, one attempt has them all.
LEMMA PlanLimited ==
    ASSUME NEW deployment, NEW profile, AllLimited(profile), NEW advert, NEW need
    PROVE  LET plan == planDynamicRouteAttempts(deployment, profile, advert, need)
           IN  /\ Whole(plan.attempts)
               /\ Len(plan.attempts) \in Nat /\ DOMAIN plan.attempts = 1 .. Len(plan.attempts)
               /\ plan.attempts # <<>> => 1 \in DOMAIN plan.attempts
               /\ ~ plan.excluded /\ Len(plan.attempts) = 1 => ToSet(plan.attempts[1]) = ToSet(profile)
<1> DEFINE K == {i \in DOMAIN profile :
                    evaluateRouteMemberEligibility(profile[i], need, Requested(advert, need),
                                                   UsesReasoning(profile, need))}
           eligible == Selected(profile, K)
           shares(m, n) == /\ MemberProtocol(m, need) = MemberProtocol(n, need)
                           /\ KnownEncoder(deployment, m) /\ KnownEncoder(deployment, n)
                           /\ physicalRequestContractKey(deployment, m, need)
                                = physicalRequestContractKey(deployment, n, need)
           starts == {i \in DOMAIN eligible : i > 1 => ~ shares(eligible[i - 1], eligible[i])}
           attempts == Parts(eligible, starts)
           plan == planDynamicRouteAttempts(deployment, profile, advert, need)
<1>1. K \in SUBSET DOMAIN profile
  OBVIOUS
<1>2. plan.attempts = attempts /\ plan.excluded = (Len(eligible) < Len(profile))
  BY Zenon DEF planDynamicRouteAttempts, Grouped
<1> HIDE DEF K, plan
<1>3. PICK X : profile \in Seq(X) /\ \A x \in X : Limited(x)
  BY DEF AllLimited
<1>4. /\ eligible \in Seq(X) /\ Len(eligible) = Cardinality(K) /\ Cardinality(K) \in Nat
      /\ \A n \in 1 .. Cardinality(K) : eligible[n] = profile[Place(K, n)]
  BY <1>1, <1>3, SelectedItems
<1> HIDE DEF eligible
<1>5. starts \in SUBSET DOMAIN eligible /\ (eligible # <<>> => 1 \in starts)
  <2>1. eligible # <<>> => 1 \in DOMAIN eligible
    BY <1>4
  <2> HIDE DEF shares
  <2>2. QED
    BY <2>1
<1> HIDE DEF starts
<1> DEFINE c == Cardinality(starts)
           from(n) == Place(starts, n)
           to(n) == PartEnd(eligible, starts, n)
<1>6. /\ attempts \in Seq(Seq(X)) /\ FlattenSeq(attempts) = eligible /\ c \in Nat
      /\ \A n \in 1 .. c : from(n) \in 1 .. Len(eligible) /\ to(n) \in (from(n)) .. Len(eligible)
  BY <1>4, <1>5, PartsJoin
<1>7. attempts = [n \in 1 .. c |-> SubSeq(eligible, from(n), to(n))]
  BY DEF Parts
<1> HIDE DEF attempts
<1>8. Whole(attempts)
  <2> SUFFICES ASSUME NEW n \in 1 .. c
               PROVE  attempts[n] # <<>> /\ AllLimited(attempts[n])
    BY <1>7 DEF Whole
  <2> DEFINE Z == Seq(X)
  <2>0. \A i \in DOMAIN attempts : attempts[i] \in Z
    <3>1. attempts \in Seq(Z)
      BY <1>6
    <3> HIDE DEF Z
    <3>2. QED
      BY <3>1
  <2>1. n \in DOMAIN attempts /\ attempts[n] \in Seq(X)
    <3>1. n \in DOMAIN attempts
      BY <1>7
    <3>2. QED
      BY <2>0, <3>1
  <2>2. AllLimited(attempts[n])
    BY <1>3, <2>1 DEF AllLimited
  <2>3. attempts[n] = SubSeq(eligible, from(n), to(n))
    BY <1>7
  <2>4. from(n) \in 1 .. Len(eligible) /\ to(n) \in (from(n)) .. Len(eligible) /\ Len(eligible) \in Nat
    BY <1>4, <1>6
  <2> HIDE DEF from, to
  <2>5. Len(attempts[n]) = to(n) - from(n) + 1
    BY <1>4, <2>3, <2>4, SubSeqProperties
  <2>6. Len(attempts[n]) > 0
    BY <2>4, <2>5
  <2>7. QED
    BY <2>1, <2>2, <2>6
<1>9. /\ Len(attempts) \in Nat /\ DOMAIN attempts = 1 .. Len(attempts)
      /\ attempts # <<>> => 1 \in DOMAIN attempts
  BY <1>6
<1>10. ASSUME ~ (Len(eligible) < Len(profile)), Len(attempts) = 1 PROVE ToSet(attempts[1]) = ToSet(profile)
  <2>1. attempts = <<attempts[1]>> /\ attempts[1] \in Seq(X)
    BY <1>6, <1>10
  <2>2. eligible = attempts[1]
    BY <1>6, <2>1, OneJoined
  <2>3. K = DOMAIN profile
    <3>1. Len(profile) \in Nat /\ DOMAIN profile = 1 .. Len(profile)
      BY <1>3
    <3>2. IsFiniteSet(DOMAIN profile) /\ Cardinality(DOMAIN profile) = Len(profile)
      BY <3>1, Positions
    <3>3. Cardinality(K) <= Len(profile) /\ (Cardinality(K) = Len(profile) => K = DOMAIN profile)
      BY <1>1, <3>2, FS_Subset
    <3>4. QED
      BY <1>4, <1>10, <3>1, <3>3
  <2>4. ToSet(eligible) = {profile[i] : i \in K}
    BY <1>1, <1>3, SelectedSet DEF eligible
  <2>5. ToSet(profile) = {profile[i] : i \in DOMAIN profile}
    BY DEF ToSet
  <2>6. QED
    BY <2>2, <2>3, <2>4, <2>5
<1>11. QED
  BY <1>2, <1>8, <1>9, <1>10 DEF plan

\* A limit on the answer that no ceiling of some models is below.
Bounded(deployment, ids, cap) == \A r \in ids : \A c \in Ceilings(deployment, r) : cap <= c

\* What a decision is: the mode, and the attempts that go with it.
Decides(decision, plan, profile) ==
    /\ decision.mode \in {"direct", "native", "physical", "no member", "refused"}
    /\ decision.mode = "direct" <=> profile = <<>>
    /\ decision.mode \in {"native", "physical"} =>
            decision.attempts = plan.attempts /\ plan.attempts # <<>>
    /\ decision.mode = "native" => ~ plan.excluded /\ Len(plan.attempts) = 1

\* The mode and the attempts come from the plan.
LEMMA Decided ==
    ASSUME NEW deployment, NEW route, NEW advert, NEW need, NEW aged
    PROVE  Decides(Decision(deployment, route, advert, need, aged),
                   planDynamicRouteAttempts(deployment, route.profile, advert, need), route.profile)
<1> DEFINE profile == route.profile
           plan == planDynamicRouteAttempts(deployment, profile, advert, need)
           mode == CASE profile = <<>> -> "direct"
                     [] profile # <<>> /\ plan.attempts = <<>> -> "no member"
                     [] profile # <<>> /\ plan.attempts # <<>>
                           /\ canUseNativeBifrostRoute(plan, need) -> "native"
                     [] OTHER -> IF compatibilityExecutionError(plan, aged)
                                 THEN "refused" ELSE "physical"
           decision == Decision(deployment, route, advert, need, aged)
<1>1. decision = [mode |-> mode,
                  attempts |-> IF mode \in {"native", "physical"} THEN plan.attempts ELSE <<>>]
  BY Zenon DEF Decision
<1> HIDE DEF plan, profile, decision
<1>2. /\ mode \in {"direct", "native", "physical", "no member", "refused"}
      /\ mode = "direct" <=> profile = <<>>
      /\ mode \in {"native", "physical"} => plan.attempts # <<>>
      /\ mode = "native" => canUseNativeBifrostRoute(plan, need)
  <2> DEFINE serves == canUseNativeBifrostRoute(plan, need)
             fails == compatibilityExecutionError(plan, aged)
  <2> HIDE DEF serves, fails
  <2>1. CASE profile = <<>>
    BY <2>1
  <2>2. CASE profile # <<>> /\ plan.attempts = <<>>
    BY <2>2
  <2>3. CASE profile # <<>> /\ plan.attempts # <<>> /\ serves
    <3>1. mode = "native"
      BY <2>3 DEF serves
    <3>2. QED
      BY <2>3, <3>1 DEF serves
  <2>4. CASE profile # <<>> /\ plan.attempts # <<>> /\ ~ serves
    <3>1. mode = IF fails THEN "refused" ELSE "physical"
      BY <2>4 DEF serves, fails
    <3>2. QED
      BY <2>4, <3>1
  <2>5. QED
    BY <2>1, <2>2, <2>3, <2>4
<1>3. canUseNativeBifrostRoute(plan, need) => ~ plan.excluded /\ Len(plan.attempts) = 1
  BY DEF canUseNativeBifrostRoute
<1> HIDE DEF mode
<1>4. decision.mode = mode /\ (mode \in {"native", "physical"} => decision.attempts = plan.attempts)
  BY <1>1
<1>5. Decides(decision, plan, profile)
  BY <1>2, <1>3, <1>4 DEF Decides
<1>6. QED
  BY <1>5, Zenon DEF decision, plan, profile

\* A decision asks for no more than whatever may get the request is known to
\* allow: of a physical attempt its first member, else any the gateway may try.
CapsOf(deployment, rules, a, route, advert, need, decision) ==
    /\ decision.mode = "physical" =>
        /\ Len(decision.attempts) \in Nat /\ 1 \in DOMAIN decision.attempts
        /\ DOMAIN decision.attempts = 1 .. Len(decision.attempts)
        /\ \A k \in DOMAIN decision.attempts :
            Bounded(deployment, {AllNamed(decision.attempts)[k][1]},
                    Cap(deployment, route, advert, need, decision, k))
    /\ route.offered /\ decision.mode \in {"direct", "native"} =>
        Bounded(deployment, GatewayMembers(rules, a),
                Cap(deployment, route, advert, need, decision, 1))

\* What is planned from a fresh catalogue is within the ceilings.
LEMMA CapsBelow ==
    ASSUME NEW rules, RulesOf(rules), NEW a \in DOMAIN deriveAliasesFromRules(rules),
           NEW deployment, NumericTables(deployment),
           NEW ids, ToSet(ids) \subseteq DOMAIN deployment.api,
           NEW route,
           route = fetchFreshCatalog(deployment, ids, deriveAliasesFromRules(rules))[a],
           NEW advert, Limited(advert), NEW need, need.output \in Nat, NEW aged,
           NEW decision, decision = Decision(deployment, route, advert, need, aged)
    PROVE  CapsOf(deployment, rules, a, route, advert, need, decision)
<1> DEFINE chain == deriveAliasesFromRules(rules)[a].chain
           asked == Requested(advert, need)
           plan == planDynamicRouteAttempts(deployment, route.profile, advert, need)
           budget(members, how) == resolveOutputBudget(deployment, members, asked, how)
<1>1. Route(route, chain)
  BY FreshLimited
<1>2. route.profile # <<>> => Named(route.profile) = chain
  BY FreshProfile
<1>3. GatewayMembers(rules, a) \subseteq ToSet(chain)
  BY ChainMembers
<1>4. asked \in Nat
  BY DEF Requested, Limited
<1>5. /\ decision.mode = "direct" <=> route.profile = <<>>
      /\ decision.mode \in {"native", "physical"} =>
            decision.attempts = plan.attempts /\ plan.attempts # <<>>
      /\ decision.mode = "native" => ~ plan.excluded /\ Len(plan.attempts) = 1
  <2> DEFINE d == Decision(deployment, route, advert, need, aged)
  <2>1. Decides(d, plan, route.profile)
    BY Decided, Zenon
  <2>2. decision = d
    OBVIOUS
  <2> HIDE DEF d, plan
  <2>3. QED
    BY <2>1, <2>2 DEF Decides
<1>6. /\ Whole(plan.attempts)
      /\ Len(plan.attempts) \in Nat /\ DOMAIN plan.attempts = 1 .. Len(plan.attempts)
      /\ plan.attempts # <<>> => 1 \in DOMAIN plan.attempts
      /\ ~ plan.excluded /\ Len(plan.attempts) = 1 => ToSet(plan.attempts[1]) = ToSet(route.profile)
  BY <1>1, PlanLimited DEF Route
<1> HIDE DEF plan, asked, chain
<1>7. ASSUME NEW members, Named(members) = chain, NEW cap,
             \A m \in ToSet(members) : \A c \in Ceilings(deployment, m.id) : cap <= c
      PROVE  Bounded(deployment, GatewayMembers(rules, a), cap)
  <2>1. ToSet(chain) = {m.id : m \in ToSet(members)}
    BY <1>7 DEF Named, ToSet
  <2>2. QED
    BY <1>3, <1>7, <2>1 DEF Bounded
<1>8. ASSUME decision.mode = "physical"
      PROVE  /\ Len(decision.attempts) \in Nat /\ 1 \in DOMAIN decision.attempts
             /\ DOMAIN decision.attempts = 1 .. Len(decision.attempts)
             /\ \A k \in DOMAIN decision.attempts :
                    Bounded(deployment, {AllNamed(decision.attempts)[k][1]},
                            Cap(deployment, route, advert, need, decision, k))
  <2>1. decision.attempts = plan.attempts /\ plan.attempts # <<>>
    BY <1>5, <1>8
  <2> SUFFICES ASSUME NEW k \in DOMAIN decision.attempts
               PROVE  Bounded(deployment, {AllNamed(decision.attempts)[k][1]},
                              Cap(deployment, route, advert, need, decision, k))
    BY <1>6, <2>1
  <2> DEFINE attempt == decision.attempts[k]
  <2>2. attempt # <<>> /\ AllLimited(attempt)
    BY <1>6, <2>1 DEF Whole
  <2>3. Cap(deployment, route, advert, need, decision, k) = budget(attempt, "primary")
    BY <1>8 DEF Cap, pifrostAttemptMaxTokens, asked
  <2>4. \A c \in Ceilings(deployment, attempt[1].id) : budget(attempt, "primary") <= c
    <3> HIDE DEF attempt
    <3>1. QED
      BY <1>4, <2>2, BudgetNumeric
  <2>5. AllNamed(decision.attempts)[k][1] = attempt[1].id
    <3>1. AllNamed(decision.attempts)[k] = Named(attempt)
      BY DEF AllNamed
    <3>2. 1 \in DOMAIN attempt
      BY <2>2 DEF AllLimited
    <3>3. QED
      BY <3>1, <3>2 DEF Named
  <2>6. QED
    BY <2>3, <2>4, <2>5 DEF Bounded
<1>9. ASSUME route.offered, decision.mode = "direct"
      PROVE  Bounded(deployment, GatewayMembers(rules, a),
                     Cap(deployment, route, advert, need, decision, 1))
  <2> DEFINE b == budget(route.members, "gateway")
             S == {advert.output, b}
  <2>1. Named(route.members) = chain /\ AllLimited(route.members)
    BY <1>1, <1>9 DEF Route
  <2>2. b \in Nat /\ \A m \in ToSet(route.members) : \A c \in Ceilings(deployment, m.id) : b <= c
    BY <1>4, <2>1, BudgetNumeric
  <2>3. Cap(deployment, route, advert, need, decision, 1) = Least(S)
    BY <1>9, Zenon DEF Cap, asked
  <2> HIDE DEF b
  <2>4. S \in SUBSET Nat /\ S # {} /\ b \in S
    BY <2>2 DEF Limited
  <2>5. Least(S) \in Nat /\ Least(S) <= b
    <3> HIDE DEF S
    <3>1. QED
      BY <2>4, LeastOfSome
  <2> HIDE DEF S
  <2>6. \A ref : \A c \in Ceilings(deployment, ref) : c \in Nat
    BY DEF Ceilings, NumericTables
  <2>7. \A m \in ToSet(route.members) : \A c \in Ceilings(deployment, m.id) : Least(S) <= c
    <3>1. \A x, y, z \in Nat : x <= y /\ y <= z => x <= z
      OBVIOUS
    <3>2. QED
      BY <2>2, <2>5, <2>6, <3>1
  <2>8. QED
    BY <1>7, <2>1, <2>3, <2>7
<1>10. ASSUME decision.mode = "native"
       PROVE  Bounded(deployment, GatewayMembers(rules, a),
                      Cap(deployment, route, advert, need, decision, 1))
  <2> DEFINE attempt == decision.attempts[1]
             b == budget(attempt, "gateway")
  <2>1. decision.attempts = plan.attempts /\ ToSet(attempt) = ToSet(route.profile)
        /\ AllLimited(attempt)
    BY <1>5, <1>6, <1>10 DEF Whole
  <2>2. Named(route.profile) = chain
    BY <1>2, <1>5, <1>10
  <2>3. Cap(deployment, route, advert, need, decision, 1) = b
    BY <1>10 DEF Cap, asked
  <2> HIDE DEF attempt
  <2>4. \A m \in ToSet(attempt) : \A c \in Ceilings(deployment, m.id) : b <= c
    BY <1>4, <2>1, BudgetNumeric
  <2> HIDE DEF b
  <2>5. QED
    BY <1>7, <2>1, <2>2, <2>3, <2>4
<1>11. QED
  BY <1>8, <1>9, <1>10 DEF CapsOf

-----------------------------------------------------------------------------
(* The limit on the answer, in the session.                                *)

\* Of a request on its way: what it asks for is no more than the member it is
\* addressed to allows, or any that the gateway may choose under the rules the
\* route was made for.
Capped ==
    request # Idle =>
        /\ {"stage", "alias", "seen", "offer", "mode", "k", "checked", "attempts", "caps"}
                \subseteq DOMAIN request
        /\ request.stage \in {"planned", "attested", "sent"} =>
                request.mode \in {"direct", "native", "physical"}
        /\ request.mode = "physical" =>
            /\ Len(request.attempts) \in Nat /\ request.k \in DOMAIN request.attempts
            /\ DOMAIN request.attempts = 1 .. Len(request.attempts)
            /\ \A k \in DOMAIN request.attempts :
                    Bounded(g, {request.attempts[k][1]}, request.caps[k])
        /\ request.mode \in {"direct", "native"} =>
            /\ request.k = 1
            /\ request.seen = request.offer =>
                    Bounded(g, GatewayMembers(Rules(request.seen.manifest), request.alias),
                            request.caps[1])

\* Of an alias of a fetched catalogue: it is of a deployment whose limits are
\* numbers and of rules of the gateway.
FetchedRoute(c, a) ==
    /\ RulesOf(Rules(c.manifest)) /\ a \in DOMAIN deriveAliasesFromRules(Rules(c.manifest))
    /\ NumericTables(g)
    /\ \E ids : /\ ToSet(ids) \subseteq DOMAIN g.api
                /\ Catalogue(c)[a] = fetchFreshCatalog(g, ids, deriveAliasesFromRules(Rules(c.manifest)))[a]

\* An alias of a fetched catalogue is of such a deployment and such rules.
LEMMA RouteOf ==
    ASSUME world \in DOMAIN Gateways, NEW c, Made(c), NEW a \in DOMAIN Catalogue(c)
    PROVE  FetchedRoute(c, a)
<1> DEFINE rules == Rules(c.manifest)
           aliases == deriveAliasesFromRules(rules)
           ids == fetchBifrostModels(g.answers[c.key][c.answer])
<1>1. Catalogue(c) = fetchFreshCatalog(g, ids, aliases)
  BY Looked
<1>2. a \in DOMAIN aliases
  <2>1. DOMAIN fetchFreshCatalog(g, ids, aliases) = DOMAIN aliases
    BY Zenon DEF fetchFreshCatalog
  <2>2. QED
    BY <1>1, <2>1
<1>3. RulesOf(rules)
  <2>1. \A w \in DOMAIN Gateways : \A m \in DOMAIN Gateways[w].rules : RulesOf(Gateways[w].rules[m])
    BY DeploymentAssumption, Zenon DEF RulesOf
  <2>2. QED
    BY <2>1, Zenon DEF Made, Rules, g
<1>4. NumericTables(g) /\ ToSet(ids) \subseteq DOMAIN g.api
  <2>1. /\ NumericTables(Gateways[world])
        /\ \A k \in Keys : \A i \in DOMAIN Gateways[world].answers[k] :
              ToSet(fetchBifrostModels(Gateways[world].answers[k][i])) \subseteq DOMAIN Gateways[world].api
    BY LimitsAssumption, Zenon
  <2>2. QED
    BY <2>1, Zenon DEF Made, g
<1> HIDE DEF ids, rules
<1>5. QED
  BY <1>1, <1>2, <1>3, <1>4 DEF FetchedRoute, rules

\* A request asks for a number of tokens that was planned for it.
LEMMA AskCapped ==
    ASSUME Sources, NEW a \in Offered(models), NEW n \in DOMAIN Needs, Ask(a, n)
    PROVE  Capped'
<1> DEFINE offer == Catalogue(models)[a].advert
           route == Published(routes, a)
<1>1. PICK aged : request' = Planned(a, n, offer, route, Decision(g, route, offer, Needs[n], aged))
  <2> HIDE DEF offer, route
  <2>1. QED
    BY Zenon DEF Ask, offer, route
<1> DEFINE d == Decision(g, route, offer, Needs[n], aged)
           cap(k) == Cap(g, route, offer, Needs[n], d, k)
           sends == {"direct", "native"}
<1>2. world' = world /\ world \in DOMAIN Gateways
  BY DEF Ask, Sources
<1>3. /\ {"stage", "alias", "seen", "offer", "mode", "k", "checked", "attempts", "caps"}
            \subseteq DOMAIN request'
      /\ request'.alias = a /\ request'.seen = routes /\ request'.offer = models
      /\ request'.mode = d.mode /\ request'.k = 1 /\ request'.attempts = AllNamed(d.attempts)
      /\ d.mode = "physical" => \A k \in 1 .. Len(d.attempts) : request'.caps[k] = cap(k)
      /\ d.mode \in sends => request'.caps[1] = cap(1)
      /\ d.mode \in {"no member", "refused"} => request'.stage = "failed"
  <2>1. request' = Planned(a, n, offer, route, d)
    BY <1>1
  <2> HIDE DEF d, offer, route
  <2> DEFINE attempts == [i \in DOMAIN d.attempts |->
                            [j \in DOMAIN d.attempts[i] |-> d.attempts[i][j].id]]
             stage == CASE d.mode = "physical" -> "planned"
                        [] d.mode \in {"direct", "native"} -> "sent"
                        [] d.mode \in {"no member", "refused"} -> "failed"
             many == CASE d.mode = "physical" -> Len(d.attempts)
                       [] d.mode \in {"direct", "native"} -> 1
                       [] OTHER -> 0
             caps == [k \in 1 .. many |-> cap(k)]
  <2>2. request' = [stage |-> stage, alias |-> a, need |-> n, seen |-> routes, offer |-> models,
                    mode |-> d.mode, k |-> 1, checked |-> 0, attempts |-> attempts, caps |-> caps]
    BY <2>1, Zenon DEF Planned
  <2>3. attempts = AllNamed(d.attempts)
    BY Zenon DEF AllNamed, Named
  <2>4. d.mode \in {"no member", "refused"} => stage = "failed"
    OBVIOUS
  <2>5. (d.mode = "physical" => many = Len(d.attempts)) /\ (d.mode \in sends => many = 1)
    OBVIOUS
  <2> HIDE DEF attempts, stage, many, cap
  <2>6. /\ d.mode = "physical" => \A k \in 1 .. Len(d.attempts) : caps[k] = cap(k)
        /\ d.mode \in sends => caps[1] = cap(1)
    BY <2>5
  <2> HIDE DEF caps
  <2>7. QED
    BY <2>2, <2>3, <2>4, <2>6
<1>4. d.mode \in {"direct", "native", "physical", "no member", "refused"}
      /\ (d.mode = "direct" <=> route.profile = <<>>)
  <2> DEFINE plan == planDynamicRouteAttempts(g, route.profile, offer, Needs[n])
  <2>1. Decides(d, plan, route.profile)
    BY Decided, Zenon
  <2> HIDE DEF d, plan, route
  <2>2. QED
    BY <2>1 DEF Decides
<1>5. models # Nothing /\ a \in DOMAIN Catalogue(models) /\ Catalogue(models)[a].offered
  BY DEF Offered
<1>6. Limited(offer)
  <2>1. FetchedRoute(models, a)
    BY <1>2, <1>5, RouteOf DEF Sources, Fetches
  <2> DEFINE rules == Rules(models.manifest)
             chain == deriveAliasesFromRules(rules)[a].chain
  <2>2. PICK ids : /\ ToSet(ids) \subseteq DOMAIN g.api
                   /\ Catalogue(models)[a] = fetchFreshCatalog(g, ids, deriveAliasesFromRules(rules))[a]
    BY <2>1 DEF FetchedRoute
  <2>3. Route(Catalogue(models)[a], chain)
    BY <2>1, <2>2, FreshLimited DEF FetchedRoute
  <2> HIDE DEF chain
  <2>4. QED
    BY <1>5, <2>3 DEF Route
<1>7. Needs[n].output \in Nat
  BY LimitsAssumption
<1> DEFINE rules == Rules(routes.manifest)
<1>8. ASSUME routes # Nothing, a \in DOMAIN Catalogue(routes)
      PROVE  /\ d.mode = "physical" =>
                  /\ Len(d.attempts) \in Nat /\ 1 \in DOMAIN d.attempts
                  /\ DOMAIN d.attempts = 1 .. Len(d.attempts)
                  /\ \A k \in DOMAIN d.attempts : Bounded(g, {AllNamed(d.attempts)[k][1]}, cap(k))
             /\ Catalogue(routes)[a].offered /\ d.mode \in sends =>
                  Bounded(g, GatewayMembers(rules, a), cap(1))
  <2>1. FetchedRoute(routes, a)
    BY <1>2, <1>8, RouteOf DEF Sources, Fetches
  <2>2. PICK ids : /\ ToSet(ids) \subseteq DOMAIN g.api
                   /\ Catalogue(routes)[a] = fetchFreshCatalog(g, ids, deriveAliasesFromRules(rules))[a]
    BY <2>1 DEF FetchedRoute
  <2>3. route = Catalogue(routes)[a]
    BY <1>8 DEF Published
  <2>4. RulesOf(rules) /\ a \in DOMAIN deriveAliasesFromRules(rules) /\ NumericTables(g)
    BY <2>1 DEF FetchedRoute
  <2> HIDE DEF rules, offer, route
  <2>5. route = fetchFreshCatalog(g, ids, deriveAliasesFromRules(rules))[a]
    BY <2>2, <2>3
  <2> DEFINE need == Needs[n]
  <2>6. need.output \in Nat
    BY <1>7
  <2>7. d = Decision(g, route, offer, need, aged)
    OBVIOUS
  <2>8. \A k : cap(k) = Cap(g, route, offer, need, d, k)
    OBVIOUS
  <2> HIDE DEF need, d, cap
  <2>9. CapsOf(g, rules, a, route, offer, need, d)
    BY <1>6, <2>2, <2>4, <2>5, <2>6, <2>7, CapsBelow
  <2>10. QED
    BY <2>3, <2>8, <2>9 DEF CapsOf
<1>9. route.profile # <<>> => routes # Nothing /\ a \in DOMAIN Catalogue(routes)
  BY DEF Published, NoRoute
<1> HIDE DEF d, cap, route, offer, rules
<1>10. g' = g /\ \A m : Rules(m)' = Rules(m)
  BY <1>2 DEF Rules, g
<1>11. ASSUME d.mode = "physical"
       PROVE  /\ Len(request'.attempts) \in Nat /\ 1 \in DOMAIN request'.attempts
              /\ DOMAIN request'.attempts = 1 .. Len(request'.attempts)
              /\ \A k \in DOMAIN request'.attempts :
                    Bounded(g, {request'.attempts[k][1]}, request'.caps[k])
  <2>1. /\ Len(d.attempts) \in Nat /\ 1 \in DOMAIN d.attempts
        /\ DOMAIN d.attempts = 1 .. Len(d.attempts)
        /\ \A k \in DOMAIN d.attempts : Bounded(g, {AllNamed(d.attempts)[k][1]}, cap(k))
    BY <1>4, <1>8, <1>9, <1>11
  <2>2. DOMAIN request'.attempts = DOMAIN d.attempts
    BY <1>3 DEF AllNamed
  <2>3. Len(request'.attempts) = Len(d.attempts)
    <3>1. request'.attempts = [i \in 1 .. Len(d.attempts) |-> request'.attempts[i]]
      BY <1>3, <2>1 DEF AllNamed
    <3>2. QED
      BY <2>1, <3>1
  <2>4. \A k \in DOMAIN d.attempts :
            request'.attempts[k][1] = AllNamed(d.attempts)[k][1] /\ request'.caps[k] = cap(k)
    BY <1>3, <1>11, <2>1
  <2>5. QED
    BY <2>1, <2>2, <2>3, <2>4
<1>12. ASSUME d.mode \in sends, routes = models
       PROVE  Bounded(g, GatewayMembers(rules, a), request'.caps[1])
  BY <1>3, <1>5, <1>8, <1>12
<1>13. request'.stage \in {"planned", "attested", "sent"} =>
            request'.mode \in {"direct", "native", "physical"}
  BY <1>3, <1>4
<1>14. request'.mode = "physical" =>
            /\ Len(request'.attempts) \in Nat /\ request'.k \in DOMAIN request'.attempts
            /\ DOMAIN request'.attempts = 1 .. Len(request'.attempts)
            /\ \A k \in DOMAIN request'.attempts :
                    Bounded(g, {request.attempts[k][1]}, request.caps[k])'
  BY <1>3, <1>10, <1>11 DEF Bounded
<1>15. request'.mode \in {"direct", "native"} =>
            /\ request'.k = 1
            /\ request'.seen = request'.offer =>
                    Bounded(g, GatewayMembers(Rules(request.seen.manifest), request.alias),
                            request.caps[1])'
  <2>1. Bounded(g, GatewayMembers(Rules(request.seen.manifest), request.alias), request.caps[1])'
            <=> Bounded(g, GatewayMembers(rules, a), request'.caps[1])
    BY <1>3, <1>10 DEF rules
  <2>2. QED
    BY <1>3, <1>12, <2>1
<1>16. QED
  BY <1>3, <1>13, <1>14, <1>15 DEF Capped

\* On its way a request keeps its limits.
LEMMA CappedStep == Sources /\ Capped /\ [Next]_vars => Capped'
<1> SUFFICES ASSUME Sources, Capped, [Next]_vars PROVE Capped'
  OBVIOUS
<1>1. ASSUME world' = world, request' = request PROVE Capped'
  BY <1>1 DEF Capped, Rules, g
<1>2. CASE \E a \in Offered(models), n \in DOMAIN Needs : Ask(a, n)
  BY <1>2, AskCapped
<1>3. ASSUME NEW stage, NEW k, NEW checked, request # Idle, world' = world,
             request' = [request EXCEPT !.stage = stage, !.k = k, !.checked = checked],
             request.mode \in {"direct", "native", "physical"},
             k # request.k => request.mode = "physical" /\ k \in DOMAIN request.attempts
      PROVE  Capped'
  <2> DEFINE fields == {"stage", "alias", "seen", "offer", "mode", "k", "checked", "attempts", "caps"}
  <2>1. fields \subseteq DOMAIN request
    BY <1>3 DEF Capped
  <2>2. /\ fields \subseteq DOMAIN request' /\ request'.mode = request.mode
        /\ request'.alias = request.alias /\ request'.seen = request.seen
        /\ request'.offer = request.offer /\ request'.caps = request.caps
        /\ request'.attempts = request.attempts /\ request'.k = k
    BY <1>3, <2>1
  <2>3. g' = g /\ \A m : Rules(m)' = Rules(m)
    BY <1>3 DEF Rules, g
  <2>4. request'.mode = "physical" =>
            /\ Len(request'.attempts) \in Nat /\ request'.k \in DOMAIN request'.attempts
            /\ DOMAIN request'.attempts = 1 .. Len(request'.attempts)
            /\ \A j \in DOMAIN request'.attempts :
                    Bounded(g, {request.attempts[j][1]}, request.caps[j])'
    BY <1>3, <2>2, <2>3 DEF Capped, Bounded
  <2>5. request'.mode \in {"direct", "native"} =>
            /\ request'.k = 1
            /\ request'.seen = request'.offer =>
                    Bounded(g, GatewayMembers(Rules(request.seen.manifest), request.alias),
                            request.caps[1])'
    <3>1. Bounded(g, GatewayMembers(Rules(request.seen.manifest), request.alias), request.caps[1])'
            <=> Bounded(g, GatewayMembers(Rules(request.seen.manifest), request.alias), request.caps[1])
      BY <2>2, <2>3
    <3>2. QED
      BY <1>3, <2>2, <3>1 DEF Capped
  <2>6. QED
    BY <1>3, <2>2, <2>4, <2>5 DEF Capped
<1>4. CASE Attest
  <2>1. request # Idle /\ world' = world /\ request.mode \in {"direct", "native", "physical"}
    BY <1>4 DEF Attest, Idle, Catalogued, Capped
  <2>2. CASE Rules(policy) = Rules(request.seen.manifest)
    <3>1. request' = [request EXCEPT !.stage = "attested", !.checked = policy]
      BY <1>4, <2>2 DEF Attest, mustAttest
    <3>2. request' = [request EXCEPT !.stage = "attested", !.k = request.k, !.checked = policy]
      BY <2>1, <3>1 DEF Capped
    <3>3. QED
      BY <1>3, <2>1, <3>2
  <2>3. CASE Rules(policy) # Rules(request.seen.manifest)
    <3>1. request' = [request EXCEPT !.stage = "failed"]
      BY <1>4, <2>3 DEF Attest, mustAttest
    <3>2. request' = [request EXCEPT !.stage = "failed", !.k = request.k, !.checked = request.checked]
      BY <2>1, <3>1 DEF Capped
    <3>3. QED
      BY <1>3, <2>1, <3>2
  <2>4. QED
    BY <2>2, <2>3
<1>5. CASE Dispatch
  <2>1. request # Idle /\ world' = world /\ request.mode \in {"direct", "native", "physical"}
    BY <1>5 DEF Dispatch, Idle, Catalogued, Capped
  <2>2. request' = [request EXCEPT !.stage = "sent"]
    BY <1>5 DEF Dispatch
  <2>3. request' = [request EXCEPT !.stage = "sent", !.k = request.k, !.checked = request.checked]
    BY <2>1, <2>2 DEF Capped
  <2>4. QED
    BY <1>3, <2>1, <2>3
<1>6. CASE NextAttempt
  <2>1. request # Idle /\ world' = world /\ request.mode = "physical"
    BY <1>6 DEF NextAttempt, Idle, Catalogued
  <2>2. request' = [request EXCEPT !.stage = "planned", !.k = request.k + 1, !.checked = 0]
    BY <1>6 DEF NextAttempt
  <2>3. request.k + 1 \in DOMAIN request.attempts
    <3>1. /\ Len(request.attempts) \in Nat /\ request.k \in 1 .. Len(request.attempts)
          /\ DOMAIN request.attempts = 1 .. Len(request.attempts)
      BY <2>1 DEF Capped
    <3>2. request.k < Len(request.attempts)
      BY <1>6 DEF NextAttempt
    <3>3. QED
      BY <3>1, <3>2
  <2>4. QED
    BY <1>3, <2>1, <2>2, <2>3
<1>7. CASE Finish
  BY <1>7 DEF Finish, Capped, Idle
<1>8. CASE \/ Edit \/ Sync \/ OtherSession \/ LoadCache \/ StartFetch \/ EndFetch \/ FetchFails
           \/ StartCommand \/ EndCommand \/ UNCHANGED vars
  <2>1. world' = world /\ request' = request
    BY <1>8 DEF Edit, Sync, OtherSession, LoadCache, StartFetch, EndFetch, FetchFails,
                StartCommand, EndCommand, vars
  <2>2. QED
    BY <1>1, <2>1
<1>9. QED
  BY <1>2, <1>4, <1>5, <1>6, <1>7, <1>8 DEF Next

\* The answer may never be longer than a provider that can get the request is
\* known to allow, whatever the sources tell of the models.
THEOREM CapsAreWithinCeilings == Spec => []CapWithinCeilings
<1>1. Init => Sources /\ Capped
  <2> SUFFICES ASSUME Init PROVE Sources /\ Capped
    OBVIOUS
  <2>1. 1 \in DOMAIN g.rules
    BY DeploymentAssumption DEF Init, g
  <2>2. QED
    BY <2>1 DEF Init, Sources, Fetches, Capped
<1>2. Sources /\ Capped /\ [Next]_vars => (Sources /\ Capped)'
  BY SourcesStep, CappedStep
<1>3. Capped => CapWithinCeilings
  <2> SUFFICES ASSUME Capped, Sent, Current PROVE CapWithinCeilings
    BY DEF CapWithinCeilings
  <2>1. request # Idle /\ request.stage = "sent"
    BY DEF Sent, Idle
  <2>2. request.mode \in {"direct", "native", "physical"}
    BY <2>1 DEF Capped
  <2>3. CASE request.mode = "physical"
    <3>1. Bounded(g, {request.attempts[request.k][1]}, request.caps[request.k])
      BY <2>1, <2>3 DEF Capped
    <3>2. QED
      BY <2>3, <3>1 DEF Bounded, CapWithinCeilings
  <2>4. CASE request.mode # "physical"
    <3>1. request.k = 1 /\ Bounded(g, GatewayMembers(Rules(request.seen.manifest), request.alias),
                                   request.caps[1])
      BY <2>1, <2>2, <2>4 DEF Capped, Current
    <3>2. Rules(request.seen.manifest) = Rules(policy)
      BY DEF Current
    <3>3. Bounded(g, GatewayMembers(Rules(policy), request.alias), request.caps[request.k])
      BY <3>1, <3>2
    <3>4. QED
      BY <2>4, <3>3 DEF Bounded, CapWithinCeilings
  <2>5. QED
    BY <2>3, <2>4
<1>4. QED
  BY <1>1, <1>2, <1>3, PTL DEF Spec
=============================================================================
