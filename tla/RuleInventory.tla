---------------------------- MODULE RuleInventory ----------------------------
(***************************************************************************)
(* Reading the gateway's routing rules page by page while somebody edits   *)
(* them (routing-discovery.mjs), and the attestation built on two such     *)
(* reads (attestCompatibilityRoute, assertLiveCompatibilityAttestation):   *)
(* no read is atomic and none locks the gateway, yet a request only leaves *)
(* for physical members if the policy was, at one moment since the         *)
(* question, the one the session's profile was built from.                 *)
(*                                                                         *)
(* A rule is its id and a version; an edit gives the rule a version no     *)
(* rule had before.  Which rules route the alias is decided by their ids.  *)
(***************************************************************************)
EXTENDS Integers, SequencesExt

CONSTANTS
    Ids,            \* of rules
    AliasIds,       \* of the rules that route the alias, dynamically
    PageLimit,      \* rules on a page: 100 in the code
    MaxRules,       \* bound: rules the gateway has
    MaxRuleEdits    \* bound: edits of the policy

ASSUME InventoryAssumption ==
    /\ AliasIds \subseteq Ids
    /\ PageLimit \in Nat \ {0}
    /\ MaxRules \in Nat /\ MaxRuleEdits \in Nat

VARIABLES
    ruleRows,       \* the gateway: its rules in the order it lists them
    ruleEdits,      \* the gateway: how many edits there have been
    answering,      \* the gateway: the paths it answers on, and its counts
    profiled,       \* the session: the fingerprint of its profile's policy
    paging,         \* the child process: the read under way
    attesting,      \* the child process and the session that waits for it
    firstCapture,   \* the child process: its first capture
    unedited,       \* history: no edit since the attestation began
    wasProfile      \* history: the policy was the profile's when the first
                    \* capture was complete

gateway == <<ruleRows, ruleEdits, answering>>
inventoryVars == <<gateway, profiled, paging, attesting, firstCapture, unedited, wasProfile>>

Apis == [paths : {"both", "legacy", "emptyCanonical"}, counts : BOOLEAN]
Distinct(s) == \A i, j \in DOMAIN s : s[i].id = s[j].id => i = j

\* Rows are sorted before they are hashed: their order does not count, how
\* often each was read does.
routePolicyFingerprint(rows) ==
    [r \in ToSet(rows) |-> Cardinality({i \in DOMAIN rows : rows[i] = r})]

Start(path) == [path |-> path, rows |-> <<>>, seen |-> {}]
NoRead == Start("none")

-----------------------------------------------------------------------------
(* The gateway *)

InventoryInit ==
    /\ ruleRows \in {s \in BoundedSeq([id : Ids, version : {0}], MaxRules) : Distinct(s)}
    /\ ruleEdits = 0
    /\ answering \in Apis
    /\ profiled = routePolicyFingerprint(ruleRows)
    /\ paging = NoRead /\ attesting = "idle" /\ firstCapture = <<>>
    /\ unedited = TRUE /\ wasProfile = FALSE

EditRules ==
    /\ ruleEdits < MaxRuleEdits
    /\ ruleEdits' = ruleEdits + 1
    /\ \/ \E i \in 1 .. Len(ruleRows) + 1, d \in Ids :
            /\ Len(ruleRows) < MaxRules
            /\ \A j \in DOMAIN ruleRows : ruleRows[j].id # d
            /\ ruleRows' = InsertAt(ruleRows, i, [id |-> d, version |-> ruleEdits'])
       \/ \E i \in DOMAIN ruleRows :
            \/ ruleRows' = [ruleRows EXCEPT ![i].version = ruleEdits']
            \/ ruleRows' = RemoveAt(ruleRows, i)
    /\ unedited' = FALSE
    /\ UNCHANGED <<answering, profiled, paging, attesting, firstCapture, wasProfile>>

PageAt(offset) == SubSeq(ruleRows, offset + 1, Min({offset + PageLimit, Len(ruleRows)}))
Shown(path) == ~ (path = "canonical" /\ answering.paths = "emptyCanonical")
Total(path) == IF Shown(path) THEN Len(ruleRows) ELSE 0

-----------------------------------------------------------------------------
(* One page: fetchRoutingPages *)

\* Mutation: a body without a total is taken for the whole inventory.
pageVerdictOnePage(total, got, page, repeated) ==
    CASE repeated -> "refuse"
      [] ~ repeated /\ Len(got) >= total -> "end"
      [] ~ repeated /\ Len(got) < total -> IF answering.counts THEN "more" ELSE "end"

\* total is what this page's body reports, got the rules read with it.
pageVerdict(total, got, page, repeated) ==
    CASE repeated -> "refuse"
      [] ~ repeated /\ answering.counts /\ Len(got) >= total -> "end"
      [] ~ repeated /\ (answering.counts => Len(got) < total) /\ Len(page) < PageLimit ->
            IF answering.counts THEN "refuse" ELSE "end"
      [] OTHER -> "more"

nextOffset(r) == Len(r.rows)

\* discoverRoutingRules: a canonical answer with rules is authoritative, an
\* empty one or 404/405 leads to the legacy path.
Restarted == paging' = Start("legacy") /\ UNCHANGED <<attesting, firstCapture, wasProfile, unedited>>

Block ==
    /\ attesting' = "blocked" /\ paging' = NoRead
    /\ UNCHANGED <<firstCapture, wasProfile, unedited>>

\* deriveAliases marks an alias as dynamic if one rule routes it.
Compatible(rows) == Cardinality({i \in DOMAIN rows : rows[i].id \in AliasIds}) = 1

\* Mutation: one capture is enough.
CapturedOnce(rows) ==
    IF rows = <<>> \/ ~ Compatible(rows) THEN Block
    ELSE /\ firstCapture' = routePolicyFingerprint(rows)
         /\ paging' = NoRead
         /\ attesting' = IF firstCapture' = profiled THEN "live" ELSE "blocked"
         /\ wasProfile' = (routePolicyFingerprint(ruleRows) = profiled)
         /\ UNCHANGED unedited

\* captureRouteSnapshot refuses an empty inventory; the second capture must
\* equal the first, and the session compares it with its profile.
Captured(rows) ==
    IF rows = <<>> THEN Block
    ELSE \/ /\ attesting = "first"
            /\ firstCapture' = routePolicyFingerprint(rows)
            /\ wasProfile' = (routePolicyFingerprint(ruleRows) = profiled)
            /\ attesting' = "second" /\ paging' = Start("canonical")
            /\ UNCHANGED unedited
         \/ /\ attesting = "second"
            /\ attesting' = IF /\ routePolicyFingerprint(rows) = firstCapture
                           /\ Compatible(rows)
                           /\ firstCapture = profiled
                        THEN "live" ELSE "blocked"
            /\ paging' = NoRead
            /\ UNCHANGED <<firstCapture, wasProfile, unedited>>

ReadPage ==
    /\ attesting \in {"first", "second"}
    /\ UNCHANGED <<gateway, profiled>>
    /\ IF paging.path = "canonical" /\ answering.paths = "legacy" THEN Restarted
       ELSE LET page == IF Shown(paging.path) THEN PageAt(nextOffset(paging)) ELSE <<>>
                ids == [i \in DOMAIN page |-> page[i].id]
                got == paging.rows \o page
                verdict == pageVerdict(Total(paging.path), got, page, ids \in paging.seen)
            IN  \/ verdict = "refuse" /\ Block
                \/ /\ verdict = "more"
                   /\ paging' = [paging EXCEPT !.rows = got, !.seen = @ \cup {ids}]
                   /\ UNCHANGED <<attesting, firstCapture, unedited, wasProfile>>
                \/ /\ verdict = "end"
                   /\ IF paging.path = "canonical" /\ got = <<>> THEN Restarted
                      ELSE Captured(got)

-----------------------------------------------------------------------------
(* The session *)

AskAttestation ==
    /\ attesting = "idle"
    /\ attesting' = "first" /\ paging' = Start("canonical") /\ unedited' = TRUE
    /\ UNCHANGED <<gateway, profiled, firstCapture, wasProfile>>

\* A request fails or its body has no list, the child is killed after twelve
\* seconds, or its answer is too old when it is read.
AttestFails ==
    /\ attesting \in {"first", "second", "live"}
    /\ Block
    /\ UNCHANGED <<gateway, profiled>>

DispatchLive ==
    /\ attesting = "live"
    /\ attesting' = "sent"
    /\ UNCHANGED <<gateway, profiled, paging, firstCapture, unedited, wasProfile>>

InventoryNext == EditRules \/ AskAttestation \/ ReadPage \/ AttestFails \/ DispatchLive
InventorySpec == InventoryInit /\ [][InventoryNext]_inventoryVars

-----------------------------------------------------------------------------
(* Properties *)

\* Although pages are read one by one while rules are inserted, removed and
\* changed, the attestation is an atomic look at the whole policy: it took
\* place when the first capture was complete, or it refuses.
Live == INSTANCE LiveCheck WITH
    policy <- routePolicyFingerprint(ruleRows),
    profile <- profiled,
    stage <- CASE attesting = "first" -> "asked"
               [] attesting = "second" -> IF wasProfile THEN "live" ELSE "blocked"
               [] OTHER -> attesting
AttestationIsAtomic == Live!Spec

\* A read that no edit interferes with returns every rule once: whichever path
\* the gateway answers on and wherever its page limit cuts, with or without a
\* total, the inventory is the policy or is not accepted.
QuietReadIsComplete ==
    unedited /\ attesting = "second" => firstCapture = routePolicyFingerprint(ruleRows)
=============================================================================
