--------------------------- MODULE ModelResolution ---------------------------
(***************************************************************************)
(* Which live model a route's reference names (model-resolution.ts).  A    *)
(* reference or model id is the sequence of its parts between slashes, in  *)
(* the normalized spelling; what the tables of the code say of a part is   *)
(* given by constants.                                                     *)
(***************************************************************************)
EXTENDS Integers, SequencesExt

CONSTANTS
    Aggregators,    \* AGGREGATOR_QUALIFIERS: parts that only resell models
    Vendor,         \* canonicalVendor: the vendor each qualifier stands for
    Family,         \* canonicalModelFamily: of each last part, without its
                    \* routing variant
    ByLength        \* all model ids, shorter ones first, then alphabetically

NoVendor == "no vendor"
Suffix(r, i) == SubSeq(r, i, Len(r))
progressivePaths(r) == {Suffix(r, i) : i \in DOMAIN r}

\* Leading aggregators are dropped, but never the last part.
Unwrapped(r) == Suffix(r, Min({i \in DOMAIN r : i = Len(r) \/ r[i] \notin Aggregators}))

identity(r) ==
    LET parts == Unwrapped(r)
        n == Len(parts)
    IN  [family |-> Family[parts[n]],
         vendor |-> IF n >= 2 /\ parts[n - 1] \notin Aggregators
                    THEN Vendor[parts[n - 1]] ELSE NoVendor]

\* Mutation: another vendor's model of the same name will do.
vendorsIgnored(left, right) == TRUE

vendorsCompatible(left, right) ==
    NoVendor \in {left.vendor, right.vendor} \/ left.vendor = right.vendor

sameModel(left, right) == left.family = right.family /\ vendorsCompatible(left, right)
equivalentModelId(left, right) == sameModel(identity(left), identity(right))

\* The longest common path counts; what precedes it on either side costs.
pathScore(reference, id, common) ==
    LET n == Max({Len(p) : p \in common})
    IN  IF common = {} THEN 500
        ELSE (IF n >= 2 THEN 900 ELSE 700) - 10 * (Len(reference) - n) - 5 * (Len(id) - n)

matchScore(reference, id) ==
    IF reference = id THEN 1000
    ELSE IF equivalentModelId(reference, id)
         THEN pathScore(reference, id, progressivePaths(reference) \cap progressivePaths(id))
         ELSE -1

rank(id) == CHOOSE n \in DOMAIN ByLength : ByLength[n] = id
Shortest(ids) == ByLength[Min({rank(id) : id \in ids})]
Unresolved(reason) == [found |-> FALSE, id |-> <<>>, reason |-> reason]

\* Candidates of the best score must all be equivalent to the first of them.
bestOf(ids, scores) ==
    LET best == Max({scores[i] : i \in DOMAIN ids} \cup {-1})
        tied == SelectSeq(ids, LAMBDA id : \E i \in DOMAIN ids : ids[i] = id /\ scores[i] = best)
    IN  CASE best < 0 -> Unresolved("no-match")
          [] best >= 0 /\ \E i \in DOMAIN tied : ~ equivalentModelId(tied[1], tied[i]) ->
                Unresolved("ambiguous")
          [] OTHER -> [found |-> TRUE, reason |-> "", id |-> Shortest(ToSet(tied))]

resolveModelReference(reference, ids) ==
    bestOf(ids, [i \in DOMAIN ids |-> matchScore(reference, ids[i])])
=============================================================================
