-------------------------- MODULE CompactBeforeSkip --------------------------
(***************************************************************************)
(* When an idle session is worth compacting (compact-before-skip.ts and    *)
(* adaptive-context-policy.mjs).  Token counts are in units of the         *)
(* instance; the fractions of the code are numerators over 100.            *)
(***************************************************************************)
EXTENDS Integers, Sequences

CONSTANTS
    Members,        \* the route profile: <<[window, output], ...>>, in order
    Reserve,        \* the profile's own maxTokens: the output reserve
    Headroom,       \* DEFAULT_CONTEXT_FIXED_HEADROOM
    Margin,         \* DEFAULT_CONTEXT_SAFETY_MARGIN, over 100
    RetryGrowth,    \* PIFROST_COMPACT_RETRY_GROWTH_TOKENS
    SoftFraction,   \* softFraction, over 100
    SoftTokens,     \* softTokens
    MinimumGrowth,  \* minimumGrowth
    IdleRetries     \* how often a busy session is looked at again

ASSUME CompactAssumption ==
    /\ Members \in Seq([window : Nat, output : Nat])
    /\ {Reserve, Headroom, Margin, SoftTokens, IdleRetries} \subseteq Nat
    /\ {RetryGrowth, MinimumGrowth} \subseteq Nat \ {0}
    /\ SoftFraction \in 1 .. 99

NoTarget == 0
NoAttempt == [target |-> NoTarget, after |-> 0]

Ceiling(n, d) == (n + d - 1) \div d
Smaller(a, b) == IF a < b THEN a ELSE b

requiredContextFromOmpUsage(tokens) ==
    Ceiling(tokens * (100 + Margin), 100) + Headroom + Reserve

\* The members a smaller input alone would bring back, and the first of them.
Recoverable(tokens) ==
    {i \in DOMAIN Members :
        /\ Members[i].window < requiredContextFromOmpUsage(tokens)
        /\ Members[i].output >= Reserve
        /\ Members[i].window > Reserve + Headroom}

Target(tokens) ==
    IF Recoverable(tokens) = {} THEN NoTarget
    ELSE CHOOSE i \in Recoverable(tokens) : \A j \in Recoverable(tokens) : i <= j

\* After an attempt that freed too little, wait until the context has grown.
Cooldown(tokens, after, growth) == tokens - after \in 0 .. growth - 1

planCompactBeforeContextSkip(tokens, last) ==
    /\ Target(tokens) # NoTarget
    /\ ~ (last.target = Target(tokens) /\ Cooldown(tokens, last.after, RetryGrowth))

adaptiveThreshold(window) == Smaller((window * SoftFraction) \div 100, SoftTokens)

planAdaptiveContextMaintenance(tokens, window, last) ==
    /\ tokens < window
    /\ tokens >= adaptiveThreshold(window)
    /\ ~ (last.target = window /\ Cooldown(tokens, last.after, MinimumGrowth))

\* The scheduler's state for a session manager.  A timer stands for the
\* callback OMP holds; `work` is the plan a started compaction was made for.
Scheduler == [scheduled : BOOLEAN, inFlight : BOOLEAN,
              lastAttempt : [target : Nat, after : Nat],
              lastAdaptiveAttempt : [target : Nat, after : Nat]]
Unscheduled == [scheduled |-> FALSE, inFlight |-> FALSE,
                lastAttempt |-> NoAttempt, lastAdaptiveAttempt |-> NoAttempt]

\* Mutation: a running compaction does not hold back the next request.
mayScheduleInFlight(c) == ~ c.scheduled

\* Event handlers may ask at any time; only the first request counts.
maySchedule(c) == ~ c.scheduled /\ ~ c.inFlight

schedule(c) == [c EXCEPT !.scheduled = TRUE]

giveUp(c) == [c EXCEPT !.scheduled = FALSE]

\* A run throws: the first timer's catch resets both flags, that of a retry
\* leaves them as they are.
runFails(c, first) ==
    IF first THEN [c EXCEPT !.scheduled = FALSE, !.inFlight = FALSE] ELSE c

compactStarts(c) == [c EXCEPT !.scheduled = FALSE, !.inFlight = TRUE]

\* The finally block: whatever compact() did, the attempts are remembered, if
\* the context that is left can be read.
compactEnds(c, plan, after) ==
    [c EXCEPT !.inFlight = FALSE,
              !.lastAttempt = IF plan.route = NoTarget THEN @
                              ELSE [target |-> plan.route, after |-> after],
              !.lastAdaptiveAttempt = IF plan.window = NoTarget THEN @
                              ELSE [target |-> plan.window, after |-> after]]
=============================================================================
