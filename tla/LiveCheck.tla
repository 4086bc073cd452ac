------------------------------ MODULE LiveCheck ------------------------------
(***************************************************************************)
(* What a live attestation promises the session that asks for one before   *)
(* it sends a request to physical route members (streamDynamicPifrostRoute *)
(* and assertLiveCompatibilityAttestation): between the question and the   *)
(* dispatch there is a moment at which the gateway's policy is exactly the *)
(* policy the session's profile was built from.  It promises nothing about *)
(* the policy at the dispatch itself, and it may always refuse.            *)
(***************************************************************************)
VARIABLES
    policy,         \* the gateway's policy
    profile,        \* the policy the session's models were built from
    stage

vars == <<policy, profile, stage>>

Init == stage = "idle"

\* To any policy.
Edit == UNCHANGED <<profile, stage>>

Ask ==
    /\ stage = "idle"
    /\ stage' = "asked"
    /\ UNCHANGED <<policy, profile>>

Check ==
    /\ stage = "asked"
    /\ stage' = IF policy = profile THEN "live" ELSE "blocked"
    /\ UNCHANGED <<policy, profile>>

Refuse ==
    /\ stage \in {"asked", "live"}
    /\ stage' = "blocked"
    /\ UNCHANGED <<policy, profile>>

Dispatch ==
    /\ stage = "live"
    /\ stage' = "sent"
    /\ UNCHANGED <<policy, profile>>

Next == Edit \/ Ask \/ Check \/ Refuse \/ Dispatch
Spec == Init /\ [][Next]_vars
=============================================================================
