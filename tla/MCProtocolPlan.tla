---------------------------- MODULE MCProtocolPlan ----------------------------
(***************************************************************************)
(* What a session awaits must end: the request of a plan, and the check of *)
(* the routes before a prompt.  They share no state, so `part` says which  *)
(* of the two a behaviour is about; where it is about the check, the       *)
(* request has failed at once, in its attestation.                         *)
(***************************************************************************)
EXTENDS ProtocolPlan, RouteReconcile

VARIABLE part

MCInit ==
    /\ part \in {"request", "check"}
    /\ Init /\ ReconcileInit
    /\ IF part = "check" THEN kind = "physical-compatibility" ELSE manifest = 0
MCNext ==
    /\ UNCHANGED part
    /\ \/ part = "request" /\ Next /\ UNCHANGED reconcileVars
       \/ part = "check" /\ over = "no" /\ AttestFails /\ UNCHANGED reconcileVars
       \/ part = "check" /\ over # "no" /\ ReconcileNext /\ UNCHANGED vars

MCSpec ==
    /\ MCInit /\ [][MCNext]_<<vars, reconcileVars, part>>
    /\ Fairness /\ ReconcileFairness
=============================================================================
