------------------------ MODULE MCCheckpointLifecycle ------------------------
(***************************************************************************)
(* What sessions write for each other to read: the journal and the file of *)
(* a checkpoint, and the alias manifest with the models built from it.     *)
(* They share no state, so `part` says what a behaviour is about: the      *)
(* short branches of two sessions that are rewound, forked, switched and   *)
(* restarted, the long branches of one session that nothing disturbs, the  *)
(* disk included, or the checks of the routes.                             *)
(***************************************************************************)
EXTENDS CheckpointLifecycle, RouteReconcile, TLC

CONSTANTS
    ShortBranch     \* bound: entries of a branch of the first part

VARIABLE part

MCInit ==
    /\ part \in {"moves", "long", "checks"}
    /\ Init /\ ReconcileInit
    /\ part # "checks" => manifest = 0

MCNext ==
    /\ UNCHANGED part
    /\ IF part = "checks"
       THEN ReconcileNext /\ UNCHANGED vars
       ELSE /\ Next
            /\ part = "moves" => Len(branch') <= ShortBranch
            /\ part = "long" => moves' = 0 /\ noticed' = {}
            /\ UNCHANGED reconcileVars

\* Sessions, prompts and processes are compared for equality only.
Symmetry == Permutations(Sessions) \cup Permutations(Prompts) \cup Permutations(Procs)

MCSpec == MCInit /\ [][MCNext]_<<vars, reconcileVars, part>>

=============================================================================
