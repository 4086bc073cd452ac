------------------------------ MODULE MCRecovery ------------------------------
(***************************************************************************)
(* The recovery that runs by itself when a turn stops, the one the         *)
(* operator asks for, the account of whose requests they all were, and     *)
(* what else a session does when a turn has settled.  They share no state, *)
(* so one run explores them side by side: `part` says which of the four a  *)
(* behaviour is about.                                                     *)
(***************************************************************************)
EXTENDS MCSessionStop, RecoveryFork, AgentAttribution, IdleSession, TLC

CONSTANTS
    MaxChanges      \* bound: plans begun on a branch and moves together

VARIABLE part

AnyBranch == CHOOSE s \in Branches : TRUE

MembersValue == <<[window |-> 3, output |-> 1], [window |-> 4, output |-> 1],
                  [window |-> 2, output |-> 1]>>
\* Automatic and advisory follow-ups; the other pairs switch both parts off.
AutoMode == [stalled |-> "auto", intelligent |-> "auto"]
ModesValue == {AutoMode, [AutoMode EXCEPT !.stalled = "notice"],
               [stalled |-> "notice", intelligent |-> "notice"]}

MCInit ==
    /\ part \in {"stop", "fork", "agents", "idle"}
    /\ Init /\ ForkInit /\ AttributionInit /\ IdleInit
    /\ part # "fork" => omp.branch = AnyBranch
    /\ part # "idle" => mode = AutoMode
MCNext ==
    /\ UNCHANGED part
    /\ \/ /\ part = "stop" /\ Next /\ UNCHANGED <<forkVars, attributionVars, idleVars>>
          /\ Cardinality(Anchors(branch')) + moves' <= MaxChanges
       \/ part = "fork" /\ ForkNext /\ UNCHANGED <<vars, attributionVars, idleVars>>
       \/ part = "agents" /\ AttributionNext /\ UNCHANGED <<vars, forkVars, idleVars>>
       \/ part = "idle" /\ IdleNext /\ UNCHANGED <<vars, forkVars, attributionVars>>

\* Handlers and sessions are compared for equality only.
Symmetry == Permutations(Handlers) \cup Permutations(Sessions)

MCSpec == MCInit /\ [][MCNext]_<<vars, forkVars, attributionVars, idleVars, part>>
=============================================================================
