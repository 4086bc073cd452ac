------------------------------- MODULE MCRepo -------------------------------
(***************************************************************************)
(* What `pifrost` commands keep outside the process: the repository's key, *)
(* its Skills and OMP's files.  The three specifications share no state,   *)
(* so one run explores them side by side: `part` says which of the three a *)
(* behaviour is about.                                                     *)
(***************************************************************************)
EXTENDS RepoVirtualKey, SkillInstall, OmpFiles, TLC

VARIABLE part

\* Procs, Installers and Runners are the same two processes.
Symmetry == Permutations(Repos) \cup Permutations(Procs)

Plain == [clients |-> Unset, bundles |-> Unset, rotate |-> FALSE, delete |-> FALSE]
ChoicesValue ==
    {Plain, [Plain EXCEPT !.clients = Clients], [Plain EXCEPT !.bundles = Bundles],
     [Plain EXCEPT !.clients = {}, !.bundles = {}, !.rotate = TRUE],
     [Plain EXCEPT !.delete = TRUE]}

MCInit == part \in {"key", "skill", "files"} /\ Init /\ SkillInit /\ OmpInit
MCNext ==
    /\ UNCHANGED part
    /\ \/ part = "key" /\ Next /\ UNCHANGED <<skillVars, ompVars>>
       \/ part = "skill" /\ SkillNext /\ UNCHANGED <<vars, ompVars>>
       \/ part = "files" /\ OmpNext /\ UNCHANGED <<vars, skillVars>>
MCSpec == MCInit /\ [][MCNext]_<<vars, skillVars, ompVars, part>>
=============================================================================
