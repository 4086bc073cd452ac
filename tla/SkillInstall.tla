---------------------------- MODULE SkillInstall ----------------------------
(***************************************************************************)
(* One Bifrost Skill in a repository's .agents/skills (skills-bridge.mjs   *)
(* and the `pifrost repo skills` commands of cli.mjs).  An install fetches *)
(* the Skill, checks the directory it will replace, builds the new one in  *)
(* a dot-directory beside it, downloads the attached files and swaps the   *)
(* two by renames.  Between any two of these steps another process or the  *)
(* user may change the directory, Bifrost may publish, and the process may *)
(* be killed, which leaves its dot-directories behind.                     *)
(***************************************************************************)
EXTENDS Integers, FiniteSets

CONSTANTS
    Installers,     \* `pifrost` processes
    MaxEdition,     \* bound: editions Bifrost publishes
    MaxUses         \* bound: commands, edits of the user and publications

ASSUME SkillAssumption == MaxEdition \in Nat \ {0} /\ MaxUses \in Nat

VARIABLES
    upstream,   \* the Skill Bifrost serves: its id and edition
    target,     \* .agents/skills/<name>
    elsewhere,  \* another root has a Skill of this name
    row,        \* the repository's bifrostSkills names it
    installer,  \* what each process holds
    leftovers,  \* dot-directories no process owns any more
    uses,
    kept        \* history: installed, and no removal has started since

skillVars == <<upstream, target, elsewhere, row, installer, leftovers, uses, kept>>

SkillIds == 1 .. 2
NoId == 0

\* A directory: its marker (NoId if it has none), whether the marker records the
\* hashes of the files (those of older releases do not), the edition of its
\* SKILL.md and marker, that of its attached files, and whether its content is
\* what was written.
None == [id |-> NoId, hashed |-> FALSE, edition |-> 0, files |-> 0, state |-> "none"]
Legacy == [id |-> 1, hashed |-> FALSE, edition |-> 1, files |-> 1, state |-> "clean"]
States == {"clean", "edited", "cut"}

Resting == [at |-> "rest", force |-> FALSE, bundle |-> [id |-> NoId, edition |-> 0],
            staging |-> None, backup |-> None]

Working(i) == installer[i].at # "rest"
Doing(i, step) == installer[i].at = step
Goes(i, step) == [installer EXCEPT ![i].at = step]

\* What a process that ends without cleaning up leaves.
Left(i) == leftovers \cup ({installer[i].staging, installer[i].backup} \ {None})

\* readBifrostSkillMarker.
Owned(d) == d.id # NoId

\* Without recorded hashes there is nothing to compare with.
managedBifrostSkillIntegrity(d) ==
    CASE ~ Owned(d) -> "unmanaged"
      [] Owned(d) /\ ~ d.hashed -> "unverified"
      [] Owned(d) /\ d.hashed -> IF d.state = "clean" THEN "clean" ELSE "modified"

Modified(d) == managedBifrostSkillIntegrity(d) = "modified"

\* findOmpSkillCollisions, apart from the target: every directory of a Skill
\* root that holds a SKILL.md of this name, a dot-directory of an install too.
Collides(i) ==
    \/ elsewhere
    \/ leftovers # {}
    \/ \E j \in Installers \ {i} : installer[j].staging # None \/ installer[j].backup # None

-----------------------------------------------------------------------------
(* Commands.                                                               *)

Use == uses < MaxUses /\ uses' = uses + 1

\* The Skill of this name, as a command finds it before it looks any further.
listBifrostSkills == upstream

\* skills add and skills sync.
Install(i, force) ==
    /\ ~ Working(i) /\ Use
    /\ installer' = [installer EXCEPT ![i] = [Resting EXCEPT !.at = "fetch", !.force = force,
                                                             !.bundle = listBifrostSkills]]
    /\ UNCHANGED <<upstream, target, elsewhere, row, leftovers, kept>>

\* An MCP command with --install-matching-skills, after its grant: it leaves
\* whatever is there already alone.
offerMatchingMcpSkills(i) ==
    /\ target = None /\ ~ Collides(i)
    /\ Install(i, FALSE)

Remove(i, force) ==
    /\ ~ Working(i) /\ row /\ Use
    /\ installer' = [installer EXCEPT ![i] = [Resting EXCEPT !.at = "look", !.force = force]]
    /\ UNCHANGED <<upstream, target, elsewhere, row, leftovers, kept>>

\* repo reset removes every Skill of the repository, unforced.
Reset(i) ==
    /\ ~ Working(i) /\ row /\ Use
    /\ installer' = [installer EXCEPT ![i] = [Resting EXCEPT !.at = "preflight"]]
    /\ UNCHANGED <<upstream, target, elsewhere, row, leftovers, kept>>

Quits(i) == installer' = [installer EXCEPT ![i] = Resting]

\* fetchBifrostSkillBundle: the Skill of the id that was listed, as it is now.
Fetch(i) ==
    /\ Doing(i, "fetch")
    /\ IF upstream.id = installer[i].bundle.id
       THEN installer' = [installer EXCEPT ![i].at = "check", ![i].bundle = upstream]
       ELSE Quits(i)
    /\ UNCHANGED <<upstream, target, elsewhere, row, leftovers, uses, kept>>

\* installBifrostSkillBundle before its first write.
MayReplace(i) ==
    /\ Owned(target) /\ target.id # installer[i].bundle.id => installer[i].force
    /\ Modified(target) => installer[i].force
    /\ target # None => Owned(target)
    /\ ~ Collides(i)

Check(i) ==
    /\ Doing(i, "check")
    /\ IF MayReplace(i) THEN installer' = Goes(i, "stage") ELSE Quits(i)
    /\ UNCHANGED <<upstream, target, elsewhere, row, leftovers, uses, kept>>

Stage(i) ==
    LET b == installer[i].bundle IN
    /\ Doing(i, "stage")
    /\ installer' = [installer EXCEPT ![i].at = "download",
                       ![i].staging = [None EXCEPT !.edition = b.edition, !.state = "cut"]]
    /\ UNCHANGED <<upstream, target, elsewhere, row, leftovers, uses, kept>>

\* The files, served by name at their newest edition; their hashes; the marker.
Download(i) ==
    LET b == installer[i].bundle IN
    /\ Doing(i, "download")
    /\ installer' = [installer EXCEPT ![i].at = "aside",
                       ![i].staging = [id |-> b.id, hashed |-> TRUE, edition |-> b.edition,
                                       files |-> upstream.edition, state |-> "clean"]]
    /\ UNCHANGED <<upstream, target, elsewhere, row, leftovers, uses, kept>>

\* A download fails, exceeds a limit or times out: the staging tree goes.
DownloadFails(i) ==
    /\ Doing(i, "download")
    /\ Quits(i)
    /\ UNCHANGED <<upstream, target, elsewhere, row, leftovers, uses, kept>>

\* Mutation: the directory in the way is removed, not renamed.
SetAsideRemoves(d) == None

SetAside(d) == d

MoveAside(i) ==
    /\ Doing(i, "aside")
    /\ installer' = [installer EXCEPT ![i].at = "promote", ![i].backup = SetAside(target)]
    /\ target' = None
    /\ UNCHANGED <<upstream, elsewhere, row, leftovers, uses, kept>>

\* The staging tree becomes the target.  Another process may have been faster:
\* then the rename fails, and the backup stays since the target exists.
Promote(i) ==
    /\ Doing(i, "promote")
    /\ IF target = None
       THEN /\ target' = installer[i].staging
            /\ installer' = [installer EXCEPT ![i].at = "clean", ![i].staging = None]
            /\ kept' = TRUE
            /\ UNCHANGED leftovers
       ELSE /\ leftovers' = leftovers \cup ({installer[i].backup} \ {None})
            /\ Quits(i)
            /\ UNCHANGED <<target, kept>>
    /\ UNCHANGED <<upstream, elsewhere, row, uses>>

Clean(i) ==
    /\ Doing(i, "clean")
    /\ installer' = [installer EXCEPT ![i].at = "save", ![i].backup = None]
    /\ UNCHANGED <<upstream, target, elsewhere, row, leftovers, uses, kept>>

\* upsertConfiguredSkill.
SaveRow(i) ==
    /\ Doing(i, "save")
    /\ row' = TRUE
    /\ Quits(i)
    /\ UNCHANGED <<upstream, target, elsewhere, leftovers, uses, kept>>

\* Every local target is judged before reset deletes the remote key.
preflightLocalRepoReset(i) ==
    /\ Doing(i, "preflight")
    /\ IF target = None \/ managedBifrostSkillIntegrity(target) = "clean"
       THEN installer' = Goes(i, "look") ELSE Quits(i)
    /\ UNCHANGED <<upstream, target, elsewhere, row, leftovers, uses, kept>>

\* removeManagedBifrostSkill.
Look(i) ==
    /\ Doing(i, "look")
    /\ IF target = None THEN installer' = Goes(i, "forget") /\ UNCHANGED kept
       ELSE IF Owned(target) /\ (Modified(target) => installer[i].force)
       THEN installer' = Goes(i, "rm") /\ kept' = FALSE
       ELSE Quits(i) /\ UNCHANGED kept
    /\ UNCHANGED <<upstream, target, elsewhere, row, leftovers, uses>>

Rm(i) ==
    /\ Doing(i, "rm")
    /\ target' = None
    /\ kept' = FALSE
    /\ installer' = Goes(i, "forget")
    /\ UNCHANGED <<upstream, elsewhere, row, leftovers, uses>>

\* A removal that is killed half way, its marker removed already or not.
RmStops(i) ==
    /\ Doing(i, "rm") /\ target # None
    /\ \E id \in {target.id, NoId} : target' = [target EXCEPT !.id = id, !.state = "cut"]
    /\ kept' = FALSE
    /\ Quits(i)
    /\ UNCHANGED <<upstream, elsewhere, row, leftovers, uses>>

DropRow(i) ==
    /\ Doing(i, "forget")
    /\ row' = FALSE
    /\ Quits(i)
    /\ UNCHANGED <<upstream, target, elsewhere, leftovers, uses, kept>>

Killed(i) ==
    /\ Working(i)
    /\ leftovers' = Left(i)
    /\ Quits(i)
    /\ UNCHANGED <<upstream, target, elsewhere, row, uses, kept>>

-----------------------------------------------------------------------------
(* The user and Bifrost.                                                   *)

UserEdits ==
    /\ target # None /\ target.state = "clean" /\ Use
    /\ target' = [target EXCEPT !.state = "edited"]
    /\ UNCHANGED <<upstream, elsewhere, row, installer, leftovers, kept>>

UserAuthors ==
    /\ target = None /\ Use
    /\ target' = [None EXCEPT !.state = "edited"]
    /\ UNCHANGED <<upstream, elsewhere, row, installer, leftovers, kept>>

UserAuthorsElsewhere ==
    /\ ~ elsewhere /\ Use
    /\ elsewhere' = TRUE
    /\ UNCHANGED <<upstream, target, row, installer, leftovers, kept>>

Publishes ==
    /\ upstream.edition < MaxEdition /\ Use
    /\ \E id \in SkillIds : upstream' = [id |-> id, edition |-> upstream.edition + 1]
    /\ UNCHANGED <<target, elsewhere, row, installer, leftovers, kept>>

-----------------------------------------------------------------------------
\* Nothing is installed, or an older release has installed the Skill.
SkillInit ==
    /\ upstream = [id |-> 1, edition |-> 1]
    /\ target \in {None, Legacy}
    /\ elsewhere = FALSE
    /\ row = (target = Legacy)
    /\ installer = [i \in Installers |-> Resting]
    /\ leftovers = {}
    /\ uses = 0
    /\ kept = row

SkillStep(i) ==
    \/ \E force \in BOOLEAN : Install(i, force) \/ Remove(i, force)
    \/ offerMatchingMcpSkills(i) \/ Reset(i) \/ preflightLocalRepoReset(i)
    \/ Fetch(i) \/ Check(i) \/ Stage(i) \/ Download(i) \/ DownloadFails(i)
    \/ MoveAside(i) \/ Promote(i) \/ Clean(i) \/ SaveRow(i)
    \/ Look(i) \/ Rm(i) \/ RmStops(i) \/ DropRow(i) \/ Killed(i)

SkillNext ==
    \/ \E i \in Installers : SkillStep(i)
    \/ UserEdits \/ UserAuthors \/ UserAuthorsElsewhere \/ Publishes

SkillSpec == SkillInit /\ [][SkillNext]_skillVars

Dirs == [id : SkillIds \cup {NoId}, hashed : BOOLEAN, edition : 0 .. MaxEdition,
         files : 0 .. MaxEdition, state : States \cup {"none"}]

SkillTypeOK ==
    /\ upstream \in [id : SkillIds, edition : 1 .. MaxEdition]
    /\ target \in Dirs /\ leftovers \subseteq Dirs
    /\ elsewhere \in BOOLEAN /\ row \in BOOLEAN /\ kept \in BOOLEAN
    /\ uses \in 0 .. MaxUses
    /\ \A i \in Installers : installer[i].staging \in Dirs /\ installer[i].backup \in Dirs

-----------------------------------------------------------------------------
\* README.md:113, "Sync refuses to overwrite a locally modified Skill unless
\* explicitly forced": an unforced command that has put a new copy in place never
\* has an edited Skill of Pifrost's to discard.  Violated: a Skill that an older
\* release installed has no hashes to tell an edit by (skills-bridge.mjs:309), and
\* an edit made after the check goes with the directory that is set aside.
EditsSurvive ==
    \A i \in Installers :
        LET old == installer[i].backup IN
        Doing(i, "clean") /\ Owned(old) /\ old.state = "edited" => installer[i].force

\* An installed Skill is never lost to a failed or killed update or to two at
\* once: until a removal starts, a complete copy of some edition is in the
\* repository, if only in a dot-directory.
SkillKept ==
    kept => \E d \in {target} \cup leftovers \cup
                      UNION {{installer[i].staging, installer[i].backup} : i \in Installers} :
                Owned(d) /\ d.state # "cut"
=============================================================================
