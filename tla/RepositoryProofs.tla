--------------------------- MODULE RepositoryProofs ---------------------------
(***************************************************************************)
(* Proofs about what `pifrost` commands keep outside the process, for any  *)
(* number of processes whose commands overlap and die anywhere, and of     *)
(* repositories: OMP's files (OmpFiles), a Skill (SkillInstall) and a      *)
(* repository's Virtual Key (RepoVirtualKey).  The three specifications    *)
(* share no state and each has its own invariant.                          *)
(***************************************************************************)
EXTENDS RepoVirtualKey, SkillInstall, OmpFiles, FiniteSetTheorems,
        SequenceTheorems, TLAPS

-----------------------------------------------------------------------------
(* OMP's files.                                                            *)

PaletteSteps == {"palette", "record", "remove", "remove record"}
ConfigSteps == {"prepare", "set", "journal", "restore", "forget", "approve"}

Roles == [legacy : BOOLEAN, user : Nat]
HeldRoles == Roles \cup {NoRoles}
Held == [at : {"ready", "rename"} \cup PaletteSteps \cup ConfigSteps,
         file : Files \cup {"none"}, api : Apis \cup {"none"}, read : Nat, backup : HeldRoles]

OmpTypeOK ==
    /\ shipped \in 1 .. 2
    /\ palette \in [edition : 0 .. 2, user : Nat]
    /\ record \in 0 .. 2
    /\ models \in [block : Apis \cup {"none", "edited", "theirs"}, user : Nat]
    /\ roles \in Roles
    /\ journal \in [backup : HeldRoles, after : HeldRoles]
    /\ runner \in [Runners -> Held]
    /\ runs \in 0 .. MaxRuns
    /\ edits \in 0 .. MaxEdits
    /\ settled \in [Files -> Nat]

\* What a runner holds: it is at work on the file of its step, and nothing that
\* it may still write back is older than that file's last settled edit, since no
\* edit settles while it is at work.
Fits(h) ==
    /\ h \in Held
    /\ h.at \in PaletteSteps => h.file = "palette"
    /\ h.at = "rename" => h.file = "models"
    /\ h.at \in ConfigSteps => h.file = "config"
    /\ h.file = "palette" => settled.palette = 0
    /\ h.at = "rename" => h.read >= settled.models
    /\ h.at \in {"prepare", "set", "approve"} => h.read >= settled.config
    /\ h.at \in {"set", "journal", "restore"} => h.backup.user >= settled.config
    /\ h.backup.user <= edits

\* A journal whose `after` could still be the configuration has a backup that is
\* recent enough to go back to: an edit that settles is newer than `after`.
JournalIsCurrent ==
    /\ journal.after.user >= settled.config => journal.backup.user >= settled.config
    /\ journal.after.user <= edits
    /\ journal.backup.user <= edits

OmpInv ==
    /\ OmpTypeOK
    /\ \A p \in Runners : Fits(runner[p])
    /\ roles.user <= edits /\ models.user <= edits
    /\ \A f \in Files : settled[f] <= edits
    /\ \A p \in Runners : runner[p].read <= edits
    /\ JournalIsCurrent
    /\ UserTextIsKept

-----------------------------------------------------------------------------
(* OMP's files: the steps.                                                 *)

\* A step of a runner leaves the others, the edits and what has settled alone.
LEMMA RunnerStep ==
    ASSUME OmpInv, NEW p \in Runners, NEW h, runner' = [runner EXCEPT ![p] = h],
           Fits(h), h.read <= edits, UNCHANGED <<edits, settled>>
    PROVE  /\ runner' \in [Runners -> Held]
           /\ (\A q \in Runners : Fits(runner[q]))'
           /\ (\A q \in Runners : runner[q].read <= edits)'
<1>1. h \in Held /\ runner \in [Runners -> Held]
  BY DEF OmpInv, OmpTypeOK, Fits
<1>2. runner' \in [Runners -> Held] /\ \A q \in Runners : runner'[q] = IF q = p THEN h ELSE runner[q]
  BY <1>1
<1>3. ASSUME NEW q \in Runners
      PROVE  Fits(runner[q])' /\ (runner[q].read <= edits)'
  <2>1. Fits(runner'[q]) /\ runner'[q].read <= edits
    BY <1>2 DEF OmpInv
  <2>2. QED
    BY <2>1 DEF Fits
<1>4. QED
  BY <1>2, <1>3

\* With nothing in hand, or at the next step with the same in hand.
LEMMA Holdings ==
    ASSUME OmpInv
    PROVE  /\ Fits(Ready) /\ Ready.read <= edits
           /\ \A p \in Runners : Fits(runner[p]) /\ runner[p].read <= edits /\ runner[p] \in Held
<1>1. edits \in Nat /\ \A f \in Files : settled[f] \in Nat
  BY OmpFilesAssumption DEF OmpInv, OmpTypeOK
<1>2. Ready \in Held
  BY DEF Ready, Held, HeldRoles
<1>3. Ready.read = 0 /\ Ready.backup.user = -1 /\ Ready.at = "ready" /\ Ready.file = "none"
  BY DEF Ready, NoRoles
<1>4. Fits(Ready) /\ Ready.read <= edits
  BY <1>1, <1>2, <1>3 DEF Fits, Files, PaletteSteps, ConfigSteps
<1>5. QED
  BY <1>4 DEF OmpInv, Fits

\* A runner goes on with the same in hand.
LEMMA GoesOn ==
    ASSUME OmpInv, NEW h, Fits(h), h.read <= edits, NEW step,
           \/ step \in {"record", "remove record"} /\ h.file = "palette"
           \/ step = "forget" /\ h.file = "config"
           \/ step = "journal" /\ h.at = "set" /\ h.file = "config"
    PROVE  Fits([h EXCEPT !.at = step]) /\ [h EXCEPT !.at = step].read <= edits
<1> DEFINE g == [h EXCEPT !.at = step]
<1>1. step \in {"ready", "rename"} \cup PaletteSteps \cup ConfigSteps
  BY DEF PaletteSteps, ConfigSteps
<1>2. h \in Held
  BY DEF Fits
<1>3. g \in Held
  BY <1>1, <1>2 DEF Held
<1>4. g.at = step /\ g.file = h.file /\ g.read = h.read /\ g.backup = h.backup
  BY <1>2 DEF Held
<1> HIDE DEF g
<1>5. Fits(g) /\ g.read <= edits
  BY <1>3, <1>4 DEF Fits, PaletteSteps, ConfigSteps
<1>6. QED
  BY <1>5 DEF g

LEMMA OmpStepInv ==
    ASSUME OmpInv, NEW p \in Runners, OmpStep(p)
    PROVE  OmpInv'
<1> DEFINE h == runner[p]
<1>0. /\ Fits(h) /\ h \in Held /\ h.read \in Nat /\ h.read <= edits /\ h.backup \in HeldRoles
      /\ Fits(Ready) /\ Ready.read <= edits
  BY Holdings DEF Held
<1>1. /\ roles \in Roles /\ roles.user \in Nat /\ roles.user <= edits /\ edits \in Nat
      /\ \A f \in Files : settled[f] \in Nat
      /\ UserTextIsKept /\ JournalIsCurrent /\ OmpTypeOK
  BY OmpFilesAssumption DEF OmpInv, OmpTypeOK, Roles
<1>2. ASSUME NEW held, NEW step, Starts(p, step, held), Fits([held EXCEPT !.at = step]), held.read <= edits
      PROVE  OmpInv'
  <2> DEFINE g == [held EXCEPT !.at = step]
  <2>1. runner' = [runner EXCEPT ![p] = g] /\ UNCHANGED <<edits, settled>>
    BY <1>2 DEF Starts
  <2>2. g.read <= edits
    BY <1>2 DEF Fits, Held
  <2> HIDE DEF g
  <2>3. /\ runner' \in [Runners -> Held]
        /\ (\A q \in Runners : Fits(runner[q]))'
        /\ (\A q \in Runners : runner[q].read <= edits)'
    BY <1>2, <2>1, <2>2, RunnerStep DEF g
  <2>4. QED
    BY <1>1, <1>2, <2>3, OmpFilesAssumption DEF Starts, OmpInv, OmpTypeOK, JournalIsCurrent, UserTextIsKept
<1>3. ASSUME NEW g, runner' = [runner EXCEPT ![p] = g], Fits(g), g.read <= edits,
             UNCHANGED <<edits, settled, runs>>
      PROVE  /\ runner' \in [Runners -> Held]
             /\ (\A q \in Runners : Fits(runner[q]))'
             /\ (\A q \in Runners : runner[q].read <= edits)'
  BY <1>3, RunnerStep
<1>4. CASE EnableCommands(p) \/ DisableCommands(p)
  <2>1. palette.user = 0
    BY <1>4 DEF EnableCommands, DisableCommands, commandStatus, owned, Absent
  <2>2. settled.palette = 0
    BY <1>1, <2>1 DEF UserTextIsKept, Files
  <2> DEFINE held == On("palette")
  <2>3. ASSUME NEW step \in {"palette", "remove"}
        PROVE  Fits([held EXCEPT !.at = step]) /\ held.read <= edits
    <3> DEFINE g == [held EXCEPT !.at = step]
    <3>1. g.at = step /\ g.file = "palette" /\ g.read = 0 /\ g.backup = NoRoles /\ held.read = 0
      BY DEF On, Ready
    <3>2. g \in Held
      BY DEF On, Ready, Held, HeldRoles, PaletteSteps, ConfigSteps, Files
    <3> HIDE DEF g, held
    <3>3. Fits(g)
      BY <1>1, <2>2, <2>3, <3>1, <3>2 DEF Fits, PaletteSteps, ConfigSteps, Files, NoRoles
    <3>4. QED
      BY <1>1, <3>1, <3>3 DEF g
  <2>4. QED
    BY <1>2, <1>4, <2>3 DEF EnableCommands, DisableCommands
<1>5. CASE \E api \in Apis \cup {"none"} : WriteNativeModels(p, api)
  <2> PICK api \in Apis \cup {"none"} : WriteNativeModels(p, api)
    BY <1>5
  <2> DEFINE held == [On("models") EXCEPT !.api = api, !.read = models.user]
             g == [held EXCEPT !.at = "rename"]
  <2>1. models.user \in Nat /\ models.user >= settled.models /\ models.user <= edits
    BY <1>1 DEF OmpInv, UserTextIsKept, OmpTypeOK
  <2>2. g.at = "rename" /\ g.file = "models" /\ g.read = models.user /\ g.backup = NoRoles /\ held.read = models.user
    BY DEF On, Ready
  <2>3. g \in Held
    BY <2>1 DEF On, Ready, Held, HeldRoles, PaletteSteps, ConfigSteps, Files
  <2>4. Starts(p, "rename", held)
    BY DEF WriteNativeModels
  <2> HIDE DEF g, held
  <2>5. Fits(g)
    BY <1>1, <2>1, <2>2, <2>3 DEF Fits, PaletteSteps, ConfigSteps, Files, NoRoles
  <2>6. QED
    BY <1>2, <2>1, <2>2, <2>4, <2>5 DEF g
<1>6. CASE Migrate(p) \/ SaveSetting(p)
  <2> DEFINE held == [On("config") EXCEPT !.read = roles.user]
  <2>1. roles.user >= settled.config
    BY <1>1 DEF UserTextIsKept
  <2>2. ASSUME NEW step \in {"prepare", "approve"}
        PROVE  Fits([held EXCEPT !.at = step]) /\ held.read <= edits
    <3> DEFINE g == [held EXCEPT !.at = step]
    <3>1. g.at = step /\ g.file = "config" /\ g.read = roles.user /\ g.backup = NoRoles /\ held.read = roles.user
      BY DEF On, Ready
    <3>2. g \in Held
      BY <1>1 DEF On, Ready, Held, HeldRoles, PaletteSteps, ConfigSteps, Files
    <3> HIDE DEF g, held
    <3>3. /\ step \notin PaletteSteps /\ step \notin {"rename", "set", "journal", "restore"}
          /\ NoRoles.user <= edits
      <4>1. step \in {"prepare", "approve"}
        BY <2>2
      <4>2. NoRoles.user = -1
        BY DEF NoRoles
      <4>3. NoRoles.user <= edits
        BY <1>1, <4>2
      <4>4. QED
        BY <4>1, <4>3 DEF PaletteSteps
    <3>4. Fits(g)
      BY <2>1, <3>1, <3>2, <3>3 DEF Fits
    <3>5. QED
      BY <1>1, <3>1, <3>4 DEF g
  <2>3. QED
    BY <1>2, <1>6, <2>2 DEF Migrate, SaveSetting
<1>7. CASE RollBack(p)
  <2> DEFINE held == [On("config") EXCEPT !.backup = journal.backup]
             g == [held EXCEPT !.at = "restore"]
  <2>1. journal.backup \in HeldRoles /\ journal.backup.user >= settled.config /\ journal.backup.user <= edits
    BY <1>1, <1>7 DEF RollBack, MayRollBack, UserTextIsKept, JournalIsCurrent, OmpTypeOK
  <2>2. g.at = "restore" /\ g.file = "config" /\ g.read = 0 /\ g.backup = journal.backup /\ held.read = 0
    BY DEF On, Ready
  <2>3. g \in Held
    BY <2>1 DEF On, Ready, Held, PaletteSteps, ConfigSteps, Files
  <2>4. Starts(p, "restore", held)
    BY <1>7 DEF RollBack
  <2> HIDE DEF g, held
  <2>5. Fits(g)
    BY <1>1, <2>1, <2>2, <2>3 DEF Fits, PaletteSteps, ConfigSteps, Files
  <2>6. QED
    BY <1>1, <1>2, <2>2, <2>4, <2>5 DEF g
<1>8. CASE WritesPalette(p) \/ WritesRecord(p) \/ RemovesPalette(p) \/ RemovesRecord(p)
  <2>1. h.file = "palette" /\ settled.palette = 0
    BY <1>0, <1>8 DEF Stands, WritesPalette, WritesRecord, RemovesPalette, RemovesRecord, Fits, PaletteSteps
  <2>2. ASSUME NEW step \in {"record", "remove record"}, Moves(p, step), UNCHANGED <<edits, settled, runs>>
        PROVE  /\ runner' \in [Runners -> Held]
               /\ (\A q \in Runners : Fits(runner[q]))'
               /\ (\A q \in Runners : runner[q].read <= edits)'
    <3>1. Fits([h EXCEPT !.at = step]) /\ [h EXCEPT !.at = step].read <= edits
      BY <1>0, <2>1, <2>2, GoesOn
    <3>2. runner' = [runner EXCEPT ![p] = [h EXCEPT !.at = step]]
      BY <2>2 DEF Moves
    <3> HIDE DEF h
    <3>3. QED
      BY <1>3, <2>2, <3>1, <3>2
  <2>3. /\ runner' \in [Runners -> Held]
        /\ (\A q \in Runners : Fits(runner[q]))'
        /\ (\A q \in Runners : runner[q].read <= edits)'
    BY <1>0, <1>3, <1>8, <2>2 DEF WritesPalette, WritesRecord, RemovesPalette, RemovesRecord, Ends
  <2>4. /\ UNCHANGED <<shipped, models, roles, journal, runs, edits, settled>>
        /\ palette' \in {palette, [edition |-> shipped, user |-> 0], Absent}
        /\ record' \in {record, shipped, 0}
    BY <1>8 DEF WritesPalette, WritesRecord, RemovesPalette, RemovesRecord
  <2>5. OmpTypeOK'
    BY <1>1, <2>3, <2>4 DEF OmpTypeOK, Absent
  <2>6. UserTextIsKept'
    BY <1>1, <2>1, <2>4 DEF UserTextIsKept, Absent
  <2>7. QED
    BY <1>1, <2>3, <2>4, <2>5, <2>6 DEF OmpInv, JournalIsCurrent
<1>9. CASE RenamesModels(p)
  <2>1. h.read >= settled.models /\ h.api \in Apis \cup {"none"}
    BY <1>0, <1>9 DEF RenamesModels, Stands, Fits, Held
  <2>2. models' = [block |-> h.api, user |-> h.read] /\ UNCHANGED <<shipped, palette, record, roles, journal, runs, edits, settled>>
    BY <1>9 DEF RenamesModels
  <2>3. /\ runner' \in [Runners -> Held]
        /\ (\A q \in Runners : Fits(runner[q]))'
        /\ (\A q \in Runners : runner[q].read <= edits)'
    BY <1>0, <1>3, <1>9 DEF RenamesModels, Ends
  <2> HIDE DEF h
  <2>4. OmpTypeOK'
    BY <1>0, <1>1, <2>1, <2>2, <2>3 DEF OmpTypeOK
  <2>5. QED
    BY <1>0, <1>1, <2>1, <2>2, <2>3, <2>4 DEF OmpInv, JournalIsCurrent, UserTextIsKept
<1>10. CASE Prepares(p)
  <2>1. h.at = "prepare" /\ h.file = "config" /\ h.read >= settled.config
    BY <1>0, <1>10 DEF Prepares, Stands, Fits, ConfigSteps
  <2> DEFINE g == [h EXCEPT !.at = "set", !.backup = roles]
  <2>2. g \in Held /\ g.at = "set" /\ g.file = "config" /\ g.read = h.read /\ g.backup = roles
    BY <1>0, <1>1, <2>1 DEF Held, HeldRoles, ConfigSteps
  <2>3. runner' \in {[runner EXCEPT ![p] = g], [runner EXCEPT ![p] = Ready]}
    BY <1>10 DEF Prepares, Ends
  <2> HIDE DEF g
  <2>4. Fits(g) /\ g.read <= edits
    BY <1>0, <1>1, <2>1, <2>2 DEF Fits, PaletteSteps, ConfigSteps, UserTextIsKept
  <2>5. UNCHANGED <<shipped, palette, record, models, roles, journal, runs, edits, settled>>
    BY <1>10 DEF Prepares
  <2>6. /\ runner' \in [Runners -> Held]
        /\ (\A q \in Runners : Fits(runner[q]))'
        /\ (\A q \in Runners : runner[q].read <= edits)'
    BY <1>0, <1>3, <2>3, <2>4, <2>5
  <2>7. QED
    BY <1>1, <2>5, <2>6 DEF OmpInv, OmpTypeOK, JournalIsCurrent, UserTextIsKept
<1>11. CASE Sets(p)
  <2>1. h.at = "set" /\ h.file = "config" /\ h.read >= settled.config /\ h.backup.user >= settled.config /\ h.backup.user <= edits
    BY <1>0, <1>11 DEF Sets, Stands, Fits, ConfigSteps
  <2>2. h.backup \in Roles
    BY <1>0, <1>1, <2>1 DEF HeldRoles, NoRoles, Files
  <2>3. Fits([h EXCEPT !.at = "journal"]) /\ [h EXCEPT !.at = "journal"].read <= edits
    BY <1>0, <2>1, GoesOn
  <2>4. /\ runner' \in {[runner EXCEPT ![p] = [h EXCEPT !.at = "journal"]], [runner EXCEPT ![p] = Ready]}
        /\ roles' \in {[legacy |-> FALSE, user |-> h.read], h.backup}
        /\ UNCHANGED <<shipped, palette, record, models, journal, runs, edits, settled>>
    BY <1>11 DEF Sets, Moves, Ends
  <2> HIDE DEF h
  <2>5. /\ runner' \in [Runners -> Held]
        /\ (\A q \in Runners : Fits(runner[q]))'
        /\ (\A q \in Runners : runner[q].read <= edits)'
    BY <1>0, <1>3, <2>3, <2>4
  <2>6. roles' \in Roles /\ roles'.user >= settled.config /\ roles'.user <= edits
    <3>1. CASE roles' = [legacy |-> FALSE, user |-> h.read]
      BY <1>0, <2>1, <3>1 DEF Roles
    <3>2. CASE roles' = h.backup
      BY <2>1, <2>2, <3>2
    <3>3. QED
      BY <2>4, <3>1, <3>2
  <2>7. QED
    BY <1>1, <2>4, <2>5, <2>6 DEF OmpInv, OmpTypeOK, JournalIsCurrent, UserTextIsKept
<1>12. CASE Journals(p)
  <2>1. h.backup.user >= settled.config /\ h.backup.user <= edits
    BY <1>0, <1>12 DEF Journals, Stands, Fits
  <2>2. /\ journal' = [backup |-> h.backup, after |-> roles]
        /\ runner' = [runner EXCEPT ![p] = Ready]
        /\ UNCHANGED <<shipped, palette, record, models, roles, runs, edits, settled>>
    BY <1>12 DEF Journals, Ends
  <2>3. /\ runner' \in [Runners -> Held]
        /\ (\A q \in Runners : Fits(runner[q]))'
        /\ (\A q \in Runners : runner[q].read <= edits)'
    BY <1>0, <1>3, <2>2
  <2> HIDE DEF h
  <2>4. journal' \in [backup : HeldRoles, after : HeldRoles] /\ JournalIsCurrent'
    BY <1>0, <1>1, <2>1, <2>2 DEF HeldRoles, JournalIsCurrent
  <2>5. QED
    BY <1>1, <2>2, <2>3, <2>4 DEF OmpInv, OmpTypeOK, UserTextIsKept
<1>13. CASE Restores(p)
  <2>1. h.at = "restore" /\ h.file = "config" /\ h.backup.user >= settled.config /\ h.backup.user <= edits
    BY <1>0, <1>13 DEF Restores, Stands, Fits, ConfigSteps
  <2>2. h.backup \in Roles
    BY <1>0, <1>1, <2>1 DEF HeldRoles, NoRoles, Files
  <2>3. Fits([h EXCEPT !.at = "forget"]) /\ [h EXCEPT !.at = "forget"].read <= edits
    BY <1>0, <2>1, GoesOn
  <2>4. /\ runner' = [runner EXCEPT ![p] = [h EXCEPT !.at = "forget"]]
        /\ roles' = h.backup
        /\ UNCHANGED <<shipped, palette, record, models, journal, runs, edits, settled>>
    BY <1>13 DEF Restores, Moves
  <2> HIDE DEF h
  <2>5. /\ runner' \in [Runners -> Held]
        /\ (\A q \in Runners : Fits(runner[q]))'
        /\ (\A q \in Runners : runner[q].read <= edits)'
    BY <1>3, <2>3, <2>4
  <2>6. QED
    BY <1>1, <2>1, <2>2, <2>4, <2>5 DEF OmpInv, OmpTypeOK, JournalIsCurrent, UserTextIsKept
<1>14. CASE ForgetsJournal(p) \/ Stops(p)
  <2>1. /\ runner' = [runner EXCEPT ![p] = Ready]
        /\ journal' \in {journal, NoJournal}
        /\ UNCHANGED <<shipped, palette, record, models, roles, runs, edits, settled>>
    BY <1>14 DEF ForgetsJournal, Stops, Ends
  <2>2. /\ runner' \in [Runners -> Held]
        /\ (\A q \in Runners : Fits(runner[q]))'
        /\ (\A q \in Runners : runner[q].read <= edits)'
    BY <1>0, <1>3, <2>1
  <2>3. NoJournal \in [backup : HeldRoles, after : HeldRoles] /\ NoJournal.backup.user = -1 /\ NoJournal.after.user = -1
    BY DEF NoJournal, NoRoles, HeldRoles
  <2>4. journal' \in [backup : HeldRoles, after : HeldRoles] /\ JournalIsCurrent'
    BY <1>1, <2>1, <2>3 DEF OmpTypeOK, JournalIsCurrent, Files
  <2>5. QED
    BY <1>1, <2>1, <2>2, <2>4 DEF OmpInv, OmpTypeOK, UserTextIsKept
<1>15. CASE Approved(p)
  <2>1. h.at = "approve" /\ h.read >= settled.config
    BY <1>0, <1>15 DEF Approved, Stands, Fits
  <2>2. /\ runner' = [runner EXCEPT ![p] = Ready]
        /\ roles' \in {roles, [legacy |-> TRUE, user |-> h.read]}
        /\ UNCHANGED <<shipped, palette, record, models, journal, runs, edits, settled>>
    BY <1>15 DEF Approved, Ends
  <2>3. /\ runner' \in [Runners -> Held]
        /\ (\A q \in Runners : Fits(runner[q]))'
        /\ (\A q \in Runners : runner[q].read <= edits)'
    BY <1>0, <1>3, <2>2
  <2> HIDE DEF h
  <2>4. roles' \in Roles /\ roles'.user >= settled.config /\ roles'.user <= edits
    <3>1. CASE roles' = [legacy |-> TRUE, user |-> h.read]
      BY <1>0, <2>1, <3>1 DEF Roles
    <3>2. CASE roles' = roles
      BY <1>1, <3>2 DEF UserTextIsKept
    <3>3. QED
      BY <2>2, <3>1, <3>2
  <2>5. QED
    BY <1>1, <2>2, <2>3, <2>4 DEF OmpInv, OmpTypeOK, JournalIsCurrent, UserTextIsKept
<1>16. QED
  BY <1>4, <1>5, <1>6, <1>7, <1>8, <1>9, <1>10, <1>11, <1>12, <1>13, <1>14, <1>15 DEF OmpStep

\* An edit settles only in a file no runner holds, and then it is newer than
\* anything held or journalled.
LEMMA UserStepInv ==
    ASSUME OmpInv, UserEditsPalette \/ UserEditsModels \/ UserEditsConfig \/ Upgrades
    PROVE  OmpInv'
<1>0. /\ edits \in Nat /\ settled \in [Files -> Nat] /\ OmpTypeOK /\ UserTextIsKept /\ JournalIsCurrent
      /\ roles.user <= edits /\ models.user <= edits
  BY OmpFilesAssumption DEF OmpInv, OmpTypeOK
<1>1. ASSUME NEW f \in Files, Edited(f), UNCHANGED <<runner, journal>>
      PROVE  /\ edits' = edits + 1 /\ edits' \in 0 .. MaxEdits
             /\ settled' \in [Files -> Nat] /\ settled'[f] <= edits'
             /\ \A g \in Files \ {f} : settled'[g] = settled[g]
             /\ runner' \in [Runners -> Held]
             /\ (\A p \in Runners : Fits(runner[p]))'
             /\ (\A p \in Runners : runner[p].read <= edits)'
             /\ JournalIsCurrent'
  <2>1. edits' = edits + 1 /\ edits' \in 0 .. MaxEdits
    BY <1>0, <1>1, OmpFilesAssumption DEF Edited, OmpTypeOK
  <2>2. /\ settled' \in {settled, [settled EXCEPT ![f] = edits']}
        /\ settled' # settled => ~ Busy(f)
    BY <1>1 DEF Edited
  <2>3. \A g \in Files : settled[g] \in Nat /\ settled[g] <= edits
    BY <1>0 DEF OmpInv
  <2>4. settled' \in [Files -> Nat] /\ settled'[f] <= edits' /\ \A g \in Files \ {f} : settled'[g] = settled[g]
    BY <1>0, <2>1, <2>2, <2>3
  <2>5. CASE UNCHANGED settled
    <3>1. ASSUME NEW p \in Runners
          PROVE  Fits(runner[p])' /\ (runner[p].read <= edits)'
      <4>1. Fits(runner[p]) /\ runner[p].read <= edits /\ runner[p] \in Held
        BY Holdings
      <4>2. QED
        BY <1>0, <1>1, <2>1, <2>5, <4>1 DEF Fits, Held, HeldRoles, Roles, NoRoles
    <3>2. JournalIsCurrent'
      <4>1. journal.after.user \in Int /\ journal.backup.user \in Int
        BY <1>0 DEF OmpTypeOK, HeldRoles, Roles, NoRoles
      <4>2. QED
        BY <1>0, <1>1, <2>1, <2>5, <4>1 DEF JournalIsCurrent
    <3>3. QED
      BY <1>0, <1>1, <2>1, <2>3, <2>4, <2>5, <3>1, <3>2 DEF OmpTypeOK
  <2>6. CASE settled' # settled
    <3>1. \A p \in Runners : runner[p].file # f
      BY <2>2, <2>6 DEF Busy
    <3>2. ASSUME NEW p \in Runners
          PROVE  Fits(runner[p])' /\ (runner[p].read <= edits)'
      <4>1. Fits(runner[p]) /\ runner[p].read <= edits /\ runner[p].file # f /\ runner[p] \in Held
        BY <3>1, Holdings
      <4>2. QED
        BY <1>0, <1>1, <2>1, <2>4, <4>1 DEF Fits, Files, ConfigSteps, Held, HeldRoles, Roles, NoRoles
    <3>3. JournalIsCurrent'
      <4>1. journal' = journal /\ journal.after.user <= edits /\ journal.backup.user <= edits
        BY <1>0, <1>1 DEF JournalIsCurrent
      <4>2. settled'.config \in {settled.config, edits'}
        BY <1>0, <2>2 DEF Files
      <4>3. journal.after.user \in Int /\ journal.backup.user \in Int
        BY <1>0 DEF OmpTypeOK, HeldRoles, Roles, NoRoles
      <4>4. QED
        BY <1>0, <2>1, <4>1, <4>2, <4>3 DEF JournalIsCurrent
    <3>4. QED
      BY <1>0, <1>1, <2>1, <2>4, <3>2, <3>3 DEF OmpTypeOK
  <2>7. QED
    BY <2>5, <2>6
<1>2. CASE UserEditsPalette
  <2>1. /\ palette' = [palette EXCEPT !.user = edits'] /\ Edited("palette")
        /\ UNCHANGED <<shipped, record, models, roles, journal, runner, runs>>
    BY <1>2 DEF UserEditsPalette
  <2>2. /\ edits' = edits + 1 /\ edits' \in 0 .. MaxEdits
        /\ settled' \in [Files -> Nat] /\ settled'["palette"] <= edits'
        /\ \A g \in Files \ {"palette"} : settled'[g] = settled[g]
        /\ runner' \in [Runners -> Held]
        /\ (\A p \in Runners : Fits(runner[p]))'
        /\ (\A p \in Runners : runner[p].read <= edits)'
        /\ JournalIsCurrent'
    BY <1>1, <2>1 DEF Files
  <2>3. palette'.user = edits' /\ edits' \in Nat
    BY <1>0, <2>1, <2>2 DEF OmpTypeOK
  <2>4. OmpTypeOK'
    BY <1>0, <2>1, <2>2, <2>3 DEF OmpTypeOK
  <2>5. UserTextIsKept'
    BY <1>0, <2>1, <2>2, <2>3 DEF UserTextIsKept, Files
  <2>6. (roles.user <= edits /\ models.user <= edits)'
    BY <1>0, <2>1, <2>2, <2>3 DEF OmpTypeOK, Roles
  <2>7. (\A f \in Files : settled[f] <= edits)'
    BY <1>0, <2>2 DEF OmpInv
  <2>8. QED
    BY <2>2, <2>4, <2>5, <2>6, <2>7 DEF OmpInv
<1>3. CASE UserEditsModels
  <2>1. /\ models'.user = edits' /\ models' \in [block : Apis \cup {"none", "edited", "theirs"}, user : {edits'}]
        /\ Edited("models")
        /\ UNCHANGED <<shipped, palette, record, roles, journal, runner, runs>>
    BY <1>0, <1>3 DEF UserEditsModels, OmpTypeOK
  <2>2. /\ edits' = edits + 1 /\ edits' \in 0 .. MaxEdits
        /\ settled' \in [Files -> Nat] /\ settled'["models"] <= edits'
        /\ \A g \in Files \ {"models"} : settled'[g] = settled[g]
        /\ runner' \in [Runners -> Held]
        /\ (\A p \in Runners : Fits(runner[p]))'
        /\ (\A p \in Runners : runner[p].read <= edits)'
        /\ JournalIsCurrent'
    BY <1>1, <2>1 DEF Files
  <2>3. models'.user = edits' /\ edits' \in Nat
    BY <1>0, <2>1, <2>2 DEF OmpTypeOK
  <2>4. OmpTypeOK'
    BY <1>0, <2>1, <2>2, <2>3 DEF OmpTypeOK
  <2>5. UserTextIsKept'
    BY <1>0, <2>1, <2>2, <2>3 DEF UserTextIsKept, Files
  <2>6. (roles.user <= edits /\ models.user <= edits)'
    BY <1>0, <2>1, <2>2, <2>3 DEF OmpTypeOK, Roles
  <2>7. (\A f \in Files : settled[f] <= edits)'
    BY <1>0, <2>2 DEF OmpInv
  <2>8. QED
    BY <2>2, <2>4, <2>5, <2>6, <2>7 DEF OmpInv
<1>4. CASE UserEditsConfig
  <2>1. /\ roles' = [roles EXCEPT !.user = edits'] /\ Edited("config")
        /\ UNCHANGED <<shipped, palette, record, models, journal, runner, runs>>
    BY <1>4 DEF UserEditsConfig
  <2>2. QED
    BY <1>0, <1>1, <2>1 DEF OmpInv, OmpTypeOK, UserTextIsKept, Files, Roles
<1>5. CASE Upgrades
  BY <1>0, <1>5 DEF Upgrades, OmpInv, OmpTypeOK, JournalIsCurrent, UserTextIsKept, Fits
<1>6. QED
  BY <1>2, <1>3, <1>4, <1>5

LEMMA OmpInitInv == OmpInit => OmpInv
<1> SUFFICES ASSUME OmpInit PROVE OmpInv
  OBVIOUS
<1>1. OmpTypeOK
  BY OmpFilesAssumption DEF OmpInit, OmpTypeOK, Absent, Roles, HeldRoles, Held, Ready, NoJournal
<1>2. JournalIsCurrent /\ UserTextIsKept
  BY DEF OmpInit, JournalIsCurrent, UserTextIsKept, NoJournal, NoRoles, Absent, Files
<1>3. Fits(Ready) /\ Ready.read <= edits
  BY DEF OmpInit, Ready, NoRoles, Fits, Held, HeldRoles, PaletteSteps, ConfigSteps
<1>4. QED
  BY <1>1, <1>2, <1>3 DEF OmpInit, OmpInv, Files

\* The inductive invariant of OMP's files.
THEOREM OmpInvariant == OmpSpec => []OmpInv
<1>1. OmpInv /\ [OmpNext]_ompVars => OmpInv'
  <2> SUFFICES ASSUME OmpInv, [OmpNext]_ompVars PROVE OmpInv'
    OBVIOUS
  <2>1. CASE UNCHANGED ompVars
    BY <2>1 DEF ompVars, OmpInv, OmpTypeOK, JournalIsCurrent, UserTextIsKept, Fits
  <2>2. QED
    BY <2>1, OmpStepInv, UserStepInv DEF OmpNext
<1>2. QED
  BY <1>1, OmpInitInv, PTL DEF OmpSpec

\* What the user writes while no command is at a file of OMP's survives every
\* command, whatever commands overlap, fail or are killed.  An edit that falls
\* between a command's check and its copy is not settled, and may be lost.
THEOREM UserTextKept == OmpSpec => []UserTextIsKept
BY OmpInvariant, PTL DEF OmpInv

-----------------------------------------------------------------------------
(* A Skill.                                                                *)

Installing ==
    [at : {"rest", "fetch", "check", "stage", "download", "aside", "promote", "clean", "save",
           "preflight", "look", "rm", "forget"},
     force : BOOLEAN, bundle : [id : SkillIds \cup {NoId}, edition : 0 .. MaxEdition],
     staging : Dirs, backup : Dirs]

Good(d) == Owned(d) /\ d.state # "cut"

\* What an installer holds.  It stages a Skill of Bifrost, a good one once the
\* download is complete.
Handles(h) ==
    /\ h \in Installing
    /\ h.at \in {"check", "stage", "download"} => h.bundle.id # NoId
    /\ h.at = "fetch" => h.bundle.id # NoId
    /\ h.at \in {"aside", "promote"} => Owned(h.staging) /\ h.staging.state = "clean"

\* The copy that is never lost is the target, a leftover or a backup whose
\* promotion is still due: a backup is given up only after a promotion.
KeptSomewhere ==
    kept => \/ Good(target)
            \/ \E d \in leftovers : Good(d)
            \/ \E i \in Installers : Doing(i, "promote") /\ Good(installer[i].backup)

SkillInv ==
    /\ SkillTypeOK
    /\ installer \in [Installers -> Installing]
    /\ \A i \in Installers : Handles(installer[i])
    /\ KeptSomewhere

LEMMA SkillSafe == SkillInv => SkillKept
<1> SUFFICES ASSUME SkillInv, kept
             PROVE  \E d \in {target} \cup leftovers \cup
                            UNION {{installer[i].staging, installer[i].backup} : i \in Installers} : Good(d)
  BY DEF SkillKept, Good
<1> HIDE DEF Good
<1>1. CASE \E i \in Installers : Doing(i, "promote") /\ Good(installer[i].backup)
  BY <1>1
<1>2. CASE Good(target) \/ \E d \in leftovers : Good(d)
  BY <1>2
<1>3. QED
  BY <1>1, <1>2 DEF SkillInv, KeptSomewhere

\* A step of one installer leaves the others as they are.
LEMMA InstallerStep ==
    ASSUME SkillInv, NEW i \in Installers, NEW g, installer' = [installer EXCEPT ![i] = g],
           Handles(g)
    PROVE  /\ installer' \in [Installers -> Installing]
           /\ (\A j \in Installers : Handles(installer[j]))'
           /\ installer'[i] = g
           /\ \A j \in Installers \ {i} : installer'[j] = installer[j]
<1>1. installer \in [Installers -> Installing] /\ g \in Installing
  BY DEF SkillInv, Handles
<1>2. installer' \in [Installers -> Installing] /\ \A j \in Installers : installer'[j] = IF j = i THEN g ELSE installer[j]
  BY <1>1
<1>3. ASSUME NEW j \in Installers \ {i}
      PROVE  Handles(installer[j])'
  <2>1. Handles(installer[j]) /\ installer'[j] = installer[j]
    BY <1>2 DEF SkillInv
  <2>2. QED
    BY <2>1 DEF Handles
<1>4. Handles(installer[i])'
  BY <1>2 DEF Handles
<1>5. QED
  BY <1>2, <1>3, <1>4

\* The same, of a step that leaves the directories and the history alone.
LEMMA InstallerMoves ==
    ASSUME SkillInv, NEW i \in Installers, NEW g, installer' = [installer EXCEPT ![i] = g],
           Handles(g), installer[i].at # "promote",
           UNCHANGED <<upstream, target, leftovers, elsewhere, kept>>,
           uses' \in 0 .. MaxUses, row' \in BOOLEAN
    PROVE  SkillInv'
<1>1. /\ installer' \in [Installers -> Installing]
      /\ (\A j \in Installers : Handles(installer[j]))'
      /\ installer'[i] = g
      /\ \A j \in Installers \ {i} : installer'[j] = installer[j]
  BY InstallerStep
<1>2. SkillTypeOK'
  BY <1>1 DEF SkillInv, SkillTypeOK, Installing
<1>3. KeptSomewhere'
  BY <1>1 DEF SkillInv, KeptSomewhere, Doing
<1>4. QED
  BY <1>1, <1>2, <1>3 DEF SkillInv

LEMMA SkillStepInv ==
    ASSUME SkillInv, NEW i \in Installers, SkillStep(i)
    PROVE  SkillInv'
<1> DEFINE h == installer[i]
<1>0. /\ Handles(h) /\ h \in Installing /\ SkillTypeOK /\ KeptSomewhere
      /\ installer \in [Installers -> Installing]
      /\ None \in Dirs /\ target \in Dirs /\ leftovers \subseteq Dirs
  <2>1. None \in Dirs
    BY SkillAssumption DEF None, Dirs, NoId
  <2>2. QED
    BY <2>1 DEF SkillInv, Handles, SkillTypeOK
<1>1. Handles(Resting) /\ Resting \in Installing
  BY <1>0, SkillAssumption DEF Handles, Resting, Installing, None
<1>2. ASSUME Use
      PROVE  uses' \in 0 .. MaxUses
  BY <1>0, <1>2, SkillAssumption DEF Use, SkillTypeOK
<1>3. CASE (\E force \in BOOLEAN : Install(i, force)) \/ offerMatchingMcpSkills(i)
  <2> PICK force \in BOOLEAN : Install(i, force)
    BY <1>3 DEF offerMatchingMcpSkills
  <2> DEFINE g == [Resting EXCEPT !.at = "fetch", !.force = force, !.bundle = upstream]
  <2>1. upstream.id \in SkillIds /\ upstream \in [id : SkillIds \cup {NoId}, edition : 0 .. MaxEdition]
    BY <1>0 DEF SkillTypeOK
  <2>2. g \in Installing
    BY <1>1, <2>1 DEF Installing
  <2>3. g.at = "fetch" /\ g.bundle = upstream /\ g.backup.state = "none"
    BY DEF Resting, None
  <2>4. installer' = [installer EXCEPT ![i] = g] /\ h.at = "rest" /\ Use /\ UNCHANGED <<upstream, target, elsewhere, row, leftovers, kept>>
    BY DEF Install, Working, listBifrostSkills
  <2> HIDE DEF g
  <2>5. Handles(g)
    BY <2>1, <2>2, <2>3 DEF Handles, NoId, SkillIds
  <2>6. QED
    BY <1>0, <1>2, <2>4, <2>5, InstallerMoves DEF SkillTypeOK
<1>4. CASE (\E force \in BOOLEAN : Remove(i, force)) \/ Reset(i)
  <2>1. ASSUME NEW g \in Installing, g.at \in {"look", "preflight"}, g.backup.state = "none",
               installer' = [installer EXCEPT ![i] = g]
        PROVE  SkillInv'
    <3>1. h.at = "rest" /\ Use /\ UNCHANGED <<upstream, target, elsewhere, row, leftovers, kept>>
      BY <1>4 DEF Remove, Reset, Working
    <3>2. Handles(g)
      BY <2>1 DEF Handles
    <3>3. QED
      BY <1>0, <1>2, <2>1, <3>1, <3>2, InstallerMoves DEF SkillTypeOK
  <2>2. CASE \E force \in BOOLEAN : Remove(i, force)
    <3> PICK force \in BOOLEAN : Remove(i, force)
      BY <2>2
    <3> DEFINE g == [Resting EXCEPT !.at = "look", !.force = force]
    <3>1. g \in Installing /\ g.at = "look" /\ g.backup.state = "none"
      BY <1>1 DEF Installing, Resting, None
    <3>2. installer' = [installer EXCEPT ![i] = g]
      BY DEF Remove
    <3> HIDE DEF g
    <3>3. QED
      BY <2>1, <3>1, <3>2
  <2>3. CASE Reset(i)
    <3> DEFINE g == [Resting EXCEPT !.at = "preflight"]
    <3>1. g \in Installing /\ g.at = "preflight" /\ g.backup.state = "none"
      BY <1>1 DEF Installing, Resting, None
    <3>2. installer' = [installer EXCEPT ![i] = g]
      BY <2>3 DEF Reset
    <3> HIDE DEF g
    <3>3. QED
      BY <2>1, <3>1, <3>2
  <2>4. QED
    BY <1>4, <2>2, <2>3
<1>5. ASSUME installer' = [installer EXCEPT ![i] = Resting], h.at # "promote",
             UNCHANGED <<upstream, target, elsewhere, leftovers, uses, kept>>, row' \in BOOLEAN
      PROVE  SkillInv'
  <2>1. uses' \in 0 .. MaxUses
    BY <1>0, <1>5 DEF SkillTypeOK
  <2>2. QED
    BY <1>1, <1>5, <2>1, InstallerMoves
<1>6. ASSUME NEW at \in {"stage", "look", "rm", "forget"}, installer' = [installer EXCEPT ![i].at = at],
             h.at \in {"check", "preflight", "look"},
             h.at # "check" => at # "stage",
             UNCHANGED <<upstream, target, elsewhere, row, leftovers, uses>>,
             kept' \in {kept, FALSE}
      PROVE  SkillInv'
  <2> DEFINE g == [h EXCEPT !.at = at]
  <2>1. g \in Installing
    BY <1>0, <1>6 DEF Installing
  <2>2. g.at = at /\ g.force = h.force /\ g.bundle = h.bundle /\ g.staging = h.staging /\ g.backup = h.backup
    BY <1>0 DEF Installing
  <2>3. installer' = [installer EXCEPT ![i] = g]
    BY <1>6
  <2> HIDE DEF g
  <2>4. Handles(g)
    BY <1>0, <1>6, <2>1, <2>2 DEF Handles
  <2>5. CASE kept' = kept
    BY <1>0, <1>6, <2>3, <2>4, <2>5, InstallerMoves DEF SkillTypeOK
  <2>6. CASE kept' = FALSE
    <3>1. installer' \in [Installers -> Installing] /\ (\A j \in Installers : Handles(installer[j]))'
      BY <1>6, <2>3, <2>4, InstallerStep
    <3>2. SkillTypeOK'
      BY <1>0, <1>6, <2>6, <3>1 DEF SkillTypeOK, Installing
    <3>3. QED
      BY <2>6, <3>1, <3>2 DEF SkillInv, KeptSomewhere
  <2>7. QED
    BY <1>6, <2>5, <2>6
<1>7. CASE Check(i)
  <2>1. CASE MayReplace(i) /\ installer' = Goes(i, "stage")
    BY <1>6, <1>7, <2>1 DEF Check, Goes, Doing
  <2>2. CASE Quits(i)
    BY <1>0, <1>5, <1>7, <2>2 DEF Check, Doing, Quits, SkillTypeOK
  <2>3. QED
    BY <1>7, <2>1, <2>2 DEF Check
<1>8. CASE preflightLocalRepoReset(i)
  BY <1>0, <1>5, <1>6, <1>8 DEF preflightLocalRepoReset, Goes, Doing, Quits, SkillTypeOK
<1>9. CASE Look(i)
  <2>1. CASE target = None /\ installer' = Goes(i, "forget") /\ UNCHANGED kept
    BY <1>6, <1>9, <2>1 DEF Look, Goes, Doing
  <2>2. CASE Owned(target) /\ (Modified(target) => installer[i].force) /\ installer' = Goes(i, "rm") /\ kept' = FALSE
    BY <1>6, <1>9, <2>2 DEF Look, Goes, Doing
  <2>3. CASE Quits(i) /\ UNCHANGED kept
    BY <1>0, <1>5, <1>9, <2>3 DEF Look, Doing, Quits, SkillTypeOK
  <2>4. QED
    BY <1>9, <2>1, <2>2, <2>3 DEF Look
<1>10. CASE DownloadFails(i) \/ SaveRow(i) \/ DropRow(i)
  BY <1>0, <1>5, <1>10 DEF DownloadFails, SaveRow, DropRow, Doing, Quits, SkillTypeOK
<1>11. CASE Fetch(i)
  <2> DEFINE g == [h EXCEPT !.at = "check", !.bundle = upstream]
  <2>1. CASE installer' = [installer EXCEPT ![i] = g]
    <3>1. upstream \in [id : SkillIds \cup {NoId}, edition : 0 .. MaxEdition] /\ upstream.id # NoId
      BY <1>0 DEF SkillTypeOK, SkillIds, NoId
    <3>2. g \in Installing /\ g.at = "check" /\ g.bundle = upstream /\ g.force = h.force /\ g.backup = h.backup
      BY <1>0, <3>1 DEF Installing
    <3> HIDE DEF g
    <3>3. Handles(g)
      BY <1>0, <3>1, <3>2 DEF Handles
    <3>4. QED
      BY <1>0, <1>11, <2>1, <3>3, InstallerMoves DEF Fetch, Doing, SkillTypeOK
  <2>2. CASE Quits(i)
    BY <1>0, <1>5, <1>11, <2>2 DEF Fetch, Doing, Quits, SkillTypeOK
  <2>3. QED
    BY <1>11, <2>1, <2>2 DEF Fetch
<1>12. CASE Stage(i)
  <2> DEFINE d == [None EXCEPT !.edition = h.bundle.edition, !.state = "cut"]
             g == [h EXCEPT !.at = "download", !.staging = d]
  <2>1. d \in Dirs
    BY <1>0 DEF None, Dirs, States, Installing
  <2>2. installer' = [installer EXCEPT ![i] = g]
    BY <1>12 DEF Stage
  <2> HIDE DEF d
  <2>3. g \in Installing /\ g.at = "download" /\ g.bundle = h.bundle /\ g.force = h.force /\ g.backup = h.backup
    BY <1>0, <2>1 DEF Installing
  <2> HIDE DEF g
  <2>4. Handles(g)
    BY <1>0, <1>12, <2>3 DEF Handles, Stage, Doing
  <2>5. QED
    BY <1>0, <1>12, <2>2, <2>4, InstallerMoves DEF Stage, Doing, SkillTypeOK
<1>13. CASE Download(i)
  <2> DEFINE d == [id |-> h.bundle.id, hashed |-> TRUE, edition |-> h.bundle.edition, files |-> upstream.edition, state |-> "clean"]
             g == [h EXCEPT !.at = "aside", !.staging = d]
  <2>1. d \in Dirs /\ Owned(d) /\ d.state = "clean"
    BY <1>0, <1>13 DEF Dirs, States, Installing, Owned, Handles, Download, Doing, SkillTypeOK
  <2>2. installer' = [installer EXCEPT ![i] = g]
    BY <1>13 DEF Download
  <2> HIDE DEF d
  <2>3. g \in Installing /\ g.at = "aside" /\ g.staging = d /\ g.force = h.force /\ g.backup = h.backup
    BY <1>0, <2>1 DEF Installing
  <2> HIDE DEF g
  <2>4. Handles(g)
    BY <1>0, <1>13, <2>1, <2>3 DEF Handles, Download, Doing
  <2>5. QED
    BY <1>0, <1>13, <2>2, <2>4, InstallerMoves DEF Download, Doing, SkillTypeOK
<1>14. CASE Clean(i)
  <2> DEFINE g == [h EXCEPT !.at = "save", !.backup = None]
  <2>1. g \in Installing /\ g.at = "save" /\ g.backup = None
    BY <1>0 DEF Installing
  <2>2. installer' = [installer EXCEPT ![i] = g]
    BY <1>14 DEF Clean
  <2> HIDE DEF g
  <2>3. Handles(g)
    BY <2>1 DEF Handles, None
  <2>4. QED
    BY <1>0, <1>14, <2>2, <2>3, InstallerMoves DEF Clean, Doing, SkillTypeOK
<1>15. CASE MoveAside(i)
  <2> DEFINE g == [h EXCEPT !.at = "promote", !.backup = target]
  <2>1. /\ g \in Installing /\ g.at = "promote" /\ g.backup = target
        /\ g.staging = h.staging /\ g.force = h.force
    BY <1>0 DEF Installing
  <2>2. /\ installer' = [installer EXCEPT ![i] = g] /\ h.at = "aside" /\ target' = None
        /\ UNCHANGED <<upstream, elsewhere, row, leftovers, uses, kept>>
    BY <1>15 DEF MoveAside, SetAside, Doing
  <2>3. None.state = "none"
    BY DEF None
  <2> HIDE DEF g
  <2>4. Handles(g)
    BY <1>0, <2>1, <2>2, <2>3 DEF Handles
  <2>5. /\ installer' \in [Installers -> Installing]
        /\ (\A j \in Installers : Handles(installer[j]))'
        /\ installer'[i] = g
        /\ \A j \in Installers \ {i} : installer'[j] = installer[j]
    BY <2>2, <2>3, <2>4, InstallerStep
  <2>6. SkillTypeOK'
    BY <1>0, <2>2, <2>5 DEF SkillTypeOK, Installing
  <2>7. KeptSomewhere'
    BY <1>0, <2>1, <2>2, <2>5 DEF KeptSomewhere, Doing
  <2>8. QED
    BY <2>5, <2>6, <2>7 DEF SkillInv
<1>16. CASE Promote(i) /\ target = None
  <2> DEFINE g == [h EXCEPT !.at = "clean", !.staging = None]
  <2>1. g \in Installing /\ g.at = "clean" /\ g.backup = h.backup /\ g.force = h.force
    BY <1>0 DEF Installing
  <2>2. /\ installer' = [installer EXCEPT ![i] = g] /\ h.at = "promote"
        /\ target' = h.staging /\ kept' = TRUE
        /\ UNCHANGED <<upstream, elsewhere, row, leftovers, uses>>
    BY <1>16 DEF Promote, Doing
  <2>3. Owned(target') /\ target'.state = "clean" /\ target' \in Dirs
    BY <1>0, <2>2 DEF Handles, Installing
  <2> HIDE DEF g
  <2>4. Handles(g)
    BY <1>0, <2>1, <2>2, <2>3 DEF Handles
  <2>5. /\ installer' \in [Installers -> Installing]
        /\ (\A j \in Installers : Handles(installer[j]))'
    BY <2>2, <2>3, <2>4, InstallerStep
  <2>6. SkillTypeOK'
    BY <1>0, <2>2, <2>3, <2>5 DEF SkillTypeOK, Installing
  <2>7. KeptSomewhere'
    BY <2>3 DEF KeptSomewhere, Good, Owned
  <2>8. QED
    BY <2>5, <2>6, <2>7 DEF SkillInv
<1>17. CASE Promote(i) /\ target # None
  <2>1. /\ installer' = [installer EXCEPT ![i] = Resting] /\ h.at = "promote"
        /\ leftovers' = leftovers \cup ({h.backup} \ {None})
        /\ UNCHANGED <<upstream, elsewhere, row, target, kept, uses>>
    BY <1>17 DEF Promote, Doing, Quits
  <2>2. /\ installer' \in [Installers -> Installing]
        /\ (\A j \in Installers : Handles(installer[j]))'
        /\ installer'[i] = Resting
        /\ \A j \in Installers \ {i} : installer'[j] = installer[j]
    BY <1>1, <2>1, InstallerStep
  <2>3. leftovers' \subseteq Dirs
    BY <1>0, <2>1 DEF Installing
  <2>4. SkillTypeOK'
    BY <1>0, <2>1, <2>2, <2>3 DEF SkillTypeOK, Installing
  <2>5. KeptSomewhere'
    <3>1. ~ Good(None)
      BY DEF Good, Owned, None
    <3>2. QED
      BY <1>0, <2>1, <2>2, <3>1 DEF KeptSomewhere, Doing
  <2>6. QED
    BY <2>2, <2>4, <2>5 DEF SkillInv
<1>18. CASE Rm(i)
  <2> DEFINE g == [h EXCEPT !.at = "forget"]
  <2>1. g \in Installing /\ g.at = "forget" /\ g.backup = h.backup /\ g.force = h.force
    BY <1>0 DEF Installing
  <2>2. /\ installer' = [installer EXCEPT ![i] = g] /\ target' = None /\ kept' = FALSE
        /\ UNCHANGED <<upstream, elsewhere, row, leftovers, uses>>
    BY <1>18 DEF Rm, Goes
  <2>3. None.state = "none"
    BY DEF None
  <2> HIDE DEF g
  <2>4. Handles(g)
    BY <1>0, <2>1, <2>2 DEF Handles
  <2>5. /\ installer' \in [Installers -> Installing]
        /\ (\A j \in Installers : Handles(installer[j]))'
    BY <2>2, <2>3, <2>4, InstallerStep
  <2>6. SkillTypeOK'
    BY <1>0, <2>2, <2>5 DEF SkillTypeOK, Installing
  <2>7. QED
    BY <2>2, <2>5, <2>6 DEF SkillInv, KeptSomewhere
<1>19. CASE RmStops(i)
  <2>1. /\ installer' = [installer EXCEPT ![i] = Resting] /\ kept' = FALSE
        /\ target' \in Dirs /\ target'.state = "cut"
        /\ UNCHANGED <<upstream, elsewhere, row, leftovers, uses>>
    BY <1>0, <1>19 DEF RmStops, Quits, Dirs, States
  <2>2. Handles(Resting)
    BY <1>1, <2>1 DEF Handles
  <2>3. /\ installer' \in [Installers -> Installing]
        /\ (\A j \in Installers : Handles(installer[j]))'
    BY <2>1, <2>2, InstallerStep
  <2>4. SkillTypeOK'
    BY <1>0, <2>1, <2>3 DEF SkillTypeOK, Installing
  <2>5. QED
    BY <2>1, <2>3, <2>4 DEF SkillInv, KeptSomewhere
<1>20. CASE Killed(i)
  <2>1. /\ installer' = [installer EXCEPT ![i] = Resting]
        /\ leftovers' = leftovers \cup ({h.staging, h.backup} \ {None})
        /\ UNCHANGED <<upstream, elsewhere, row, target, kept, uses>>
    BY <1>20 DEF Killed, Quits, Left
  <2>2. /\ installer' \in [Installers -> Installing]
        /\ (\A j \in Installers : Handles(installer[j]))'
        /\ installer'[i] = Resting
        /\ \A j \in Installers \ {i} : installer'[j] = installer[j]
    BY <1>1, <2>1, InstallerStep
  <2>3. leftovers' \subseteq Dirs
    BY <1>0, <2>1 DEF Installing
  <2>4. SkillTypeOK'
    BY <1>0, <2>1, <2>2, <2>3 DEF SkillTypeOK, Installing
  <2>5. KeptSomewhere'
    <3>1. ~ Good(None)
      BY DEF Good, Owned, None
    <3>2. QED
      BY <1>0, <2>1, <2>2, <3>1 DEF KeptSomewhere, Doing
  <2>6. QED
    BY <2>2, <2>4, <2>5 DEF SkillInv
<1>21. QED
  BY <1>3, <1>4, <1>7, <1>8, <1>9, <1>10, <1>11, <1>12, <1>13, <1>14, <1>15, <1>16, <1>17, <1>18, <1>19, <1>20
  DEF SkillStep

\* The user's edits and Bifrost's publications.
LEMMA SkillUserInv ==
    ASSUME SkillInv, UserEdits \/ UserAuthors \/ UserAuthorsElsewhere \/ Publishes
    PROVE  SkillInv'
<1>0. /\ SkillTypeOK /\ KeptSomewhere /\ installer \in [Installers -> Installing]
      /\ \A i \in Installers : Handles(installer[i])
  BY DEF SkillInv
<1>1. Use /\ uses' \in 0 .. MaxUses
  BY <1>0, SkillAssumption DEF Use, SkillTypeOK, UserEdits, UserAuthors, UserAuthorsElsewhere, Publishes
<1>2. ASSUME target' \in Dirs,
             Good(target) => Good(target'),
             UNCHANGED <<upstream, elsewhere, row, installer, leftovers, kept>>
      PROVE  SkillInv'
  <2>1. (\A i \in Installers : Handles(installer[i]))'
    BY <1>0, <1>2 DEF Handles
  <2>2. SkillTypeOK'
    BY <1>0, <1>1, <1>2 DEF SkillTypeOK
  <2>3. KeptSomewhere'
    BY <1>0, <1>2 DEF KeptSomewhere, Doing
  <2>4. QED
    BY <1>0, <1>2, <2>1, <2>2, <2>3 DEF SkillInv
<1>3. CASE UserEdits
  <2>1. target \in Dirs
    BY <1>0 DEF SkillTypeOK
  <2>2. target' = [target EXCEPT !.state = "edited"]
    BY <1>3 DEF UserEdits
  <2>3. target' \in Dirs /\ target'.id = target.id /\ target'.state = "edited"
    BY <2>1, <2>2 DEF Dirs, States
  <2>4. QED
    BY <1>2, <1>3, <2>3 DEF UserEdits, Good, Owned
<1>4. CASE UserAuthors
  <2>1. target' = [None EXCEPT !.state = "edited"]
    BY <1>4 DEF UserAuthors
  <2>2. target' \in Dirs
    <3>1. None \in Dirs
      BY SkillAssumption DEF None, Dirs, NoId
    <3> HIDE DEF None
    <3>2. QED
      BY <2>1, <3>1 DEF Dirs, States
  <2>3. ~ Good(target)
    BY <1>4 DEF UserAuthors, Good, Owned, None
  <2>4. QED
    BY <1>2, <1>4, <2>2, <2>3 DEF UserAuthors
<1>5. CASE UserAuthorsElsewhere \/ Publishes
  <2>1. UNCHANGED <<target, row, installer, leftovers, kept>> /\ elsewhere' \in BOOLEAN
    BY <1>0, <1>5 DEF UserAuthorsElsewhere, Publishes, SkillTypeOK
  <2>2. upstream' \in [id : SkillIds, edition : 1 .. MaxEdition]
    BY <1>0, <1>5, SkillAssumption DEF UserAuthorsElsewhere, Publishes, SkillTypeOK
  <2>3. SkillTypeOK'
    BY <1>0, <1>1, <2>1, <2>2 DEF SkillTypeOK
  <2>4. QED
    BY <1>0, <2>1, <2>3 DEF SkillInv, KeptSomewhere, Doing
<1>6. QED
  BY <1>3, <1>4, <1>5

LEMMA SkillInitInv == SkillInit => SkillInv
<1> SUFFICES ASSUME SkillInit PROVE SkillInv
  OBVIOUS
<1>1. None \in Dirs /\ Legacy \in Dirs
  BY SkillAssumption DEF None, Legacy, Dirs, States, SkillIds, NoId
<1>2. upstream \in [id : SkillIds, edition : 1 .. MaxEdition]
  BY SkillAssumption DEF SkillInit, SkillIds
<1>3. SkillTypeOK
  <2>1. Resting.staging \in Dirs /\ Resting.backup \in Dirs
    BY <1>1 DEF Resting
  <2>2. \A i \in Installers : installer[i] = Resting
    BY DEF SkillInit
  <2>3. uses \in 0 .. MaxUses
    BY SkillAssumption DEF SkillInit
  <2>4. row \in BOOLEAN /\ kept \in BOOLEAN
    BY DEF SkillInit
  <2>5. target \in Dirs /\ leftovers \subseteq Dirs /\ elsewhere \in BOOLEAN
    BY <1>1 DEF SkillInit
  <2>6. QED
    BY <1>2, <2>1, <2>2, <2>3, <2>4, <2>5 DEF SkillTypeOK
<1>4. Resting \in Installing /\ Handles(Resting)
  BY <1>1, SkillAssumption DEF Installing, Resting, Handles, None
<1>5. KeptSomewhere
  <2>1. kept => target = Legacy
    BY Zenon DEF SkillInit
  <2>2. Good(Legacy)
    BY DEF Good, Owned, Legacy, NoId
  <2>3. QED
    BY <2>1, <2>2 DEF KeptSomewhere
<1>6. QED
  BY <1>3, <1>4, <1>5 DEF SkillInit, SkillInv

\* The inductive invariant of a Skill's installation.
THEOREM SkillInvariant == SkillSpec => []SkillInv
<1>1. SkillInv /\ [SkillNext]_skillVars => SkillInv'
  <2> SUFFICES ASSUME SkillInv, [SkillNext]_skillVars PROVE SkillInv'
    OBVIOUS
  <2>1. CASE UNCHANGED skillVars
    BY <2>1 DEF skillVars, SkillInv, SkillTypeOK, KeptSomewhere, Doing
  <2>2. QED
    BY <2>1, SkillStepInv, SkillUserInv DEF SkillNext
<1>2. QED
  BY <1>1, SkillInitInv, PTL DEF SkillSpec

\* An installed Skill is somewhere in the repository, whole, until a removal
\* starts, whatever updates overlap, fail or are killed.
THEOREM InstalledSkillKept == SkillSpec => []SkillKept
BY SkillInvariant, SkillSafe, PTL

-----------------------------------------------------------------------------
(* A Virtual Key.                                                          *)

\* The steps at which a command may be issued a value, one for each command.
Issuing == {"upsert", "create", "adopt", "rotate"}

\* What can be left of a command.
SecretsLeft == <<"secrets">>
SaveLeft == <<"config", "secrets">>
McpLeft == <<"mcp">>
EndSecrets == <<"secrets", "mcp">>
EndSave == <<"config", "secrets", "mcp">>
SyncLeft == <<"bundles", "config", "secrets", "mcp">>
MidSecrets == <<"secrets", "bundles", "config", "secrets", "mcp">>
MidSave == <<"config", "secrets", "bundles", "config", "secrets", "mcp">>
Rotating == <<"rotate", "config", "secrets">>
ReadRotate == <<"read", "rotate", "config", "secrets">>
Granting == <<"grant", "config", "secrets">>
ReadGrant == <<"read", "grant", "config", "secrets">>
Bundling == <<"bundle", "config", "secrets">>
ReadBundle == <<"read", "bundle", "config", "secrets">>
ReadSave == <<"read", "config", "secrets">>
Forgetting == <<"forget", "config", "secrets">>
Deleting == <<"delete", "forget", "config", "secrets">>
Keyed(s) == <<s, "config", "secrets", "mcp">>
KeyedSync(s) == <<s, "config", "secrets", "bundles", "config", "secrets", "mcp">>

PlanFits(plan, cmd, o) ==
    \/ plan \in {SecretsLeft, SaveLeft} /\ cmd # "init"
    \/ plan \in {McpLeft, EndSecrets, EndSave} /\ cmd \in {"init", "instructions"}
    \/ plan \in {SyncLeft, MidSecrets, MidSave} /\ cmd = "init" /\ o.bundles # Unset
    \/ \E s \in Issuing : plan = Keyed(s) /\ cmd = "init" /\ o.bundles = Unset
    \/ \E s \in Issuing : plan = KeyedSync(s) /\ cmd = "init" /\ o.bundles # Unset
    \/ plan \in {Rotating, ReadRotate} /\ cmd = "rotate-key"
    \/ plan \in {Granting, ReadGrant} /\ cmd \in {"mcp add", "mcp remove"}
    \/ plan \in {Bundling, ReadBundle} /\ cmd \in {"vmcp add", "vmcp remove"}
    \/ plan = ReadSave /\ cmd = "skills bind"
    \/ plan \in {Forgetting, Deleting} /\ cmd = "reset"

\* Of init, with its bundles assigned.
Synced == {McpLeft, EndSecrets, EndSave}

PlanSteps == Issuing \cup {"config", "secrets", "mcp", "bundles", "read", "grant", "bundle",
                           "forget", "delete"}
Commanding ==
    [plan : Seq(PlanSteps), repo : Repos, cmd : Commands, options : Options, config : Configs,
     secrets : [Repos -> Values], fresh : BOOLEAN, vk : KeyIds \cup {NoKey},
     seen : [KeyIds -> SUBSET Bundles], grants : SUBSET Clients, alone : BOOLEAN]

\* k is the id of no key, or of one of repository r, existing or gone.
KeyOf(ks, k, r) == k # NoKey => /\ ks[k] # Never
                                /\ ks[k] # Gone => ks[k].owner = r

\* Keys have the name of their repository, one at most for each, or the old one.
WellNamed(ks) ==
    /\ \A k \in KeyIds : ks[k] \notin {Never, Gone} =>
          ks[k].owner \in Repos /\ ks[k].name \in {Basename, ks[k].owner}
    /\ \A j, k \in KeyIds : ks[j].name \in Repos /\ ks[k].name = ks[j].name => j = k

\* A process at work, and the ids it holds.
HolderFits(ks, h) ==
    /\ h \in Commanding
    /\ PlanFits(h.plan, h.cmd, h.options)
    /\ Takes(h.cmd, h.options)
    /\ \A r \in Repos : KeyOf(ks, h.config[r].id, r)
    /\ KeyOf(ks, h.vk, h.repo)

\* A command is issued a value once at most: values and ids never run out.
MayIssue(h) == \/ h.plan # <<>> /\ Head(h.plan) \in Issuing
               \/ h.plan = ReadRotate

IdsSuffice ==
    /\ issued + Cardinality({p \in Procs : MayIssue(proc[p])}) <= 1 + spent
    /\ \E n \in 0 .. issued : \A k \in KeyIds : keys[k] # Never <=> k <= n

KeyInv ==
    /\ TypeOK
    /\ proc \in [Procs -> Commanding \cup {Idle}]
    /\ \A p \in Procs : proc[p] = Idle \/ HolderFits(keys, proc[p])
    /\ IdsSuffice
    /\ WellNamed(keys)
    /\ \A r \in Repos : KeyOf(keys, config[r].id, r)
    /\ ~ strayed

\* No key is added, and those that remain have the same name and value.
Shrinks(ks, ls) ==
    \A k \in KeyIds : ls[k] \notin {Never, Gone} =>
       ks[k] \notin {Never, Gone} /\ ls[k].name = ks[k].name /\ ls[k].value = ks[k].value

\* The keys that a repository may come to use: the associated one and the one
\* of its name; there is one at most, and a value saved with it is that key's.
Candidates(ks, conf, r) ==
    {k \in KeyIds : ks[k] \notin {Never, Gone} /\ (k = conf[r].id \/ ks[k].name = r)}

SecretFits(ks, conf, sec, r) ==
    \A k \in Candidates(ks, conf, r) : /\ \A j \in Candidates(ks, conf, r) : j = k
                                       /\ sec[r] # NoValue => sec[r] = ks[k].value

\* What a command that is alone holds, against the gateway and the files.
MemoryFits(ks, conf, sec, lo, h) ==
    /\ \A s \in Repos : s # h.repo => h.config[s] = conf[s] /\ h.secrets[s] = sec[s]
    /\ Head(h.plan) = "secrets" => conf = h.config
    /\ Head(h.plan) = "adopt" /\ h.vk # NoKey /\ ks[h.vk] \notin {Never, Gone} => ks[h.vk].name = h.repo
    /\ Head(h.plan) = "rotate" => h.vk = h.config[h.repo].id
    /\ h.fresh => /\ Head(h.plan) \in {"config", "secrets"}
                  /\ h.vk # NoKey /\ h.vk = h.config[h.repo].id
                  /\ ks[h.vk] \notin {Never, Gone} => h.secrets[h.repo] = ks[h.vk].value
    /\ ~ h.fresh /\ h.repo \notin lo =>
          /\ Candidates(ks, h.config, h.repo) \subseteq Candidates(ks, conf, h.repo)
          /\ SecretFits(ks, h.config, h.secrets, h.repo)

\* What it has learnt of the grants and the bundles of its key.
\* config.json has the clients of the key; where it has none and none were asked for
\* those of the association before may stand in for them.
ClientsFit(ks, h) ==
    \/ h.config[h.repo].clients = ks[h.vk].clients
    \/ h.options.clients = Unset /\ ks[h.vk].clients = {}

ReportFits(ks, h) ==
    /\ h.cmd \in {"init", "mcp add", "mcp remove"} /\ h.vk # NoKey /\ ks[h.vk] \notin {Never, Gone}
       /\ Head(h.plan) \notin {"upsert", "create", "adopt", "read", "grant"}
       => ClientsFit(ks, h)
    /\ h.cmd \in {"vmcp add", "vmcp remove"} /\ h.vk # NoKey /\ ks[h.vk] \notin {Never, Gone} =>
          /\ Head(h.plan) = "bundle" => h.seen[h.vk] = ks[h.vk].bundles
          /\ Head(h.plan) \in {"config", "secrets"} => h.config[h.repo].bundles = ks[h.vk].bundles
    /\ h.cmd = "init" /\ h.options.bundles # Unset =>
          IF h.plan \in Synced
          THEN h.vk # NoKey /\ ks[h.vk] \notin {Never, Gone} => h.config[h.repo].bundles = ks[h.vk].bundles
          ELSE \A k \in KeyIds : ks[k] # Gone => h.seen[k] = ks[k].bundles
    /\ h.cmd = "init" /\ Head(h.plan) \notin {"upsert", "create", "adopt"} => h.vk # NoKey

\* A command has the gateway and the files to itself until another is given;
\* from then on nothing is said of any secret but those saved since.
AloneInv ==
    /\ \A p \in Procs : Holds(p) =>
          IF proc[p].alone THEN \A q \in Procs : Holds(q) => q = p ELSE lost = Repos
    /\ \A r \in Repos : /\ r \notin lost
                        /\ \A p \in Procs : Holds(p) /\ proc[p].repo = r => ~ proc[p].fresh
                        => SecretFits(keys, config, secrets, r)
    /\ \A p \in Procs : Holds(p) /\ proc[p].alone =>
          MemoryFits(keys, config, secrets, lost, proc[p]) /\ ReportFits(keys, proc[p])

-----------------------------------------------------------------------------
(* Plans.                                                                  *)

\* The plans one by one: the first step and what follows it.
LEMMA Plans ==
    /\ SecretsLeft \in Seq(PlanSteps) \ {<<>>} /\ Head(SecretsLeft) = "secrets" /\ Tail(SecretsLeft) = <<>>
    /\ SaveLeft \in Seq(PlanSteps) \ {<<>>} /\ Head(SaveLeft) = "config" /\ Tail(SaveLeft) = SecretsLeft
    /\ McpLeft \in Seq(PlanSteps) \ {<<>>} /\ Head(McpLeft) = "mcp" /\ Tail(McpLeft) = <<>>
    /\ EndSecrets \in Seq(PlanSteps) \ {<<>>} /\ Head(EndSecrets) = "secrets" /\ Tail(EndSecrets) = McpLeft
    /\ EndSave \in Seq(PlanSteps) \ {<<>>} /\ Head(EndSave) = "config" /\ Tail(EndSave) = EndSecrets
    /\ SyncLeft \in Seq(PlanSteps) \ {<<>>} /\ Head(SyncLeft) = "bundles" /\ Tail(SyncLeft) = EndSave
    /\ MidSecrets \in Seq(PlanSteps) \ {<<>>} /\ Head(MidSecrets) = "secrets" /\ Tail(MidSecrets) = SyncLeft
    /\ MidSave \in Seq(PlanSteps) \ {<<>>} /\ Head(MidSave) = "config" /\ Tail(MidSave) = MidSecrets
    /\ Rotating \in Seq(PlanSteps) \ {<<>>} /\ Head(Rotating) = "rotate" /\ Tail(Rotating) = SaveLeft
    /\ ReadRotate \in Seq(PlanSteps) \ {<<>>} /\ Head(ReadRotate) = "read" /\ Tail(ReadRotate) = Rotating
    /\ Granting \in Seq(PlanSteps) \ {<<>>} /\ Head(Granting) = "grant" /\ Tail(Granting) = SaveLeft
    /\ ReadGrant \in Seq(PlanSteps) \ {<<>>} /\ Head(ReadGrant) = "read" /\ Tail(ReadGrant) = Granting
    /\ Bundling \in Seq(PlanSteps) \ {<<>>} /\ Head(Bundling) = "bundle" /\ Tail(Bundling) = SaveLeft
    /\ ReadBundle \in Seq(PlanSteps) \ {<<>>} /\ Head(ReadBundle) = "read" /\ Tail(ReadBundle) = Bundling
    /\ ReadSave \in Seq(PlanSteps) \ {<<>>} /\ Head(ReadSave) = "read" /\ Tail(ReadSave) = SaveLeft
    /\ Forgetting \in Seq(PlanSteps) \ {<<>>} /\ Head(Forgetting) = "forget" /\ Tail(Forgetting) = SaveLeft
    /\ Deleting \in Seq(PlanSteps) \ {<<>>} /\ Head(Deleting) = "delete" /\ Tail(Deleting) = Forgetting
<1>1. SecretsLeft \in Seq(PlanSteps) \ {<<>>} /\ Head(SecretsLeft) = "secrets" /\ Tail(SecretsLeft) = <<>>
  BY DEF SecretsLeft, PlanSteps
<1>2. SaveLeft \in Seq(PlanSteps) \ {<<>>} /\ Head(SaveLeft) = "config" /\ Tail(SaveLeft) = SecretsLeft
  BY DEF SaveLeft, SecretsLeft, PlanSteps
<1>3. McpLeft \in Seq(PlanSteps) \ {<<>>} /\ Head(McpLeft) = "mcp" /\ Tail(McpLeft) = <<>>
  BY DEF McpLeft, PlanSteps
<1>4. EndSecrets \in Seq(PlanSteps) \ {<<>>} /\ Head(EndSecrets) = "secrets" /\ Tail(EndSecrets) = McpLeft
  BY DEF EndSecrets, McpLeft, PlanSteps
<1>5. EndSave \in Seq(PlanSteps) \ {<<>>} /\ Head(EndSave) = "config" /\ Tail(EndSave) = EndSecrets
  BY DEF EndSave, EndSecrets, PlanSteps
<1>6. SyncLeft \in Seq(PlanSteps) \ {<<>>} /\ Head(SyncLeft) = "bundles" /\ Tail(SyncLeft) = EndSave
  BY DEF SyncLeft, EndSave, PlanSteps
<1>7. MidSecrets \in Seq(PlanSteps) \ {<<>>} /\ Head(MidSecrets) = "secrets" /\ Tail(MidSecrets) = SyncLeft
  BY DEF MidSecrets, SyncLeft, PlanSteps
<1>8. MidSave \in Seq(PlanSteps) \ {<<>>} /\ Head(MidSave) = "config" /\ Tail(MidSave) = MidSecrets
  BY DEF MidSave, MidSecrets, PlanSteps
<1>9. Rotating \in Seq(PlanSteps) \ {<<>>} /\ Head(Rotating) = "rotate" /\ Tail(Rotating) = SaveLeft
  BY DEF Rotating, SaveLeft, PlanSteps, Issuing
<1>10. ReadRotate \in Seq(PlanSteps) \ {<<>>} /\ Head(ReadRotate) = "read" /\ Tail(ReadRotate) = Rotating
  BY DEF ReadRotate, Rotating, PlanSteps, Issuing
<1>11. Granting \in Seq(PlanSteps) \ {<<>>} /\ Head(Granting) = "grant" /\ Tail(Granting) = SaveLeft
  BY DEF Granting, SaveLeft, PlanSteps
<1>12. ReadGrant \in Seq(PlanSteps) \ {<<>>} /\ Head(ReadGrant) = "read" /\ Tail(ReadGrant) = Granting
  BY DEF ReadGrant, Granting, PlanSteps
<1>13. Bundling \in Seq(PlanSteps) \ {<<>>} /\ Head(Bundling) = "bundle" /\ Tail(Bundling) = SaveLeft
  BY DEF Bundling, SaveLeft, PlanSteps
<1>14. ReadBundle \in Seq(PlanSteps) \ {<<>>} /\ Head(ReadBundle) = "read" /\ Tail(ReadBundle) = Bundling
  BY DEF ReadBundle, Bundling, PlanSteps
<1>15. ReadSave \in Seq(PlanSteps) \ {<<>>} /\ Head(ReadSave) = "read" /\ Tail(ReadSave) = SaveLeft
  BY DEF ReadSave, SaveLeft, PlanSteps
<1>16. Forgetting \in Seq(PlanSteps) \ {<<>>} /\ Head(Forgetting) = "forget" /\ Tail(Forgetting) = SaveLeft
  BY DEF Forgetting, SaveLeft, PlanSteps
<1>17. Deleting \in Seq(PlanSteps) \ {<<>>} /\ Head(Deleting) = "delete" /\ Tail(Deleting) = Forgetting
  BY DEF Deleting, Forgetting, PlanSteps
<1> QED BY <1>1, <1>2, <1>3, <1>4, <1>5, <1>6, <1>7, <1>8, <1>9, <1>10, <1>11, <1>12, <1>13, <1>14, <1>15, <1>16, <1>17

LEMMA Unsynced ==
    /\ SaveLeft \notin Synced /\ SecretsLeft \notin Synced
    /\ SyncLeft \notin Synced /\ MidSecrets \notin Synced /\ MidSave \notin Synced
    /\ \A plan \in Synced : Head(plan) \in {"config", "secrets", "mcp"}
<1>1. SecretsLeft \notin Synced /\ SyncLeft \notin Synced
  BY Plans DEF Synced
<1>2. SaveLeft \notin Synced /\ MidSecrets \notin Synced
  BY <1>1, Plans DEF Synced
<1>3. MidSave \notin Synced
  BY <1>2, Plans DEF Synced
<1>4. \A plan \in Synced : Head(plan) \in {"config", "secrets", "mcp"}
  BY Plans DEF Synced
<1> QED BY <1>1, <1>2, <1>3, <1>4

LEMMA KeyedPlans ==
    ASSUME NEW s \in Issuing
    PROVE  /\ Keyed(s) \in Seq(PlanSteps) \ {<<>>} /\ Head(Keyed(s)) = s /\ Tail(Keyed(s)) = EndSave
           /\ KeyedSync(s) \in Seq(PlanSteps) \ {<<>>} /\ Head(KeyedSync(s)) = s
           /\ Tail(KeyedSync(s)) = MidSave
<1>1. Keyed(s) \in Seq(PlanSteps) \ {<<>>} /\ Head(Keyed(s)) = s /\ Tail(Keyed(s)) = EndSave
  BY DEF Keyed, EndSave, PlanSteps
<1>2. /\ KeyedSync(s) \in Seq(PlanSteps) \ {<<>>} /\ Head(KeyedSync(s)) = s
      /\ Tail(KeyedSync(s)) = MidSave
  BY DEF KeyedSync, MidSave, PlanSteps
<1> QED BY <1>1, <1>2

\* What every plan of a command has in common: it goes on with its tail, which
\* is one, and its first step tells the command.
PlanKnown(plan, cmd, o) ==
    /\ plan \in Seq(PlanSteps) /\ plan # <<>> /\ Head(plan) \in PlanSteps
    /\ Tail(plan) \in Seq(PlanSteps)
    /\ Tail(plan) # <<>> => PlanFits(Tail(plan), cmd, o)
    /\ Tail(plan) # <<>> /\ Head(Tail(plan)) \in Issuing => plan = ReadRotate
    /\ Tail(plan) # ReadRotate
    /\ Head(plan) \in {"upsert", "create", "adopt"} =>
          /\ cmd = "init"
          /\ \/ plan = Keyed(Head(plan)) /\ Tail(plan) = EndSave /\ o.bundles = Unset
             \/ plan = KeyedSync(Head(plan)) /\ Tail(plan) = MidSave /\ o.bundles # Unset
    /\ Head(plan) = "rotate" =>
          /\ Tail(plan) \in {SaveLeft, EndSave, MidSave}
          /\ cmd \in {"init", "rotate-key"}
          /\ cmd = "init" /\ o.bundles # Unset => Tail(plan) = MidSave
    /\ Head(plan) = "bundles" => plan = SyncLeft /\ cmd = "init" /\ o.bundles # Unset
    /\ Head(plan) = "grant" => Tail(plan) = SaveLeft /\ cmd \in {"mcp add", "mcp remove"}
    /\ Head(plan) = "bundle" => Tail(plan) = SaveLeft /\ cmd \in {"vmcp add", "vmcp remove"}
    /\ Head(plan) = "read" => plan \in {ReadRotate, ReadGrant, ReadBundle, ReadSave} /\ cmd # "init"
    /\ Head(plan) = "read" =>
          /\ Tail(plan) # <<>> /\ Head(Tail(plan)) \in {"rotate", "grant", "bundle", "config"}
          /\ cmd \in {"mcp add", "mcp remove"} => Head(Tail(plan)) = "grant"
          /\ cmd \in {"vmcp add", "vmcp remove"} => Head(Tail(plan)) = "bundle"
    /\ Head(plan) = "delete" => Tail(plan) = Forgetting /\ cmd = "reset"
    /\ Head(plan) = "forget" => Tail(plan) = SaveLeft /\ cmd = "reset"
    /\ Head(plan) = "config" => /\ Head(Tail(plan)) = "secrets" /\ Tail(plan) # <<>>
                               /\ plan \in {SaveLeft, EndSave, MidSave}
    /\ Head(plan) = "secrets" => /\ Tail(plan) \in {<<>>, McpLeft, SyncLeft}
                                /\ plan \in {SecretsLeft, EndSecrets, MidSecrets}
    /\ plan = SecretsLeft \/ plan = SaveLeft => cmd # "init"
    /\ Head(plan) = "mcp" => Tail(plan) = <<>>

LEMMA PlansKnown ==
    ASSUME NEW plan, NEW cmd, NEW o, PlanFits(plan, cmd, o)
    PROVE  PlanKnown(plan, cmd, o)
<1>0. <<>> \in Seq(PlanSteps)
  OBVIOUS
<1>1. cmd # "init" => PlanKnown(SecretsLeft, cmd, o)
  BY <1>0, Plans DEF PlanKnown, PlanFits, PlanSteps, Issuing
<1>2. cmd # "init" => PlanKnown(SaveLeft, cmd, o)
  BY <1>0, Plans DEF PlanKnown, PlanFits, PlanSteps, Issuing
<1>3. cmd \in {"init", "instructions"} => PlanKnown(McpLeft, cmd, o)
  BY <1>0, Plans DEF PlanKnown, PlanFits, PlanSteps, Issuing
<1>4. cmd \in {"init", "instructions"} => PlanKnown(EndSecrets, cmd, o)
  BY <1>0, Plans DEF PlanKnown, PlanFits, PlanSteps, Issuing
<1>5. cmd \in {"init", "instructions"} => PlanKnown(EndSave, cmd, o)
  BY <1>0, Plans DEF PlanKnown, PlanFits, PlanSteps, Issuing
<1>6. cmd = "init" /\ o.bundles # Unset => PlanKnown(SyncLeft, cmd, o)
  BY <1>0, Plans DEF PlanKnown, PlanFits, PlanSteps, Issuing
<1>7. cmd = "init" /\ o.bundles # Unset => PlanKnown(MidSecrets, cmd, o)
  BY <1>0, Plans DEF PlanKnown, PlanFits, PlanSteps, Issuing
<1>8. cmd = "init" /\ o.bundles # Unset => PlanKnown(MidSave, cmd, o)
  BY <1>0, Plans DEF PlanKnown, PlanFits, PlanSteps, Issuing
<1>9. cmd = "rotate-key" => PlanKnown(Rotating, cmd, o)
  BY <1>0, Plans DEF PlanKnown, PlanFits, PlanSteps, Issuing
<1>10. cmd = "rotate-key" => PlanKnown(ReadRotate, cmd, o)
  BY <1>0, Plans DEF PlanKnown, PlanFits, PlanSteps, Issuing
<1>11. cmd \in {"mcp add", "mcp remove"} => PlanKnown(Granting, cmd, o)
  BY <1>0, Plans DEF PlanKnown, PlanFits, PlanSteps, Issuing
<1>12. cmd \in {"mcp add", "mcp remove"} => PlanKnown(ReadGrant, cmd, o)
  BY <1>0, Plans DEF PlanKnown, PlanFits, PlanSteps, Issuing
<1>13. cmd \in {"vmcp add", "vmcp remove"} => PlanKnown(Bundling, cmd, o)
  BY <1>0, Plans DEF PlanKnown, PlanFits, PlanSteps, Issuing
<1>14. cmd \in {"vmcp add", "vmcp remove"} => PlanKnown(ReadBundle, cmd, o)
  BY <1>0, Plans DEF PlanKnown, PlanFits, PlanSteps, Issuing
<1>15. cmd = "skills bind" => PlanKnown(ReadSave, cmd, o)
  BY <1>0, Plans DEF PlanKnown, PlanFits, PlanSteps, Issuing
<1>16. cmd = "reset" => PlanKnown(Forgetting, cmd, o)
  BY <1>0, Plans DEF PlanKnown, PlanFits, PlanSteps, Issuing
<1>17. cmd = "reset" => PlanKnown(Deleting, cmd, o)
  BY <1>0, Plans DEF PlanKnown, PlanFits, PlanSteps, Issuing
<1>20. ASSUME NEW s \in Issuing, cmd = "init"
       PROVE  /\ o.bundles = Unset => PlanKnown(Keyed(s), cmd, o)
              /\ o.bundles # Unset => PlanKnown(KeyedSync(s), cmd, o)
  <2>1. /\ Keyed(s) \in Seq(PlanSteps) /\ Keyed(s) # <<>>
        /\ Head(Keyed(s)) = s /\ Tail(Keyed(s)) = EndSave
        /\ KeyedSync(s) \in Seq(PlanSteps) /\ KeyedSync(s) # <<>>
        /\ Head(KeyedSync(s)) = s /\ Tail(KeyedSync(s)) = MidSave
    BY <1>20, KeyedPlans
  <2>2. o.bundles = Unset => PlanKnown(Keyed(s), cmd, o)
    BY <1>20, <2>1, Plans DEF PlanKnown, PlanFits, PlanSteps, Issuing
  <2>3. o.bundles # Unset => PlanKnown(KeyedSync(s), cmd, o)
    BY <1>20, <2>1, Plans DEF PlanKnown, PlanFits, PlanSteps, Issuing
  <2> QED BY <2>2, <2>3
<1> QED BY <1>1, <1>2, <1>3, <1>4, <1>5, <1>6, <1>7, <1>8, <1>9, <1>10, <1>11, <1>12, <1>13, <1>14, <1>15, <1>16, <1>17, <1>20 DEF PlanFits

\* Only these commands end with the entry of .omp/mcp.json.
LEMMA EndOfInit ==
    ASSUME NEW cmd, NEW o, PlanFits(EndSecrets, cmd, o)
    PROVE  cmd \in {"init", "instructions"}
<1>1. Head(EndSecrets) = "secrets" /\ Tail(EndSecrets) = McpLeft
  BY Plans
<1>2. McpLeft # <<>> /\ McpLeft # SyncLeft
  BY Plans
<1>3. \A s \in Issuing : EndSecrets # Keyed(s) /\ EndSecrets # KeyedSync(s)
  <2>1. "secrets" \notin Issuing
    BY DEF Issuing
  <2> QED BY <1>1, <2>1, KeyedPlans
<1>4. EndSecrets \notin {SecretsLeft, SaveLeft, Rotating, ReadRotate, Granting, ReadGrant, Bundling,
                         ReadBundle, ReadSave, Forgetting, Deleting}
  BY <1>1, <1>2, Plans
<1> QED BY <1>3, <1>4 DEF PlanFits

LEMMA RotateKnown ==
    ASSUME NEW plan, NEW cmd, NEW o, PlanKnown(plan, cmd, o), Head(plan) = "rotate"
    PROVE  /\ Tail(plan) \in {SaveLeft, EndSave, MidSave}
           /\ cmd \in {"init", "rotate-key"}
           /\ cmd = "init" /\ o.bundles # Unset => Tail(plan) = MidSave
BY DEF PlanKnown

LEMMA Prepended ==
    ASSUME NEW S, NEW s \in S, NEW t \in Seq(S), NEW w \in Seq(S), Len(w) = Len(t) + 1,
           w[1] = s, \A i \in 2 .. Len(t) + 1 : w[i] = t[i - 1]
    PROVE  <<s>> \o t = w
<1>1. DEFINE o == <<s>>
             u == o \o t
<1>2. o \in Seq(S) /\ Len(o) = 1 /\ o[1] = s
  OBVIOUS
<1>3. HIDE DEF o
<1>4. /\ u \in Seq(S) /\ Len(u) = Len(o) + Len(t)
      /\ \A i \in 1 .. Len(o) + Len(t) : u[i] = IF i <= Len(o) THEN o[i] ELSE t[i - Len(o)]
  BY <1>2, ConcatProperties
<1>5. HIDE DEF u
<1>6. Len(t) \in Nat
  OBVIOUS
<1>7. \A i \in 1 .. Len(u) : u[i] = w[i]
  <2>1. TAKE i \in 1 .. Len(u)
  <2>2. u[i] = IF i <= 1 THEN o[i] ELSE t[i - 1]
    BY <1>2, <1>4
  <2>3. CASE i = 1
    BY <1>2, <2>2, <2>3
  <2>4. CASE i # 1
    BY <1>2, <1>4, <1>6, <2>2, <2>4
  <2> QED BY <2>3, <2>4
<1>8. u \in Seq(S) /\ Len(u) = Len(w)
  BY <1>2, <1>4, <1>6
<1>9. u = w
  BY <1>7, <1>8, SeqEqual
<1> QED BY <1>9 DEF o, u

\* Until it has its key an init may put another step in place of the present one.
LEMMA OneMore ==
    ASSUME NEW s \in Issuing
    PROVE  <<s>> \o EndSave = Keyed(s) /\ <<s>> \o MidSave = KeyedSync(s)
<1>1. s \in PlanSteps
  BY DEF PlanSteps
<1>2. <<s>> \o EndSave = Keyed(s)
  <2>1. EndSave \in Seq(PlanSteps) /\ Keyed(s) \in Seq(PlanSteps)
    BY Plans, KeyedPlans
  <2>2. Len(EndSave) = 3 /\ Len(Keyed(s)) = 4 /\ Keyed(s)[1] = s
    BY DEF EndSave, Keyed
  <2>3. \A i \in 2 .. 4 : Keyed(s)[i] = EndSave[i - 1]
    BY DEF EndSave, Keyed
  <2>4. Len(Keyed(s)) = Len(EndSave) + 1 /\ \A i \in 2 .. Len(EndSave) + 1 : Keyed(s)[i] = EndSave[i - 1]
    BY <2>2, <2>3
  <2> QED BY <1>1, <2>1, <2>2, <2>4, Prepended
<1>3. <<s>> \o MidSave = KeyedSync(s)
  <2>1. MidSave \in Seq(PlanSteps) /\ KeyedSync(s) \in Seq(PlanSteps)
    BY Plans, KeyedPlans
  <2>2. Len(MidSave) = 6 /\ Len(KeyedSync(s)) = 7 /\ KeyedSync(s)[1] = s
    BY DEF MidSave, KeyedSync
  <2>3. \A i \in 2 .. 7 : KeyedSync(s)[i] = MidSave[i - 1]
    BY DEF MidSave, KeyedSync
  <2>4. Len(KeyedSync(s)) = Len(MidSave) + 1
        /\ \A i \in 2 .. Len(MidSave) + 1 : KeyedSync(s)[i] = MidSave[i - 1]
    BY <2>2, <2>3
  <2> QED BY <1>1, <2>1, <2>2, <2>4, Prepended
<1> QED BY <1>2, <1>3

LEMMA PlanTurns ==
    ASSUME NEW plan, NEW cmd, NEW o, PlanFits(plan, cmd, o),
           Head(plan) \in {"upsert", "create", "adopt"}, NEW s \in Issuing
    PROVE  /\ cmd = "init" /\ PlanFits(Tail(plan), cmd, o) /\ Tail(plan) \in {EndSave, MidSave}
           /\ PlanFits(<<s>> \o Tail(plan), cmd, o)
           /\ <<s>> \o Tail(plan) # <<>> /\ Head(<<s>> \o Tail(plan)) = s
           /\ Tail(<<s>> \o Tail(plan)) = Tail(plan)
<1>1. /\ cmd = "init"
      /\ \/ Tail(plan) = EndSave /\ o.bundles = Unset
         \/ Tail(plan) = MidSave /\ o.bundles # Unset
  BY PlansKnown DEF PlanKnown
<1>2. \/ /\ Tail(plan) = EndSave /\ o.bundles = Unset
         /\ <<s>> \o Tail(plan) = Keyed(s)
      \/ /\ Tail(plan) = MidSave /\ o.bundles # Unset
         /\ <<s>> \o Tail(plan) = KeyedSync(s)
  BY <1>1, OneMore
<1>3. PlanFits(<<s>> \o Tail(plan), cmd, o) /\ PlanFits(Tail(plan), cmd, o)
  BY <1>1, <1>2 DEF PlanFits
<1>4. /\ Keyed(s) # <<>> /\ Head(Keyed(s)) = s /\ Tail(Keyed(s)) = EndSave
      /\ KeyedSync(s) # <<>> /\ Head(KeyedSync(s)) = s /\ Tail(KeyedSync(s)) = MidSave
  BY KeyedPlans
<1> QED BY <1>1, <1>2, <1>3, <1>4

\* A command begins with a plan of its own.
LEMMA PlanBegins ==
    ASSUME NEW cmd \in Commands, NEW o \in Options
    PROVE  PlanFits(Plan(cmd, o), cmd, o)
<1>1. CASE cmd = "init"
  BY <1>1 DEF Plan, PlanFits, Keyed, KeyedSync, commandRepoInit, Issuing
<1>2. CASE cmd = "reset"
  BY <1>2 DEF Plan, PlanFits, commandRepoReset, Forgetting, Deleting
<1>3. CASE cmd \in {"rotate-key", "mcp add", "mcp remove"}
  BY <1>3 DEF Plan, PlanFits, commandRepoRotateKey, ReadRotate, ReadGrant
<1>4. CASE cmd \in {"vmcp add", "vmcp remove", "instructions"}
  BY <1>4 DEF Plan, PlanFits, ReadBundle, EndSave, commandRepoMcpInstructions
<1>5. CASE cmd \in {"skills bind", "setup"}
  BY <1>5 DEF Plan, PlanFits, commandRepoSkillBind, commandGlobalSetup, ReadSave, SaveLeft
<1> QED BY <1>1, <1>2, <1>3, <1>4, <1>5 DEF Commands

-----------------------------------------------------------------------------
(* Keys and ids.                                                           *)

\* The keys after a step: none is forgotten, revived or given to another.
Grows(ks) ==
    /\ ks \in [KeyIds -> Keys]
    /\ WellNamed(ks)
    /\ \A k \in KeyIds : keys[k] # Never =>
          /\ ks[k] # Never
          /\ ks[k] # Gone => keys[k] # Gone /\ ks[k].owner = keys[k].owner

LEMMA KeySets ==
    /\ Never \in Keys /\ Gone \in Keys /\ Never # Gone
    /\ Never.name = "never" /\ Gone.name = "gone"
    /\ \A x \in Keys : x.name \in Repos \cup {Basename} => x \notin {Never, Gone}
    /\ NoRepo.id = NoKey
    /\ NoRepo \in [id : KeyIds \cup {NoKey}, legacy : BOOLEAN,
                   clients : SUBSET Clients, bundles : SUBSET Bundles]
<1>1. MaxCommands + 1 \in Nat
  BY RepoAssumption
<1>2. /\ Never \in Keys /\ Gone \in Keys /\ Never # Gone
      /\ Never.name = "never" /\ Gone.name = "gone"
  BY <1>1 DEF Never, Gone, Keys, Values, NoValue
<1>3. \A x \in Keys : x.name \in Repos \cup {Basename} => x \notin {Never, Gone}
  BY <1>2, RepoAssumption DEF Basename
<1>4. /\ NoRepo.id = NoKey
      /\ NoRepo \in [id : KeyIds \cup {NoKey}, legacy : BOOLEAN,
                     clients : SUBSET Clients, bundles : SUBSET Bundles]
  BY DEF NoRepo, NoKey
<1> QED BY <1>2, <1>3, <1>4

\* An existing key changes: it is deleted, or keeps its owner, and is renamed to
\* that repository's name only if no other key has it.
LEMMA KeyChanged ==
    ASSUME KeyInv, NEW k \in KeyIds, keys[k] \notin {Never, Gone}, NEW x \in Keys,
           NEW ks, ks = [keys EXCEPT ![k] = x],
           \/ x = Gone
           \/ /\ x.owner = keys[k].owner
              /\ \/ x.name = keys[k].name
                 \/ x.name = keys[k].owner /\ Named(keys[k].owner) \subseteq {k}
    PROVE  Grows(ks) /\ \A j \in KeyIds : keys[j] # Never <=> ks[j] # Never
<1>1. keys \in [KeyIds -> Keys] /\ WellNamed(keys)
  BY DEF KeyInv, TypeOK
<1>2. keys[k].owner \in Repos /\ keys[k].name \in {Basename, keys[k].owner}
  BY <1>1 DEF WellNamed
<1>3. x = Gone \/ (x.owner = keys[k].owner /\ x.name \in {Basename, keys[k].owner})
  BY <1>2
<1>4. x # Never /\ (x # Gone => x.owner = keys[k].owner)
  BY <1>2, <1>3, KeySets
<1>5. ks \in [KeyIds -> Keys] /\ ks[k] = x /\ \A j \in KeyIds : j # k => ks[j] = keys[j]
  BY <1>1
<1>6. WellNamed(ks)
  <2>1. ASSUME NEW j \in KeyIds, ks[j] \notin {Never, Gone}
        PROVE  ks[j].owner \in Repos /\ ks[j].name \in {Basename, ks[j].owner}
    BY <1>1, <1>2, <1>3, <1>5, <2>1 DEF WellNamed
  <2>2. ASSUME NEW j \in KeyIds, NEW i \in KeyIds, ks[j].name \in Repos, ks[i].name = ks[j].name
        PROVE  j = i
    <3>1. x = Gone => x.name \notin Repos
      BY KeySets, RepoAssumption
    <3>2. x.name = keys[k].owner /\ Named(keys[k].owner) \subseteq {k}
          => \A m \in KeyIds : m # k => keys[m].name # x.name
      BY DEF Named
    <3>3. x.name = keys[k].name /\ x.name \in Repos => \A m \in KeyIds : m # k => keys[m].name # x.name
      BY <1>1 DEF WellNamed
    <3>4. x.name \in Repos => \A m \in KeyIds : m # k => keys[m].name # x.name
      BY <3>1, <3>2, <3>3
    <3> QED BY <1>1, <1>5, <2>2, <3>4 DEF WellNamed
  <2> QED BY <2>1, <2>2 DEF WellNamed
<1>7. \A j \in KeyIds : keys[j] # Never <=> ks[j] # Never
  BY <1>4, <1>5
<1> QED BY <1>4, <1>5, <1>6, <1>7 DEF Grows

LEMMA KeysKept == KeyInv => Grows(keys)
BY DEF KeyInv, TypeOK, Grows

\* An id remains of its repository's key.
LEMMA KeyOfGrows ==
    ASSUME KeyInv, NEW ks, Grows(ks), NEW k \in KeyIds \cup {NoKey}, NEW r, KeyOf(keys, k, r)
    PROVE  KeyOf(ks, k, r)
BY DEF Grows, KeyOf

LEMMA HolderGrows ==
    ASSUME KeyInv, NEW ks, Grows(ks), NEW h, HolderFits(keys, h)
    PROVE  HolderFits(ks, h)
<1>1. h \in Commanding /\ \A r \in Repos : h.config[r].id \in KeyIds \cup {NoKey}
  BY DEF HolderFits, Commanding, Configs
<1>2. h.vk \in KeyIds \cup {NoKey}
  BY <1>1 DEF Commanding
<1> QED BY <1>1, <1>2, KeyOfGrows DEF HolderFits

\* A key of a repository's name is that repository's.
LEMMA FoundKey ==
    ASSUME KeyInv, NEW r \in Repos
    PROVE  /\ Found(r) \in KeyIds \cup {NoKey} /\ KeyOf(keys, Found(r), r)
           /\ Found(r) # NoKey => keys[Found(r)] \notin {Never, Gone}
<1>1. CASE Named(r) = {}
  BY <1>1 DEF Found, KeyOf
<1>2. CASE Named(r) # {}
  <2>1. Found(r) \in Named(r)
    BY <1>2 DEF Found
  <2>2. Found(r) \in KeyIds /\ keys[Found(r)].name = r
    BY <2>1 DEF Named
  <2>3. keys[Found(r)] \in Keys
    BY <2>2 DEF KeyInv, TypeOK
  <2>4. keys[Found(r)] \notin {Never, Gone}
    BY <2>2, <2>3, KeySets
  <2>5. keys[Found(r)].owner = r
    BY <2>2, <2>4, RepoAssumption DEF KeyInv, WellNamed
  <2> QED BY <2>2, <2>4, <2>5 DEF KeyOf
<1> QED BY <1>1, <1>2

\* What one process goes on to hold can only lower the number of values still to
\* be issued; that it is issued one lowers it.
LEMMA Counted ==
    ASSUME KeyInv, NEW p \in Procs, NEW h, Becomes(p, h), spent' = spent,
           \/ issued' = issued /\ (MayIssue(h) => MayIssue(proc[p]))
           \/ issued' = issued + 1 /\ MayIssue(proc[p]) /\ ~ MayIssue(h)
    PROVE  /\ issued' + Cardinality({q \in Procs : MayIssue(proc'[q])}) <= 1 + spent'
           /\ issued' \in 1 .. MaxCommands + 1
<1>1. DEFINE A == {q \in Procs : MayIssue(proc[q])}
             B == {q \in Procs : MayIssue(proc'[q])}
<1>2. proc' = [proc EXCEPT ![p] = h] /\ proc \in [Procs -> Commanding \cup {Idle}]
  BY DEF KeyInv, Becomes
<1>3. \A q \in Procs : proc'[q] = IF q = p THEN h ELSE proc[q]
  BY <1>2
<1>4. IsFiniteSet(A)
  BY RepoAssumption, FS_Subset
<1>5. Cardinality(A) \in Nat
  BY <1>4, FS_CardinalityType
<1>6. /\ issued + Cardinality(A) <= 1 + spent /\ issued \in 1 .. MaxCommands + 1
      /\ spent \in 0 .. MaxCommands /\ MaxCommands \in Nat
  BY RepoAssumption DEF KeyInv, IdsSuffice, TypeOK
<1>7. CASE issued' = issued /\ (MayIssue(h) => MayIssue(proc[p]))
  <2>1. B \subseteq A
    BY <1>3, <1>7
  <2>2. Cardinality(B) <= Cardinality(A) /\ Cardinality(B) \in Nat
    BY <2>1, <1>4, FS_Subset, FS_CardinalityType
  <2> QED BY <1>5, <1>6, <1>7, <2>2
<1>8. CASE issued' = issued + 1 /\ MayIssue(proc[p]) /\ ~ MayIssue(h)
  <2>1. B = A \ {p} /\ p \in A
    BY <1>3, <1>8
  <2>2. Cardinality(B) = Cardinality(A) - 1
    BY <2>1, <1>4, FS_RemoveElement
  <2>3. Cardinality(B) \in Nat
    BY <2>1, <1>4, FS_Subset, FS_CardinalityType
  <2> QED BY <1>5, <1>6, <1>8, <2>2, <2>3
<1> QED BY <1>7, <1>8

\* The next id is there, and no key has had it.
LEMMA UnusedId ==
    ASSUME KeyInv, NEW p \in Procs, MayIssue(proc[p])
    PROVE  /\ issued < 1 + spent
           /\ Unused \in KeyIds /\ keys[Unused] = Never
           /\ \A k \in KeyIds : keys[k] # Never <=> k < Unused
           /\ Unused <= issued + 1
<1>1. DEFINE A == {q \in Procs : MayIssue(proc[q])}
<1>2. IsFiniteSet(A) /\ p \in A
  BY RepoAssumption, FS_Subset
<1>3. Cardinality(A) \in Nat /\ Cardinality(A) # 0
  BY <1>2, FS_CardinalityType, FS_EmptySet
<1>4. /\ issued + Cardinality(A) <= 1 + spent /\ issued \in 1 .. MaxCommands + 1
      /\ spent \in 0 .. MaxCommands /\ MaxCommands \in Nat
  BY RepoAssumption DEF KeyInv, IdsSuffice, TypeOK
<1>5. issued < 1 + spent
  BY <1>3, <1>4
<1>6. PICK n \in 0 .. issued : \A k \in KeyIds : keys[k] # Never <=> k <= n
  BY DEF KeyInv, IdsSuffice
<1>7. n + 1 \in KeyIds /\ keys[n + 1] = Never /\ \A j \in KeyIds : keys[j] = Never => n + 1 <= j
  BY <1>4, <1>5, <1>6 DEF KeyIds
<1>8. /\ Unused \in KeyIds /\ keys[Unused] = Never
      /\ \A j \in KeyIds : keys[j] = Never => Unused <= j
  BY <1>7 DEF Unused
<1>9. Unused = n + 1
  BY <1>7, <1>8 DEF KeyIds
<1> QED BY <1>4, <1>5, <1>6, <1>8, <1>9 DEF KeyIds

\* A step of one process preserves the invariant if what it holds still fits.
LEMMA OneGoesOn ==
    ASSUME KeyInv, NEW p \in Procs, NEW h, Becomes(p, h), h = Idle \/ HolderFits(keys', h),
           Grows(keys'),
           \/ \A k \in KeyIds : keys[k] # Never <=> keys'[k] # Never
           \/ \E n \in 0 .. issued' : \A k \in KeyIds : keys'[k] # Never <=> k <= n,
           \/ issued' = issued /\ (MayIssue(h) => MayIssue(proc[p]))
           \/ issued' = issued + 1 /\ MayIssue(proc[p]) /\ ~ MayIssue(h),
           config' \in Configs, \A r \in Repos : KeyOf(keys', config'[r].id, r),
           secrets' \in [Repos -> Values], mcp' \subseteq Repos, lost' \subseteq Repos,
           spent' = spent, strayed' = FALSE
    PROVE  KeyInv'
<1>1. /\ issued' + Cardinality({q \in Procs : MayIssue(proc'[q])}) <= 1 + spent'
      /\ issued' \in 1 .. MaxCommands + 1
  BY Counted
<1>2. IdsSuffice'
  <2>1. PICK n \in 0 .. issued : \A k \in KeyIds : keys[k] # Never <=> k <= n
    BY DEF KeyInv, IdsSuffice
  <2>2. \E m \in 0 .. issued' : \A k \in KeyIds : keys'[k] # Never <=> k <= m
    <3>1. n \in 0 .. issued'
      BY <2>1 DEF KeyInv, TypeOK
    <3> QED BY <2>1, <3>1
  <2> QED BY <1>1, <2>2 DEF IdsSuffice
<1>3. /\ proc' \in [Procs -> Commanding \cup {Idle}]
      /\ \A q \in Procs : proc'[q] = IF q = p THEN h ELSE proc[q]
  BY DEF KeyInv, Becomes, HolderFits
<1>4. \A q \in Procs : proc'[q] = Idle \/ HolderFits(keys', proc'[q])
  <2>1. TAKE q \in Procs
  <2>2. CASE q = p
    BY <1>3, <2>2
  <2>3. CASE q # p
    <3>1. proc'[q] = proc[q]
      BY <1>3, <2>3
    <3>2. proc[q] = Idle \/ HolderFits(keys, proc[q])
      BY DEF KeyInv
    <3> QED BY <3>1, <3>2, HolderGrows
  <2> QED BY <2>2, <2>3
<1>5. TypeOK'
  BY <1>1 DEF TypeOK, KeyInv, Grows
<1> QED BY <1>2, <1>3, <1>4, <1>5 DEF KeyInv, Grows

-----------------------------------------------------------------------------
(* Every step preserves the invariant.                                     *)

\* The process that takes a step.
LEMMA Holder ==
    ASSUME KeyInv, NEW p \in Procs, Holds(p)
    PROVE  /\ HolderFits(keys, proc[p]) /\ proc[p] \in Commanding
           /\ PlanKnown(proc[p].plan, proc[p].cmd, proc[p].options)
           /\ proc[p].repo \in Repos /\ proc[p].vk \in KeyIds \cup {NoKey}
           /\ proc[p].config \in Configs /\ proc[p].secrets \in [Repos -> Values]
           /\ currentRepoState(p).id \in KeyIds \cup {NoKey}
           /\ currentRepoState(p).legacy \in BOOLEAN
           /\ KeyOf(keys, currentRepoState(p).id, proc[p].repo)
           /\ proc[p].options \in Options
<1>1. HolderFits(keys, proc[p])
  BY DEF KeyInv, Holds, Idle
<1>2. proc[p] \in Commanding /\ PlanFits(proc[p].plan, proc[p].cmd, proc[p].options)
  BY <1>1 DEF HolderFits
<1>3. /\ proc[p].repo \in Repos /\ proc[p].vk \in KeyIds \cup {NoKey}
      /\ proc[p].config \in Configs /\ proc[p].secrets \in [Repos -> Values]
      /\ proc[p].options \in Options
  BY <1>2 DEF Commanding
<1>4. currentRepoState(p).id \in KeyIds \cup {NoKey} /\ currentRepoState(p).legacy \in BOOLEAN
  BY <1>3 DEF Configs, currentRepoState
<1>5. KeyOf(keys, currentRepoState(p).id, proc[p].repo)
  BY <1>1, <1>3 DEF HolderFits, currentRepoState
<1> QED BY <1>1, <1>2, <1>3, <1>4, <1>5, PlansKnown

\* The holder after a step, field by field.
LEMMA HolderAfter ==
    ASSUME NEW ks, NEW g, NEW h, HolderFits(keys, g), h \in Commanding,
           h.repo = g.repo, h.cmd = g.cmd, h.options = g.options,
           PlanFits(h.plan, h.cmd, h.options),
           \A r \in Repos : KeyOf(ks, h.config[r].id, r), KeyOf(ks, h.vk, h.repo)
    PROVE  HolderFits(ks, h)
BY DEF HolderFits

\* A request leaves the association to the process and goes on with the plan.
LEMMA Advances ==
    ASSUME KeyInv, NEW p \in Procs, Holds(p), NEW h,
           h = IF Rest(p) = <<>> THEN Idle ELSE [proc[p] EXCEPT !.plan = Rest(p)]
    PROVE  /\ h = Idle \/ HolderFits(keys, h)
           /\ MayIssue(h) => MayIssue(proc[p])
           /\ Head(proc[p].plan) \in Issuing => ~ MayIssue(h)
<1>1. CASE Rest(p) = <<>>
  <2>1. h = Idle
    BY <1>1
  <2>2. ~ MayIssue(Idle)
    BY Plans DEF MayIssue, Idle
  <2> QED BY <2>1, <2>2
<1>2. CASE Rest(p) # <<>>
  <2>1. h = [proc[p] EXCEPT !.plan = Rest(p)]
    BY <1>2
  <2>2. Rest(p) \in Seq(PlanSteps) /\ PlanFits(Rest(p), proc[p].cmd, proc[p].options)
    BY <1>2, Holder DEF PlanKnown, Rest
  <2>3. /\ h \in Commanding /\ h.plan = Rest(p) /\ h.repo = proc[p].repo /\ h.cmd = proc[p].cmd
        /\ h.options = proc[p].options /\ h.config = proc[p].config /\ h.vk = proc[p].vk
    BY <2>1, <2>2, Holder DEF Commanding
  <2>4. HolderFits(keys, h)
    BY <2>2, <2>3, Holder DEF HolderFits
  <2>5. MayIssue(h) => proc[p].plan = ReadRotate
    BY <1>2, <2>3, Holder DEF MayIssue, PlanKnown, Rest
  <2>6. ReadRotate # <<>> /\ Head(ReadRotate) \notin Issuing
    BY Plans DEF Issuing
  <2> QED BY <2>4, <2>5, <2>6 DEF MayIssue
<1> QED BY <1>1, <1>2

LEMMA AbortInv ==
    ASSUME KeyInv, NEW p \in Procs, Holds(p), Abort(p), lost' \subseteq Repos,
           UNCHANGED <<keys, config, secrets, mcp, issued, spent, strayed>>
    PROVE  KeyInv'
<1>1. ~ MayIssue(Idle)
  BY Plans DEF MayIssue, Idle
<1>2. /\ config' \in Configs /\ \A r \in Repos : KeyOf(keys', config'[r].id, r)
      /\ secrets' \in [Repos -> Values] /\ mcp' \subseteq Repos /\ strayed' = FALSE
  BY DEF KeyInv, TypeOK
<1>3. Grows(keys') /\ \A k \in KeyIds : keys[k] # Never <=> keys'[k] # Never
  BY KeysKept
<1>4. Becomes(p, Idle) /\ issued' = issued /\ spent' = spent
  BY DEF Abort
<1>5. DEFINE h == Idle
<1>6. h = Idle /\ Becomes(p, h) /\ ~ MayIssue(h)
  BY <1>1, <1>4
<1>7. HIDE DEF h
<1> QED BY <1>2, <1>3, <1>4, <1>6, OneGoesOn

LEMMA DiesInv == ASSUME KeyInv, NEW p \in Procs, Dies(p) PROVE KeyInv'
<1>1. lost' \subseteq Repos
  BY Holder DEF Dies, KeyInv, TypeOK
<1> QED BY <1>1, AbortInv DEF Dies

LEMMA WriteMcpInv == ASSUME KeyInv, NEW p \in Procs, WriteMcp(p) PROVE KeyInv'
<1>1. Holds(p) /\ proc[p].repo \in Repos
  BY Holder DEF WriteMcp, At
<1>2. /\ config' \in Configs /\ \A r \in Repos : KeyOf(keys', config'[r].id, r)
      /\ secrets' \in [Repos -> Values] /\ mcp' \subseteq Repos /\ strayed' = FALSE
      /\ lost' \subseteq Repos /\ spent' = spent /\ issued' = issued
  BY <1>1 DEF KeyInv, TypeOK, WriteMcp
<1>3. Grows(keys') /\ keys' = keys
  BY KeysKept DEF WriteMcp
<1>4. DEFINE h == IF Rest(p) = <<>> THEN Idle ELSE [proc[p] EXCEPT !.plan = Rest(p)]
<1>5. h = Idle \/ HolderFits(keys', h)
  BY <1>1, <1>3, Advances
<1>6. Becomes(p, h) /\ (MayIssue(h) => MayIssue(proc[p]))
  BY <1>1, Advances DEF WriteMcp, Advance
<1>7. HIDE DEF h
<1> QED BY <1>2, <1>3, <1>5, <1>6, OneGoesOn

LEMMA SaveConfigInv == ASSUME KeyInv, NEW p \in Procs, SaveConfig(p) PROVE KeyInv'
<1>1. Holds(p) /\ HolderFits(keys, proc[p]) /\ proc[p].config \in Configs
  BY Holder DEF SaveConfig, At
<1>2. /\ config' \in Configs /\ \A r \in Repos : KeyOf(keys', config'[r].id, r)
      /\ secrets' \in [Repos -> Values] /\ mcp' \subseteq Repos /\ strayed' = FALSE
      /\ lost' \subseteq Repos /\ spent' = spent /\ issued' = issued
  BY <1>1 DEF KeyInv, TypeOK, SaveConfig, HolderFits
<1>3. Grows(keys') /\ keys' = keys
  BY KeysKept DEF SaveConfig
<1>4. DEFINE h == IF Rest(p) = <<>> THEN Idle ELSE [proc[p] EXCEPT !.plan = Rest(p)]
<1>5. h = Idle \/ HolderFits(keys', h)
  BY <1>1, <1>3, Advances
<1>6. Becomes(p, h) /\ (MayIssue(h) => MayIssue(proc[p]))
  BY <1>1, Advances DEF SaveConfig, Advance
<1>7. HIDE DEF h
<1> QED BY <1>2, <1>3, <1>5, <1>6, OneGoesOn

LEMMA SaveSecretsInv == ASSUME KeyInv, NEW p \in Procs, SaveSecrets(p) PROVE KeyInv'
<1>1. Holds(p) /\ proc[p] \in Commanding /\ HolderFits(keys, proc[p])
  BY Holder DEF SaveSecrets, At
<1>2. /\ config' \in Configs /\ \A r \in Repos : KeyOf(keys', config'[r].id, r)
      /\ mcp' \subseteq Repos /\ strayed' = FALSE
      /\ spent' = spent /\ issued' = issued
  BY <1>1 DEF KeyInv, TypeOK, SaveSecrets
<1>3. secrets' \in [Repos -> Values] /\ lost' \subseteq Repos
  BY <1>1, Holder DEF KeyInv, TypeOK, SaveSecrets
<1>4. Grows(keys') /\ keys' = keys
  BY KeysKept DEF SaveSecrets
<1>5. PICK ends \in BOOLEAN :
        Becomes(p, IF ends THEN Idle ELSE [proc[p] EXCEPT !.plan = Rest(p), !.fresh = FALSE])
        /\ (Rest(p) = <<>> => ends)
  BY DEF SaveSecrets
<1>6. DEFINE h == IF ends THEN Idle ELSE [proc[p] EXCEPT !.plan = Rest(p), !.fresh = FALSE]
<1>7. CASE ends
  <2>1. h = Idle /\ ~ MayIssue(h) /\ Becomes(p, h)
    BY <1>5, <1>7, Plans DEF MayIssue, Idle
  <2>2. HIDE DEF h
  <2> QED BY <1>2, <1>3, <1>4, <2>1, OneGoesOn
<1>8. CASE ~ ends
  <2>1. h = [proc[p] EXCEPT !.plan = Rest(p), !.fresh = FALSE]
    BY <1>8
  <2>2. /\ Rest(p) \in Seq(PlanSteps) /\ PlanFits(Rest(p), proc[p].cmd, proc[p].options)
        /\ Rest(p) # <<>>
    BY <1>1, <1>5, <1>8, Holder DEF PlanKnown, Rest
  <2>3. /\ h \in Commanding /\ h.plan = Rest(p) /\ h.repo = proc[p].repo /\ h.cmd = proc[p].cmd
        /\ h.options = proc[p].options /\ h.config = proc[p].config /\ h.vk = proc[p].vk
    BY <1>1, <2>1, <2>2 DEF Commanding
  <2>4. HIDE DEF h
  <2>5. HolderFits(keys', h)
    BY <1>1, <1>4, <2>2, <2>3 DEF HolderFits
  <2>6. ~ MayIssue(h)
    BY <1>1, <2>2, <2>3, Holder, Plans DEF MayIssue, PlanKnown, Rest, SaveSecrets, At
  <2>7. Becomes(p, h)
    BY <1>5 DEF h
  <2> QED BY <1>1, <1>2, <1>3, <1>4, <2>5, <2>6, <2>7, OneGoesOn
<1> QED BY <1>7, <1>8

LEMMA ForgetInv == ASSUME KeyInv, NEW p \in Procs, Forget(p) PROVE KeyInv'
<1>1. /\ Holds(p) /\ proc[p] \in Commanding /\ HolderFits(keys, proc[p]) /\ proc[p].repo \in Repos
      /\ Head(proc[p].plan) = "forget" /\ proc[p].config \in Configs
      /\ proc[p].secrets \in [Repos -> Values]
  BY Holder DEF Forget, At
<1>2. /\ config' \in Configs /\ \A r \in Repos : KeyOf(keys', config'[r].id, r)
      /\ mcp' \subseteq Repos /\ strayed' = FALSE /\ lost' \subseteq Repos
      /\ spent' = spent /\ issued' = issued /\ secrets' \in [Repos -> Values]
  BY <1>1 DEF KeyInv, TypeOK, Forget
<1>3. Grows(keys') /\ keys' = keys
  BY KeysKept DEF Forget
<1>4. DEFINE c == [proc[p].config EXCEPT ![proc[p].repo] = NoRepo]
             s == [proc[p].secrets EXCEPT ![proc[p].repo] = NoValue]
             h == [proc[p] EXCEPT !.config = c, !.secrets = s, !.plan = Rest(p)]
<1>5. c \in Configs /\ \A r \in Repos : c[r] = IF r = proc[p].repo THEN NoRepo ELSE proc[p].config[r]
  BY <1>1, KeySets DEF Configs
<1>6. s \in [Repos -> Values]
  BY <1>1, RepoAssumption DEF Values, NoValue
<1>7. Becomes(p, h)
  BY DEF Forget, Forgets
<1>8. HIDE DEF c, s
<1>9. /\ Rest(p) \in Seq(PlanSteps) /\ PlanFits(Rest(p), proc[p].cmd, proc[p].options)
      /\ Rest(p) = SaveLeft
  BY <1>1, Holder, Plans DEF PlanKnown, Rest
<1>10. /\ h \in Commanding /\ h.plan = Rest(p) /\ h.repo = proc[p].repo /\ h.cmd = proc[p].cmd
       /\ h.options = proc[p].options /\ h.config = c /\ h.vk = proc[p].vk
  BY <1>1, <1>5, <1>6, <1>9 DEF Commanding
<1>11. HIDE DEF h
<1>12. HolderFits(keys', h)
  BY <1>1, <1>3, <1>5, <1>9, <1>10, KeySets DEF HolderFits, KeyOf
<1>13. ~ MayIssue(h)
  BY <1>9, <1>10, Plans DEF MayIssue, Issuing
<1> QED BY <1>2, <1>3, <1>7, <1>12, <1>13, OneGoesOn

LEMMA DeleteInv == ASSUME KeyInv, NEW p \in Procs, Delete(p) PROVE KeyInv'
<1>1. /\ Holds(p) /\ proc[p] \in Commanding /\ HolderFits(keys, proc[p]) /\ proc[p].repo \in Repos
      /\ Head(proc[p].plan) = "delete"
  BY Holder DEF Delete, At
<1>2. DEFINE r == proc[p].repo
             k == IF currentRepoState(p).id # NoKey THEN currentRepoState(p).id
                  ELSE Found(repoVirtualKeyName(r))
             h == IF Rest(p) = <<>> THEN Idle ELSE [proc[p] EXCEPT !.plan = Rest(p)]
<1>3. /\ k \in KeyIds \cup {NoKey} /\ KeyOf(keys, k, r)
  BY <1>1, Holder, FoundKey DEF repoVirtualKeyName
<1>4. /\ keys' = (IF k = NoKey THEN keys ELSE [keys EXCEPT ![k] = Gone])
      /\ strayed' = (strayed \/ (Exists(k) /\ keys[k].owner # r))
  BY DEF Delete
<1>5. strayed' = FALSE
  BY <1>3, <1>4 DEF KeyInv, KeyOf, Exists
<1>6. Grows(keys') /\ \A j \in KeyIds : keys[j] # Never <=> keys'[j] # Never
  <2>1. CASE k = NoKey
    BY <1>4, <2>1, KeysKept
  <2>2. CASE k # NoKey /\ keys[k] = Gone
    <3>1. keys' = keys
      BY <1>3, <1>4, <2>2 DEF KeyInv, TypeOK
    <3> QED BY <3>1, KeysKept
  <2>3. CASE k # NoKey /\ keys[k] # Gone
    <3>1. k \in KeyIds /\ keys[k] \notin {Never, Gone}
      BY <1>3, <2>3 DEF KeyOf
    <3>2. keys' = [keys EXCEPT ![k] = Gone]
      BY <1>4, <2>3
    <3>3. HIDE DEF k
    <3> QED BY <3>1, <3>2, KeyChanged, KeySets
  <2> QED BY <2>1, <2>2, <2>3
<1>7. /\ config' \in Configs /\ \A q \in Repos : KeyOf(keys', config'[q].id, q)
      /\ mcp' \subseteq Repos /\ lost' \subseteq Repos
      /\ spent' = spent /\ issued' = issued /\ secrets' \in [Repos -> Values]
  <2>1. \A q \in Repos : config[q].id \in KeyIds \cup {NoKey} /\ KeyOf(keys, config[q].id, q)
    BY DEF KeyInv, TypeOK, Configs
  <2>2. \A q \in Repos : KeyOf(keys', config[q].id, q)
    BY <1>6, <2>1, KeyOfGrows
  <2> QED BY <2>2 DEF KeyInv, TypeOK, Delete
<1>8. Becomes(p, h)
  BY DEF Delete, Advance
<1>9. /\ h = Idle \/ HolderFits(keys, h)
      /\ MayIssue(h) => MayIssue(proc[p])
  BY <1>1, Advances
<1>10. HIDE DEF h, k
<1>11. h = Idle \/ HolderFits(keys', h)
  BY <1>6, <1>9, HolderGrows
<1> QED BY <1>5, <1>6, <1>7, <1>8, <1>9, <1>11, OneGoesOn

LEMMA FilesStay ==
    ASSUME KeyInv, Grows(keys'), UNCHANGED <<config, secrets, mcp, strayed>>,
           lost' = lost \/ \E q \in Repos : lost' = lost \cup {q}
    PROVE  /\ config' \in Configs /\ \A r \in Repos : KeyOf(keys', config'[r].id, r)
           /\ secrets' \in [Repos -> Values] /\ mcp' \subseteq Repos /\ lost' \subseteq Repos
           /\ strayed' = FALSE
<1>1. \A q \in Repos : config[q].id \in KeyIds \cup {NoKey} /\ KeyOf(keys, config[q].id, q)
  BY DEF KeyInv, TypeOK, Configs
<1>2. \A q \in Repos : KeyOf(keys', config[q].id, q)
  BY <1>1, KeyOfGrows
<1> QED BY <1>2 DEF KeyInv, TypeOK

\* Without its id an init turns to a key of the repository's name.
LEMMA TurnsInv ==
    ASSUME KeyInv, NEW p \in Procs, Holds(p), Head(proc[p].plan) \in {"upsert", "create"},
           NEW s \in Issuing, NEW k, k = Found(proc[p].repo),
           Becomes(p, [proc[p] EXCEPT !.vk = k, !.plan = <<s>> \o Rest(p)]),
           UNCHANGED <<keys, config, secrets, mcp, issued, spent, lost, strayed>>
    PROVE  KeyInv'
<1>1. /\ proc[p] \in Commanding /\ HolderFits(keys, proc[p]) /\ proc[p].repo \in Repos
  BY Holder
<1>2. k \in KeyIds \cup {NoKey} /\ KeyOf(keys, k, proc[p].repo)
  BY <1>1, FoundKey
<1>3. DEFINE t == <<s>> \o Rest(p)
             h == [proc[p] EXCEPT !.vk = k, !.plan = t]
<1>4. PlanFits(t, proc[p].cmd, proc[p].options)
  BY <1>1, PlanTurns DEF HolderFits, Rest
<1>5. t \in Seq(PlanSteps)
  BY <1>4, PlansKnown DEF PlanKnown
<1>6. HIDE DEF t
<1>7. /\ h \in Commanding /\ h.plan = t /\ h.repo = proc[p].repo /\ h.cmd = proc[p].cmd
      /\ h.options = proc[p].options /\ h.config = proc[p].config /\ h.vk = k
  BY <1>1, <1>2, <1>5 DEF Commanding
<1>8. Becomes(p, h)
  BY DEF t
<1>9. HIDE DEF h
<1>10. HolderFits(keys', h)
  BY <1>1, <1>2, <1>4, <1>7 DEF HolderFits
<1>11. MayIssue(proc[p])
  BY <1>1, Holder DEF MayIssue, PlanKnown, Issuing
<1>12. Grows(keys') /\ keys' = keys
  BY KeysKept
<1> QED BY <1>8, <1>10, <1>11, <1>12, FilesStay, OneGoesOn

LEMMA UpsertByNameInv == ASSUME KeyInv, NEW p \in Procs, UpsertByName(p) PROVE KeyInv'
<1>1. DEFINE k == Found(repoVirtualKeyName(proc[p].repo))
             s == IF k = NoKey THEN "create" ELSE "adopt"
<1>2. Becomes(p, [proc[p] EXCEPT !.vk = k, !.plan = <<s>> \o Rest(p)])
  BY DEF UpsertByName
<1>3. Holds(p) /\ Head(proc[p].plan) = "upsert" /\ s \in Issuing /\ k = Found(proc[p].repo)
  BY DEF UpsertByName, At, Issuing, repoVirtualKeyName
<1>4. UNCHANGED <<keys, config, secrets, mcp, issued, spent, lost, strayed>>
  BY DEF UpsertByName
<1>5. HIDE DEF k, s
<1> QED BY <1>2, <1>3, <1>4, TurnsInv

LEMMA CreateRefusedInv == ASSUME KeyInv, NEW p \in Procs, CreateRefused(p) PROVE KeyInv'
<1>1. DEFINE k == Found(repoVirtualKeyName(proc[p].repo))
<1>2. Becomes(p, [proc[p] EXCEPT !.vk = k, !.plan = <<"adopt">> \o Rest(p)])
  BY DEF CreateRefused
<1>3. Holds(p) /\ Head(proc[p].plan) = "create" /\ "adopt" \in Issuing /\ k = Found(proc[p].repo)
  BY DEF CreateRefused, At, Issuing, repoVirtualKeyName
<1>4. UNCHANGED <<keys, config, secrets, mcp, issued, spent, lost, strayed>>
  BY DEF CreateRefused
<1>5. HIDE DEF k
<1> QED BY <1>2, <1>3, <1>4, TurnsInv

\* With a key of its repository the process holds its association.
LEMMA AssociateFits ==
    ASSUME KeyInv, NEW p \in Procs, Holds(p), Head(proc[p].plan) \in {"upsert", "create", "adopt"},
           NEW ks, Grows(ks), NEW k \in KeyIds, KeyOf(ks, k, proc[p].repo),
           NEW name, NEW clients \in SUBSET Clients, NEW raw \in Values, NEW created \in BOOLEAN,
           Associate(p, k, name, clients, raw, created)
    PROVE  \E h : /\ Becomes(p, h) /\ HolderFits(ks, h)
                  /\ created => ~ MayIssue(h)
<1>1. /\ proc[p] \in Commanding /\ HolderFits(keys, proc[p]) /\ proc[p].repo \in Repos
      /\ proc[p].config \in Configs /\ proc[p].secrets \in [Repos -> Values]
  BY Holder
<1>2. DEFINE r == proc[p].repo
             value == KeyValue(raw, proc[p].secrets[r])
             rotates == value = NoValue /\ ~ created /\ proc[p].options.rotate
             given == Recorded(p, clients)
             fresh == created /\ raw # NoValue
             c == [proc[p].config EXCEPT ![r] = [id |-> k, legacy |-> name = Basename,
                                     clients |-> given, bundles |-> proc[p].config[r].bundles]]
             s == [proc[p].secrets EXCEPT ![r] = value]
             t == IF rotates THEN <<"rotate">> \o Rest(p) ELSE Rest(p)
             h == [proc[p] EXCEPT !.config = c, !.secrets = s, !.fresh = fresh, !.vk = k, !.plan = t]
<1>3. Becomes(p, h)
  BY DEF Associate
<1>4. value \in Values
  BY <1>1 DEF KeyValue
<1>5. s \in [Repos -> Values]
  BY <1>1, <1>4
<1>6. c \in Configs
  <2>1. given \in SUBSET Clients
    BY <1>1 DEF Recorded, currentRepoState, Configs
  <2> QED BY <1>1, <2>1 DEF Configs
<1>7. \A q \in Repos : KeyOf(ks, c[q].id, q)
  <2>1. TAKE q \in Repos
  <2>2. CASE q = r
    BY <1>1, <2>2 DEF Configs
  <2>3. CASE q # r
    <3>1. c[q] = proc[p].config[q] /\ proc[p].config[q].id \in KeyIds \cup {NoKey}
      BY <1>1, <2>3 DEF Configs
    <3>2. KeyOf(keys, proc[p].config[q].id, q)
      BY <1>1 DEF HolderFits
    <3> QED BY <3>1, <3>2, KeyOfGrows
  <2> QED BY <2>2, <2>3
<1>8. PlanFits(t, proc[p].cmd, proc[p].options) /\ t \in Seq(PlanSteps)
  <2>1. PlanFits(t, proc[p].cmd, proc[p].options)
    BY <1>1, PlanTurns DEF HolderFits, Rest, Issuing
  <2> QED BY <2>1, PlansKnown DEF PlanKnown
<1>9. created => t = Rest(p)
  OBVIOUS
<1>10. Rest(p) \in {EndSave, MidSave}
  BY <1>1, PlanTurns DEF HolderFits, Rest, Issuing
<1>11. HIDE DEF c, s, t
<1>12. /\ h \in Commanding /\ h.plan = t /\ h.repo = proc[p].repo /\ h.cmd = proc[p].cmd
       /\ h.options = proc[p].options /\ h.config = c /\ h.vk = k
  BY <1>1, <1>5, <1>6, <1>8 DEF Commanding
<1>13. HIDE DEF h
<1>14. HolderFits(ks, h)
  BY <1>1, <1>7, <1>8, <1>12 DEF HolderFits
<1>15. created => ~ MayIssue(h)
  BY <1>9, <1>10, <1>12, Plans DEF MayIssue, Issuing
<1> QED BY <1>3, <1>14, <1>15

LEMMA ExistingKey ==
    ASSUME KeyInv, NEW k \in KeyIds \cup {NoKey}, Exists(k)
    PROVE  /\ k \in KeyIds /\ keys[k] \notin {Never, Gone} /\ keys[k] \in Keys
           /\ keys[k].clients \in SUBSET Clients /\ keys[k].bundles \in SUBSET Bundles
           /\ keys[k].value \in Values /\ keys[k].owner \in Repos
           /\ keys[k].name \in {Basename, keys[k].owner}
<1>1. k \in KeyIds /\ keys[k] \notin {Never, Gone}
  BY DEF Exists
<1>2. keys[k] \in Keys
  BY <1>1 DEF KeyInv, TypeOK
<1> QED BY <1>1, <1>2 DEF Keys, KeyInv, WellNamed

LEMMA GrantedClients ==
    ASSUME KeyInv, NEW p \in Procs, Holds(p), NEW k \in KeyIds
    PROVE  Granted(k, proc[p].options.clients) \in SUBSET Clients
<1>1. keys[k].clients \in SUBSET Clients
  BY DEF KeyInv, TypeOK, Keys
<1>2. proc[p].options.clients \in (SUBSET Clients) \cup {Unset}
  BY Holder DEF Options
<1> QED BY <1>1, <1>2 DEF Granted

LEMMA UpsertLocalInv == ASSUME KeyInv, NEW p \in Procs, UpsertLocal(p) PROVE KeyInv'
<1>1. DEFINE r == proc[p].repo
             k == currentRepoState(p).id
             name == IF currentRepoState(p).legacy THEN repoVirtualKeyName(r) ELSE keys[k].name
             clients == Granted(k, proc[p].options.clients)
             x == [keys[k] EXCEPT !.name = name, !.clients = clients]
<1>2. /\ Holds(p) /\ Head(proc[p].plan) = "upsert" /\ k \in KeyIds \cup {NoKey} /\ Exists(k)
      /\ r \in Repos /\ KeyOf(keys, k, r)
  BY Holder DEF UpsertLocal, At
<1>3. /\ k \in KeyIds /\ keys[k] \notin {Never, Gone} /\ keys[k] \in Keys
      /\ keys[k].value \in Values /\ keys[k].owner = r /\ keys[k].name \in {Basename, r}
  BY <1>2, ExistingKey DEF KeyOf, Exists
<1>4. clients \in SUBSET Clients
  BY <1>2, <1>3, GrantedClients
<1>5. CASE currentRepoState(p).legacy /\ Named(repoVirtualKeyName(r)) \ {k} # {}
  <2>1. Abort(p) /\ UNCHANGED <<keys, config, secrets, mcp, issued, spent, lost, strayed>>
    BY <1>5 DEF UpsertLocal
  <2> QED BY <1>2, <2>1, AbortInv DEF KeyInv, TypeOK
<1>6. CASE ~ (currentRepoState(p).legacy /\ Named(repoVirtualKeyName(r)) \ {k} # {})
  <2>1. PICK raw \in Raws("update", keys[k].value) :
        /\ keys' = [keys EXCEPT ![k] = x]
        /\ Associate(p, k, name, clients, raw, FALSE)
        /\ UNCHANGED <<config, secrets, mcp, issued, spent, lost, strayed>>
    BY <1>6 DEF UpsertLocal
  <2>2. name \in {Basename, r} /\ (name = keys[k].name \/ Named(r) \subseteq {k})
    BY <1>3, <1>6 DEF repoVirtualKeyName
  <2>3. name = keys[k].name \/ (name = r /\ Named(r) \subseteq {k})
    BY <1>3, <1>6 DEF repoVirtualKeyName
  <2>4. raw \in Values
    BY <1>3, <2>1, RepoAssumption DEF Raws, Values, NoValue
  <2>5. HIDE DEF name, clients
  <2>6. x \in Keys /\ x.owner = keys[k].owner /\ x.name = name
    BY <1>2, <1>3, <1>4, <2>2 DEF Keys
  <2>7. HIDE DEF x, k, r
  <2>8. Grows(keys') /\ \A j \in KeyIds : keys[j] # Never <=> keys'[j] # Never
    BY <1>3, <2>1, <2>3, <2>6, KeyChanged
  <2>9. KeyOf(keys', k, r)
    BY <1>2, <2>8, KeyOfGrows
  <2>10. KeyOf(keys', k, proc[p].repo)
    BY <2>9 DEF r
  <2>11. \E h : Becomes(p, h) /\ HolderFits(keys', h)
    BY <1>2, <1>3, <1>4, <2>1, <2>4, <2>8, <2>10, AssociateFits
  <2>12. PICK h : Becomes(p, h) /\ HolderFits(keys', h)
    BY <2>11
  <2>13. MayIssue(proc[p])
    BY <1>2, Holder DEF MayIssue, PlanKnown, Issuing
  <2> QED BY <2>1, <2>8, <2>12, <2>13, FilesStay, OneGoesOn
<1> QED BY <1>5, <1>6

LEMMA AdoptInv == ASSUME KeyInv, NEW p \in Procs, Adopt(p) PROVE KeyInv'
<1>1. DEFINE k == proc[p].vk
             clients == Granted(k, proc[p].options.clients)
             x == [keys[k] EXCEPT !.clients = clients]
<1>2. /\ Holds(p) /\ Head(proc[p].plan) = "adopt" /\ k \in KeyIds \cup {NoKey}
      /\ KeyOf(keys, k, proc[p].repo)
  BY Holder DEF Adopt, At, HolderFits
<1>3. CASE ~ Exists(k)
  <2>1. Abort(p) /\ UNCHANGED <<keys, config, secrets, mcp, issued, spent, lost, strayed>>
    BY <1>3 DEF Adopt
  <2> QED BY <1>2, <2>1, AbortInv DEF KeyInv, TypeOK
<1>4. CASE Exists(k)
  <2>1. PICK raw \in Raws("update", keys[k].value) :
        /\ keys' = [keys EXCEPT ![k] = x]
        /\ Associate(p, k, keys[k].name, clients, raw, FALSE)
        /\ UNCHANGED <<config, secrets, mcp, issued, spent, lost, strayed>>
    BY <1>4 DEF Adopt
  <2>2. /\ k \in KeyIds /\ keys[k] \notin {Never, Gone} /\ keys[k] \in Keys
        /\ keys[k].value \in Values
    BY <1>2, <1>4, ExistingKey
  <2>3. clients \in SUBSET Clients
    BY <1>2, <2>2, GrantedClients
  <2>4. raw \in Values
    BY <2>1, <2>2, RepoAssumption DEF Raws, Values, NoValue
  <2>5. HIDE DEF clients
  <2>6. x \in Keys /\ x.owner = keys[k].owner /\ x.name = keys[k].name
    BY <2>2, <2>3 DEF Keys
  <2>7. HIDE DEF x, k
  <2>8. Grows(keys') /\ \A j \in KeyIds : keys[j] # Never <=> keys'[j] # Never
    BY <2>1, <2>2, <2>6, KeyChanged
  <2>9. KeyOf(keys', k, proc[p].repo)
    BY <1>2, <2>8, KeyOfGrows
  <2>10. PICK h : Becomes(p, h) /\ HolderFits(keys', h)
    BY <1>2, <2>1, <2>2, <2>3, <2>4, <2>8, <2>9, AssociateFits
  <2>11. MayIssue(proc[p])
    BY <1>2, Holder DEF MayIssue, PlanKnown, Issuing
  <2> QED BY <2>1, <2>8, <2>10, <2>11, FilesStay, OneGoesOn
<1> QED BY <1>3, <1>4

LEMMA CreateInv == ASSUME KeyInv, NEW p \in Procs, Create(p) PROVE KeyInv'
<1>1. DEFINE r == proc[p].repo
             k == Unused
             clients == proc[p].options.clients \ Unset
             x == [name |-> repoVirtualKeyName(r), owner |-> r, value |-> issued + 1,
                   clients |-> clients, bundles |-> {}]
<1>2. Holds(p) /\ Head(proc[p].plan) = "create" /\ r \in Repos /\ Named(r) = {}
  BY Holder DEF Create, At, repoVirtualKeyName
<1>3. MayIssue(proc[p])
  BY <1>2, Holder DEF MayIssue, PlanKnown, Issuing
<1>4. /\ issued < 1 + spent /\ k \in KeyIds /\ keys[k] = Never
      /\ \A j \in KeyIds : keys[j] # Never <=> j < k
      /\ k <= issued + 1
  BY <1>3, UnusedId
<1>5. /\ issued \in 1 .. MaxCommands + 1 /\ spent \in 0 .. MaxCommands /\ MaxCommands \in Nat
      /\ keys \in [KeyIds -> Keys] /\ WellNamed(keys)
  BY RepoAssumption DEF KeyInv, TypeOK
<1>6. issued + 1 \in Values
  BY <1>4, <1>5 DEF Values
<1>7. clients \in SUBSET Clients
  <2>1. proc[p].options.clients \in (SUBSET Clients) \cup {Unset}
    BY <1>2, Holder DEF Options
  <2> QED BY <2>1
<1>8. PICK raw \in Raws("create", issued + 1) :
      /\ keys' = [keys EXCEPT ![k] = x] /\ issued' = issued + 1
      /\ Associate(p, k, repoVirtualKeyName(r), clients, raw, TRUE)
      /\ lost' = IF raw = NoValue THEN lost \cup {r} ELSE lost
      /\ UNCHANGED <<config, secrets, mcp, spent, strayed>>
  BY DEF Create
<1>9. HIDE DEF k, clients
<1>10. x \in Keys /\ x.name = r /\ x.owner = r
  BY <1>2, <1>6, <1>7 DEF Keys, repoVirtualKeyName
<1>11. x \notin {Never, Gone}
  BY <1>2, <1>10, KeySets
<1>12. HIDE DEF x
<1>13. keys'[k] = x /\ keys' \in [KeyIds -> Keys] /\ \A j \in KeyIds : j # k => keys'[j] = keys[j]
  BY <1>4, <1>5, <1>8, <1>10
<1>14. WellNamed(keys')
  <2>1. ASSUME NEW j \in KeyIds, keys'[j] \notin {Never, Gone}
        PROVE  keys'[j].owner \in Repos /\ keys'[j].name \in {Basename, keys'[j].owner}
    BY <1>2, <1>5, <1>10, <1>13, <2>1 DEF WellNamed
  <2>2. ASSUME NEW j \in KeyIds, NEW i \in KeyIds, keys'[j].name \in Repos, keys'[i].name = keys'[j].name
        PROVE  j = i
    <3>1. \A m \in KeyIds : keys[m].name # r
      BY <1>2 DEF Named
    <3> QED BY <1>5, <1>10, <1>13, <2>2, <3>1 DEF WellNamed
  <2> QED BY <2>1, <2>2 DEF WellNamed
<1>15. Grows(keys')
  BY <1>4, <1>11, <1>13, <1>14 DEF Grows
<1>16. \A j \in KeyIds : keys'[j] # Never <=> j <= k
  BY <1>4, <1>11, <1>13 DEF KeyIds
<1>17. k \in 0 .. issued'
  BY <1>4, <1>5, <1>8 DEF KeyIds
<1>18. KeyOf(keys', k, proc[p].repo)
  BY <1>10, <1>11, <1>13 DEF KeyOf
<1>19. raw \in Values
  BY <1>6, <1>8, RepoAssumption DEF Raws, Values, NoValue
<1>20. PICK h : Becomes(p, h) /\ HolderFits(keys', h) /\ ~ MayIssue(h)
  BY <1>2, <1>4, <1>7, <1>8, <1>15, <1>18, <1>19, AssociateFits
<1>21. lost' = lost \/ \E q \in Repos : lost' = lost \cup {q}
  BY <1>2, <1>8
<1> QED BY <1>3, <1>8, <1>15, <1>16, <1>17, <1>20, <1>21, FilesStay, OneGoesOn

LEMMA RotateInv == ASSUME KeyInv, NEW p \in Procs, Rotate(p) PROVE KeyInv'
<1>1. DEFINE k == proc[p].vk
             x == [keys[k] EXCEPT !.value = issued + 1]
             s == [proc[p].secrets EXCEPT ![proc[p].repo] = issued + 1]
             h == [proc[p] EXCEPT !.plan = Rest(p), !.fresh = TRUE, !.secrets = s]
<1>2. /\ Holds(p) /\ Head(proc[p].plan) = "rotate" /\ k \in KeyIds \cup {NoKey}
      /\ proc[p] \in Commanding /\ HolderFits(keys, proc[p])
      /\ proc[p].secrets \in [Repos -> Values]
  BY Holder DEF Rotate, At
<1>3. MayIssue(proc[p])
  BY <1>2, Holder DEF MayIssue, PlanKnown, Issuing
<1>4. CASE ~ Exists(k)
  <2>1. Abort(p) /\ UNCHANGED <<keys, config, secrets, mcp, issued, spent, lost, strayed>>
    BY <1>4 DEF Rotate
  <2> QED BY <1>2, <2>1, AbortInv DEF KeyInv, TypeOK
<1>5. CASE Exists(k)
  <2>1. /\ keys' = [keys EXCEPT ![k] = x] /\ issued' = issued + 1 /\ Becomes(p, h)
        /\ UNCHANGED <<config, secrets, mcp, spent, lost, strayed>>
    BY <1>5 DEF Rotate
  <2>2. k \in KeyIds /\ keys[k] \notin {Never, Gone} /\ keys[k] \in Keys
    BY <1>2, <1>5, ExistingKey
  <2>3. issued + 1 \in Values
    BY <1>3, UnusedId, RepoAssumption DEF KeyInv, TypeOK, Values
  <2>4. s \in [Repos -> Values]
    BY <1>2, <2>3
  <2>5. x \in Keys /\ x.owner = keys[k].owner /\ x.name = keys[k].name
    BY <2>2, <2>3 DEF Keys
  <2>6. HIDE DEF x, s
  <2>7. Rest(p) \in {SaveLeft, EndSave, MidSave}
    BY <1>2, Holder, RotateKnown DEF Rest
  <2>8. Rest(p) \in Seq(PlanSteps) /\ PlanFits(Rest(p), proc[p].cmd, proc[p].options)
    BY <1>2, <2>7, Holder, Plans DEF PlanKnown, Rest
  <2>9. /\ h \in Commanding /\ h.plan = Rest(p) /\ h.repo = proc[p].repo /\ h.cmd = proc[p].cmd
        /\ h.options = proc[p].options /\ h.config = proc[p].config /\ h.vk = proc[p].vk
    BY <1>2, <2>4, <2>8 DEF Commanding
  <2>10. HIDE DEF h, k
  <2>11. Grows(keys') /\ \A j \in KeyIds : keys[j] # Never <=> keys'[j] # Never
    BY <2>1, <2>2, <2>5, KeyChanged
  <2>12. HolderFits(keys, h)
    BY <1>2, <2>8, <2>9 DEF HolderFits
  <2>13. HolderFits(keys', h)
    BY <2>11, <2>12, HolderGrows
  <2>14. ~ MayIssue(h)
    BY <2>7, <2>9, Plans DEF MayIssue, Issuing
  <2> QED BY <1>3, <2>1, <2>11, <2>13, <2>14, FilesStay, OneGoesOn
<1> QED BY <1>4, <1>5

\* After a request about grants or bundles the command only saves.
LEMMA SavesInv ==
    ASSUME KeyInv, NEW p \in Procs, Holds(p), Rest(p) \in {SaveLeft, EndSave}, NEW c \in Configs,
           \A r \in Repos : c[r].id = proc[p].config[r].id,
           Becomes(p, [proc[p] EXCEPT !.plan = Rest(p), !.config = c]), Grows(keys'),
           \A j \in KeyIds : keys[j] # Never <=> keys'[j] # Never,
           UNCHANGED <<config, secrets, mcp, issued, spent, lost, strayed>>
    PROVE  KeyInv'
<1>1. /\ proc[p] \in Commanding /\ HolderFits(keys, proc[p])
      /\ PlanKnown(proc[p].plan, proc[p].cmd, proc[p].options)
  BY Holder
<1>2. DEFINE h == [proc[p] EXCEPT !.plan = Rest(p), !.config = c]
<1>3. Rest(p) \in Seq(PlanSteps) /\ PlanFits(Rest(p), proc[p].cmd, proc[p].options)
  BY <1>1, Plans DEF PlanKnown, Rest
<1>4. /\ h \in Commanding /\ h.plan = Rest(p) /\ h.repo = proc[p].repo /\ h.cmd = proc[p].cmd
      /\ h.options = proc[p].options /\ h.config = c /\ h.vk = proc[p].vk
  BY <1>1, <1>3 DEF Commanding
<1>5. HIDE DEF h
<1>6. HolderFits(keys, h)
  BY <1>1, <1>3, <1>4 DEF HolderFits
<1>7. HolderFits(keys', h)
  BY <1>6, HolderGrows
<1>8. ~ MayIssue(h)
  BY <1>4, Plans DEF MayIssue, Issuing
<1>9. Becomes(p, h)
  BY DEF h
<1> QED BY <1>7, <1>8, <1>9, FilesStay, OneGoesOn

LEMMA GrantInv == ASSUME KeyInv, NEW p \in Procs, Grant(p) PROVE KeyInv'
<1>1. DEFINE k == proc[p].vk
             r == proc[p].repo
             clients == IF proc[p].cmd = "mcp add" THEN proc[p].grants \cup proc[p].options.clients
                        ELSE proc[p].grants \ proc[p].options.clients
             x == [keys[k] EXCEPT !.clients = clients]
             c == [proc[p].config EXCEPT ![r].clients = clients]
<1>2. /\ Holds(p) /\ Head(proc[p].plan) = "grant" /\ k \in KeyIds \cup {NoKey} /\ r \in Repos
      /\ proc[p] \in Commanding /\ HolderFits(keys, proc[p]) /\ proc[p].config \in Configs
  BY Holder DEF Grant, At
<1>3. Rest(p) = SaveLeft /\ proc[p].cmd \in {"mcp add", "mcp remove"}
  BY <1>2, Holder DEF PlanKnown, Rest
<1>4. CASE ~ Exists(k)
  <2>1. Abort(p) /\ UNCHANGED <<keys, config, secrets, mcp, issued, spent, lost, strayed>>
    BY <1>4 DEF Grant
  <2> QED BY <1>2, <2>1, AbortInv DEF KeyInv, TypeOK
<1>5. CASE Exists(k)
  <2>1. /\ keys' = [keys EXCEPT ![k] = x]
        /\ Becomes(p, [proc[p] EXCEPT !.plan = Rest(p), !.config = c])
        /\ UNCHANGED <<config, secrets, mcp, issued, spent, lost, strayed>>
    BY <1>5 DEF Grant
  <2>2. k \in KeyIds /\ keys[k] \notin {Never, Gone} /\ keys[k] \in Keys
    BY <1>2, <1>5, ExistingKey
  <2>3. proc[p].options.clients \in SUBSET Clients
    <3>1. proc[p].options.clients \in (SUBSET Clients) \cup {Unset}
      BY <1>2, Holder DEF Options
    <3>2. Cardinality(proc[p].options.clients \ Unset) = 1
      BY <1>2, <1>3 DEF HolderFits, Takes
    <3>3. Unset \ Unset = {}
      OBVIOUS
    <3> QED BY <3>1, <3>2, <3>3, FS_EmptySet
  <2>4. clients \in SUBSET Clients
    BY <1>2, <2>3 DEF Commanding
  <2>5. HIDE DEF clients
  <2>6. x \in Keys /\ x.owner = keys[k].owner /\ x.name = keys[k].name
    BY <2>2, <2>4 DEF Keys
  <2>7. c \in Configs /\ \A q \in Repos : c[q].id = proc[p].config[q].id
    BY <1>2, <2>4 DEF Configs
  <2>8. HIDE DEF x, c, k
  <2>9. Grows(keys') /\ \A j \in KeyIds : keys[j] # Never <=> keys'[j] # Never
    BY <2>1, <2>2, <2>6, KeyChanged
  <2> QED BY <1>2, <1>3, <2>1, <2>7, <2>9, SavesInv
<1> QED BY <1>4, <1>5

LEMMA BundleInv == ASSUME KeyInv, NEW p \in Procs, Bundle(p) PROVE KeyInv'
<1>1. DEFINE k == proc[p].vk
             r == proc[p].repo
             asked == proc[p].options.bundles
             bundles == IF proc[p].cmd = "vmcp add" THEN keys[k].bundles \cup asked
                        ELSE keys[k].bundles \ asked
             names == LiveNames(proc[p].cmd, proc[p].seen[k], asked)
             x == [keys[k] EXCEPT !.bundles = bundles]
             c == [proc[p].config EXCEPT ![r].bundles = names]
<1>2. /\ Holds(p) /\ Head(proc[p].plan) = "bundle" /\ k \in KeyIds \cup {NoKey} /\ r \in Repos
      /\ proc[p] \in Commanding /\ HolderFits(keys, proc[p]) /\ proc[p].config \in Configs
  BY Holder DEF Bundle, At
<1>3. Rest(p) = SaveLeft /\ proc[p].cmd \in {"vmcp add", "vmcp remove"}
  BY <1>2, Holder DEF PlanKnown, Rest
<1>4. CASE ~ Exists(k)
  <2>1. Abort(p) /\ UNCHANGED <<keys, config, secrets, mcp, issued, spent, lost, strayed>>
    BY <1>4 DEF Bundle
  <2> QED BY <1>2, <2>1, AbortInv DEF KeyInv, TypeOK
<1>5. CASE Exists(k)
  <2>1. /\ keys' = [keys EXCEPT ![k] = x]
        /\ Becomes(p, [proc[p] EXCEPT !.plan = Rest(p), !.config = c])
        /\ UNCHANGED <<config, secrets, mcp, issued, spent, lost, strayed>>
    BY <1>5 DEF Bundle
  <2>2. /\ k \in KeyIds /\ keys[k] \notin {Never, Gone} /\ keys[k] \in Keys
        /\ keys[k].bundles \in SUBSET Bundles
    BY <1>2, <1>5, ExistingKey
  <2>3. asked \in SUBSET Bundles
    <3>1. asked \in (SUBSET Bundles) \cup {Unset}
      BY <1>2, Holder DEF Options
    <3>2. Cardinality(asked \ Unset) = 1
      BY <1>2, <1>3 DEF HolderFits, Takes
    <3>3. Unset \ Unset = {}
      OBVIOUS
    <3> QED BY <3>1, <3>2, <3>3, FS_EmptySet
  <2>4. proc[p].seen[k] \in SUBSET Bundles
    BY <1>2, <2>2 DEF Commanding
  <2>5. bundles \in SUBSET Bundles /\ names \in SUBSET Bundles
    BY <2>2, <2>3, <2>4 DEF LiveNames
  <2>6. HIDE DEF bundles, names
  <2>7. x \in Keys /\ x.owner = keys[k].owner /\ x.name = keys[k].name
    BY <2>2, <2>5 DEF Keys
  <2>8. c \in Configs /\ \A q \in Repos : c[q].id = proc[p].config[q].id
    BY <1>2, <2>5 DEF Configs
  <2>9. HIDE DEF x, c, k
  <2>10. Grows(keys') /\ \A j \in KeyIds : keys[j] # Never <=> keys'[j] # Never
    BY <2>1, <2>2, <2>7, KeyChanged
  <2> QED BY <1>2, <1>3, <2>1, <2>8, <2>10, SavesInv
<1> QED BY <1>4, <1>5

\* An inventory that an init has gone by.
LEMMA SyncInv == ASSUME KeyInv, NEW p \in Procs, Sync(p) PROVE KeyInv'
<1>1. DEFINE k == proc[p].vk
             r == proc[p].repo
             wanted == proc[p].options.bundles
             attach == wanted \ proc[p].seen[k]
             detach == proc[p].seen[k] \ wanted
             c == [proc[p].config EXCEPT ![r].bundles = wanted]
<1>2. /\ Holds(p) /\ Head(proc[p].plan) = "bundles" /\ k \in KeyIds \cup {NoKey} /\ r \in Repos
      /\ proc[p] \in Commanding /\ HolderFits(keys, proc[p]) /\ proc[p].config \in Configs
      /\ proc[p].plan = SyncLeft /\ wanted # Unset
  BY Holder DEF Sync, At, PlanKnown
<1>3. wanted \in SUBSET Bundles
  <2>1. wanted \in (SUBSET Bundles) \cup {Unset}
    BY <1>2, Holder DEF Options
  <2> QED BY <1>2, <2>1
<1>4. UNCHANGED <<config, secrets, mcp, issued, spent, lost, strayed>>
  BY DEF Sync
<1>5. CASE ~ Exists(k) /\ attach \cup detach # {}
  <2>1. Abort(p) /\ UNCHANGED keys
    BY <1>5 DEF Sync
  <2> QED BY <1>2, <1>4, <2>1, AbortInv DEF KeyInv, TypeOK
<1>6. ASSUME NEW bundles \in SUBSET Bundles, NEW seen \in SUBSET Bundles, Exists(k),
             keys' = [keys EXCEPT ![k].bundles = bundles],
             Becomes(p, [proc[p] EXCEPT !.seen[k] = seen])
      PROVE  KeyInv'
  <2>1. DEFINE x == [keys[k] EXCEPT !.bundles = bundles]
               s == [proc[p].seen EXCEPT ![k] = seen]
               h == [proc[p] EXCEPT !.seen = s]
  <2>2. k \in KeyIds /\ keys[k] \notin {Never, Gone} /\ keys[k] \in Keys
    BY <1>2, <1>6, ExistingKey
  <2>3. x \in Keys /\ x.owner = keys[k].owner /\ x.name = keys[k].name
    BY <2>2, <1>6 DEF Keys
  <2>4. keys' = [keys EXCEPT ![k] = x] /\ Becomes(p, h)
    BY <1>6
  <2>5. s \in [KeyIds -> SUBSET Bundles]
    BY <1>2, <1>6, <2>2 DEF Commanding
  <2>6. HIDE DEF x, s
  <2>7. /\ h \in Commanding /\ h.plan = proc[p].plan /\ h.repo = proc[p].repo /\ h.cmd = proc[p].cmd
        /\ h.options = proc[p].options /\ h.config = proc[p].config /\ h.vk = proc[p].vk
    BY <1>2, <2>5 DEF Commanding
  <2>8. HIDE DEF h, k
  <2>9. Grows(keys') /\ \A j \in KeyIds : keys[j] # Never <=> keys'[j] # Never
    BY <2>2, <2>3, <2>4, KeyChanged
  <2>10. HolderFits(keys, h)
    BY <1>2, <2>7 DEF HolderFits
  <2>11. HolderFits(keys', h)
    BY <2>9, <2>10, HolderGrows
  <2>12. MayIssue(h) => MayIssue(proc[p])
    BY <2>7 DEF MayIssue
  <2> QED BY <1>4, <2>4, <2>9, <2>11, <2>12, FilesStay, OneGoesOn
<1>7. CASE Exists(k) /\ attach # {}
  <2>1. PICK b \in attach : /\ keys' = [keys EXCEPT ![k].bundles = @ \cup {b}]
                           /\ Becomes(p, [proc[p] EXCEPT !.seen[k] = @ \cup {b}])
    BY <1>7 DEF Sync
  <2>2. keys[k].bundles \cup {b} \in SUBSET Bundles
    BY <1>2, <1>3, <1>7, ExistingKey
  <2>3. proc[p].seen[k] \cup {b} \in SUBSET Bundles
    BY <1>2, <1>3, <1>7, ExistingKey DEF Commanding
  <2> QED BY <1>6, <1>7, <2>1, <2>2, <2>3
<1>8. CASE Exists(k) /\ attach = {} /\ detach # {}
  <2>1. PICK b \in detach : /\ keys' = [keys EXCEPT ![k].bundles = @ \ {b}]
                           /\ Becomes(p, [proc[p] EXCEPT !.seen[k] = @ \ {b}])
    BY <1>8 DEF Sync
  <2>2. keys[k].bundles \ {b} \in SUBSET Bundles
    BY <1>2, <1>8, ExistingKey
  <2>3. proc[p].seen[k] \ {b} \in SUBSET Bundles
    BY <1>2, <1>8, ExistingKey DEF Commanding
  <2> QED BY <1>6, <1>8, <2>1, <2>2, <2>3
<1>9. CASE attach = {} /\ detach = {}
  <2>1. Becomes(p, [proc[p] EXCEPT !.plan = Rest(p), !.config = c]) /\ UNCHANGED keys
    BY <1>9 DEF Sync
  <2>2. Rest(p) = EndSave
    BY <1>2, Plans DEF Rest
  <2>3. c \in Configs /\ \A q \in Repos : c[q].id = proc[p].config[q].id
    BY <1>2, <1>3 DEF Configs
  <2>4. HIDE DEF c
  <2>5. Grows(keys') /\ \A j \in KeyIds : keys[j] # Never <=> keys'[j] # Never
    BY <2>1, KeysKept
  <2> QED BY <1>2, <1>4, <2>1, <2>2, <2>3, <2>5, SavesInv
<1> QED BY <1>5, <1>7, <1>8, <1>9

LEMMA ReadInv == ASSUME KeyInv, NEW p \in Procs, Read(p) PROVE KeyInv'
<1>1. DEFINE k == currentRepoState(p).id
             grants == IF Head(Rest(p)) = "grant" THEN keys[k].clients ELSE proc[p].grants
             seen == IF Head(Rest(p)) = "bundle" THEN [j \in KeyIds |-> keys[j].bundles]
                     ELSE proc[p].seen
             h == [proc[p] EXCEPT !.plan = Rest(p), !.vk = k, !.grants = grants, !.seen = seen]
<1>2. /\ Holds(p) /\ Head(proc[p].plan) = "read" /\ k \in KeyIds \cup {NoKey}
      /\ KeyOf(keys, k, proc[p].repo) /\ proc[p] \in Commanding /\ HolderFits(keys, proc[p])
      /\ UNCHANGED <<keys, config, secrets, mcp, issued, spent, lost, strayed>>
  BY Holder DEF Read, At
<1>3. CASE ~ Exists(k)
  <2>1. Abort(p)
    BY <1>3 DEF Read
  <2> QED BY <1>2, <2>1, AbortInv DEF KeyInv, TypeOK
<1>4. CASE Exists(k)
  <2>1. Becomes(p, h)
    BY <1>4 DEF Read
  <2>2. keys[k].clients \in SUBSET Clients
    BY <1>2, <1>4, ExistingKey
  <2>3. grants \in SUBSET Clients
    BY <1>2, <2>2 DEF Commanding
  <2>4. seen \in [KeyIds -> SUBSET Bundles]
    BY <1>2 DEF Commanding, KeyInv, TypeOK, Keys
  <2>5. HIDE DEF grants, seen
  <2>6. proc[p].plan \in {ReadRotate, ReadGrant, ReadBundle, ReadSave}
    BY <1>2, Holder DEF PlanKnown
  <2>7. Rest(p) # <<>> /\ (Head(Rest(p)) \in Issuing => proc[p].plan = ReadRotate) /\ Rest(p) # ReadRotate
    BY <1>2, <2>6, Holder, Plans DEF PlanKnown, Rest
  <2>8. Rest(p) \in Seq(PlanSteps) /\ PlanFits(Rest(p), proc[p].cmd, proc[p].options)
    BY <1>2, <2>7, Holder DEF PlanKnown, Rest
  <2>9. /\ h \in Commanding /\ h.plan = Rest(p) /\ h.repo = proc[p].repo /\ h.cmd = proc[p].cmd
        /\ h.options = proc[p].options /\ h.config = proc[p].config /\ h.vk = k
    BY <1>2, <2>3, <2>4, <2>8 DEF Commanding
  <2>10. HIDE DEF h, k
  <2>11. HolderFits(keys', h)
    BY <1>2, <2>8, <2>9 DEF HolderFits
  <2>12. MayIssue(h) => MayIssue(proc[p])
    BY <2>7, <2>9 DEF MayIssue
  <2> QED BY <1>2, <2>1, <2>11, <2>12, KeysKept, FilesStay, OneGoesOn
<1> QED BY <1>3, <1>4

\* A command is given: it makes the count of values to be issued grow by one at
\* most, as does the number of commands.
LEMMA StartInv ==
    ASSUME KeyInv, NEW p \in Procs, NEW r \in Repos, NEW cmd \in Commands, NEW o \in Choices,
           spent < MaxCommands, Start(p, r, cmd, o)
    PROVE  KeyInv'
<1>1. DEFINE seen == [k \in KeyIds |-> IF o.bundles = Unset THEN {} ELSE keys[k].bundles]
             alone == \A other \in Procs : ~ Holds(other)
             h == [plan |-> Plan(cmd, o), repo |-> r, cmd |-> cmd, options |-> o,
                   config |-> config, secrets |-> secrets, fresh |-> FALSE,
                   vk |-> NoKey, seen |-> seen, grants |-> {}, alone |-> alone]
             A == {q \in Procs : MayIssue(proc[q])}
             B == {q \in Procs : MayIssue(proc'[q])}
<1>2. /\ ~ Holds(p) /\ Takes(cmd, o) /\ spent' = spent + 1
      /\ proc' = [q \in Procs |-> IF q = p THEN h
                                  ELSE IF Holds(q) THEN [proc[q] EXCEPT !.alone = FALSE] ELSE proc[q]]
      /\ UNCHANGED <<keys, config, secrets, mcp, issued, strayed>>
  BY DEF Start
<1>3. o \in Options
  BY RepoAssumption
<1>4. PlanFits(Plan(cmd, o), cmd, o) /\ Plan(cmd, o) \in Seq(PlanSteps)
  BY <1>3, PlanBegins, PlansKnown DEF PlanKnown
<1>5. seen \in [KeyIds -> SUBSET Bundles]
  BY DEF KeyInv, TypeOK, Keys
<1>6. alone \in BOOLEAN
  OBVIOUS
<1>7. config \in Configs /\ secrets \in [Repos -> Values] /\ NoKey \in KeyIds \cup {NoKey}
  BY DEF KeyInv, TypeOK
<1>8. HIDE DEF seen, alone
<1>9. /\ h \in Commanding /\ h.plan = Plan(cmd, o) /\ h.repo = r /\ h.cmd = cmd
      /\ h.options = o /\ h.config = config /\ h.vk = NoKey
  BY <1>3, <1>4, <1>5, <1>6, <1>7 DEF Commanding
<1>10. HIDE DEF h
<1>11. HolderFits(keys, h)
  BY <1>2, <1>4, <1>9 DEF HolderFits, KeyInv, KeyOf
<1>12. \A q \in Procs : q # p =>
         /\ proc'[q].plan = proc[q].plan
         /\ proc'[q] = Idle \/ HolderFits(keys, proc'[q])
  <2>1. SUFFICES ASSUME NEW q \in Procs, q # p
                 PROVE  /\ proc'[q].plan = proc[q].plan
                        /\ proc'[q] = Idle \/ HolderFits(keys, proc'[q])
    OBVIOUS
  <2>2. CASE ~ Holds(q)
    BY <1>2, <2>1, <2>2 DEF KeyInv
  <2>3. CASE Holds(q)
    <3>1. DEFINE g == [proc[q] EXCEPT !.alone = FALSE]
    <3>2. proc'[q] = g
      BY <1>2, <2>1, <2>3
    <3>3. proc[q] \in Commanding /\ HolderFits(keys, proc[q])
      BY <2>3, Holder
    <3>4. /\ g \in Commanding /\ g.plan = proc[q].plan /\ g.repo = proc[q].repo /\ g.cmd = proc[q].cmd
          /\ g.options = proc[q].options /\ g.config = proc[q].config /\ g.vk = proc[q].vk
      BY <3>3 DEF Commanding
    <3>5. HIDE DEF g
    <3>6. HolderFits(keys, g)
      BY <3>3, <3>4 DEF HolderFits
    <3> QED BY <3>2, <3>4, <3>6
  <2> QED BY <2>2, <2>3
<1>13. proc'[p] = h
  BY <1>2
<1>14. /\ proc' \in [Procs -> Commanding \cup {Idle}]
       /\ \A q \in Procs : proc'[q] = Idle \/ HolderFits(keys', proc'[q])
  <2>1. \A q \in Procs : proc'[q] = Idle \/ HolderFits(keys, proc'[q])
    BY <1>11, <1>12, <1>13
  <2>2. \A q \in Procs : proc'[q] \in Commanding \cup {Idle}
    BY <2>1 DEF HolderFits
  <2>3. \A q \in Procs : proc'[q] = Idle \/ HolderFits(keys', proc'[q])
    <3>1. keys' = keys
      BY <1>2
    <3> QED BY <2>1, <3>1
  <2>4. DOMAIN proc' = Procs /\ proc' = [q \in Procs |-> proc'[q]]
    BY <1>2
  <2> QED BY <2>2, <2>3, <2>4
<1>15. IdsSuffice'
  <2>1. IsFiniteSet(A) /\ p \notin A
    <3>1. ~ MayIssue(proc[p])
      BY <1>2, Plans DEF MayIssue, Holds
    <3> QED BY <3>1, RepoAssumption, FS_Subset
  <2>2. B \subseteq A \cup {p}
    BY <1>12 DEF MayIssue
  <2>3. IsFiniteSet(A \cup {p}) /\ Cardinality(A \cup {p}) = Cardinality(A) + 1
    BY <2>1, FS_AddElement
  <2>4. /\ Cardinality(B) <= Cardinality(A \cup {p}) /\ Cardinality(B) \in Nat
        /\ Cardinality(A) \in Nat
    BY <2>1, <2>2, <2>3, FS_Subset, FS_CardinalityType
  <2>5. /\ issued + Cardinality(A) <= 1 + spent /\ issued \in 1 .. MaxCommands + 1
        /\ spent \in 0 .. MaxCommands /\ MaxCommands \in Nat
    BY RepoAssumption DEF KeyInv, IdsSuffice, TypeOK
  <2>6. issued' + Cardinality(B) <= 1 + spent'
    BY <1>2, <2>3, <2>4, <2>5
  <2>7. \E n \in 0 .. issued' : \A k \in KeyIds : keys'[k] # Never <=> k <= n
    BY <1>2 DEF KeyInv, IdsSuffice
  <2> QED BY <2>6, <2>7 DEF IdsSuffice
<1>16. lost' \subseteq Repos
  BY DEF Start, KeyInv, TypeOK
<1>17. TypeOK'
  BY <1>2, <1>16, RepoAssumption DEF KeyInv, TypeOK
<1>18. WellNamed(keys') /\ strayed' = FALSE /\ \A q \in Repos : KeyOf(keys', config'[q].id, q)
  BY <1>2 DEF KeyInv
<1> QED BY <1>14, <1>15, <1>17, <1>18 DEF KeyInv

LEMMA DeletedInv == ASSUME KeyInv, NEW k \in KeyIds, DeletedElsewhere(k) PROVE KeyInv'
<1>1. /\ keys' = [keys EXCEPT ![k] = Gone] /\ spent' = spent + 1 /\ spent < MaxCommands
      /\ keys[k] \notin {Never, Gone}
      /\ UNCHANGED <<config, secrets, mcp, proc, issued, lost, strayed>>
  BY DEF DeletedElsewhere, Exists
<1>2. Grows(keys') /\ \A j \in KeyIds : keys[j] # Never <=> keys'[j] # Never
  BY <1>1, KeyChanged, KeySets
<1>3. \A q \in Procs : proc'[q] = Idle \/ HolderFits(keys', proc'[q])
  <2>1. TAKE q \in Procs
  <2>2. proc[q] = Idle \/ HolderFits(keys, proc[q])
    BY DEF KeyInv
  <2> QED BY <1>1, <1>2, <2>2, HolderGrows
<1>4. IdsSuffice'
  <2>1. DEFINE A == {q \in Procs : MayIssue(proc[q])}
  <2>2. Cardinality(A) \in Nat
    BY RepoAssumption, FS_Subset, FS_CardinalityType
  <2>3. issued + Cardinality(A) <= 1 + spent /\ issued \in Nat /\ spent \in Nat
    BY DEF KeyInv, IdsSuffice, TypeOK
  <2>4. issued' + Cardinality(A) <= 1 + spent'
    BY <1>1, <2>2, <2>3
  <2>5. \E n \in 0 .. issued' : \A j \in KeyIds : keys'[j] # Never <=> j <= n
    BY <1>1, <1>2 DEF KeyInv, IdsSuffice
  <2>6. {q \in Procs : MayIssue(proc'[q])} = A
    BY <1>1
  <2> QED BY <2>4, <2>5, <2>6 DEF IdsSuffice
<1>5. TypeOK'
  BY <1>1, <1>2, RepoAssumption DEF KeyInv, TypeOK, Grows
<1>6. /\ WellNamed(keys') /\ strayed' = FALSE /\ \A q \in Repos : KeyOf(keys', config'[q].id, q)
      /\ proc' \in [Procs -> Commanding \cup {Idle}]
  BY <1>1, <1>2, FilesStay DEF KeyInv, Grows
<1> QED BY <1>3, <1>4, <1>5, <1>6 DEF KeyInv

LEMMA StepKeyInv == ASSUME KeyInv, NEW p \in Procs, Step(p) PROVE KeyInv'
BY DiesInv, UpsertLocalInv, UpsertByNameInv, AdoptInv, CreateRefusedInv, CreateInv, ReadInv, RotateInv,
   GrantInv, BundleInv, SyncInv, DeleteInv, ForgetInv, SaveConfigInv, SaveSecretsInv, WriteMcpInv DEF Step

LEMMA KeyInvInit == Init => KeyInv
<1>1. SUFFICES ASSUME Init PROVE KeyInv
  OBVIOUS
<1>2. PICK r \in Repos, old \in BOOLEAN :
        /\ keys = [k \in KeyIds |-> IF old /\ k = 1
                    THEN [name |-> Basename, owner |-> r, value |-> 1, clients |-> {}, bundles |-> {}]
                    ELSE Never]
        /\ config = [q \in Repos |-> IF old /\ q = r THEN [NoRepo EXCEPT !.id = 1, !.legacy = TRUE]
                                     ELSE NoRepo]
        /\ secrets = [q \in Repos |-> IF old /\ q = r THEN 1 ELSE NoValue]
        /\ mcp = IF old THEN {r} ELSE {}
  BY <1>1 DEF Init
<1>3. /\ proc = [p \in Procs |-> Idle] /\ issued = 1 /\ spent = 0 /\ lost = {} /\ strayed = FALSE
  BY <1>1 DEF Init
<1>4. MaxCommands \in Nat /\ 1 \in Values /\ NoValue \in Values /\ 1 \in KeyIds
  BY RepoAssumption DEF Values, NoValue, KeyIds
<1>5. DEFINE x == [name |-> Basename, owner |-> r, value |-> 1, clients |-> {}, bundles |-> {}]
             y == [NoRepo EXCEPT !.id = 1, !.legacy = TRUE]
<1>6. x \in Keys /\ x.name = Basename /\ x.owner = r
  BY <1>4 DEF Keys
<1>7. x \notin {Never, Gone}
  BY <1>6, KeySets
<1>8. /\ y.id = 1
      /\ y \in [id : KeyIds \cup {NoKey}, legacy : BOOLEAN,
                clients : SUBSET Clients, bundles : SUBSET Bundles]
  BY <1>4 DEF NoRepo
<1>9. HIDE DEF x, y
<1>10. keys \in [KeyIds -> Keys] /\ \A k \in KeyIds : keys[k] = IF old /\ k = 1 THEN x ELSE Never
  BY <1>2, <1>6, KeySets DEF x
<1>11. config \in Configs /\ \A q \in Repos : config[q] = IF old /\ q = r THEN y ELSE NoRepo
  BY <1>2, <1>8, KeySets DEF y, Configs
<1>12. secrets \in [Repos -> Values]
  BY <1>2, <1>4
<1>13. TypeOK
  <2>1. issued \in 1 .. MaxCommands + 1 /\ spent \in 0 .. MaxCommands
    BY <1>3, <1>4
  <2>2. mcp \subseteq Repos /\ lost \subseteq Repos /\ strayed \in BOOLEAN
    BY <1>2, <1>3
  <2>3. keys \in [KeyIds -> Keys]
    BY <1>10
  <2>4. config \in Configs
    BY <1>11
  <2> QED BY <1>12, <2>1, <2>2, <2>3, <2>4 DEF TypeOK
<1>14. IdsSuffice
  <2>1. {p \in Procs : MayIssue(proc[p])} = {}
    BY <1>3, Plans DEF MayIssue, Idle
  <2>2. \E n \in 0 .. issued : \A k \in KeyIds : keys[k] # Never <=> k <= n
    <3>1. CASE old
      BY <1>3, <1>7, <1>10, <3>1 DEF KeyIds
    <3>2. CASE ~ old
      BY <1>3, <1>10, <3>2 DEF KeyIds
    <3> QED BY <3>1, <3>2
  <2>3. Cardinality({p \in Procs : MayIssue(proc[p])}) = 0
    BY <2>1, FS_EmptySet
  <2>4. issued + Cardinality({p \in Procs : MayIssue(proc[p])}) <= 1 + spent
    BY <1>3, <2>3
  <2> QED BY <2>2, <2>4 DEF IdsSuffice
<1>15. WellNamed(keys)
  <2>1. Never.name \notin Repos /\ Basename \notin Repos
    BY KeySets, RepoAssumption
  <2> QED BY <1>6, <1>10, <2>1 DEF WellNamed
<1>16. \A q \in Repos : KeyOf(keys, config[q].id, q)
  BY <1>4, <1>6, <1>7, <1>8, <1>10, <1>11, KeySets DEF KeyOf
<1>17. proc \in [Procs -> Commanding \cup {Idle}] /\ \A p \in Procs : proc[p] = Idle
  BY <1>3
<1> QED BY <1>3, <1>13, <1>14, <1>15, <1>16, <1>17 DEF KeyInv

\* Every id that a file or a command holds for a repository is of a key of that
\* repository's, names of keys are unique but for the old one, and ids and values
\* never run out, however commands overlap and wherever they die.
THEOREM KeyInvariant == Spec => []KeyInv
<1>1. KeyInv /\ [Next]_vars => KeyInv'
  <2>1. SUFFICES ASSUME KeyInv, [Next]_vars PROVE KeyInv'
    OBVIOUS
  <2>2. CASE UNCHANGED vars
    BY <2>1, <2>2 DEF vars, KeyInv, TypeOK, IdsSuffice
  <2>3. CASE Next
    BY <2>1, <2>3, StartInv, StepKeyInv, DeletedInv DEF Next
  <2> QED BY <2>1, <2>2, <2>3
<1> QED BY KeyInvInit, <1>1, PTL DEF Spec

\* The types of the keys, the files and the counters.
THEOREM KeyTypes == Spec => []TypeOK
<1>1. KeyInv => TypeOK
  BY DEF KeyInv
<1> QED BY KeyInvariant, <1>1, PTL

\* Repositories never share a key, whatever their basenames and however the
\* commands overlap, and no reset deletes the key of another repository
\* (upsertRepoVirtualKey, deleteRepoVirtualKeyForReset).
THEOREM KeysNeverShared == Spec => []EveryRepositoryItsOwnKey
<1>1. KeyInv => EveryRepositoryItsOwnKey
  BY DEF KeyInv, EveryRepositoryItsOwnKey, KeyOf, Exists
<1> QED BY KeyInvariant, <1>1, PTL

-----------------------------------------------------------------------------
(* A command that has the repository to itself.                            *)

LEMMA Idles == Idle.plan = <<>>
BY DEF Idle

\* Overlapping commands leave nothing to be said.
LEMMA OverlapGoesOn ==
    ASSUME KeyInv, AloneInv, KeyInv', NEW p \in Procs, Holds(p), ~ proc[p].alone, NEW h, Becomes(p, h),
           h = Idle \/ ~ h.alone, lost' = Repos
    PROVE  AloneInv'
<1>1. lost = Repos /\ \A q \in Procs : Holds(q) => ~ proc[q].alone
  BY DEF AloneInv
<1>2. \A q \in Procs : proc'[q] = IF q = p THEN h ELSE proc[q]
  BY DEF Becomes, KeyInv
<1>3. \A q \in Procs : proc'[q].plan # <<>> => ~ proc'[q].alone
  BY <1>1, <1>2, Idles DEF Holds
<1>4. \A q \in Procs : Holds(q)' <=> proc'[q].plan # <<>>
  BY DEF Holds
<1> QED BY <1>3, <1>4 DEF AloneInv

\* The same of a command that is alone.
LEMMA AloneGoesOn ==
    ASSUME KeyInv, AloneInv, KeyInv', NEW p \in Procs, Holds(p), proc[p].alone, NEW h, Becomes(p, h),
           \/ h = Idle
           \/ /\ h.alone /\ h.repo = proc[p].repo
              /\ MemoryFits(keys', config', secrets', lost', h)
              /\ ReportFits(keys', h),
           \A r \in Repos : r \notin lost' /\ (h # Idle /\ r = proc[p].repo => ~ h.fresh)
                            => SecretFits(keys', config', secrets', r)
    PROVE  AloneInv'
<1>1. \A q \in Procs : Holds(q) => q = p
  BY DEF AloneInv
<1>2. \A q \in Procs : proc'[q] = IF q = p THEN h ELSE proc[q]
  BY DEF Becomes, KeyInv
<1>3. \A q \in Procs : Holds(q)' <=> proc'[q].plan # <<>>
  BY DEF Holds
<1>4. \A q \in Procs : proc'[q].plan # <<>> => q = p
  BY <1>1, <1>2 DEF Holds
<1>5. h = Idle => h.plan = <<>>
  BY Idles
<1>6. \A q \in Procs : proc'[q].plan # <<>> => q = p /\ h # Idle /\ h.alone /\ proc'[q] = h
  BY <1>2, <1>4, <1>5
<1>7. ASSUME NEW r \in Repos, r \notin lost',
             \A q \in Procs : proc'[q].plan # <<>> /\ proc'[q].repo = r => ~ proc'[q].fresh
      PROVE  SecretFits(keys', config', secrets', r)
  <2>1. proc'[p] = h
    BY <1>2
  <2>2. h # Idle => h.plan # <<>>
    BY <2>1, PlansKnown DEF KeyInv, HolderFits, PlanKnown
  <2>3. h # Idle /\ r = proc[p].repo => ~ h.fresh
    BY <1>7, <2>1, <2>2
  <2> QED BY <1>7, <2>3
<1> QED BY <1>3, <1>6, <1>7 DEF AloneInv

\* The first clauses of the invariant, for the command that is alone.
LEMMA AloneHolder ==
    ASSUME KeyInv, AloneInv, NEW p \in Procs, Holds(p)
    PROVE  /\ proc[p].alone \in BOOLEAN /\ proc[p].fresh \in BOOLEAN
           /\ proc[p].alone => /\ MemoryFits(keys, config, secrets, lost, proc[p])
                               /\ ReportFits(keys, proc[p])
                               /\ \A r \in Repos : r \notin lost /\ (r = proc[p].repo => ~ proc[p].fresh)
                                                   => SecretFits(keys, config, secrets, r)
           /\ ~ proc[p].alone => lost = Repos
<1>1. proc[p].alone \in BOOLEAN /\ proc[p].fresh \in BOOLEAN
  BY Holder DEF Commanding
<1>2. ASSUME proc[p].alone, NEW r \in Repos, r \notin lost, r = proc[p].repo => ~ proc[p].fresh
      PROVE  SecretFits(keys, config, secrets, r)
  <2>1. \A q \in Procs : Holds(q) => q = p
    BY <1>2 DEF AloneInv
  <2> QED BY <1>2, <2>1 DEF AloneInv
<1> QED BY <1>1, <1>2 DEF AloneInv

LEMMA SecretsShrink ==
    ASSUME NEW ks, NEW ls, Shrinks(ks, ls), NEW conf, NEW sec, NEW r, SecretFits(ks, conf, sec, r)
    PROVE  SecretFits(ls, conf, sec, r)
BY DEF Shrinks, SecretFits, Candidates

LEMMA DiesAlone == ASSUME KeyInv, AloneInv, KeyInv', NEW p \in Procs, Dies(p) PROVE AloneInv'
<1>1. /\ Holds(p) /\ Becomes(p, Idle) /\ proc[p].repo \in Repos
      /\ lost' = (IF proc[p].fresh THEN lost \cup {proc[p].repo} ELSE lost)
      /\ UNCHANGED <<keys, config, secrets>>
  BY Holder DEF Dies, Abort
<1>2. CASE ~ proc[p].alone
  <2>1. lost' = Repos
    BY <1>1, <1>2, AloneHolder
  <2>2. DEFINE h == Idle
  <2>3. h = Idle /\ Becomes(p, h)
    BY <1>1
  <2>4. HIDE DEF h
  <2> QED BY <1>1, <1>2, <2>1, <2>3, OverlapGoesOn
<1>3. CASE proc[p].alone
  <2>1. \A r \in Repos : r \notin lost' => SecretFits(keys', config', secrets', r)
    BY <1>1, <1>3, AloneHolder
  <2>2. DEFINE h == Idle
  <2>3. h = Idle /\ Becomes(p, h)
    BY <1>1
  <2>4. HIDE DEF h
  <2> QED BY <1>1, <1>3, <2>1, <2>3, AloneGoesOn
<1> QED BY <1>2, <1>3, AloneHolder

\* A command that ends at a step of its own, with nothing unsaved.
LEMMA AbortAlone ==
    ASSUME KeyInv, AloneInv, KeyInv', NEW p \in Procs, Holds(p), Abort(p),
           Head(proc[p].plan) \notin {"config", "secrets"},
           UNCHANGED <<keys, config, secrets, lost>>
    PROVE  AloneInv'
<1>1. proc[p].repo \in Repos /\ Becomes(p, Idle)
  BY Holder DEF Abort
<1>2. DEFINE h == Idle
<1>3. h = Idle /\ Becomes(p, h)
  BY <1>1
<1>4. HIDE DEF h
<1>5. CASE ~ proc[p].alone
  BY <1>3, <1>5, AloneHolder, OverlapGoesOn
<1>6. CASE proc[p].alone
  <2>1. ~ proc[p].fresh
    BY <1>6, AloneHolder DEF MemoryFits
  <2>2. \A r \in Repos : r \notin lost' => SecretFits(keys', config', secrets', r)
    BY <1>6, <2>1, AloneHolder
  <2> QED BY <1>1, <1>3, <1>6, <2>2, AloneGoesOn
<1> QED BY <1>5, <1>6, AloneHolder

\* The key that an init adopts is the only one that the repository may use.
LEMMA AssociatedAlone ==
    ASSUME KeyInv, AloneInv, KeyInv', NEW p \in Procs, Holds(p),
           Head(proc[p].plan) \in {"upsert", "adopt"},
           NEW k \in KeyIds, keys[k] \notin {Never, Gone},
           k = proc[p].config[proc[p].repo].id \/ (proc[p].alone => keys[k].name = proc[p].repo),
           NEW x \in Keys, x \notin {Never, Gone}, keys' = [keys EXCEPT ![k] = x],
           x.value = keys[k].value, x.bundles = keys[k].bundles,
           x.name = keys[k].name \/ x.name = proc[p].repo, NEW name,
           NEW raw \in Raws("update", keys[k].value), Associate(p, k, name, x.clients, raw, FALSE),
           UNCHANGED <<config, secrets, lost>>
    PROVE  AloneInv'
<1>1. /\ proc[p] \in Commanding /\ HolderFits(keys, proc[p]) /\ proc[p].repo \in Repos
      /\ proc[p].config \in Configs /\ proc[p].secrets \in [Repos -> Values]
      /\ proc[p].cmd = "init" /\ Rest(p) \in {EndSave, MidSave}
      /\ \/ Rest(p) = EndSave /\ proc[p].options.bundles = Unset
         \/ Rest(p) = MidSave /\ proc[p].options.bundles # Unset
  <2>1. /\ proc[p] \in Commanding /\ HolderFits(keys, proc[p]) /\ proc[p].repo \in Repos
        /\ proc[p].config \in Configs /\ proc[p].secrets \in [Repos -> Values]
        /\ PlanKnown(proc[p].plan, proc[p].cmd, proc[p].options)
    BY Holder
  <2>2. /\ proc[p].cmd = "init"
        /\ \/ Rest(p) = EndSave /\ proc[p].options.bundles = Unset
           \/ Rest(p) = MidSave /\ proc[p].options.bundles # Unset
    BY <2>1 DEF PlanKnown, Rest
  <2> QED BY <2>1, <2>2
<1>2. DEFINE r == proc[p].repo
             g == proc[p]
             value == KeyValue(raw, proc[p].secrets[r])
             rotates == value = NoValue /\ ~ FALSE /\ proc[p].options.rotate
             given == Recorded(p, x.clients)
             c == [proc[p].config EXCEPT ![r] = [id |-> k, legacy |-> name = Basename,
                                  clients |-> given, bundles |-> proc[p].config[r].bundles]]
             s == [proc[p].secrets EXCEPT ![r] = value]
             t == IF rotates THEN <<"rotate">> \o Rest(p) ELSE Rest(p)
             h == [proc[p] EXCEPT !.config = c, !.secrets = s, !.fresh = FALSE, !.vk = k, !.plan = t]
<1>3. Becomes(p, h)
  BY DEF Associate
<1>4. /\ c[r].id = k /\ \A q \in Repos : q # r => c[q] = proc[p].config[q]
      /\ c[r].clients = x.clients \/ (g.options.clients = Unset /\ x.clients = {})
  BY <1>1 DEF Configs, Recorded
<1>5. s[r] = value /\ \A q \in Repos : q # r => s[q] = proc[p].secrets[q]
  BY <1>1
<1>6. value = keys[k].value \/ value = proc[p].secrets[r]
  BY DEF KeyValue, Raws
<1>7. (rotates => t = <<"rotate">> \o Rest(p)) /\ (~ rotates => t = Rest(p))
  OBVIOUS
<1>8. HIDE DEF c, s, t, value, rotates
<1>9. /\ t # <<>> /\ Head(t) \in {"rotate", "config"}
      /\ proc[p].options.bundles # Unset => t \notin Synced
  <2>1. CASE rotates
    <3>1. "rotate" \in Issuing
      BY DEF Issuing
    <3>2. t \in {Keyed("rotate"), KeyedSync("rotate")}
      BY <1>1, <1>7, <2>1, <3>1, OneMore
    <3>3. t # <<>> /\ Head(t) = "rotate"
      BY <3>1, <3>2, KeyedPlans
    <3> QED BY <3>3, Unsynced
  <2>2. CASE ~ rotates
    <3>1. t = Rest(p)
      BY <1>7, <2>2
    <3> QED BY <1>1, <3>1, Plans, Unsynced
  <2> QED BY <2>1, <2>2
<1>10. /\ h.config = c /\ h.secrets = s /\ h.fresh = FALSE /\ h.vk = k /\ h.plan = t
       /\ h.repo = r /\ h.cmd = "init" /\ h.options = g.options /\ h.alone = g.alone /\ h.seen = g.seen
  BY <1>1 DEF Commanding
<1>11. HIDE DEF h
<1>12. CASE ~ g.alone
  <2>1. lost' = Repos /\ ~ h.alone
    BY <1>10, <1>12, AloneHolder
  <2> QED BY <1>3, <1>12, <2>1, OverlapGoesOn
<1>13. CASE g.alone
  <2>1. /\ MemoryFits(keys, config, secrets, lost, g) /\ ReportFits(keys, g) /\ ~ g.fresh
        /\ \A q \in Repos : q \notin lost => SecretFits(keys, config, secrets, q)
    BY <1>1, <1>13, AloneHolder DEF MemoryFits
  <2>2. /\ \A j \in KeyIds : j # k => keys'[j] = keys[j]
        /\ keys'[k] = x
    BY DEF KeyInv, TypeOK
  <2>3. k = g.config[r].id \/ keys[k].name = r
    BY <1>13
  <2>4. k \in Candidates(keys, g.config, r)
    BY <2>3 DEF Candidates
  <2>5. \A q : x.name = q /\ q # r => keys[k].name = q
    OBVIOUS
  <2>6. \A q \in Repos : q # r => Candidates(keys', config, q) \subseteq Candidates(keys, config, q)
    BY <2>2, <2>5 DEF Candidates
  <2>7. r \notin lost => Candidates(keys', config, r) \subseteq Candidates(keys, config, r)
    <3>1. r \notin lost => k \in Candidates(keys, config, r)
      BY <2>1, <2>4 DEF MemoryFits
    <3> QED BY <2>2, <3>1 DEF Candidates
  <2>8. \A j \in KeyIds : keys'[j].value = keys[j].value
    BY <2>2
  <2>9. ASSUME NEW q \in Repos, q \notin lost'
        PROVE  SecretFits(keys', config', secrets', q)
    <3>1. Candidates(keys', config, q) \subseteq Candidates(keys, config, q)
      BY <2>6, <2>7, <2>9
    <3>2. SecretFits(keys, config, secrets, q)
      BY <2>1, <2>9
    <3> QED BY <2>8, <3>1, <3>2 DEF SecretFits, Candidates
  <2>10. Candidates(keys', c, r) \subseteq Candidates(keys, g.config, r)
    BY <1>4, <2>2, <2>4 DEF Candidates
  <2>11. r \notin lost => Candidates(keys', c, r) \subseteq Candidates(keys', config, r)
    <3>1. r \notin lost => k \in Candidates(keys, config, r)
      BY <2>1, <2>4 DEF MemoryFits
    <3> QED BY <1>4, <2>2, <3>1 DEF Candidates
  <2>12. r \notin lost => SecretFits(keys', c, s, r)
    <3>1. SUFFICES ASSUME r \notin lost PROVE SecretFits(keys', c, s, r)
      OBVIOUS
    <3>2. SecretFits(keys, g.config, g.secrets, r)
      BY <2>1, <3>1 DEF MemoryFits
    <3>3. /\ \A j \in Candidates(keys, g.config, r) : j = k
          /\ g.secrets[r] # NoValue => g.secrets[r] = keys[k].value
      BY <2>4, <3>2 DEF SecretFits
    <3>4. s[r] # NoValue => s[r] = keys'[k].value
      BY <1>5, <1>6, <2>8, <3>3
    <3> QED BY <2>10, <3>3, <3>4 DEF SecretFits
  <2>13. MemoryFits(keys', config', secrets', lost', h)
    BY <1>4, <1>5, <1>9, <1>10, <2>1, <2>11, <2>12 DEF MemoryFits
  <2>14. g.options.bundles # Unset => \A j \in KeyIds : keys[j] # Gone => g.seen[j] = keys[j].bundles
    <3>1. g.plan \notin Synced
      BY Unsynced
    <3> QED BY <1>1, <2>1, <3>1 DEF ReportFits, ClientsFit
  <2>15. \A j \in KeyIds : keys'[j] # Gone => keys[j] # Gone /\ keys'[j].bundles = keys[j].bundles
    BY <2>2
  <2>16. ReportFits(keys', h)
    <3>1. ClientsFit(keys', h)
      BY <1>4, <1>10, <2>2 DEF ClientsFit
    <3>2. h.options.bundles # Unset => h.plan \notin Synced
      BY <1>9, <1>10
    <3>3. h.options.bundles # Unset => \A j \in KeyIds : keys'[j] # Gone => h.seen[j] = keys'[j].bundles
      BY <1>10, <2>14, <2>15
    <3>4. h.cmd = "init" /\ h.vk # NoKey
      BY <1>10 DEF KeyIds, NoKey
    <3> QED BY <3>1, <3>2, <3>3, <3>4 DEF ReportFits, ClientsFit
  <2> QED BY <1>3, <1>10, <1>13, <2>9, <2>13, <2>16, AloneGoesOn
<1> QED BY <1>1, <1>12, <1>13 DEF Commanding

\* A command that goes on with the files as they were, and its keys as well but
\* for their grants, or for one that is deleted.
LEMMA GoesOnAlone ==
    ASSUME KeyInv, AloneInv, KeyInv', NEW p \in Procs, Holds(p), NEW h, Becomes(p, h),
           Head(proc[p].plan) \notin {"config", "secrets"}, Shrinks(keys, keys'),
           UNCHANGED <<config, secrets, lost>>,
           h.repo = proc[p].repo, h.alone = proc[p].alone, h.fresh = proc[p].fresh,
           h.secrets = proc[p].secrets,
           \A r \in Repos : h.config[r].id = proc[p].config[r].id,
           \A r \in Repos \ {proc[p].repo} : h.config[r] = proc[p].config[r],
           Head(h.plan) # "secrets",
           Head(h.plan) = "adopt" /\ h.vk # NoKey /\ keys'[h.vk] \notin {Never, Gone}
              => keys'[h.vk].name = h.repo,
           Head(h.plan) = "rotate" => h.vk = h.config[h.repo].id,
           proc[p].alone => ReportFits(keys', h)
    PROVE  AloneInv'
<1>1. proc[p].repo \in Repos
  BY Holder
<1>2. DEFINE r == proc[p].repo
             g == proc[p]
<1>3. CASE ~ g.alone
  BY <1>3, AloneHolder, OverlapGoesOn
<1>4. CASE g.alone
  <2>1. /\ MemoryFits(keys, config, secrets, lost, g) /\ ~ g.fresh
        /\ \A q \in Repos : q \notin lost => SecretFits(keys, config, secrets, q)
    BY <1>4, AloneHolder DEF MemoryFits
  <2>2. \A q \in Repos : q \notin lost' => SecretFits(keys', config', secrets', q)
    BY <2>1, SecretsShrink
  <2>3. ASSUME r \notin lost
        PROVE  /\ Candidates(keys', h.config, r) \subseteq Candidates(keys', config, r)
               /\ SecretFits(keys', h.config, h.secrets, r)
    <3>1. /\ Candidates(keys, g.config, r) \subseteq Candidates(keys, config, r)
          /\ SecretFits(keys, g.config, g.secrets, r)
      BY <2>1, <2>3 DEF MemoryFits
    <3>2. Candidates(keys, h.config, r) = Candidates(keys, g.config, r)
      BY <1>1 DEF Candidates
    <3>3. Candidates(keys', h.config, r) \subseteq Candidates(keys', config, r)
      BY <3>1, <3>2 DEF Candidates, Shrinks
    <3>4. SecretFits(keys, h.config, h.secrets, r)
      BY <3>1, <3>2 DEF SecretFits
    <3> QED BY <3>3, <3>4, SecretsShrink
  <2>4. \A q \in Repos : q # h.repo => h.config[q] = config'[q] /\ h.secrets[q] = secrets'[q]
    BY <2>1 DEF MemoryFits
  <2>5. MemoryFits(keys', config', secrets', lost', h)
    BY <2>1, <2>3, <2>4 DEF MemoryFits
  <2> QED BY <1>4, <2>1, <2>2, <2>5, AloneGoesOn
<1> QED BY <1>3, <1>4, AloneHolder

\* An init learns of a key by its name.
LEMMA TurnsAlone ==
    ASSUME KeyInv, AloneInv, KeyInv', NEW p \in Procs, Holds(p),
           Head(proc[p].plan) \in {"upsert", "create"},
           NEW s \in {"create", "adopt"}, NEW k, k = Found(proc[p].repo),
           Becomes(p, [proc[p] EXCEPT !.vk = k, !.plan = <<s>> \o Rest(p)]),
           UNCHANGED <<keys, config, secrets, mcp, issued, spent, lost, strayed>>
    PROVE  AloneInv'
<1>1. /\ proc[p] \in Commanding /\ proc[p].repo \in Repos /\ proc[p].cmd = "init" /\ s \in Issuing
  BY Holder DEF PlanKnown, Issuing
<1>2. k # NoKey => keys[k].name = proc[p].repo
  BY DEF Found, Named
<1>3. DEFINE t == <<s>> \o Rest(p)
             h == [proc[p] EXCEPT !.vk = k, !.plan = t]
<1>4. Head(t) = s
  BY <1>1, Holder, PlanTurns DEF HolderFits, Rest, Issuing
<1>5. HIDE DEF t
<1>6. /\ h.plan = t /\ h.repo = proc[p].repo /\ h.cmd = proc[p].cmd /\ h.vk = k
      /\ h.options = proc[p].options /\ h.config = proc[p].config /\ h.alone = proc[p].alone
      /\ h.fresh = proc[p].fresh /\ h.secrets = proc[p].secrets /\ h.seen = proc[p].seen
  BY <1>1 DEF Commanding
<1>7. Becomes(p, h)
  BY DEF t
<1>8. HIDE DEF h
<1>9. ASSUME proc[p].alone
      PROVE  ReportFits(keys', h)
  <2>1. ReportFits(keys, proc[p])
    BY <1>9, AloneHolder
  <2>2. proc[p].plan \notin Synced /\ h.plan \notin Synced
    BY <1>4, <1>6, Unsynced
  <2> QED BY <1>1, <1>4, <1>6, <2>1, <2>2 DEF ReportFits, ClientsFit
<1>10. Shrinks(keys, keys')
  BY DEF Shrinks
<1> QED BY <1>2, <1>4, <1>6, <1>7, <1>9, <1>10, GoesOnAlone

LEMMA UpsertByNameAlone == ASSUME KeyInv, AloneInv, KeyInv', NEW p \in Procs, UpsertByName(p) PROVE AloneInv'
<1>1. DEFINE k == Found(repoVirtualKeyName(proc[p].repo))
             s == IF k = NoKey THEN "create" ELSE "adopt"
<1>2. Becomes(p, [proc[p] EXCEPT !.vk = k, !.plan = <<s>> \o Rest(p)])
  BY DEF UpsertByName
<1>3. Holds(p) /\ Head(proc[p].plan) = "upsert" /\ s \in {"create", "adopt"} /\ k = Found(proc[p].repo)
  BY DEF UpsertByName, At, repoVirtualKeyName
<1>4. UNCHANGED <<keys, config, secrets, mcp, issued, spent, lost, strayed>>
  BY DEF UpsertByName
<1>5. HIDE DEF k, s
<1> QED BY <1>2, <1>3, <1>4, TurnsAlone

LEMMA CreateRefusedAlone == ASSUME KeyInv, AloneInv, KeyInv', NEW p \in Procs, CreateRefused(p) PROVE AloneInv'
<1>1. DEFINE k == Found(repoVirtualKeyName(proc[p].repo))
             s == "adopt"
<1>2. Becomes(p, [proc[p] EXCEPT !.vk = k, !.plan = <<s>> \o Rest(p)])
  BY DEF CreateRefused
<1>3. Holds(p) /\ Head(proc[p].plan) = "create" /\ s \in {"create", "adopt"} /\ k = Found(proc[p].repo)
  BY DEF CreateRefused, At, repoVirtualKeyName
<1>4. UNCHANGED <<keys, config, secrets, mcp, issued, spent, lost, strayed>>
  BY DEF CreateRefused
<1>5. HIDE DEF k, s
<1> QED BY <1>2, <1>3, <1>4, TurnsAlone

LEMMA ReadAlone == ASSUME KeyInv, AloneInv, KeyInv', NEW p \in Procs, Read(p) PROVE AloneInv'
<1>1. DEFINE k == currentRepoState(p).id
             gr == IF Head(Rest(p)) = "grant" THEN keys[k].clients ELSE proc[p].grants
             se == IF Head(Rest(p)) = "bundle" THEN [j \in KeyIds |-> keys[j].bundles] ELSE proc[p].seen
             t == Rest(p)
             h == [proc[p] EXCEPT !.plan = t, !.vk = k, !.grants = gr, !.seen = se]
<1>2. /\ Holds(p) /\ Head(proc[p].plan) = "read" /\ k \in KeyIds \cup {NoKey}
      /\ proc[p] \in Commanding /\ proc[p].repo \in Repos /\ k = proc[p].config[proc[p].repo].id
      /\ UNCHANGED <<keys, config, secrets, mcp, issued, spent, lost, strayed>>
  BY Holder DEF Read, At, currentRepoState
<1>3. CASE ~ Exists(k)
  BY <1>2, <1>3, AbortAlone DEF Read
<1>4. CASE Exists(k)
  <2>1. k \in KeyIds
    BY <1>2, <1>4, ExistingKey
  <2>2. Becomes(p, h)
    BY <1>4 DEF Read
  <2>3. /\ proc[p].cmd # "init" /\ Head(t) \in {"rotate", "grant", "bundle", "config"}
        /\ proc[p].cmd \in {"mcp add", "mcp remove"} => Head(t) = "grant"
        /\ proc[p].cmd \in {"vmcp add", "vmcp remove"} => Head(t) = "bundle"
    BY <1>2, Holder DEF PlanKnown, Rest
  <2>4. Head(t) = "bundle" => se[k] = keys[k].bundles
    BY <2>1
  <2>5. HIDE DEF k, gr, se, t
  <2>6. /\ h.plan = t /\ h.repo = proc[p].repo /\ h.cmd = proc[p].cmd /\ h.vk = k
        /\ h.options = proc[p].options /\ h.config = proc[p].config /\ h.alone = proc[p].alone
        /\ h.fresh = proc[p].fresh /\ h.secrets = proc[p].secrets /\ h.seen = se
    BY <1>2 DEF Commanding
  <2>7. HIDE DEF h
  <2>8. ReportFits(keys', h)
    BY <1>2, <2>3, <2>4, <2>6 DEF ReportFits, ClientsFit
  <2>9. Shrinks(keys, keys')
    BY <1>2 DEF Shrinks
  <2> QED BY <1>2, <2>2, <2>3, <2>6, <2>8, <2>9, GoesOnAlone
<1> QED BY <1>3, <1>4

LEMMA DeleteAlone == ASSUME KeyInv, AloneInv, KeyInv', NEW p \in Procs, Delete(p) PROVE AloneInv'
<1>1. DEFINE t == Rest(p)
             h == [proc[p] EXCEPT !.plan = t]
<1>2. /\ Holds(p) /\ Head(proc[p].plan) = "delete" /\ proc[p] \in Commanding /\ proc[p].repo \in Repos
      /\ t = Forgetting /\ proc[p].cmd = "reset"
  BY Holder DEF Delete, At, PlanKnown, Rest
<1>3. t # <<>> /\ Head(t) = "forget"
  BY <1>2, Plans
<1>4. Becomes(p, h)
  BY <1>3 DEF Delete, Advance
<1>5. UNCHANGED <<config, secrets, lost>> /\ \E k : keys' = keys \/ keys' = [keys EXCEPT ![k] = Gone]
  BY DEF Delete
<1>6. Shrinks(keys, keys')
  BY <1>5 DEF KeyInv, TypeOK, Shrinks
<1>7. HIDE DEF t
<1>8. /\ h.plan = t /\ h.repo = proc[p].repo /\ h.cmd = proc[p].cmd
      /\ h.config = proc[p].config /\ h.alone = proc[p].alone
      /\ h.fresh = proc[p].fresh /\ h.secrets = proc[p].secrets
  BY <1>2 DEF Commanding
<1>9. HIDE DEF h
<1>10. ReportFits(keys', h)
  BY <1>2, <1>8 DEF ReportFits, ClientsFit
<1> QED BY <1>2, <1>3, <1>4, <1>5, <1>6, <1>8, <1>10, GoesOnAlone

LEMMA GrantAlone == ASSUME KeyInv, AloneInv, KeyInv', NEW p \in Procs, Grant(p) PROVE AloneInv'
<1>1. DEFINE k == proc[p].vk
             r == proc[p].repo
             clients == IF proc[p].cmd = "mcp add" THEN proc[p].grants \cup proc[p].options.clients
                        ELSE proc[p].grants \ proc[p].options.clients
             x == [keys[k] EXCEPT !.clients = clients]
             c == [proc[p].config EXCEPT ![r].clients = clients]
             t == Rest(p)
             h == [proc[p] EXCEPT !.plan = t, !.config = c]
<1>2. /\ Holds(p) /\ Head(proc[p].plan) = "grant" /\ k \in KeyIds \cup {NoKey} /\ r \in Repos
      /\ proc[p] \in Commanding /\ proc[p].config \in Configs
      /\ UNCHANGED <<config, secrets, lost>>
  BY Holder DEF Grant, At
<1>3. t = SaveLeft /\ proc[p].cmd \in {"mcp add", "mcp remove"}
  BY <1>2, Holder DEF PlanKnown, Rest
<1>4. CASE ~ Exists(k)
  <2>1. Abort(p) /\ UNCHANGED keys
    BY <1>4 DEF Grant
  <2> QED BY <1>2, <2>1, AbortAlone
<1>5. CASE Exists(k)
  <2>1. keys' = [keys EXCEPT ![k] = x] /\ Becomes(p, h)
    BY <1>5 DEF Grant
  <2>2. k \in KeyIds /\ keys[k] \notin {Never, Gone} /\ keys[k] \in Keys
    BY <1>2, <1>5, ExistingKey
  <2>3. x.name = keys[k].name /\ x.value = keys[k].value /\ x.clients = clients
    BY <2>2 DEF Keys
  <2>4. /\ c[r].clients = clients
        /\ \A q \in Repos : c[q].id = proc[p].config[q].id /\ (q # r => c[q] = proc[p].config[q])
    BY <1>2 DEF Configs
  <2>5. HIDE DEF x, c, k, clients, t
  <2>6. Shrinks(keys, keys') /\ keys'[k] = x
    BY <2>1, <2>2, <2>3 DEF KeyInv, TypeOK, Shrinks
  <2>7. /\ h.plan = t /\ h.repo = proc[p].repo /\ h.cmd = proc[p].cmd /\ h.vk = proc[p].vk
        /\ h.config = c /\ h.alone = proc[p].alone
        /\ h.fresh = proc[p].fresh /\ h.secrets = proc[p].secrets
    BY <1>2 DEF Commanding
  <2>8. HIDE DEF h
  <2>9. h.vk = k
    BY <2>7 DEF k
  <2>10. ReportFits(keys', h)
    BY <1>3, <2>3, <2>4, <2>6, <2>7, <2>9 DEF ReportFits, ClientsFit
  <2>11. Head(h.plan) = "config"
    BY <1>3, <2>7, Plans
  <2>12. /\ \A q \in Repos : h.config[q].id = proc[p].config[q].id
         /\ \A q \in Repos \ {proc[p].repo} : h.config[q] = proc[p].config[q]
    BY <2>4, <2>7
  <2>13. /\ Holds(p) /\ Becomes(p, h) /\ Head(proc[p].plan) \notin {"config", "secrets"}
         /\ Shrinks(keys, keys') /\ UNCHANGED <<config, secrets, lost>>
    BY <1>2, <2>1, <2>6
  <2> QED BY <2>7, <2>10, <2>11, <2>12, <2>13, GoesOnAlone
<1> QED BY <1>4, <1>5

LEMMA BundleAlone == ASSUME KeyInv, AloneInv, KeyInv', NEW p \in Procs, Bundle(p) PROVE AloneInv'
<1>1. DEFINE k == proc[p].vk
             r == proc[p].repo
             asked == proc[p].options.bundles
             bundles == IF proc[p].cmd = "vmcp add" THEN keys[k].bundles \cup asked
                        ELSE keys[k].bundles \ asked
             names == LiveNames(proc[p].cmd, proc[p].seen[k], asked)
             x == [keys[k] EXCEPT !.bundles = bundles]
             c == [proc[p].config EXCEPT ![r].bundles = names]
             t == Rest(p)
             h == [proc[p] EXCEPT !.plan = t, !.config = c]
<1>2. /\ Holds(p) /\ Head(proc[p].plan) = "bundle" /\ k \in KeyIds \cup {NoKey} /\ r \in Repos
      /\ proc[p] \in Commanding /\ proc[p].config \in Configs
      /\ UNCHANGED <<config, secrets, lost>>
  BY Holder DEF Bundle, At
<1>3. t = SaveLeft /\ proc[p].cmd \in {"vmcp add", "vmcp remove"}
  BY <1>2, Holder DEF PlanKnown, Rest
<1>4. CASE ~ Exists(k)
  <2>1. Abort(p) /\ UNCHANGED keys
    BY <1>4 DEF Bundle
  <2> QED BY <1>2, <2>1, AbortAlone
<1>5. CASE Exists(k)
  <2>1. keys' = [keys EXCEPT ![k] = x] /\ Becomes(p, h)
    BY <1>5 DEF Bundle
  <2>2. k \in KeyIds /\ keys[k] \notin {Never, Gone} /\ keys[k] \in Keys /\ k # NoKey
    BY <1>2, <1>5, ExistingKey DEF Exists
  <2>3. x.name = keys[k].name /\ x.value = keys[k].value /\ x.bundles = bundles
    BY <2>2 DEF Keys
  <2>4. /\ c[r].bundles = names
        /\ \A q \in Repos : c[q].id = proc[p].config[q].id /\ (q # r => c[q] = proc[p].config[q])
    BY <1>2 DEF Configs
  <2>5. proc[p].alone => names = bundles
    <3>1. proc[p].alone => ReportFits(keys, proc[p])
      BY <1>2, AloneHolder
    <3>2. proc[p].alone => proc[p].seen[k] = keys[k].bundles
      BY <1>2, <1>3, <2>2, <3>1 DEF ReportFits, ClientsFit
    <3> QED BY <3>2 DEF LiveNames
  <2>6. HIDE DEF x, c, k, bundles, names, t
  <2>7. Shrinks(keys, keys') /\ keys'[k] = x
    BY <2>1, <2>2, <2>3 DEF KeyInv, TypeOK, Shrinks
  <2>8. /\ h.plan = t /\ h.repo = proc[p].repo /\ h.cmd = proc[p].cmd /\ h.vk = proc[p].vk
        /\ h.config = c /\ h.alone = proc[p].alone
        /\ h.fresh = proc[p].fresh /\ h.secrets = proc[p].secrets
    BY <1>2 DEF Commanding
  <2>9. HIDE DEF h
  <2>10. h.vk = k
    BY <2>8 DEF k
  <2>11. Head(h.plan) = "config"
    BY <1>3, <2>8, Plans
  <2>12. proc[p].alone => ReportFits(keys', h)
    BY <1>3, <2>3, <2>4, <2>5, <2>7, <2>8, <2>10, <2>11 DEF ReportFits, ClientsFit
  <2>13. /\ \A q \in Repos : h.config[q].id = proc[p].config[q].id
         /\ \A q \in Repos \ {proc[p].repo} : h.config[q] = proc[p].config[q]
    BY <2>4, <2>8
  <2>14. /\ Holds(p) /\ Becomes(p, h) /\ Head(proc[p].plan) \notin {"config", "secrets"}
         /\ Shrinks(keys, keys') /\ UNCHANGED <<config, secrets, lost>>
    BY <1>2, <2>1, <2>7
  <2> QED BY <2>8, <2>11, <2>12, <2>13, <2>14, GoesOnAlone
<1> QED BY <1>4, <1>5

LEMMA SyncAlone == ASSUME KeyInv, AloneInv, KeyInv', NEW p \in Procs, Sync(p) PROVE AloneInv'
<1>1. DEFINE k == proc[p].vk
             r == proc[p].repo
             wanted == proc[p].options.bundles
             attach == wanted \ proc[p].seen[k]
             detach == proc[p].seen[k] \ wanted
             c == [proc[p].config EXCEPT ![r].bundles = wanted]
<1>2. /\ Holds(p) /\ Head(proc[p].plan) = "bundles" /\ k \in KeyIds \cup {NoKey} /\ r \in Repos
      /\ proc[p] \in Commanding /\ proc[p].config \in Configs
      /\ proc[p].plan = SyncLeft /\ wanted # Unset /\ proc[p].cmd = "init"
  BY Holder DEF Sync, At, PlanKnown
<1>3. wanted \in SUBSET Bundles
  <2>1. wanted \in (SUBSET Bundles) \cup {Unset}
    BY <1>2, Holder DEF Options
  <2> QED BY <1>2, <2>1
<1>4. UNCHANGED <<config, secrets, lost>>
  BY DEF Sync
<1>5. proc[p].alone =>
        /\ ReportFits(keys, proc[p])
        /\ k # NoKey
        /\ \A j \in KeyIds : keys[j] # Gone => proc[p].seen[j] = keys[j].bundles
        /\ keys[k] \notin {Never, Gone} => ClientsFit(keys, proc[p])
  <2>1. proc[p].plan \notin Synced
    BY <1>2, Unsynced
  <2>2. proc[p].alone => ReportFits(keys, proc[p])
    BY <1>2, AloneHolder
  <2> QED BY <1>2, <2>1, <2>2 DEF ReportFits, ClientsFit
<1>6. CASE ~ Exists(k) /\ attach \cup detach # {}
  <2>1. Abort(p) /\ UNCHANGED keys
    BY <1>6 DEF Sync
  <2> QED BY <1>2, <1>4, <2>1, AbortAlone
<1>7. ASSUME NEW bundles \in SUBSET Bundles, NEW seen \in SUBSET Bundles, Exists(k),
             keys' = [keys EXCEPT ![k].bundles = bundles],
             Becomes(p, [proc[p] EXCEPT !.seen[k] = seen]),
             proc[p].seen[k] = keys[k].bundles => seen = bundles
      PROVE  AloneInv'
  <2>1. DEFINE x == [keys[k] EXCEPT !.bundles = bundles]
               s == [proc[p].seen EXCEPT ![k] = seen]
               h == [proc[p] EXCEPT !.seen = s]
  <2>2. k \in KeyIds /\ keys[k] \notin {Never, Gone} /\ keys[k] \in Keys
    BY <1>2, <1>7, ExistingKey
  <2>3. /\ x.name = keys[k].name /\ x.value = keys[k].value /\ x.clients = keys[k].clients
        /\ x.bundles = bundles
    BY <2>2 DEF Keys
  <2>4. keys' = [keys EXCEPT ![k] = x] /\ Becomes(p, h)
    BY <1>7
  <2>5. s[k] = seen /\ \A j \in KeyIds : j # k => s[j] = proc[p].seen[j]
    BY <1>2, <2>2 DEF Commanding
  <2>6. HIDE DEF x, s, k
  <2>7. Shrinks(keys, keys') /\ keys'[k] = x /\ \A j \in KeyIds : j # k => keys'[j] = keys[j]
    BY <2>2, <2>3, <2>4 DEF KeyInv, TypeOK, Shrinks
  <2>8. /\ h.plan = proc[p].plan /\ h.repo = proc[p].repo /\ h.cmd = proc[p].cmd
        /\ h.options = proc[p].options /\ h.config = proc[p].config /\ h.vk = proc[p].vk
        /\ h.alone = proc[p].alone /\ h.fresh = proc[p].fresh /\ h.secrets = proc[p].secrets
        /\ h.seen = s
    BY <1>2 DEF Commanding
  <2>9. HIDE DEF h
  <2>10. h.vk = k
    BY <2>8 DEF k
  <2>11. ASSUME proc[p].alone
         PROVE  ReportFits(keys', h)
    <3>1. proc[p].seen[k] = keys[k].bundles /\ seen = bundles
      BY <1>5, <1>7, <2>2, <2>11
    <3>2. \A j \in KeyIds : keys'[j] # Gone => s[j] = keys'[j].bundles
      BY <1>5, <2>3, <2>5, <2>7, <2>11, <3>1
    <3>3. h.plan \notin Synced
      BY <1>2, <2>8, Unsynced
    <3>4. ClientsFit(keys', h)
      BY <1>5, <2>2, <2>3, <2>7, <2>8, <2>10, <2>11 DEF ClientsFit
    <3>5. h.cmd = "init" /\ h.vk # NoKey
      BY <1>2, <1>5, <2>8, <2>10, <2>11
    <3> QED BY <2>8, <3>2, <3>3, <3>4, <3>5 DEF ReportFits, ClientsFit
  <2> QED BY <1>2, <1>4, <2>4, <2>7, <2>8, <2>11, GoesOnAlone
<1>8. CASE Exists(k) /\ attach # {}
  <2>1. PICK b \in attach : /\ keys' = [keys EXCEPT ![k].bundles = @ \cup {b}]
                           /\ Becomes(p, [proc[p] EXCEPT !.seen[k] = @ \cup {b}])
    BY <1>8 DEF Sync
  <2>2. keys[k].bundles \cup {b} \in SUBSET Bundles
    BY <1>2, <1>3, <1>8, ExistingKey
  <2>3. proc[p].seen[k] \cup {b} \in SUBSET Bundles
    BY <1>2, <1>3, <1>8, ExistingKey DEF Commanding
  <2> QED BY <1>7, <1>8, <2>1, <2>2, <2>3
<1>9. CASE Exists(k) /\ attach = {} /\ detach # {}
  <2>1. PICK b \in detach : /\ keys' = [keys EXCEPT ![k].bundles = @ \ {b}]
                           /\ Becomes(p, [proc[p] EXCEPT !.seen[k] = @ \ {b}])
    BY <1>9 DEF Sync
  <2>2. keys[k].bundles \ {b} \in SUBSET Bundles
    BY <1>2, <1>9, ExistingKey
  <2>3. proc[p].seen[k] \ {b} \in SUBSET Bundles
    BY <1>2, <1>9, ExistingKey DEF Commanding
  <2> QED BY <1>7, <1>9, <2>1, <2>2, <2>3
<1>10. CASE attach = {} /\ detach = {}
  <2>1. DEFINE t == Rest(p)
               h == [proc[p] EXCEPT !.plan = t, !.config = c]
  <2>2. Becomes(p, h) /\ UNCHANGED keys
    BY <1>10 DEF Sync
  <2>3. Head(t) = "config"
    BY <1>2, Plans DEF Rest
  <2>4. /\ c[r].bundles = wanted /\ c[r].clients = proc[p].config[r].clients
        /\ \A q \in Repos : c[q].id = proc[p].config[q].id /\ (q # r => c[q] = proc[p].config[q])
    BY <1>2 DEF Configs
  <2>5. proc[p].seen[k] = wanted
    BY <1>10
  <2>6. HIDE DEF c, t
  <2>7. /\ h.plan = t /\ h.repo = proc[p].repo /\ h.cmd = proc[p].cmd /\ h.vk = proc[p].vk
        /\ h.options = proc[p].options /\ h.config = c /\ h.alone = proc[p].alone
        /\ h.fresh = proc[p].fresh /\ h.secrets = proc[p].secrets
    BY <1>2 DEF Commanding
  <2>8. HIDE DEF h
  <2>9. ASSUME proc[p].alone
        PROVE  ReportFits(keys', h)
    <3>1. h.vk # NoKey /\ h.vk \in KeyIds /\ h.cmd = "init"
      BY <1>2, <1>5, <2>7, <2>9
    <3>2. keys[h.vk] \notin {Never, Gone} =>
             /\ ClientsFit(keys, h)
             /\ h.config[h.repo].bundles = keys[h.vk].bundles
      BY <1>2, <1>5, <2>4, <2>5, <2>7, <2>9, <3>1 DEF ClientsFit
    <3>3. h.plan \in Synced
      BY <1>2, <2>7, Plans DEF Synced, Rest, t
    <3> QED BY <2>2, <3>1, <3>2, <3>3 DEF ReportFits, ClientsFit
  <2>10. Shrinks(keys, keys') /\ Head(h.plan) = "config"
    BY <2>2, <2>3, <2>7 DEF Shrinks
  <2>11. /\ \A q \in Repos : h.config[q].id = proc[p].config[q].id
         /\ \A q \in Repos \ {proc[p].repo} : h.config[q] = proc[p].config[q]
    BY <2>4, <2>7
  <2> QED BY <1>2, <1>4, <2>2, <2>7, <2>9, <2>10, <2>11, GoesOnAlone
<1> QED BY <1>6, <1>8, <1>9, <1>10

LEMMA UpsertLocalAlone == ASSUME KeyInv, AloneInv, KeyInv', NEW p \in Procs, UpsertLocal(p) PROVE AloneInv'
<1>1. DEFINE r == proc[p].repo
             k == currentRepoState(p).id
             name == IF currentRepoState(p).legacy THEN repoVirtualKeyName(r) ELSE keys[k].name
             clients == Granted(k, proc[p].options.clients)
             x == [keys[k] EXCEPT !.name = name, !.clients = clients]
<1>2. /\ Holds(p) /\ Head(proc[p].plan) = "upsert" /\ k \in KeyIds \cup {NoKey} /\ Exists(k)
      /\ r \in Repos /\ KeyOf(keys, k, r)
  BY Holder DEF UpsertLocal, At
<1>3. /\ k \in KeyIds /\ keys[k] \notin {Never, Gone} /\ keys[k] \in Keys
      /\ keys[k].owner = r /\ keys[k].name \in {Basename, r}
  BY <1>2, ExistingKey DEF KeyOf, Exists
<1>4. clients \in SUBSET Clients
  BY <1>2, <1>3, GrantedClients
<1>5. CASE currentRepoState(p).legacy /\ Named(repoVirtualKeyName(r)) \ {k} # {}
  <2>1. Abort(p) /\ UNCHANGED <<keys, config, secrets, lost>>
    BY <1>5 DEF UpsertLocal
  <2> QED BY <1>2, <2>1, AbortAlone
<1>6. CASE ~ (currentRepoState(p).legacy /\ Named(repoVirtualKeyName(r)) \ {k} # {})
  <2>1. PICK raw \in Raws("update", keys[k].value) :
        /\ keys' = [keys EXCEPT ![k] = x]
        /\ Associate(p, k, name, clients, raw, FALSE)
        /\ UNCHANGED <<config, secrets, lost>>
    BY <1>6 DEF UpsertLocal
  <2>2. name = keys[k].name \/ name = r
    BY DEF repoVirtualKeyName
  <2>3. name \in {Basename, r}
    BY <1>3, <2>2
  <2>4. k = proc[p].config[proc[p].repo].id
    BY DEF currentRepoState
  <2>5. HIDE DEF name, clients
  <2>6. /\ x \in Keys /\ x.name = name /\ x.clients = clients
        /\ x.value = keys[k].value /\ x.bundles = keys[k].bundles
    BY <1>2, <1>3, <1>4, <2>3 DEF Keys
  <2>7. x \notin {Never, Gone}
    BY <1>2, <2>3, <2>6, KeySets
  <2>8. HIDE DEF x, k
  <2>9. Associate(p, k, name, x.clients, raw, FALSE)
    BY <2>1, <2>6
  <2>10. x.name = keys[k].name \/ x.name = proc[p].repo
    BY <2>2, <2>6
  <2> QED BY <1>2, <1>3, <2>1, <2>4, <2>6, <2>7, <2>9, <2>10, AssociatedAlone
<1> QED BY <1>5, <1>6

LEMMA AdoptAlone == ASSUME KeyInv, AloneInv, KeyInv', NEW p \in Procs, Adopt(p) PROVE AloneInv'
<1>1. DEFINE k == proc[p].vk
             clients == Granted(k, proc[p].options.clients)
             x == [keys[k] EXCEPT !.clients = clients]
<1>2. Holds(p) /\ Head(proc[p].plan) = "adopt" /\ k \in KeyIds \cup {NoKey} /\ proc[p].repo \in Repos
  BY Holder DEF Adopt, At
<1>3. CASE ~ Exists(k)
  <2>1. Abort(p) /\ UNCHANGED <<keys, config, secrets, lost>>
    BY <1>3 DEF Adopt
  <2> QED BY <1>2, <2>1, AbortAlone
<1>4. CASE Exists(k)
  <2>1. PICK raw \in Raws("update", keys[k].value) :
        /\ keys' = [keys EXCEPT ![k] = x]
        /\ Associate(p, k, keys[k].name, clients, raw, FALSE)
        /\ UNCHANGED <<config, secrets, lost>>
    BY <1>4 DEF Adopt
  <2>2. /\ k \in KeyIds /\ keys[k] \notin {Never, Gone} /\ keys[k] \in Keys /\ k # NoKey
        /\ keys[k].name \in {Basename, keys[k].owner} /\ keys[k].owner \in Repos
    BY <1>2, <1>4, ExistingKey DEF Exists
  <2>3. clients \in SUBSET Clients
    BY <1>2, <2>2, GrantedClients
  <2>4. HIDE DEF clients
  <2>5. /\ x \in Keys /\ x.name = keys[k].name /\ x.clients = clients
        /\ x.value = keys[k].value /\ x.bundles = keys[k].bundles
    BY <2>2, <2>3 DEF Keys
  <2>6. x \notin {Never, Gone}
    BY <2>2, <2>5, KeySets
  <2>7. proc[p].alone => keys[k].name = proc[p].repo
    BY <1>2, <2>2, AloneHolder DEF MemoryFits
  <2>8. HIDE DEF x, k
  <2>9. DEFINE name == keys[k].name
  <2>10. Associate(p, k, name, x.clients, raw, FALSE)
    BY <2>1, <2>5
  <2>11. HIDE DEF name
  <2> QED BY <1>2, <2>1, <2>2, <2>5, <2>6, <2>7, <2>10, AssociatedAlone
<1> QED BY <1>3, <1>4

LEMMA WriteMcpAlone == ASSUME KeyInv, AloneInv, KeyInv', NEW p \in Procs, WriteMcp(p) PROVE AloneInv'
<1>1. Holds(p) /\ Head(proc[p].plan) = "mcp"
  BY DEF WriteMcp, At
<1>2. Rest(p) = <<>>
  BY <1>1, Holder DEF PlanKnown, Rest
<1>3. Abort(p) /\ UNCHANGED <<keys, config, secrets, lost>>
  BY <1>2 DEF WriteMcp, Advance, Abort
<1> QED BY <1>1, <1>3, AbortAlone

LEMMA ForgetAlone == ASSUME KeyInv, AloneInv, KeyInv', NEW p \in Procs, Forget(p) PROVE AloneInv'
<1>1. DEFINE r == proc[p].repo
             g == proc[p]
             c == [proc[p].config EXCEPT ![proc[p].repo] = NoRepo]
             s == [proc[p].secrets EXCEPT ![proc[p].repo] = NoValue]
             t == Rest(p)
             h == [proc[p] EXCEPT !.config = c, !.secrets = s, !.plan = t]
<1>2. /\ Holds(p) /\ proc[p] \in Commanding /\ proc[p].repo \in Repos
      /\ Head(proc[p].plan) = "forget" /\ proc[p].config \in Configs
      /\ proc[p].secrets \in [Repos -> Values]
  BY Holder DEF Forget, At
<1>3. Becomes(p, h) /\ UNCHANGED <<keys, config, secrets, lost>>
  BY DEF Forget, Forgets
<1>4. t = SaveLeft /\ proc[p].cmd = "reset"
  BY <1>2, Holder DEF PlanKnown, Rest
<1>5. Head(t) = "config"
  BY <1>4, Plans
<1>6. c[r].id = NoKey /\ \A q \in Repos : q # r => c[q] = proc[p].config[q]
  BY <1>2, KeySets DEF Configs
<1>7. s[r] = NoValue /\ \A q \in Repos : q # r => s[q] = proc[p].secrets[q]
  BY <1>2
<1>8. HIDE DEF c, s, t
<1>9. /\ h.plan = t /\ h.repo = proc[p].repo /\ h.cmd = proc[p].cmd /\ h.config = c
      /\ h.alone = proc[p].alone /\ h.fresh = proc[p].fresh /\ h.secrets = s
  BY <1>2 DEF Commanding
<1>10. HIDE DEF h
<1>11. CASE ~ g.alone
  BY <1>2, <1>3, <1>9, <1>11, AloneHolder, OverlapGoesOn
<1>12. CASE g.alone
  <2>1. /\ MemoryFits(keys, config, secrets, lost, g) /\ ~ g.fresh
        /\ \A q \in Repos : q \notin lost => SecretFits(keys, config, secrets, q)
    BY <1>2, <1>12, AloneHolder DEF MemoryFits
  <2>2. Candidates(keys, c, r) \subseteq Candidates(keys, config, r)
    <3>1. NoKey \notin KeyIds
      BY DEF NoKey, KeyIds
    <3> QED BY <1>6, <3>1 DEF Candidates
  <2>3. r \notin lost => SecretFits(keys, c, s, r)
    BY <1>2, <1>7, <2>1, <2>2 DEF SecretFits
  <2>4. MemoryFits(keys', config', secrets', lost', h)
    BY <1>3, <1>5, <1>6, <1>7, <1>9, <2>1, <2>2, <2>3 DEF MemoryFits
  <2>5. ReportFits(keys', h)
    BY <1>4, <1>9 DEF ReportFits, ClientsFit
  <2>6. \A q \in Repos : q \notin lost' => SecretFits(keys', config', secrets', q)
    BY <1>3, <2>1
  <2> QED BY <1>2, <1>3, <1>9, <1>12, <2>4, <2>5, <2>6, AloneGoesOn
<1> QED BY <1>2, <1>11, <1>12, AloneHolder

\* A key whose value is new: until it is saved nothing is said of the secret.
LEMMA CreateAlone == ASSUME KeyInv, AloneInv, KeyInv', NEW p \in Procs, Create(p) PROVE AloneInv'
<1>0. PICK raw \in Raws("create", issued + 1) :
         /\ Associate(p, Unused, repoVirtualKeyName(proc[p].repo), proc[p].options.clients \ Unset, raw, TRUE)
         /\ lost' = IF raw = NoValue THEN lost \cup {proc[p].repo} ELSE lost
  BY DEF Create
<1>1. DEFINE r == proc[p].repo
             g == proc[p]
             k == Unused
             clients == proc[p].options.clients \ Unset
             x == [name |-> repoVirtualKeyName(r), owner |-> r, value |-> issued + 1,
                   clients |-> clients, bundles |-> {}]
             value == KeyValue(raw, proc[p].secrets[r])
             given == Recorded(p, clients)
             fresh == TRUE /\ raw # NoValue
             rotates == value = NoValue /\ ~ TRUE /\ proc[p].options.rotate
             c == [proc[p].config EXCEPT ![r] = [id |-> k, legacy |-> repoVirtualKeyName(r) = Basename,
                                    clients |-> given, bundles |-> proc[p].config[r].bundles]]
             s == [proc[p].secrets EXCEPT ![r] = value]
             t == IF rotates THEN <<"rotate">> \o Rest(p) ELSE Rest(p)
             h == [proc[p] EXCEPT !.config = c, !.secrets = s, !.fresh = fresh, !.vk = k, !.plan = t]
<1>2. /\ Holds(p) /\ Head(proc[p].plan) = "create" /\ r \in Repos /\ proc[p] \in Commanding
      /\ proc[p].config \in Configs /\ proc[p].secrets \in [Repos -> Values]
      /\ HolderFits(keys, proc[p]) /\ MayIssue(proc[p])
  BY Holder DEF Create, At, MayIssue, PlanKnown, Issuing
<1>3. /\ k \in KeyIds /\ keys[k] = Never /\ k # NoKey
      /\ keys' = [keys EXCEPT ![k] = x] /\ Becomes(p, h)
      /\ UNCHANGED <<config, secrets>> /\ lost \subseteq lost' /\ lost' \subseteq lost \cup {r}
      /\ ~ fresh => r \in lost'
  BY <1>0, <1>2, UnusedId DEF Create, Associate, KeyIds, NoKey
<1>4. /\ c[r].id = k /\ \A q \in Repos : q # r => c[q] = proc[p].config[q]
      /\ c[r].clients = clients \/ (g.options.clients = Unset /\ clients = {})
  BY <1>2 DEF Configs, Recorded
<1>5. s[r] = value /\ \A q \in Repos : q # r => s[q] = proc[p].secrets[q]
  BY <1>2
<1>6. fresh => value = issued + 1
  BY DEF KeyValue, Raws
<1>7. t = Rest(p)
  OBVIOUS
<1>8. proc[p].cmd = "init" /\ Head(t) = "config" /\ (proc[p].options.bundles # Unset => t \notin Synced)
  <2>1. /\ proc[p].cmd = "init"
        /\ \/ Rest(p) = EndSave /\ proc[p].options.bundles = Unset
           \/ Rest(p) = MidSave /\ proc[p].options.bundles # Unset
    BY <1>2, Holder DEF PlanKnown, Rest
  <2>2. HIDE DEF t
  <2> QED BY <1>7, <2>1, Plans, Unsynced
<1>9. x.name = r /\ x.value = issued + 1 /\ x.clients = clients /\ x.bundles = {}
  BY DEF repoVirtualKeyName
<1>10. HIDE DEF c, s, t, value, rotates, x, k, clients, fresh
<1>11. keys'[k] = x /\ \A j \in KeyIds : j # k => keys'[j] = keys[j]
  BY <1>3 DEF KeyInv, TypeOK
<1>12. /\ h.config = c /\ h.secrets = s /\ h.fresh = fresh /\ h.vk = k /\ h.plan = t
       /\ h.repo = r /\ h.cmd = "init" /\ h.options = g.options /\ h.alone = g.alone /\ h.seen = g.seen
  BY <1>2, <1>8 DEF Commanding
<1>13. HIDE DEF h
<1>14. CASE ~ g.alone
  <2>1. lost' = Repos /\ ~ h.alone
    BY <1>2, <1>3, <1>12, <1>14, AloneHolder
  <2> QED BY <1>2, <1>3, <1>14, <2>1, OverlapGoesOn
<1>15. CASE g.alone
  <2>1. /\ MemoryFits(keys, config, secrets, lost, g) /\ ~ g.fresh
        /\ \A q \in Repos : q \notin lost => SecretFits(keys, config, secrets, q)
    BY <1>2, <1>15, AloneHolder DEF MemoryFits
  <2>2. ReportFits(keys, g)
    BY <1>2, <1>15, AloneHolder
  <2>3. ASSUME NEW q \in Repos, q # r, q \notin lost
        PROVE  SecretFits(keys', config', secrets', q)
    <3>1. config[q].id # k
      BY <1>3 DEF KeyInv, KeyOf
    <3>2. Candidates(keys', config, q) \subseteq Candidates(keys, config, q)
      BY <1>9, <1>11, <2>3, <3>1 DEF Candidates
    <3>3. k \notin Candidates(keys, config, q)
      BY <1>3 DEF Candidates
    <3>4. \A j \in Candidates(keys', config, q) : keys'[j].value = keys[j].value
      BY <1>11, <3>2, <3>3 DEF Candidates
    <3> QED BY <1>3, <2>1, <2>3, <3>2, <3>4 DEF SecretFits
  <2>4. MemoryFits(keys', config', secrets', lost', h)
    <3>1. fresh => s[r] = keys'[k].value
      BY <1>5, <1>6, <1>9, <1>11
    <3> QED BY <1>3, <1>4, <1>5, <1>8, <1>12, <2>1, <3>1 DEF MemoryFits
  <2>5. ReportFits(keys', h)
    <3>1. g.plan \notin Synced
      BY <1>2, Unsynced
    <3>2. g.options.bundles # Unset => \A j \in KeyIds : keys[j] # Gone => g.seen[j] = keys[j].bundles
      BY <1>12, <1>2, <1>8, <2>2, <3>1 DEF ReportFits, ClientsFit
    <3>3. Never # Gone /\ Never.bundles = {}
      BY KeySets DEF Never
    <3>4. g.options.bundles # Unset => \A j \in KeyIds : keys'[j] # Gone => h.seen[j] = keys'[j].bundles
      BY <1>3, <1>9, <1>11, <1>12, <3>2, <3>3
    <3>5. ClientsFit(keys', h)
      BY <1>4, <1>9, <1>11, <1>12 DEF ClientsFit
    <3> QED BY <1>3, <1>8, <1>12, <3>4, <3>5 DEF ReportFits, ClientsFit
  <2>6. \A q \in Repos : q \notin lost' /\ (h # Idle /\ q = proc[p].repo => ~ h.fresh)
                         => SecretFits(keys', config', secrets', q)
    <3>1. h # Idle
      <4>1. h.plan # <<>>
        BY <1>7, <1>12, <1>2, Holder, Plans DEF PlanKnown, Rest
      <4> QED BY <4>1, Idles
    <3> QED BY <1>3, <1>12, <2>3, <3>1
  <2> QED BY <1>2, <1>3, <1>12, <1>15, <2>4, <2>5, <2>6, AloneGoesOn
<1> QED BY <1>2, <1>14, <1>15, AloneHolder

LEMMA RotateAlone == ASSUME KeyInv, AloneInv, KeyInv', NEW p \in Procs, Rotate(p) PROVE AloneInv'
<1>1. DEFINE r == proc[p].repo
             g == proc[p]
             k == proc[p].vk
             x == [keys[k] EXCEPT !.value = issued + 1]
             s == [proc[p].secrets EXCEPT ![proc[p].repo] = issued + 1]
             t == Rest(p)
             h == [proc[p] EXCEPT !.plan = t, !.fresh = TRUE, !.secrets = s]
<1>2. /\ Holds(p) /\ Head(proc[p].plan) = "rotate" /\ k \in KeyIds \cup {NoKey} /\ r \in Repos
      /\ proc[p] \in Commanding /\ HolderFits(keys, proc[p])
      /\ proc[p].secrets \in [Repos -> Values] /\ UNCHANGED <<config, secrets, lost>>
  BY Holder DEF Rotate, At
<1>3. CASE ~ Exists(k)
  <2>1. Abort(p) /\ UNCHANGED keys
    BY <1>3 DEF Rotate
  <2> QED BY <1>2, <2>1, AbortAlone
<1>4. CASE Exists(k)
  <2>1. keys' = [keys EXCEPT ![k] = x] /\ Becomes(p, h)
    BY <1>4 DEF Rotate
  <2>2. /\ k \in KeyIds /\ keys[k] \notin {Never, Gone} /\ keys[k] \in Keys /\ k # NoKey
        /\ keys[k].owner = r /\ keys[k].name \in {Basename, r}
    BY <1>2, <1>4, ExistingKey DEF Exists, HolderFits, KeyOf
  <2>3. /\ x.name = keys[k].name /\ x.value = issued + 1 /\ x.clients = keys[k].clients
        /\ x.bundles = keys[k].bundles
    BY <2>2 DEF Keys
  <2>4. x \notin {Never, Gone}
    <3>1. x \in Keys
      <4>1. keys'[k] = x
        BY <2>1, <2>2 DEF KeyInv, TypeOK
      <4> QED BY <2>2, <4>1 DEF KeyInv, TypeOK
    <3> QED BY <1>2, <2>2, <2>3, <3>1, KeySets
  <2>5. s[r] = issued + 1 /\ \A q \in Repos : q # r => s[q] = proc[p].secrets[q]
    BY <1>2
  <2>6. /\ t \in {SaveLeft, EndSave, MidSave} /\ g.cmd \in {"init", "rotate-key"}
        /\ g.cmd = "init" /\ g.options.bundles # Unset => t = MidSave
    BY <1>2, Holder, RotateKnown DEF Rest
  <2>7. HIDE DEF x, s, t, k
  <2>8. keys'[k] = x /\ \A j \in KeyIds : j # k => keys'[j] = keys[j]
    BY <2>1, <2>2 DEF KeyInv, TypeOK
  <2>9. /\ h.plan = t /\ h.repo = proc[p].repo /\ h.cmd = proc[p].cmd /\ h.vk = proc[p].vk
        /\ h.options = proc[p].options /\ h.config = proc[p].config /\ h.seen = proc[p].seen
        /\ h.alone = proc[p].alone /\ h.fresh = TRUE /\ h.secrets = s
    BY <1>2 DEF Commanding
  <2>10. HIDE DEF h
  <2>11. h.vk = k /\ g.vk = k
    BY <2>9 DEF k
  <2>12. Head(t) = "config" /\ t # <<>>
    BY <2>6, Plans
  <2>13. CASE ~ g.alone
    BY <1>2, <2>1, <2>9, <2>13, AloneHolder, OverlapGoesOn
  <2>14. CASE g.alone
    <3>1. /\ MemoryFits(keys, config, secrets, lost, g) /\ ~ g.fresh
          /\ \A q \in Repos : q \notin lost => SecretFits(keys, config, secrets, q)
      BY <1>2, <2>14, AloneHolder DEF MemoryFits
    <3>2. ReportFits(keys, g)
      BY <1>2, <2>14, AloneHolder
    <3>3. g.vk = g.config[r].id
      BY <1>2, <3>1 DEF MemoryFits
    <3>4. ASSUME NEW q \in Repos, q # r, q \notin lost
          PROVE  SecretFits(keys', config', secrets', q)
      <4>1. k \notin Candidates(keys, config, q)
        <5>1. config[q].id # k
          BY <2>2, <3>4 DEF KeyInv, KeyOf
        <5>2. keys[k].name # q
          BY <2>2, <3>4, RepoAssumption
        <5> QED BY <5>1, <5>2 DEF Candidates
      <4>2. Candidates(keys', config, q) \subseteq Candidates(keys, config, q)
        BY <2>2, <2>3, <2>8 DEF Candidates
      <4>3. \A j \in Candidates(keys', config, q) : keys'[j].value = keys[j].value
        BY <2>8, <4>1, <4>2 DEF Candidates
      <4> QED BY <1>2, <3>1, <3>4, <4>2, <4>3 DEF SecretFits
    <3>5. MemoryFits(keys', config', secrets', lost', h)
      <4>1. \A q \in Repos : q # h.repo => h.config[q] = config'[q] /\ h.secrets[q] = secrets'[q]
        BY <1>2, <2>5, <2>9, <3>1 DEF MemoryFits
      <4>2. h.fresh /\ Head(h.plan) = "config"
        BY <2>9, <2>12
      <4>3. h.vk # NoKey /\ h.vk = h.config[h.repo].id
        BY <2>2, <2>9, <2>11, <3>3
      <4>4. h.secrets[h.repo] = keys'[h.vk].value
        BY <2>3, <2>5, <2>8, <2>9, <2>11
      <4> QED BY <4>1, <4>2, <4>3, <4>4 DEF MemoryFits
    <3>6. ReportFits(keys', h)
      <4>1. g.plan \notin Synced
        BY <1>2, Unsynced
      <4>2. \A j \in KeyIds :
               /\ keys'[j].clients = keys[j].clients
               /\ keys'[j].bundles = keys[j].bundles
               /\ keys'[j] \notin {Never, Gone} => keys[j] \notin {Never, Gone}
               /\ keys'[j] # Gone => keys[j] # Gone
        BY <2>2, <2>3, <2>8
      <4>3. g.cmd = "init" => ClientsFit(keys', h)
        BY <1>2, <2>2, <2>9, <2>11, <3>2, <4>2 DEF ReportFits, ClientsFit
      <4>4. g.cmd = "init" /\ g.options.bundles # Unset =>
               /\ h.plan \notin Synced
               /\ \A j \in KeyIds : keys'[j] # Gone => h.seen[j] = keys'[j].bundles
        BY <2>6, <2>9, <3>2, <4>1, <4>2, Unsynced DEF ReportFits, ClientsFit
      <4> QED BY <2>2, <2>6, <2>9, <2>11, <4>3, <4>4 DEF ReportFits, ClientsFit
    <3>7. \A q \in Repos : q \notin lost' /\ (h # Idle /\ q = proc[p].repo => ~ h.fresh)
                           => SecretFits(keys', config', secrets', q)
      <4>1. h # Idle
        BY <2>9, <2>12, Idles
      <4> QED BY <1>2, <2>9, <3>4, <4>1
    <3> QED BY <1>2, <2>1, <2>9, <2>14, <3>5, <3>6, <3>7, AloneGoesOn
  <2> QED BY <1>2, <2>13, <2>14, AloneHolder
<1> QED BY <1>3, <1>4

LEMMA SaveConfigAlone == ASSUME KeyInv, AloneInv, KeyInv', NEW p \in Procs, SaveConfig(p) PROVE AloneInv'
<1>1. DEFINE r == proc[p].repo
             g == proc[p]
             t == Rest(p)
             h == [proc[p] EXCEPT !.plan = t]
<1>2. /\ Holds(p) /\ Head(proc[p].plan) = "config" /\ proc[p] \in Commanding /\ proc[p].repo \in Repos
      /\ config' = g.config /\ UNCHANGED <<keys, secrets, lost>>
      /\ t # <<>> /\ Head(t) = "secrets" /\ g.plan \in {SaveLeft, EndSave, MidSave}
  BY Holder DEF SaveConfig, At, PlanKnown, Rest
<1>3. Becomes(p, h)
  BY <1>2 DEF SaveConfig, Advance
<1>4. h.plan = t /\ (t \in Synced <=> g.plan \in Synced)
  <2>1. CASE g.plan = SaveLeft
    BY <1>2, <2>1, Plans, Unsynced DEF Rest, Commanding
  <2>2. CASE g.plan = EndSave
    <3>1. t = EndSecrets
      BY <2>2, Plans DEF Rest
    <3> QED BY <1>2, <2>2, <3>1 DEF Synced, Commanding
  <2>3. CASE g.plan = MidSave
    BY <1>2, <2>3, Plans, Unsynced DEF Rest, Commanding
  <2> QED BY <1>2, <2>1, <2>2, <2>3
<1>5. HIDE DEF t
<1>6. /\ h.repo = g.repo /\ h.cmd = g.cmd /\ h.vk = g.vk
      /\ h.options = g.options /\ h.config = g.config /\ h.seen = g.seen
      /\ h.alone = g.alone /\ h.fresh = g.fresh /\ h.secrets = g.secrets
  BY <1>2 DEF Commanding
<1>7. HIDE DEF h
<1>8. CASE ~ g.alone
  BY <1>2, <1>3, <1>6, <1>8, AloneHolder, OverlapGoesOn
<1>9. CASE g.alone
  <2>1. MemoryFits(keys, config, secrets, lost, g) /\ ReportFits(keys, g)
    BY <1>2, <1>9, AloneHolder
  <2>2. \A q \in Repos : q \notin lost /\ (q = r => ~ g.fresh) => SecretFits(keys, config, secrets, q)
    BY <1>2, <1>9, AloneHolder
  <2>3. ASSUME NEW q \in Repos, q \notin lost, q = r => ~ g.fresh
        PROVE  SecretFits(keys', config', secrets', q)
    <3>1. Candidates(keys, g.config, q) \subseteq Candidates(keys, config, q)
      BY <2>1, <2>3 DEF MemoryFits, Candidates
    <3>2. SecretFits(keys, config, secrets, q)
      BY <2>2, <2>3
    <3> QED BY <1>2, <3>1, <3>2 DEF SecretFits
  <2>4. MemoryFits(keys', config', secrets', lost', h)
    BY <1>2, <1>4, <1>6, <2>1 DEF MemoryFits
  <2>5. ReportFits(keys', h)
    BY <1>2, <1>4, <1>6, <2>1 DEF ReportFits, ClientsFit
  <2>6. \A q \in Repos : q \notin lost' /\ (h # Idle /\ q = proc[p].repo => ~ h.fresh)
                         => SecretFits(keys', config', secrets', q)
    <3>1. h # Idle
      BY <1>2, <1>4, Idles
    <3> QED BY <1>2, <1>6, <2>3, <3>1
  <2> QED BY <1>2, <1>3, <1>6, <1>9, <2>4, <2>5, <2>6, AloneGoesOn
<1> QED BY <1>2, <1>8, <1>9, AloneHolder

LEMMA SaveSecretsAlone == ASSUME KeyInv, AloneInv, KeyInv', NEW p \in Procs, SaveSecrets(p) PROVE AloneInv'
<1>1. DEFINE r == proc[p].repo
             g == proc[p]
             t == Rest(p)
             h == [proc[p] EXCEPT !.plan = t, !.fresh = FALSE]
<1>2. /\ Holds(p) /\ Head(proc[p].plan) = "secrets" /\ proc[p] \in Commanding /\ proc[p].repo \in Repos
      /\ secrets' = g.secrets /\ UNCHANGED <<keys, config>>
      /\ g.plan \in {SecretsLeft, EndSecrets, MidSecrets} /\ t \in {<<>>, McpLeft, SyncLeft}
  BY Holder DEF SaveSecrets, At, PlanKnown, Rest
<1>3. PICK ends \in BOOLEAN : Becomes(p, IF ends THEN Idle ELSE h) /\ (t = <<>> => ends)
  BY DEF SaveSecrets
<1>4. lost' = IF ~ g.fresh THEN lost
              ELSE IF /\ g.alone /\ secrets'[r] # NoValue
                      /\ Named(r) \subseteq {g.vk}
                   THEN lost \ {r} ELSE lost \cup {r}
  BY DEF SaveSecrets, repoVirtualKeyName
<1>5. t # <<>> => Head(t) \in {"mcp", "bundles"} /\ (t \in Synced <=> g.plan \in Synced)
  <2>1. CASE g.plan = SecretsLeft
    BY <2>1, Plans DEF Rest
  <2>2. CASE g.plan = EndSecrets
    <3>1. t = McpLeft
      BY <2>2, Plans DEF Rest
    <3> QED BY <2>2, <3>1, Plans DEF Synced
  <2>3. CASE g.plan = MidSecrets
    BY <2>3, Plans, Unsynced DEF Rest
  <2> QED BY <1>2, <2>1, <2>2, <2>3
<1>6. HIDE DEF t
<1>7. /\ h.plan = t /\ h.repo = g.repo /\ h.cmd = g.cmd /\ h.vk = g.vk
      /\ h.options = g.options /\ h.config = g.config /\ h.seen = g.seen
      /\ h.alone = g.alone /\ h.fresh = FALSE /\ h.secrets = g.secrets
  BY <1>2 DEF Commanding
<1>8. DEFINE d == IF ends THEN Idle ELSE h
<1>9. Becomes(p, d) /\ (d = Idle \/ (d = h /\ t # <<>>))
  BY <1>3
<1>10. HIDE DEF h, d
<1>11. CASE ~ g.alone
  <2>1. lost = Repos /\ lost' = Repos
    BY <1>2, <1>4, <1>11, AloneHolder
  <2> QED BY <1>2, <1>7, <1>9, <1>11, <2>1, OverlapGoesOn
<1>12. CASE g.alone
  <2>1. MemoryFits(keys, config, secrets, lost, g) /\ ReportFits(keys, g)
    BY <1>2, <1>12, AloneHolder
  <2>2. \A q \in Repos : q \notin lost /\ (q = r => ~ g.fresh) => SecretFits(keys, config, secrets, q)
    BY <1>2, <1>12, AloneHolder
  <2>3. config = g.config
    BY <1>2, <2>1 DEF MemoryFits
  <2>4. ASSUME NEW q \in Repos, q \notin lost'
        PROVE  SecretFits(keys, config, g.secrets, q)
    <3>1. CASE q # r
      <4>1. g.secrets[q] = secrets[q] /\ q \notin lost
        BY <1>4, <2>1, <2>4, <3>1 DEF MemoryFits
      <4>2. SecretFits(keys, config, secrets, q)
        BY <2>2, <3>1, <4>1
      <4> QED BY <4>1, <4>2 DEF SecretFits
    <3>2. CASE q = r /\ ~ g.fresh
      BY <1>4, <2>1, <2>3, <2>4, <3>2 DEF MemoryFits
    <3>3. CASE q = r /\ g.fresh
      <4>1. Named(r) \subseteq {g.vk} /\ g.vk = config[r].id
        BY <1>4, <2>1, <2>3, <2>4, <3>3 DEF MemoryFits
      <4>2. \A j \in Candidates(keys, config, r) : j = g.vk
        BY <4>1 DEF Candidates, Named
      <4>3. g.vk \in Candidates(keys, config, r) => g.secrets[r] = keys[g.vk].value
        BY <2>1, <3>3 DEF MemoryFits, Candidates
      <4> QED BY <3>3, <4>2, <4>3 DEF SecretFits
    <3> QED BY <1>2, <1>12, <3>1, <3>2, <3>3, AloneHolder
  <2>5. t # <<>> => MemoryFits(keys', config', secrets', lost', h)
    <3>1. r \notin lost' => SecretFits(keys, config, g.secrets, r)
      BY <1>2, <2>4
    <3> QED BY <1>2, <1>5, <1>7, <2>3, <3>1 DEF MemoryFits
  <2>6. t # <<>> => ReportFits(keys', h)
    BY <1>2, <1>5, <1>7, <2>1 DEF ReportFits, ClientsFit
  <2>7. \A q \in Repos : q \notin lost' => SecretFits(keys', config', secrets', q)
    BY <1>2, <2>4
  <2>8. \/ d = Idle
        \/ /\ d.alone /\ d.repo = proc[p].repo
           /\ MemoryFits(keys', config', secrets', lost', d)
           /\ ReportFits(keys', d)
    BY <1>7, <1>9, <1>12, <2>5, <2>6
  <2> QED BY <1>2, <1>9, <1>12, <2>7, <2>8, AloneGoesOn
<1> QED BY <1>2, <1>11, <1>12, AloneHolder

LEMMA PlanHeads ==
    ASSUME NEW cmd \in Commands, NEW o
    PROVE  /\ Head(Plan(cmd, o)) \notin {"secrets", "adopt", "rotate", "bundle"}
           /\ cmd = "init" => Head(Plan(cmd, o)) = "upsert"
           /\ cmd \in {"vmcp add", "vmcp remove"} => Head(Plan(cmd, o)) = "read"
<1>1. CASE cmd = "init"
  <2>1. Plan(cmd, o) \in {Keyed("upsert"), KeyedSync("upsert")} /\ "upsert" \in Issuing
    BY <1>1 DEF Plan, Keyed, KeyedSync, commandRepoInit, Issuing
  <2>2. Head(Plan(cmd, o)) = "upsert"
    BY <2>1, KeyedPlans
  <2> QED BY <1>1, <2>2
<1>2. CASE cmd = "reset"
  <2>1. Plan(cmd, o) \in {Forgetting, Deleting}
    BY <1>2 DEF Plan, commandRepoReset, Forgetting, Deleting
  <2> QED BY <1>2, <2>1, Plans
<1>3. CASE cmd \in {"rotate-key", "mcp add", "mcp remove", "vmcp add", "vmcp remove", "skills bind"}
  <2>1. Plan(cmd, o) \in {ReadRotate, ReadGrant, ReadBundle, ReadSave}
    BY <1>3 DEF Plan, commandRepoRotateKey, commandRepoSkillBind, ReadRotate, ReadGrant, ReadBundle, ReadSave
  <2> QED BY <1>3, <2>1, Plans
<1>4. CASE cmd \in {"instructions", "setup"}
  <2>1. Plan(cmd, o) \in {EndSave, SaveLeft}
    BY <1>4 DEF Plan, commandRepoMcpInstructions, commandGlobalSetup, EndSave, SaveLeft
  <2> QED BY <1>4, <2>1, Plans
<1> QED BY <1>1, <1>2, <1>3, <1>4 DEF Commands

\* A command is given: alone, with the files as they are, or beside others.
LEMMA StartAlone ==
    ASSUME KeyInv, AloneInv, KeyInv', NEW p \in Procs, NEW r \in Repos, NEW cmd \in Commands,
           NEW o \in Choices, Start(p, r, cmd, o)
    PROVE  AloneInv'
<1>1. DEFINE seen == [k \in KeyIds |-> IF o.bundles = Unset THEN {} ELSE keys[k].bundles]
             alone == \A other \in Procs : ~ Holds(other)
             t == Plan(cmd, o)
             h == [plan |-> t, repo |-> r, cmd |-> cmd, options |-> o,
                   config |-> config, secrets |-> secrets, fresh |-> FALSE,
                   vk |-> NoKey, seen |-> seen, grants |-> {}, alone |-> alone]
<1>2. /\ ~ Holds(p)
      /\ proc' = [q \in Procs |-> IF q = p THEN h
                                  ELSE IF Holds(q) THEN [proc[q] EXCEPT !.alone = FALSE] ELSE proc[q]]
      /\ lost' = (IF alone THEN lost ELSE Repos)
      /\ UNCHANGED <<keys, config, secrets>>
  BY DEF Start
<1>3. PlanFits(t, cmd, o)
  BY RepoAssumption, PlanBegins
<1>4. /\ Head(t) \notin {"secrets", "adopt", "rotate"}
      /\ Head(t) = "bundle" => FALSE
      /\ cmd = "init" => Head(t) = "upsert"
      /\ cmd \in {"vmcp add", "vmcp remove"} => Head(t) = "read"
  BY PlanHeads
<1>5. o.bundles # Unset => \A k \in KeyIds : seen[k] = keys[k].bundles
  OBVIOUS
<1>6. HIDE DEF seen, t
<1>7. /\ h.plan = t /\ h.repo = r /\ h.cmd = cmd /\ h.options = o /\ h.config = config
      /\ h.secrets = secrets /\ h.fresh = FALSE /\ h.vk = NoKey /\ h.seen = seen /\ h.alone = alone
  OBVIOUS
<1>8. HIDE DEF h
<1>9. proc'[p] = h
  BY <1>2
<1>10. \A q \in Procs : Holds(q)' <=> proc'[q].plan # <<>>
  BY DEF Holds
<1>11. CASE alone
  <2>1. \A q \in Procs : q # p => proc'[q] = proc[q] /\ proc'[q].plan = <<>>
    BY <1>2, <1>11 DEF Holds
  <2>2. \A q \in Repos : q \notin lost => SecretFits(keys, config, secrets, q)
    BY <1>11 DEF AloneInv
  <2>3. MemoryFits(keys', config', secrets', lost', h)
    BY <1>2, <1>4, <1>7, <1>11, <2>2 DEF MemoryFits
  <2>4. ReportFits(keys', h)
    <3>1. cmd = "init" => h.plan \notin Synced
      BY <1>4, <1>7, Unsynced
    <3> QED BY <1>2, <1>4, <1>5, <1>7, <3>1 DEF ReportFits, ClientsFit
  <2>5. \A q \in Repos : q \notin lost' => SecretFits(keys', config', secrets', q)
    BY <1>2, <1>11, <2>2
  <2>6. \A q \in Procs : proc'[q].plan # <<>> => q = p /\ proc'[q] = h /\ h.alone
    BY <1>7, <1>9, <1>11, <2>1
  <2> QED BY <1>10, <2>3, <2>4, <2>5, <2>6 DEF AloneInv
<1>12. CASE ~ alone
  <2>1. lost' = Repos
    BY <1>2, <1>12
  <2>2. ASSUME NEW q \in Procs, proc'[q].plan # <<>>
        PROVE  ~ proc'[q].alone
    <3>1. CASE q = p
      BY <1>7, <1>9, <1>12, <3>1
    <3>2. CASE q # p /\ Holds(q)
      <4>1. proc'[q] = [proc[q] EXCEPT !.alone = FALSE] /\ proc[q] \in Commanding
        BY <1>2, <3>2, Holder
      <4> QED BY <4>1 DEF Commanding
    <3>3. CASE q # p /\ ~ Holds(q)
      BY <1>2, <2>2, <3>3 DEF Holds
    <3> QED BY <3>1, <3>2, <3>3
  <2> QED BY <1>10, <2>1, <2>2 DEF AloneInv
<1> QED BY <1>11, <1>12

LEMMA DeletedAlone == ASSUME KeyInv, AloneInv, NEW k \in KeyIds, DeletedElsewhere(k) PROVE AloneInv'
<1>1. keys' = [keys EXCEPT ![k] = Gone] /\ UNCHANGED <<config, secrets, proc, lost>>
  BY DEF DeletedElsewhere
<1>2. \A j \in KeyIds : keys'[j] = Gone \/ keys'[j] = keys[j]
  BY <1>1 DEF KeyInv, TypeOK
<1>3. Shrinks(keys, keys')
  BY <1>2 DEF Shrinks
<1>4. \A q \in Procs : Holds(q)' <=> Holds(q)
  BY <1>1 DEF Holds
<1>5. ASSUME NEW r \in Repos, SecretFits(keys, config, secrets, r)
      PROVE  SecretFits(keys', config', secrets', r)
  BY <1>1, <1>3, <1>5, SecretsShrink
<1>6. ASSUME NEW p \in Procs, Holds(p), proc[p].alone
      PROVE  MemoryFits(keys', config', secrets', lost', proc'[p]) /\ ReportFits(keys', proc'[p])
  <2>1. DEFINE g == proc[p]
  <2>2. /\ proc'[p] = g /\ g.vk \in KeyIds \cup {NoKey}
        /\ MemoryFits(keys, config, secrets, lost, g) /\ ReportFits(keys, g)
    BY <1>1, <1>6, AloneHolder, Holder
  <2>3. HIDE DEF g
  <2>4. ASSUME ~ g.fresh, g.repo \notin lost
        PROVE  /\ Candidates(keys', g.config, g.repo) \subseteq Candidates(keys', config', g.repo)
               /\ SecretFits(keys', g.config, g.secrets, g.repo)
    <3>1. /\ Candidates(keys, g.config, g.repo) \subseteq Candidates(keys, config, g.repo)
          /\ SecretFits(keys, g.config, g.secrets, g.repo)
      BY <2>2, <2>4 DEF MemoryFits
    <3>2. Candidates(keys', g.config, g.repo) \subseteq Candidates(keys', config', g.repo)
      BY <1>1, <1>2, <3>1 DEF Candidates
    <3> QED BY <1>3, <3>1, <3>2, SecretsShrink
  <2>5. g.vk # NoKey /\ keys'[g.vk] \notin {Never, Gone} =>
          keys[g.vk] \notin {Never, Gone} /\ keys'[g.vk] = keys[g.vk]
    BY <1>2, <2>2
  <2>6. MemoryFits(keys', config', secrets', lost', g)
    BY <1>1, <2>2, <2>4, <2>5 DEF MemoryFits
  <2>7. \A j \in KeyIds : keys'[j] # Gone => keys[j] # Gone /\ keys'[j] = keys[j]
    BY <1>2
  <2>8. ReportFits(keys', g)
    BY <2>2, <2>5, <2>7 DEF ReportFits, ClientsFit
  <2> QED BY <2>2, <2>6, <2>8
<1> QED BY <1>1, <1>4, <1>5, <1>6 DEF AloneInv

LEMMA AloneInvInit == Init => AloneInv
<1>1. SUFFICES ASSUME Init PROVE AloneInv
  OBVIOUS
<1>2. \A p \in Procs : ~ Holds(p)
  BY <1>1 DEF Init, Holds, Idle
<1>3. PICK r \in Repos, old \in BOOLEAN :
        /\ keys = [k \in KeyIds |-> IF old /\ k = 1
                    THEN [name |-> Basename, owner |-> r, value |-> 1, clients |-> {}, bundles |-> {}]
                    ELSE Never]
        /\ secrets = [q \in Repos |-> IF old /\ q = r THEN 1 ELSE NoValue]
        /\ config = [q \in Repos |-> IF old /\ q = r THEN [NoRepo EXCEPT !.id = 1, !.legacy = TRUE]
                                     ELSE NoRepo]
  BY <1>1 DEF Init
<1>4. ASSUME NEW q \in Repos
      PROVE  SecretFits(keys, config, secrets, q)
  <2>1. Basename # q
    BY RepoAssumption
  <2>2. \A j \in Candidates(keys, config, q) : j = 1 /\ old /\ keys[j].value = 1 /\ q = r
    <3>1. ASSUME NEW j \in Candidates(keys, config, q)
          PROVE  j = 1 /\ old /\ keys[j].value = 1 /\ q = r
      <4>1. j \in KeyIds /\ keys[j] \notin {Never, Gone} /\ (j = config[q].id \/ keys[j].name = q)
        BY DEF Candidates
      <4>2. old /\ j = 1 /\ keys[j].value = 1 /\ keys[j].name = Basename
        BY <1>3, <4>1
      <4>3. config[q].id = 1
        BY <2>1, <4>1, <4>2
      <4>4. q # r => config[q].id = NoKey
        BY <1>3, KeySets
      <4> QED BY <4>2, <4>3, <4>4 DEF NoKey
    <3> QED BY <3>1
  <2>3. old /\ q = r => secrets[q] = 1
    BY <1>3
  <2> QED BY <2>2, <2>3 DEF SecretFits
<1> QED BY <1>2, <1>4 DEF AloneInv

LEMMA StepAlone == ASSUME KeyInv, AloneInv, KeyInv', NEW p \in Procs, Step(p) PROVE AloneInv'
BY DiesAlone, UpsertLocalAlone, UpsertByNameAlone, AdoptAlone, CreateRefusedAlone, CreateAlone,
   ReadAlone, RotateAlone, GrantAlone, BundleAlone, SyncAlone, DeleteAlone, ForgetAlone,
   SaveConfigAlone, SaveSecretsAlone, WriteMcpAlone DEF Step

\* What a command that overlaps no other knows of its key, and what the files then
\* say of each repository whose values are all saved.
THEOREM AloneInvariant == Spec => []AloneInv
<1>1. KeyInv /\ AloneInv /\ KeyInv' /\ [Next]_vars => AloneInv'
  <2>1. SUFFICES ASSUME KeyInv, AloneInv, KeyInv', [Next]_vars PROVE AloneInv'
    OBVIOUS
  <2>2. CASE UNCHANGED vars
    BY <2>1, <2>2 DEF vars, AloneInv, Holds
  <2>3. CASE Next
    BY <2>1, <2>3, StartAlone, StepAlone, DeletedAlone DEF Next
  <2> QED BY <2>1, <2>2, <2>3
<1> QED BY KeyInvariant, AloneInvInit, <1>1, PTL DEF Spec

\* The secret OMP is given is the value of the repository's key, wherever resets
\* stopped and whichever keys were deleted, adopted or rotated, as long as commands
\* did not overlap and every value issued was saved, whichever answers carry the value
\* of a key.  A creation whose answer does not carry it counts as not saved: init goes
\* on with what secrets.json had (cli-lib.mjs, `usableVirtualKeyValue(vk?.value) ??
\* localSecret`).
THEOREM SecretAlwaysWorks == Spec => []SecretWorks
<1>1. KeyInv /\ AloneInv => SecretWorks
  <2>1. SUFFICES ASSUME KeyInv, AloneInv, NEW r \in Repos, Quiet, r \notin lost,
                        Exists(config[r].id), secrets[r] # NoValue
                 PROVE  secrets[r] = keys[config[r].id].value
    BY DEF SecretWorks
  <2>2. SecretFits(keys, config, secrets, r)
    BY <2>1 DEF AloneInv, Quiet
  <2>3. config[r].id \in KeyIds \cup {NoKey}
    BY <2>1 DEF KeyInv, TypeOK, Configs
  <2>4. config[r].id \in Candidates(keys, config, r)
    BY <2>1, <2>3 DEF Candidates, Exists
  <2> QED BY <2>1, <2>2, <2>4 DEF SecretFits
<1> QED BY KeyInvariant, AloneInvariant, <1>1, PTL

\* A command that had the repository to itself leaves in config.json the grants and
\* the bundles that its key has (upsertRepoVirtualKey, syncVirtualMcpAssignments and
\* the saves that follow); an init that names no clients, of a key without any, may
\* leave there the clients of the association before.
THEOREM GatewayIsReported == Spec => []ReportsTheGateway
<1>1. KeyInv /\ AloneInv => ReportsTheGateway
  <2>1. SUFFICES ASSUME KeyInv, AloneInv, NEW p \in Procs,
                        At(p, "secrets"), proc[p].alone, Exists(proc[p].vk)
                 PROVE  LET saved == config[proc[p].repo]
                            key == keys[proc[p].vk] IN
                        /\ proc[p].cmd \in {"init", "mcp add", "mcp remove"} =>
                              \/ saved.clients = key.clients
                              \/ proc[p].options.clients = Unset /\ key.clients = {}
                        /\ \/ proc[p].cmd \in {"vmcp add", "vmcp remove"}
                           \/ proc[p].options.bundles # Unset /\ Rest(p) = <<"mcp">>
                           => saved.bundles = key.bundles
    BY DEF ReportsTheGateway
  <2>2. /\ Holds(p) /\ Head(proc[p].plan) = "secrets"
        /\ proc[p].vk # NoKey /\ keys[proc[p].vk] \notin {Never, Gone}
    BY <2>1 DEF At, Exists
  <2>3. MemoryFits(keys, config, secrets, lost, proc[p]) /\ ReportFits(keys, proc[p])
    BY <2>1, <2>2, AloneHolder
  <2>4. config = proc[p].config
    BY <2>2, <2>3 DEF MemoryFits
  <2>5. ASSUME proc[p].options.bundles # Unset, Rest(p) = <<"mcp">>
        PROVE  proc[p].cmd = "init" /\ proc[p].plan \in Synced
    <3>1. /\ proc[p].plan \in {SecretsLeft, EndSecrets, MidSecrets}
          /\ PlanFits(proc[p].plan, proc[p].cmd, proc[p].options)
          /\ Takes(proc[p].cmd, proc[p].options)
      BY <2>1, <2>2, Holder DEF PlanKnown, HolderFits
    <3>2. Rest(p) = McpLeft
      BY <2>5 DEF McpLeft
    <3>3. proc[p].plan = EndSecrets
      BY <3>1, <3>2, Plans DEF Rest
    <3>4. proc[p].cmd \in {"init", "instructions"}
      BY <3>1, <3>3, EndOfInit
    <3>5. proc[p].cmd # "instructions"
      BY <2>5, <3>1 DEF Takes
    <3> QED BY <3>3, <3>4, <3>5 DEF Synced
  <2> QED BY <2>2, <2>3, <2>4, <2>5 DEF ReportFits, ClientsFit
<1> QED BY KeyInvariant, AloneInvariant, <1>1, PTL

=============================================================================
