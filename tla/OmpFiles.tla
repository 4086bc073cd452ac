------------------------------ MODULE OmpFiles ------------------------------
(***************************************************************************)
(* The three files of OMP's agent directory that `pifrost` commands change *)
(* and the user writes too: the command palette with its ownership record  *)
(* (omp-commands-install.mjs), the marked provider block in models.yml     *)
(* (native-models.mjs) and the model roles in config.yml, which `migrate`  *)
(* cleans and rolls back (cli.mjs, omp-legacy-migration.mjs) and which     *)
(* `/pifrost config save` merges into (omp-cfg.ts).  Every command looks   *)
(* at a file, decides and writes it whole, one system call at a time; the  *)
(* user, another command or a kill may come between any two.               *)
(*                                                                         *)
(* Everything of the user's in a file is one number, the version of his    *)
(* last edit there; a file rewritten from an older reading goes back to    *)
(* the version that was read.                                              *)
(***************************************************************************)
EXTENDS Integers

CONSTANTS
    Runners,        \* processes and OMP commands at work at once
    MaxRuns,        \* bound: commands
    MaxEdits        \* bound: edits of the user

ASSUME OmpFilesAssumption == MaxRuns \in Nat /\ MaxEdits \in Nat

VARIABLES
    shipped,    \* edition of the palette this Pifrost installs
    palette,    \* [edition, user] of pifrost-commands.js
    record,     \* the edition its ownership manifest names, 0 without one
    models,     \* [block, user] of models.yml
    roles,      \* [legacy, user] of config.yml's modelRoles: Pifrost's old ones, the user's
    journal,    \* ompMigration030 of the saved state: the backup, what the migration left
    runner,     \* what each process holds
    runs, edits,
    settled     \* history: per file, the last edit made while no command was at it

ompVars == <<shipped, palette, record, models, roles, journal, runner, runs, edits, settled>>

Apis == {"completions", "responses"}
Files == {"palette", "models", "config"}
Absent == [edition |-> 0, user |-> 0]
NoRoles == [legacy |-> FALSE, user |-> -1]
NoJournal == [backup |-> NoRoles, after |-> NoRoles]

Ready == [at |-> "ready", file |-> "none", api |-> "none", read |-> 0, backup |-> NoRoles]
Rested(p) == runner[p] = Ready
Stands(p, step) == runner[p].at = step
Busy(f) == \E p \in Runners : runner[p].file = f
Ends(p) == runner' = [runner EXCEPT ![p] = Ready]
Moves(p, step) == runner' = [runner EXCEPT ![p].at = step]

\* A command starts on a file, having looked at it: what it writes is built
\* from the version read.
Starts(p, step, held) ==
    /\ Rested(p) /\ runs < MaxRuns
    /\ runs' = runs + 1
    /\ runner' = [runner EXCEPT ![p] = [held EXCEPT !.at = step]]
    /\ UNCHANGED <<shipped, palette, record, models, roles, journal, edits, settled>>

On(file) == [Ready EXCEPT !.file = file]

-----------------------------------------------------------------------------
(* The palette.                                                            *)

\* owned and commandStatus: the manifest holds the hash of the whole file.
owned == palette.user = 0 /\ palette.edition = record
commandStatus ==
    IF palette = Absent THEN (IF record = 0 THEN "disabled" ELSE "drift")
    ELSE IF owned THEN "enabled" ELSE "unmanaged"

EnableCommands(p) ==
    /\ commandStatus \in {"disabled", "enabled"}
    /\ palette.edition # shipped
    /\ Starts(p, "palette", On("palette"))

WritesPalette(p) ==
    /\ Stands(p, "palette")
    /\ palette' = [edition |-> shipped, user |-> 0]
    /\ Moves(p, "record")
    /\ UNCHANGED <<shipped, record, models, roles, journal, runs, edits, settled>>

WritesRecord(p) ==
    /\ Stands(p, "record")
    /\ record' = shipped
    /\ Ends(p)
    /\ UNCHANGED <<shipped, palette, models, roles, journal, runs, edits, settled>>

DisableCommands(p) ==
    /\ commandStatus = "enabled"
    /\ Starts(p, "remove", On("palette"))

\* A file that is gone already makes the command fail.
RemovesPalette(p) ==
    /\ Stands(p, "remove")
    /\ palette' = Absent
    /\ IF palette = Absent THEN Ends(p) ELSE Moves(p, "remove record")
    /\ UNCHANGED <<shipped, record, models, roles, journal, runs, edits, settled>>

RemovesRecord(p) ==
    /\ Stands(p, "remove record")
    /\ record' = 0
    /\ Ends(p)
    /\ UNCHANGED <<shipped, palette, models, roles, journal, runs, edits, settled>>

-----------------------------------------------------------------------------
(* models.yml.                                                             *)

\* mergeNativeProviderYaml: only a block Pifrost wrote is replaced or removed,
\* and none is added beside a provider of the user's own.
MayMerge(text) == text.block \notin {"edited", "theirs"}

WriteNativeModels(p, api) ==
    /\ MayMerge(models) /\ models.block # api
    /\ Starts(p, "rename", [On("models") EXCEPT !.api = api, !.read = models.user])

\* The new text, merged from the one read, renamed over the file.
RenamesModels(p) ==
    /\ Stands(p, "rename")
    /\ models' = [block |-> runner[p].api, user |-> runner[p].read]
    /\ Ends(p)
    /\ UNCHANGED <<shipped, palette, record, roles, journal, runs, edits, settled>>

-----------------------------------------------------------------------------
(* config.yml.                                                             *)

\* migrate apply reads the roles and plans (planLegacyOmpCleanup).
Migrate(p) ==
    /\ roles.legacy
    /\ Starts(p, "prepare", [On("config") EXCEPT !.read = roles.user])

\* It refuses while a journal exists, backs the file up and compares hashes
\* around the copy: an edit between hash and comparison ends it.
Prepares(p) ==
    /\ Stands(p, "prepare")
    /\ IF journal = NoJournal
       THEN runner' = [runner EXCEPT ![p].at = "set", ![p].backup = roles]
       ELSE Ends(p)
    /\ UNCHANGED <<shipped, palette, record, models, roles, journal, runs, edits, settled>>

\* `omp config set modelRoles` with the planned value, or the backup again.
Sets(p) ==
    /\ Stands(p, "set")
    /\ \/ /\ roles' = [legacy |-> FALSE, user |-> runner[p].read]
          /\ Moves(p, "journal")
       \/ /\ roles' = runner[p].backup
          /\ Ends(p)
    /\ UNCHANGED <<shipped, palette, record, models, journal, runs, edits, settled>>

Journals(p) ==
    /\ Stands(p, "journal")
    /\ journal' = [backup |-> runner[p].backup, after |-> roles]
    /\ Ends(p)
    /\ UNCHANGED <<shipped, palette, record, models, roles, runs, edits, settled>>

\* Mutation: the configuration's hash is not compared.
MayRollBackAnyTime == journal # NoJournal

MayRollBack == journal # NoJournal /\ journal.after = roles

RollBack(p) ==
    /\ MayRollBack
    /\ Starts(p, "restore", [On("config") EXCEPT !.backup = journal.backup])

Restores(p) ==
    /\ Stands(p, "restore")
    /\ roles' = runner[p].backup
    /\ Moves(p, "forget")
    /\ UNCHANGED <<shipped, palette, record, models, journal, runs, edits, settled>>

ForgetsJournal(p) ==
    /\ Stands(p, "forget")
    /\ journal' = NoJournal
    /\ Ends(p)
    /\ UNCHANGED <<shipped, palette, record, models, roles, runs, edits, settled>>

\* /pifrost config save modelRoles: the setting is read, merged, and written
\* whole once OMP's user has approved, or not at all.
SaveSetting(p) == Starts(p, "approve", [On("config") EXCEPT !.read = roles.user])

Approved(p) ==
    /\ Stands(p, "approve")
    /\ roles' \in {roles, [legacy |-> TRUE, user |-> runner[p].read]}
    /\ Ends(p)
    /\ UNCHANGED <<shipped, palette, record, models, journal, runs, edits, settled>>

-----------------------------------------------------------------------------
(* Kills, the user and a newer Pifrost.                                    *)

Stops(p) ==
    /\ ~ Rested(p)
    /\ Ends(p)
    /\ UNCHANGED <<shipped, palette, record, models, roles, journal, runs, edits, settled>>

Edited(f) ==
    /\ edits < MaxEdits
    /\ edits' = edits + 1
    /\ settled' = IF Busy(f) THEN settled ELSE [settled EXCEPT ![f] = edits']

UserEditsPalette ==
    /\ Edited("palette")
    /\ palette' = [palette EXCEPT !.user = edits']
    /\ UNCHANGED <<shipped, record, models, roles, journal, runner, runs>>

UserEditsModels ==
    /\ Edited("models")
    /\ \E block \in {models.block, "theirs"} \cup (IF models.block \in Apis THEN {"edited"} ELSE {}) :
          /\ models.block # "none" => block # "theirs"
          /\ models' = [block |-> block, user |-> edits']
    /\ UNCHANGED <<shipped, palette, record, roles, journal, runner, runs>>

UserEditsConfig ==
    /\ Edited("config")
    /\ roles' = [roles EXCEPT !.user = edits']
    /\ UNCHANGED <<shipped, palette, record, models, journal, runner, runs>>

Upgrades ==
    /\ shipped = 1
    /\ shipped' = 2
    /\ UNCHANGED <<palette, record, models, roles, journal, runner, runs, edits, settled>>

-----------------------------------------------------------------------------
OmpInit ==
    /\ shipped = 1
    /\ palette = Absent /\ record = 0
    /\ models = [block |-> "none", user |-> 0]
    /\ roles = [legacy |-> TRUE, user |-> 0]
    /\ journal = NoJournal
    /\ runner = [p \in Runners |-> Ready]
    /\ runs = 0 /\ edits = 0
    /\ settled = [f \in Files |-> 0]

OmpStep(p) ==
    \/ EnableCommands(p) \/ WritesPalette(p) \/ WritesRecord(p)
    \/ DisableCommands(p) \/ RemovesPalette(p) \/ RemovesRecord(p)
    \/ \E api \in Apis \cup {"none"} : WriteNativeModels(p, api)
    \/ RenamesModels(p)
    \/ Migrate(p) \/ Prepares(p) \/ Sets(p) \/ Journals(p)
    \/ RollBack(p) \/ Restores(p) \/ ForgetsJournal(p)
    \/ SaveSetting(p) \/ Approved(p) \/ Stops(p)

OmpNext ==
    \/ \E p \in Runners : OmpStep(p)
    \/ UserEditsPalette \/ UserEditsModels \/ UserEditsConfig \/ Upgrades

OmpSpec == OmpInit /\ [][OmpNext]_ompVars

-----------------------------------------------------------------------------
\* What the user wrote into one of these files while no command was at it is
\* there for good, whatever commands run, fail or are killed afterwards: "refuses
\* if OMP config has since changed" (cli.mjs:1760), "Refuse user-owned bifrost
\* records" (native-models.mjs:52) and "refusing to overwrite" (omp-commands-
\* install.mjs:54) together.
UserTextIsKept ==
    /\ palette.user >= settled.palette
    /\ models.user >= settled.models
    /\ roles.user >= settled.config
=============================================================================
