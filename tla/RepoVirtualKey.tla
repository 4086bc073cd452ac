--------------------------- MODULE RepoVirtualKey ---------------------------
(***************************************************************************)
(* The Virtual Key of a repository: the key and its grants at the gateway, *)
(* its association in config.json and its value in secrets.json            *)
(* (cli-lib.mjs, the `pifrost repo` commands of cli.mjs, repo-reset.mjs).  *)
(* A command loads both files, sends one request at a time and writes      *)
(* first the one file, then the other, whole.  It may die anywhere, which  *)
(* is also what a request that fails amounts to: no command cleans up.     *)
(***************************************************************************)
EXTENDS Integers, Sequences, FiniteSets

CONSTANTS
    Repos,          \* repositories, all of the same basename
    Clients,        \* MCP clients of the gateway
    Bundles,        \* its Virtual MCP servers
    Procs,          \* `pifrost` processes
    Reveals,        \* which responses may carry the raw value of a key
    Choices,        \* the options of this instance's commands
    MaxCommands     \* bound: commands given, and deletions elsewhere

VARIABLES
    keys,       \* the gateway's Virtual Keys
    config,     \* config.json: repos
    secrets,    \* secrets.json: repos
    mcp,        \* the repositories whose .omp/mcp.json has the entry
    proc,       \* what each process holds and has yet to do
    issued,     \* the number of values issued so far
    spent,      \* the commands given so far
    lost,       \* history: repositories with a value that was issued and not saved
    strayed     \* history: a reset has deleted a key of another repository

vars == <<keys, config, secrets, mcp, proc, issued, spent, lost, strayed>>

KeyIds == 1 .. MaxCommands + 1
NoKey == 0
NoValue == 0
NoRepo == [id |-> NoKey, legacy |-> FALSE, clients |-> {}, bundles |-> {}]
Never == [name |-> "never", owner |-> "none", value |-> NoValue, clients |-> {}, bundles |-> {}]
Gone == [Never EXCEPT !.name = "gone"]
Unset == {"unset"}
Idle == [plan |-> <<>>]
Basename == "basename"

-----------------------------------------------------------------------------
(* The gateway, as the requests of cli-lib.mjs see it.  A key's name is    *)
(* unique and its id is never used again.                                  *)

Exists(k) == k # NoKey /\ keys[k] \notin {Never, Gone}

\* Mutation: the name of older releases, without the repository's digest.
repoVirtualKeyNameLegacy(r) == Basename

repoVirtualKeyName(r) == r

Named(n) == {k \in KeyIds : keys[k].name = n}
Found(n) == IF Named(n) = {} THEN NoKey ELSE CHOOSE k \in Named(n) : TRUE

Unused == CHOOSE k \in KeyIds : keys[k] = Never /\ \A j \in KeyIds : keys[j] = Never => k <= j

Raws(response, value) == IF response \in Reveals THEN {NoValue, value} ELSE {NoValue}

\* reconcileVirtualKeyMcpConfigs: the grants asked for, or those there are.
Granted(k, clients) == IF clients = Unset THEN keys[k].clients ELSE clients

-----------------------------------------------------------------------------
(* The processes.  `plan` is what is left of the command.                  *)

Holds(p) == proc[p].plan # <<>>
At(p, step) == Holds(p) /\ Head(proc[p].plan) = step
Rest(p) == Tail(proc[p].plan)
currentRepoState(p) == proc[p].config[proc[p].repo]
Becomes(p, held) == proc' = [proc EXCEPT ![p] = held]
Advance(p) == Becomes(p, IF Rest(p) = <<>> THEN Idle ELSE [proc[p] EXCEPT !.plan = Rest(p)])
Abort(p) == Becomes(p, Idle)

\* What each command does between loading the files and its end.  A save,
\* "config" and "secrets", writes both files whole, whatever it was that the
\* command changed in them.
commandRepoInit(o) ==
    IF o.bundles = Unset THEN <<"upsert", "config", "secrets", "mcp">>
    ELSE <<"upsert", "config", "secrets", "bundles", "config", "secrets", "mcp">>
commandRepoReset(o) ==
    IF o.delete THEN <<"delete", "forget", "config", "secrets">> ELSE <<"forget", "config", "secrets">>
commandRepoRotateKey == <<"read", "rotate", "config", "secrets">>
commandRepoMcpInstructions == <<"config", "secrets", "mcp">>
commandRepoSkillBind == <<"read", "config", "secrets">>
commandGlobalSetup == <<"config", "secrets">>

Plan(cmd, o) ==
    CASE cmd = "init" -> commandRepoInit(o)
      [] cmd = "rotate-key" -> commandRepoRotateKey
      [] cmd \in {"mcp add", "mcp remove"} -> <<"read", "grant", "config", "secrets">>
      [] cmd \in {"vmcp add", "vmcp remove"} -> <<"read", "bundle", "config", "secrets">>
      [] cmd = "instructions" -> commandRepoMcpInstructions
      [] cmd = "skills bind" -> commandRepoSkillBind
      [] cmd = "setup" -> commandGlobalSetup
      [] cmd = "reset" -> commandRepoReset(o)

Commands == {"init", "rotate-key", "mcp add", "mcp remove", "vmcp add", "vmcp remove",
             "instructions", "skills bind", "setup", "reset"}

Options == [clients : (SUBSET Clients) \cup {Unset}, bundles : (SUBSET Bundles) \cup {Unset},
            rotate : BOOLEAN, delete : BOOLEAN]

ASSUME RepoAssumption == /\ Repos \cap {Basename, "never", "gone"} = {}
                         /\ IsFiniteSet(Procs)
                         /\ Choices \subseteq Options
                         /\ Reveals \subseteq {"create", "update"}
                         /\ MaxCommands \in Nat

\* The options a command reads.
Takes(cmd, o) ==
    /\ cmd # "init" => ~ o.rotate
    /\ cmd # "reset" => ~ o.delete
    /\ CASE cmd = "init" -> o.clients # Unset \/ o.bundles # Unset
         [] cmd \in {"mcp add", "mcp remove"} -> Cardinality(o.clients \ Unset) = 1 /\ o.bundles = Unset
         [] cmd \in {"vmcp add", "vmcp remove"} -> Cardinality(o.bundles \ Unset) = 1 /\ o.clients = Unset
         [] OTHER -> o.clients = Unset /\ o.bundles = Unset

Start(p, r, cmd, o) ==
    /\ ~ Holds(p)
    /\ Takes(cmd, o)
    /\ \/ cmd \in {"init", "setup"}
       \/ cmd = "reset" /\ o.delete
       \/ config[r].id # NoKey
    /\ spent' = spent + 1
    /\ proc' = [q \in Procs |->
         IF q = p
         THEN [plan |-> Plan(cmd, o), repo |-> r, cmd |-> cmd, options |-> o,
               config |-> config, secrets |-> secrets, fresh |-> FALSE,
               vk |-> NoKey, seen |-> [k \in KeyIds |-> IF o.bundles = Unset THEN {} ELSE keys[k].bundles],
               grants |-> {}, alone |-> \A other \in Procs : ~ Holds(other)]
         ELSE IF Holds(q) THEN [proc[q] EXCEPT !.alone = FALSE] ELSE proc[q]]
    /\ lost' = IF \A q \in Procs : ~ Holds(q) THEN lost ELSE Repos
    /\ UNCHANGED <<keys, config, secrets, mcp, issued, strayed>>

\* A kill, a request that fails or an answer that never comes.
Dies(p) ==
    /\ Holds(p)
    /\ Abort(p)
    /\ lost' = IF proc[p].fresh THEN lost \cup {proc[p].repo} ELSE lost
    /\ UNCHANGED <<keys, config, secrets, mcp, issued, spent, strayed>>

-----------------------------------------------------------------------------
(* upsertRepoVirtualKey.                                                   *)

\* Mutation: the stored value is preferred to the one the gateway returns.
KeyValueStored(raw, stored) == IF stored # NoValue THEN stored ELSE raw

KeyValue(raw, stored) == IF raw # NoValue THEN raw ELSE stored

\* The clients an association names: those asked for are live by now; where none
\* were asked for and none are live, the stored ones stay.
Recorded(p, live) ==
    IF proc[p].options.clients = Unset /\ live = {} THEN currentRepoState(p).clients ELSE live

\* With a key in hand: the association in memory, and its value if it is known.
Associate(p, k, name, live, raw, created) ==
    LET r == proc[p].repo
        value == KeyValue(raw, proc[p].secrets[r])
        rotates == value = NoValue /\ ~ created /\ proc[p].options.rotate IN
    Becomes(p, [proc[p] EXCEPT
        !.config[r] = [id |-> k, legacy |-> name = Basename, clients |-> Recorded(p, live),
                       bundles |-> @.bundles],
        !.secrets[r] = value,
        !.fresh = created /\ raw # NoValue,
        !.vk = k,
        !.plan = IF rotates THEN <<"rotate">> \o Rest(p) ELSE Rest(p)])

\* The key of the stored id: policy and, for a legacy association, its name.
UpsertLocal(p) ==
    LET r == proc[p].repo
        k == currentRepoState(p).id
        name == IF currentRepoState(p).legacy THEN repoVirtualKeyName(r) ELSE keys[k].name
        clients == Granted(k, proc[p].options.clients) IN
    /\ At(p, "upsert")
    /\ Exists(k)
    /\ IF currentRepoState(p).legacy /\ Named(repoVirtualKeyName(r)) \ {k} # {}
       THEN Abort(p) /\ UNCHANGED keys
       ELSE /\ keys' = [keys EXCEPT ![k] = [@ EXCEPT !.name = name, !.clients = clients]]
            /\ \E raw \in Raws("update", keys[k].value) : Associate(p, k, name, clients, raw, FALSE)
    /\ UNCHANGED <<config, secrets, mcp, issued, spent, lost, strayed>>

\* No stored id, or its key is gone: a key of the canonical name, or a new one.
UpsertByName(p) ==
    LET k == Found(repoVirtualKeyName(proc[p].repo)) IN
    /\ At(p, "upsert")
    /\ ~ Exists(currentRepoState(p).id)
    /\ Becomes(p, [proc[p] EXCEPT !.vk = k,
                               !.plan = <<IF k = NoKey THEN "create" ELSE "adopt">> \o Rest(p)])
    /\ UNCHANGED <<keys, config, secrets, mcp, issued, spent, lost, strayed>>

Adopt(p) ==
    LET k == proc[p].vk
        clients == Granted(k, proc[p].options.clients) IN
    /\ At(p, "adopt")
    /\ IF Exists(k)
       THEN /\ keys' = [keys EXCEPT ![k].clients = clients]
            /\ \E raw \in Raws("update", keys[k].value) :
                  Associate(p, k, keys[k].name, clients, raw, FALSE)
       ELSE Abort(p) /\ UNCHANGED keys
    /\ UNCHANGED <<config, secrets, mcp, issued, spent, lost, strayed>>

\* Another init was faster: 409, and the inventory is read once more.
CreateRefused(p) ==
    LET k == Found(repoVirtualKeyName(proc[p].repo)) IN
    /\ At(p, "create")
    /\ k # NoKey
    /\ Becomes(p, [proc[p] EXCEPT !.vk = k, !.plan = <<"adopt">> \o Rest(p)])
    /\ UNCHANGED <<keys, config, secrets, mcp, issued, spent, lost, strayed>>

\* An answer without the new value leaves whatever was stored in its place.
Create(p) ==
    LET r == proc[p].repo
        k == Unused
        clients == proc[p].options.clients \ Unset IN
    /\ At(p, "create")
    /\ Named(repoVirtualKeyName(r)) = {}
    /\ keys' = [keys EXCEPT ![k] = [name |-> repoVirtualKeyName(r), owner |-> r,
                                    value |-> issued + 1, clients |-> clients, bundles |-> {}]]
    /\ issued' = issued + 1
    /\ \E raw \in Raws("create", issued + 1) :
          /\ Associate(p, k, repoVirtualKeyName(r), clients, raw, TRUE)
          /\ lost' = IF raw = NoValue THEN lost \cup {r} ELSE lost
    /\ UNCHANGED <<config, secrets, mcp, spent, strayed>>

-----------------------------------------------------------------------------
(* The other requests.                                                     *)

\* requireRepoVirtualKey, and the grants or the inventory the command goes by.
Read(p) ==
    LET k == currentRepoState(p).id IN
    /\ At(p, "read")
    /\ IF Exists(k)
       THEN Becomes(p, [proc[p] EXCEPT
                !.plan = Rest(p), !.vk = k,
                !.grants = IF Head(Rest(p)) = "grant" THEN keys[k].clients ELSE @,
                !.seen = IF Head(Rest(p)) = "bundle" THEN [j \in KeyIds |-> keys[j].bundles] ELSE @])
       ELSE Abort(p)
    /\ UNCHANGED <<keys, config, secrets, mcp, issued, spent, lost, strayed>>

Rotate(p) ==
    LET k == proc[p].vk IN
    /\ At(p, "rotate")
    /\ IF Exists(k)
       THEN /\ keys' = [keys EXCEPT ![k].value = issued + 1]
            /\ issued' = issued + 1
            /\ Becomes(p, [proc[p] EXCEPT !.plan = Rest(p), !.fresh = TRUE,
                                       !.secrets[proc[p].repo] = issued + 1])
       ELSE Abort(p) /\ UNCHANGED <<keys, issued>>
    /\ UNCHANGED <<config, secrets, mcp, spent, lost, strayed>>

\* mcp add and mcp remove replace the grants by those read before, changed.
Grant(p) ==
    LET k == proc[p].vk
        clients == IF proc[p].cmd = "mcp add" THEN proc[p].grants \cup proc[p].options.clients
                   ELSE proc[p].grants \ proc[p].options.clients IN
    /\ At(p, "grant")
    /\ IF Exists(k)
       THEN /\ keys' = [keys EXCEPT ![k].clients = clients]
            /\ Becomes(p, [proc[p] EXCEPT !.plan = Rest(p), !.config[proc[p].repo].clients = clients])
       ELSE Abort(p) /\ UNCHANGED keys
    /\ UNCHANGED <<config, secrets, mcp, issued, spent, lost, strayed>>

\* Mutation: the names are those read before the request.
LiveNamesRead(cmd, seen, asked) == seen

LiveNames(cmd, seen, asked) == IF cmd = "vmcp add" THEN seen \cup asked ELSE seen \ asked

Bundle(p) ==
    LET k == proc[p].vk
        asked == proc[p].options.bundles IN
    /\ At(p, "bundle")
    /\ IF Exists(k)
       THEN /\ keys' = [keys EXCEPT ![k].bundles =
                           IF proc[p].cmd = "vmcp add" THEN @ \cup asked ELSE @ \ asked]
            /\ Becomes(p, [proc[p] EXCEPT !.plan = Rest(p),
                          !.config[proc[p].repo].bundles =
                              LiveNames(proc[p].cmd, proc[p].seen[k], asked)])
       ELSE Abort(p) /\ UNCHANGED keys
    /\ UNCHANGED <<config, secrets, mcp, issued, spent, lost, strayed>>

\* syncVirtualMcpAssignments: one request for each difference to the inventory
\* read at the start, the additions first.
Sync(p) ==
    LET k == proc[p].vk
        wanted == proc[p].options.bundles
        attach == wanted \ proc[p].seen[k]
        detach == proc[p].seen[k] \ wanted IN
    /\ At(p, "bundles")
    /\ IF ~ Exists(k) /\ attach \cup detach # {} THEN Abort(p) /\ UNCHANGED keys
       ELSE IF attach # {}
       THEN \E b \in attach :
            /\ keys' = [keys EXCEPT ![k].bundles = @ \cup {b}]
            /\ Becomes(p, [proc[p] EXCEPT !.seen[k] = @ \cup {b}])
       ELSE IF detach # {}
       THEN \E b \in detach :
            /\ keys' = [keys EXCEPT ![k].bundles = @ \ {b}]
            /\ Becomes(p, [proc[p] EXCEPT !.seen[k] = @ \ {b}])
       ELSE /\ Becomes(p, [proc[p] EXCEPT !.plan = Rest(p), !.config[proc[p].repo].bundles = wanted])
            /\ UNCHANGED keys
    /\ UNCHANGED <<config, secrets, mcp, issued, spent, lost, strayed>>

\* deleteRepoVirtualKeyForReset, by the stored id or, where there is none and
\* --recover-by-name is given, by the exact canonical name; 404 is success.
Delete(p) ==
    LET r == proc[p].repo
        k == IF currentRepoState(p).id # NoKey THEN currentRepoState(p).id ELSE Found(repoVirtualKeyName(r)) IN
    /\ At(p, "delete")
    /\ keys' = IF k = NoKey THEN keys ELSE [keys EXCEPT ![k] = Gone]
    /\ strayed' = (strayed \/ (Exists(k) /\ keys[k].owner # r))
    /\ Advance(p)
    /\ UNCHANGED <<config, secrets, mcp, issued, spent, lost>>

\* removeRepoState.
Forgets(held, r) == [held EXCEPT !.config[r] = NoRepo, !.secrets[r] = NoValue]

\* The local half of reset: the entry of .omp/mcp.json, then removeRepoState.
\* (Its Skills and the preflight are in SkillInstall.)
Forget(p) ==
    LET r == proc[p].repo IN
    /\ At(p, "forget")
    /\ mcp' = mcp \ {r}
    /\ Becomes(p, [Forgets(proc[p], r) EXCEPT !.plan = Rest(p)])
    /\ UNCHANGED <<keys, config, secrets, issued, spent, lost, strayed>>

-----------------------------------------------------------------------------
(* saveState and the end of init.                                          *)

SaveConfig(p) ==
    /\ At(p, "config")
    /\ config' = proc[p].config
    /\ Advance(p)
    /\ UNCHANGED <<keys, secrets, mcp, issued, spent, lost, strayed>>

\* Without a value init ends here with an error, the association saved.
SaveSecrets(p) ==
    LET r == proc[p].repo
        ends == Rest(p) = <<>> \/ (proc[p].cmd = "init" /\ proc[p].secrets[r] = NoValue) IN
    /\ At(p, "secrets")
    /\ secrets' = proc[p].secrets
    /\ lost' = IF ~ proc[p].fresh THEN lost
               ELSE IF /\ proc[p].alone /\ secrets'[r] # NoValue
                       /\ Named(repoVirtualKeyName(r)) \subseteq {proc[p].vk}
                    THEN lost \ {r} ELSE lost \cup {r}
    /\ Becomes(p, IF ends THEN Idle ELSE [proc[p] EXCEPT !.plan = Rest(p), !.fresh = FALSE])
    /\ UNCHANGED <<keys, config, mcp, issued, spent, strayed>>

WriteMcp(p) ==
    /\ At(p, "mcp")
    /\ mcp' = mcp \cup {proc[p].repo}
    /\ Advance(p)
    /\ UNCHANGED <<keys, config, secrets, issued, spent, lost, strayed>>

\* A key is deleted from the dashboard or by another machine.
DeletedElsewhere(k) ==
    /\ spent < MaxCommands
    /\ spent' = spent + 1
    /\ Exists(k)
    /\ keys' = [keys EXCEPT ![k] = Gone]
    /\ UNCHANGED <<config, secrets, mcp, proc, issued, lost, strayed>>

-----------------------------------------------------------------------------
\* No repository is known yet, or the first one has a key of an older release,
\* named after the basename.
Init ==
    /\ \E r \in Repos, old \in BOOLEAN :
        /\ keys = [k \in KeyIds |-> IF old /\ k = 1
                    THEN [name |-> Basename, owner |-> r, value |-> 1, clients |-> {}, bundles |-> {}]
                    ELSE Never]
        /\ config = [q \in Repos |-> IF old /\ q = r THEN [NoRepo EXCEPT !.id = 1, !.legacy = TRUE]
                                     ELSE NoRepo]
        /\ secrets = [q \in Repos |-> IF old /\ q = r THEN 1 ELSE NoValue]
        /\ mcp = IF old THEN {r} ELSE {}
    /\ proc = [p \in Procs |-> Idle]
    /\ issued = 1
    /\ spent = 0
    /\ lost = {}
    /\ strayed = FALSE

Step(p) ==
    \/ Dies(p)
    \/ UpsertLocal(p) \/ UpsertByName(p) \/ Adopt(p) \/ CreateRefused(p) \/ Create(p)
    \/ Read(p) \/ Rotate(p) \/ Grant(p) \/ Bundle(p) \/ Sync(p) \/ Delete(p) \/ Forget(p)
    \/ SaveConfig(p) \/ SaveSecrets(p) \/ WriteMcp(p)

Next ==
    \/ /\ spent < MaxCommands
       /\ \E p \in Procs, r \in Repos, cmd \in Commands, o \in Choices : Start(p, r, cmd, o)
    \/ \E p \in Procs : Step(p)
    \/ \E k \in KeyIds : DeletedElsewhere(k)

Spec == Init /\ [][Next]_vars

Quiet == \A p \in Procs : ~ Holds(p)

Values == 0 .. MaxCommands + 1
Keys == [name : Repos \cup {Basename, "never", "gone"}, owner : Repos \cup {"none"},
         value : Values, clients : SUBSET Clients, bundles : SUBSET Bundles]
Configs == [Repos -> [id : KeyIds \cup {NoKey}, legacy : BOOLEAN,
                      clients : SUBSET Clients, bundles : SUBSET Bundles]]

TypeOK ==
    /\ keys \in [KeyIds -> Keys]
    /\ config \in Configs
    /\ secrets \in [Repos -> Values]
    /\ mcp \subseteq Repos /\ lost \subseteq Repos
    /\ issued \in 1 .. MaxCommands + 1 /\ spent \in 0 .. MaxCommands
    /\ strayed \in BOOLEAN

-----------------------------------------------------------------------------
\* Repositories never share a key, and a reset never deletes another
\* repository's, although all have the same basename and keys of older releases
\* are named after it, with commands overlapping and dying anywhere.
EveryRepositoryItsOwnKey ==
    /\ \A r \in Repos : Exists(config[r].id) => keys[config[r].id].owner = r
    /\ ~ strayed

\* As long as commands do not overlap and every value issued for a repository has
\* been saved, the secret OMP is given for it is that of its key, through any number
\* of deletions, resets that stopped half way, adoptions and rotations.  A value
\* issued is not saved when its command dies before the save, or when the answer to
\* a creation does not carry it: then secrets.json keeps that of an earlier key,
\* and nothing is said until a rotation (or a creation) has saved one again, in a
\* repository that has no second key.
SecretWorks ==
    \A r \in Repos :
        /\ Quiet /\ r \notin lost
        /\ Exists(config[r].id) /\ secrets[r] # NoValue
        => secrets[r] = keys[config[r].id].value

\* A command that had the repository to itself leaves in config.json the grants
\* and the bundles the key has at the gateway, also after one that died between
\* its request and its save.  One exception: an init that names no clients, of a
\* key that has none, leaves the clients that config.json had (mcpClients of the
\* earlier association), which the key does not have.
ReportsTheGateway ==
    \A p \in Procs :
        (At(p, "secrets") /\ proc[p].alone /\ Exists(proc[p].vk)) =>
            LET saved == config[proc[p].repo]
                key == keys[proc[p].vk] IN
            /\ proc[p].cmd \in {"init", "mcp add", "mcp remove"} =>
                  \/ saved.clients = key.clients
                  \/ proc[p].options.clients = Unset /\ key.clients = {}
            /\ \/ proc[p].cmd \in {"vmcp add", "vmcp remove"}
               \/ proc[p].options.bundles # Unset /\ Rest(p) = <<"mcp">>
               => saved.bundles = key.bundles
=============================================================================
