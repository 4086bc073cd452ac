# Verification of Pifrost

TLA+ models of the parts of Pifrost whose correctness depends on the order of
things: what a session journal means after a rewind, a fork or a crash, when a
stalled turn may be continued automatically, how several OMP sessions and
short-lived CLI processes keep one route manifest, how rules become aliases and
aliases become attempts at a request, when a failed request may be tried again
another way, and what survives in files and at the gateway when two commands
overlap or one is killed. Each module is translated from the source;
`PROJECT.json` maps every definition to the lines it stands for.

## The system

Pifrost connects OMP (an agent that runs in a terminal) to a Bifrost gateway.
It has two halves in one flat directory.

*The CLI* (`cli.mjs`, `cli-lib.mjs` and the files they import) is a set of
one-shot commands. They keep state in JSON files and at the gateway.

*The OMP extension* (`native.ts` and the `.ts`/`.mjs` files it imports) lives in
an OMP process. It registers a model provider, transforms its requests and
streams, and hooks into OMP's session events. OMP runs handlers on one
JavaScript thread: a handler is atomic between two `await`s. The journal of a
session belongs to OMP; the extension appends entries and reads the path from
the root to the current leaf (`getBranch()`).

| Component | State it keeps | Operations | What is hard | What makes it correct | Modelled |
| --- | --- | --- | --- | --- | --- |
| Execution checkpoints (`execution-checkpoint`, `checkpoint-lifecycle`, `checkpoint-mirror`) | checkpoint entries in the journal, mirror files | begin, autoBegin, attempt, verify, fail, complete, supersede, afterTurn, restore | rewinds, forks, switches, crashes; commands during a turn; a record at its size limit | each record extends the last one of its own branch; completion follows verification; a journalled record without a mirror file has a known reason | yes |
| Automatic recovery (`recovery-episodes`, `intelligent-stall-recovery`, `session_stop` of `native.ts`) | attempt entries in the journal | plan, journal, re-check, select a model, continue | another turn, hook, message or move while `setModel` is awaited; restarts between journal and continuation | at most three attempts without progress; a continuation belongs to the settlement it was planned for; unknown outcomes and unknown entries stop it | yes |
| Controlled recovery (`recovery-command`, `controlled-recovery`, `request-provenance`) | route traces | record, assess, fork after two dialogs | turns, messages and jobs while a dialog is open | a fork is made for a failure that is still the latest attempt | partly |
| Stalled-turn coordinator (`stalled-turn-recovery`) | pending and attempted sessions | onPrompt, onAgentEnd, continuePending, onHistoryChanged | interrupts, a second stall, a failing send | one follow-up per human prompt, never of an older history | yes |
| Compact before skip (`compact-before-skip`) | scheduled, inFlight, last attempt | schedule, run, compact | the session becomes busy; a compaction that frees nothing; a timer that throws | never two compactions at a time, one per turn | partly |
| Agent attribution (`agent-attribution`) | sessions, counts per agent | bind, record, release | requests before their session is named; eviction at 256 sessions, collapse at 128 agents | every request is counted once, in bounded memory | yes |
| Route reconciliation (`route-reconcile`, provider registration of `native.ts`) | lock file, alias manifest, throttle and pending check of a session | capture twice, write, reply, refresh | several sessions and processes, kills, policy edits, failures after the write | one check at a time; the manifest never goes back; an update is not forgotten; a check ends | yes |
| Rule discovery (`routing-discovery`, attestation) | none (a read under way) | read pages, restart on the other path, attest | edits between pages and between two reads | an inventory is complete or refused; an attestation is an atomic look at the policy | yes |
| Routing core (`index`, `datasheet`, `model-resolution`, `route-eligibility`, `dynamic-routing`, `output-budget`) | none | derive aliases, resolve, enrich, promise, select, group, cap | sources that contradict each other; a promise made of several members; arithmetic at limits | what was promised for an alias every member that gets the request can serve | partly |
| Runtime routes and catalogue cache (`runtime-route-state`, `cache`) | published generation, cache file | publish, load, write, refresh | background fetches that finish late, another session's cache, another key | requests of a changed policy are refused, not misrouted; routes are of no other session's key | yes |
| Protocol plan (`multi-protocol-routing`, `attempt-retry-policy`, `output-commitment`) | one request's attempts and buffered events | dispatch, buffer, commit, fail over | errors before and after output | no second attempt after output; the outer stream ends once | partly |
| Reasoning integrity (`reasoning-stream`, `reasoning-integrity`, `reasoning-replay`) | none | filter, clean, certify, guard | markers split over deltas; runs that are nothing but reasoning | cleaning loses nothing and never makes the guard refuse | partly |
| Repository Virtual Key (`cli-lib`, `repo-reset`) | gateway key, configuration, secrets file, `.omp/mcp.json` | init, rotate, grant, attach, sync, reset | crashes between gateway and files, concurrent commands | every repository has its own key; what is stored works, or the next command repairs it | yes |
| Skills (`skills-bridge`) | skill directory, dot-directories, configuration row | install, sync, offer, remove, reset | crashes between renames, edits meanwhile | a complete copy of an installed Skill is always there; no edit is discarded unseen | yes |
| OMP's files (`omp-commands-install`, `native-models`, `omp-legacy-migration`, `omp-cfg`) | installed file and ownership record, block of `models.yml`, roles with journal | enable, disable, install, migrate, roll back, save | crashes between two files, edits between reading and writing | the user's text is never lost | partly |
| Usage, cost and pricing | capture of a response | | | the status and failure code reach the attempt policy | partly |
| Credentials, MCP shapes, judges, diagnostics | none or read-only | | | input and output only | no |

The components meet in six places. The journal carries checkpoints and
attempts, and each is evidence for the other: a recovery needs an open
checkpoint, a newly verified step starts a new recovery episode. `agent_end`
gives the stalled-turn follow-up its chance only if no open checkpoint owns the
task, and schedules the compaction of the idle session. The alias manifest
written by a CLI process decides which cache entry and which models a session
uses. The routes published by a fetch are what the provider captures for each
request. A request that is to be addressed to members of a route instead of its
alias is attested against the live rules first. And what the bridge captures of
a response decides whether the next attempt may be made.

## Modules

| Module | Models | State |
| --- | --- | --- |
| `ExecutionCheckpoint` | the record of `execution-checkpoint.mjs`: validity, transitions, observation, restoring from a branch | none (operators) |
| `CheckpointLifecycle` | the ledger over a journal with rewinds, forks, switches and restarts, the mirror and the commands | `branch`, `away`, `session`, `turn`, `mirroring`, `files`, `noticed` |
| `RecoveryJournal` | what `recovery-episodes.mjs` and `planIntelligentRecovery` read out of a journal | none (operators) |
| `SessionStop` | the `session_stop` handler, the checkpoint handlers it depends on and the OMP events between its steps | the journal, `turn`, `event`, `handler`, `busy`, `issued` |
| `RecoveryFork` | `/pifrost recover fork`: traces, assessment, two dialogs with re-checks, fork | `omp`, `traces`, `asking`, `forks` |
| `AgentAttribution` | the account of requests by agent | `tracked`, `aggregates`, `collapsed` |
| `StalledTurn`, `CompactBeforeSkip` | the coordinator's two sets; the compaction plan and the scheduler's flags | none (operators) |
| `IdleSession` | both at the end of a turn, with the host session, its queue, jobs and timers; extends the two | `host`, `mode`, `stalled`, `compaction`, `timer`, `work`, `dialog` |
| `ReconcileLock` | `withReconcileLock`, one action per system call | `lock`, `pc`, `saw`, `tries` |
| `RouteReconcile` | sessions, CLI processes, manifest, cache and refresh; extends the lock | the lock's, and `policy`, `manifest`, `cache`, `job`, `check`, `fetch`, `models` |
| `LiveCheck` | what an attestation promises (abstract) | `policy`, `profile`, `stage` |
| `RuleInventory` | the paged read of the rules and the double read that attests a route; implements `LiveCheck` | `ruleRows`, `answering`, `paging`, `attesting`, `firstCapture` |
| `ModelResolution`, `RouteRules`, `RouteCatalogue`, `RoutePlan` | resolving a reference; rules to aliases; sources to a catalogue and its promises; a request to attempts and output limits | none (operators) |
| `RouteSession` | a session that loads, fetches, registers and publishes catalogues and sends requests; extends the four | `world`, `policy`, `manifest`, `aliasSource`, `cache`, `fetch`, `command`, `routes`, `models`, `request` |
| `AttemptPolicy` | the evidence of a failed attempt and the policy over it | none (operators) |
| `AnswerStream` | what the outer stream of a request promises OMP (abstract) | `answer`, `over` |
| `ProtocolPlan` | one request: transport, bridge with reasoning filter, queue, runner; implements `AnswerStream` | `kind`, `transport`, `capture`, `filter`, `queue`, the runner's, `answer`, `over` |
| `ReasoningReplay` | cleanup, certificate and guard of a replayed history | `protocol`, `history` |
| `Subsequences` | the subsequence at a set of positions, and the parts a sequence is cut into, in a form that can be reasoned about | none (operators) |
| `RepoVirtualKey` | the `pifrost repo` commands that change a key, its grants, its association or its secret | `keys`, `config`, `secrets`, `mcp`, `proc` |
| `SkillInstall` | one Skill in a repository | `upstream`, `target`, `elsewhere`, `row`, `installer`, `leftovers` |
| `OmpFiles` | palette and ownership record, `models.yml`, model roles with migration journal | `palette`, `record`, `models`, `roles`, `journal`, `runner` |
| `CheckpointRecordProofs` | lemmas about records, histories and plans, for the next two | |
| `CheckpointLifecycleProofs`, `SessionStopProofs`, `ProtocolPlanProofs` | theorems about the module each is named after | |
| `RouteReconcileProofs` | theorems about `ReconcileLock` and `RouteReconcile` | |
| `SessionProofs` | theorems about `IdleSession`, `RecoveryFork` and `AgentAttribution` | |
| `RepositoryProofs` | theorems about `RepoVirtualKey`, `SkillInstall` and `OmpFiles` | |
| `RouteProofs` | theorems about `RuleInventory`, `RouteSession` and `ReasoningReplay` | |

`MC*` modules and `.cfg` files instantiate them for TLC. The five passing runs
each explore several specifications that share no state: a variable `part`,
fixed by the initial state, says which of them a behaviour is about, and the
others keep their initial state (in `MCProtocolPlan` a behaviour that is about
the check begins with a request that fails in its attestation, so that the
request has ended there too). So a sum of the state spaces is explored, never a
product. Names differ where two of them meet: `IdleNext`, `ReconcileNext`,
`ForkNext`, and `OnAgentEnd` for the `agent_end` handler as `IdleSession` sees it.
The cfgs of violation runs name the component's module itself where it needs no
other definitions. Definitions whose comment begins with
"Mutation" are altered forms of the definition below them, used to test that
the properties are sensitive to the code; no specification refers to them.

### Checkpoints

A branch is a sequence of entries, and of OMP's entries only those a checkpoint
handler looks at appear. `away` is the one other place the user can go back to:
the leaf left behind by a rewind or the session left by a fork or a switch.
`session` stands for the identifier together with the workspace, since the code
always compares both hashes. `Updates(c, n)` is `update()`: the revision limit
and the record size, where one unit of `RecordSize` is a field that makes the
JSON longer. Commands are possible at any time, also during a turn, because OMP
runs `/pifrost` while an agent works.

`commitExecutionCheckpoint` appends the entry and then writes the file, which are
two steps: `mirroring` is the record whose file is not written yet. The handlers
run without an `await`, so nothing but a kill comes between; `MirrorWritten` and
`MirrorFails` are the two ways the second step ends. `Crash` loses the process and
what it remembers (`noticed`, the sessions it has warned of), in a turn, between
an entry and its file, or after a warning; session_start only reads. `journalled`,
`warned` and `cut` (the records a kill kept from their file) are history.
`MirrorAccountsForJournal` compares the directory with the journal through all
this: a file without an entry never exists, and an entry without a file is about
to get one, was cut off, or is of a session whose user was warned. The warning is
given once per session, which is what the property is about: a process-wide flag
would leave the gap of a second session unexplained.

### Recovery

`recoveryEpisodeState` validates the records in one pass and carries the current
episode, its proof and its ordinal along. Each of them equals what the last
accepted record contains, so `LedgerValid` states the pass as a condition on
each record and the one before it. Hashes are injective: an episode key is
determined by anchor and proof, a fingerprint by its entry.

The handler runs without interruption up to `await pi.setModel`. So
`SessionStop(h)` plans, journals the attempt, re-checks ownership and either
continues or, in the model stage, leaves the invocation "selecting";
`ModelSelected(h, changed)` is the rest. Anything OMP or the user can do comes
in between: another turn, an abort (which raises the signal of every event in
flight), a queued message, another extension's hook, an unknown journal entry, a
crash, a rewind, a fork, a return. The operator's `/pifrost checkpoint` commands,
`begin` among them (`CommandBegin`), are steps like any other. `agent_end` and
`session_stop` of one turn may come in either order. The context handed to a continuation is taken not to be
journaled as a message of the user, and at most one tool round is made between
two messages (the code has no bound; more rounds add states, not cases).

`AttemptsNeedProgress` counts an entry of an unknown recovery type as an attempt
(`AttemptEntries`), since it may be one of a later version: it must stop the
handler, never be skipped. `LedgerValid` is the condition that does this; the
property is the budget itself.

`inspectOutput` maps a response to what the handler tells apart of it: an
answer, nothing at all, or something that names itself (reasoning, leaked
planning), since `latestAssistantEntry` compares contents.

### Controlled recovery

A trace is the evidence of one attempt; the latest of a session is the one of
the request that reported last. The command reads it once and asks twice. The
dialogs are modal for the operator, not for OMP: a queued message or the result
of a job may run a whole turn, and jobs may start. `traces` has the latest attempt
of each session, and `latestPifrostRouteTrace` reads that of the session on
display. `forks` notes of every fork the latest attempt of its parent at the
moment OMP was asked to create it, and how many turns have begun since the
command was given; neither is what the command looked at. So `ForkIsGrounded` is
about the one assessment staying true, which attempts, switches, shutdowns and
jobs could undo, and `ForkNeedsFailure` is the same without the exception of a
turn. The notices about a failed trace
(once per trace) are left out.

### The end of a turn

`IdleSession` composes the handlers `agent_end` calls with the events that reach
the coordinator and the scheduler: prompts, `session_tree`, `session_branch`,
`session_switch`, `session_compact`, shutdown and start. A session is `running`,
then `settled` while its stop hooks run, then `idle`. Recovery is one choice here
("an open plan is continued"), since `SessionStop` has the whole decision. Of a
turn the coordinator sees whether OMP goes on by itself, what its tool results
say and how its last message ends; the texts are fields. `CompactBeforeSkip`
models the adaptive mode with route compaction enabled; sizes of messages and
images are the number of tokens OMP reports.

A run of the timer may throw, before the compaction (`TimerThrows`) or in the
`finally` after it, where `ctx.getContextUsage()` is called once more
(`CompactEnds` that is not `readable`). The first timer has a `catch` that resets
both flags, that of a retry has none (`compact-before-skip.ts:231`): then
`scheduled` or `inFlight` stays set (`runFails`), and no compaction is tried again
in this process. So the scheduler becoming free is no property of this code, and
none is stated; that it never admits two compactions holds all the same.

### Agent attribution

A Map keeps its keys in the order they were added, which decides what is
evicted; so maps of counts are sequences. OMP may name any agent for any session
at any time. `account` is the truth the rows are compared with: how many
requests were made, to whom each belonged when it could first be credited, and
how many went with a session that nobody had claimed.

### Route reconciliation

Every system call of the lock is an action, and a process can be killed between
any two of them; a process takes the lock once, so that it stands for its pid
and nonce. The operating system is taken not to reuse a pid while a lock names
it. The action run under the lock is `reconcileRouteSnapshot`: read, two
captures, write, and at each of the last three a failure.

Policies are numbered in the order the gateway adopts them, and a manifest, the
models and a cache entry are represented by the number of the policy they come
from (0 for a manifest without a fingerprint). This leaves out an edit that
restores an older policy exactly. A capture is one atomic read; the paged read
is `RuleInventory`. The cache is keyed by the policy because
`aliasConfigFingerprint` leaves out `synchronizedAt` only. The 60-second throttle
is a flag and `MinutePasses`. `stolen`, `told`, `joined` and `fetch.late` are
history variables that only properties read. `UpdateNotForgotten` is, like the
other two, a promise for the time in which no lock is stolen: with three processes
a stolen lock lets a slow one write an older policy over the newer one a session
has been told of, and the next check of that session finds nothing to do. That
takes one process more than the run has; it was met when the property was to be
proved.

At this commit `cli.mjs` dispatches neither `routes reconcile` nor
`routes attest`, which `native.ts` runs; the model's process is the function
those commands are meant for, `reconcileRouteSnapshot`, which the tests call.

### Rule discovery

A rule is its id and a version. Each page is one action, edits come between any
two, and the gateway may answer on the canonical path, on the legacy one only,
or with an empty canonical list, with totals or without. The attestation is a
child process that reads the whole inventory twice; the session compares
fingerprints. `AttestationIsAtomic` is a refinement: mapped to `LiveCheck`, the
moment of the check is the one at which the first capture became complete. It
relies on every edit giving a rule a version it never had; an administrator who
undoes an edit exactly between two pages can make a read look at a policy that
never was (the fingerprints could not tell).

### Routes, catalogue and requests

A source of facts about a model is a row, a function whose domain is what the
source knows; `Order` is the priority of the sources for each fact. A deployment
(`Gateways`) gives the tables and two sets of rules, and `truth`, what each model
really does, against which `AdvertisedRequestIsServed` compares the promise.
Deployments are such that a source that is verified is true: the property says
that Pifrost's combination of sources and members adds no error. A published
catalogue is represented by its inputs (key, manifest, answer), and `Catalogue`
computes it.

`RouteSession` has the manifest loaded last (`aliasSource`) apart from the one on
disk, the shared cache, the fetch that is under way, joined by a second caller,
`/pifrost refresh` and `doctor` beside it, and the request with its snapshot of
the routes. The
administrator edits the rules at any time. Publishing precedes writing the file,
and a failing write keeps the models from being registered. Two keys see
different models. `ConfigKey` is the key the session is configured with, with
which it sends its requests, and `DiscoveryKey` the one it asks for models with:
that of the environment if there is one (`native.ts:876`). `RoutesOfSessionKeys`
says that the routes are of one of the two, whatever other sessions leave in the
shared cache; that they are of the first is `RoutesOfOwnKey`, which
`native.ts:933-934` implies and `route_key` refutes. Default settings: `PIFROST_FORCE_REFRESH` is not set.

The history of a request (`ReasoningReplay`) is a sequence of classes of items.
Left out are the guard's `active` switch, the regular expressions that recognise
demoted text, and chat messages that are nothing but the marker.

### Protocol plan

An event passes through three hands. OMP's transport makes it; the bridge
(`bridgeBifrostUsageCostStream`) notes whether it is output, runs it through the
reasoning filter and queues what comes out; the runner (`runPifrostProtocolPlan`)
takes it from the queue, possibly much later, and buffers it, shows it or moves on
to the next attempt. So what the capture says when the runner asks the policy is
newer than the event the runner is looking at. That, and the filter holding back
what the capture has noted, are the interleavings of this module.

An event is represented by its kind. A thinking delta is a "marker" as long as
the block may still turn out to be the synthetic text, and a "thought" once it
may not; "text" stands for every kind of output that is not thinking.
A stripped prefix is always followed by `<think>`, which stays, so that stripping
never leaves a delta empty and is not told apart from passing it. The texts that
the failure patterns look for are represented by the pattern they match
(`Topics`), and an error event says whether its text names an unsupported
protocol, independently of what the capture holds.

The transport is external. It may repeat a request as long as it has emitted
nothing (OMP owns retries, `README.md:5`), it may stop with a terminal event or
throw at any time, also with a request unanswered, and a stream that fails may or
may not deliver what is queued. It does not end silently, and the bridge
passes on every ending, so lines 338 to 342 of the runner (an attempt that ends
without a terminal event) are not reachable through it and left out; so is a
`dispatch` that throws although its predecessor's evidence permits to go on. A
request the replay guard refuses is one that ends before it was answered.

Of every attempt that failed `past` notes what it emitted, how many requests it
made and how the last of them ended, and what the capture holds. The capture is
that of the last *answered* request (`bifrost-cost-bridge.ts:225`), so
`RepeatsAreSafe` relates it to the ending only for attempts of one request, and
`LastRequestRefused`, which the comments of the policy promise of all, is refuted
by `protocol_repeat`. `AnswerIsWhole` says that a whole answer shows all the text;
that it shows something at all it says of streams that begin no text block, since
one that begins and stays empty makes the filter drop what it held back.

The promise to OMP is `AnswerStream`, and `OneAnswer` says that `ProtocolPlan`
implements it. Which attempts a plan has is `RoutePlan`'s.

### Virtual Key, Skill, OMP's files

These are file and request protocols: each request, each write of a file and
each rename is an action, two processes run any commands, and a process may be
killed between any two actions (a failing request ends a command likewise:
no command cleans up). Configuration and secrets are read when a command starts
and written whole when it saves. Repositories share their basename, and one may
have a key of an older release named after it. A response to a creation or an
update may or may not carry the raw value of the key (`Raws`); without it the
command goes on with what `secrets.json` has, of whatever key that was
(`KeyValue`, `cli-lib.mjs:1320`). `lost` notes the repositories whose newest value
may be in no file, and `SecretWorks` excludes them: those whose command died
between a new value and its save, those whose key was created without the value
being told, and all of them once commands overlap, since each saves both files
whole. A repository is no longer `lost` once a command that had everything to
itself has saved a value for it, unless another key has its name, whose adoption
would leave that value in the file. (The last two conditions only matter from the
sixth command on; the run has three, the proof any number.) What the property
adds to this is that deletions, resets that stopped half way, adoptions and
rotations never put a value of another key in the file.

What an association records as clients is what the key has, but for one fallback
(`Recorded`, `cli-lib.mjs:1297`): an `init` without `--clients`, of a key without
any, keeps the stored ones. `ReportsTheGateway` names that case as its one
exception; there the configuration reports clients the key does not have.

A Skill directory is its marker, whether the marker has the hashes of the files,
the edition of its text, that of its attached files, and whether its content is
what was written. `Legacy` is what an older release installed: without hashes its
integrity is "unverified", which an install does not take for an edit
(`skills-bridge.mjs:309`, `:447`). The check for edits and the renames are apart
by a download. `EditsSurvive` is the README's promise about unforced syncs, and
both of these refute it. `kept` is history: a Skill was installed and no removal
has started. Of a file of OMP's everything the
user wrote is one version number. After a migration a profile saved while its
journal is there makes both `apply` and `rollback` refuse, which the model has.
An edit counts as `settled`, and so falls under `UserTextIsKept`, if no command is
at the file when it is made; what is written between a command's check and its
copy is lost in the code.
The user deleting a file, and session-only overrides saved by `save`, are not
modelled.

## What the runs check

| Run | Instance | Question | Result |
| --- | --- | --- | --- |
| `checkpoints` | ledger: 2 sessions, 1 step, 2 prompts; branches of 3 entries with 1 move, and of 6 without; record size 5. Route checks: 2 sessions, 2 processes, 1 kill, 2 policies. Symmetric | does every record descend from its predecessor on its own branch, do operators' plans survive prompts, is completion right after verification, has every gap among the mirror files a reason; serialised checks and, while no lock is stolen, a monotone manifest and no forgotten update | holds |
| `checkpoint_activity` | 1 session, 5 entries | does `complete` reject unacknowledged tool activity (release notes) | refuted |
| `session_stop` | recovery: 2 sessions, 2 invocations, stages native and model, 11 journal entries, plans on a branch and moves at most 2 together; fork: 2 branches, 2 traces, 3 turns, 2 disturbances; account: 3 sessions, 2 agents, 2 routes, room for 2, 1 and 1, 4 requests, 3 events; end of a turn: 2 sessions, 3 route members, 2 prompts, 2 disturbances, 4 tokens, 1 retry, 3 pairs of modes | budgets, ownership, readability of own records, unknown outcomes; is a fork grounded; is every request counted once; one follow-up per prompt and of its own history, one continuation, one compaction | holds |
| `session_stop_stale` | empty responses, 2 invocations, 12 entries | ownership when two responses look the same | refuted |
| `recovery_fork_stale` | 1 branch, 2 traces, 2 turns | is a fork for a failure that is still the last attempt (comments in the code) | refuted |
| `reconcile_lock_steal` | 3 processes, 1 kill | is a lock never stolen (comment in the code) | refuted |
| `protocol_plan` | both kinds of plan, 2 attempts of 2 requests and 5 events, statuses 200, 400, 503, 504; route checks of 1 session, 2 processes, 1 kill, 2 policies; fair | one attempt speaks, its answer is whole, nothing that has spoken is repeated, every request ends, every check ends | holds |
| `protocol_repeat` | physical plan, statuses 200 and 503 | is no attempt repeated whose last request was not refused (comments in the code) | refuted |
| `repo` | 2 repositories, 2 processes, 3 commands on keys, responses with and without values; 4 uses and 2 editions of a Skill; 3 runs and 2 edits of OMP's files; symmetric | own keys, working secrets, true reports, Skills kept, the user's text kept | holds |
| `skill_edits` | 2 processes, 3 uses | does an unforced sync leave an edited Skill alone (README) | refuted |
| `routes` | 4 deployments with 2 sets of rules, 2 keys, 7 needs, 3 edits; 3 rule ids, pages of 1, 4 edits; histories of 4 items or 2 messages | attempts follow live rules, promises are kept, ceilings, no other session's key, whole catalogue; complete reads, atomic attestation; faithful cleanup | holds |
| `route_key` | the same deployments, a flag with one key and the environment with another, 1 edit | are the routes of the configured key (comment in the code) | refuted |

The refuted ones are sentences of the repository's documents, comments or
messages; `PROJECT.json` quotes each and says which lines disagree:

* `ownsSettlement` identifies a response by its content. After a second empty
  response with an attempt of its own, the handler of the first one still takes
  itself for the owner. With responses that differ (`session_stop`) ownership
  holds.
* The fork command keeps the trace it started with. A turn that succeeds while a
  dialog is open makes the failure obsolete, and the session is forked all the
  same.
* The lock's owner is compared and the file removed in two steps. The other
  lock properties are stated for behaviours in which nothing has been stolen.
* `complete` looks at `pendingVerification`, which a tool result sets only at the
  end of the turn: a command given in the turn completes the plan
  (`execution-checkpoint.mjs:68`, against
  `docs/RELEASE_30C_DURABLE_CHECKPOINTS.md:32`). An observation that does not fit
  into a record is never written either, with the same effect.
* The capture of an attempt keeps the status of its last refused request: a
  repetition that gets no answer is judged by the older 503
  (`bifrost-cost-bridge.ts:225`, against `attempt-retry-policy.ts:36`).
* An unforced sync replaces an edited Skill of an older release, and discards an
  edit made during its download (`skills-bridge.mjs:309`, `:447`, `:494`, against
  `README.md:113`).
* With one key in a flag and another in the environment the routes are fetched
  with the environment's, while requests carry the flag's (`native.ts:876`,
  against `native.ts:933`).

### Divergences seen while modelling, not run

Each of these is in the models (or just outside them) as the code has it, and no
property is stated against it.

* A refresh that joins a fetch in flight may register models of the previous
  manifest and still count as done (`route-reconcile.mjs:219`, `native.ts:1064`).
* An older fetch may publish after a newer one (`native.ts:1067`); attestation
  makes that harmless. `/pifrost refresh` fetches for the manifest loaded last,
  not a newly loaded one. A catalogue whose file cannot be written has been
  published already (`native.ts:920`).
* `collapsedAgentIdentities` grows with every credit to a collapsed agent, not
  with every such agent (`agent-attribution.ts:116`, against the report's
  "collapsed agent identities").
* A retried compaction timer that throws leaves `scheduled` or `inFlight` set
  (`compact-before-skip.ts:231`, `:273`).
* An `init` without `--clients` reports clients its key may not have
  (`cli-lib.mjs:1297`).
* Dot-directories of a killed install block later ones
  (`skills-bridge.mjs:395`); files fetched by name may be of a newer edition than the
  bundle's (`:235`).
* A rotation saves the association before and after but a death in between
  leaves the old value stored, and `--rotate-existing` does not repair a stored
  value that no longer works (`cli-lib.mjs:1320`). Whole-file saves of two
  commands drop each other's rows (`cli-lib.mjs:1328`). The reset's message about
  legacy keys (`cli.mjs:1560`) is not true of keys named in the legacy way.
* `migrate` reads the roles before it takes the hash it later compares
  (`cli.mjs:1727`, `:1739`); `models.yml` and the palette have a moment between
  check and write too.
* Name resolution is not transitive: `[openrouter/x, a/x, b/x]` resolves where
  `[a/x, openrouter/x, b/x]` is ambiguous (`model-resolution.ts:206`).
* The regular expressions of `/pifrost recovery status` and `diagnose` escape the
  backslash twice, so both only show the usage text (`native.ts`, recovery
  command).
* `cli.mjs` dispatches neither `routes reconcile` nor `routes attest`, which
  `native.ts` runs.
* The replay cleanup is given the logical alias, not "the resolved physical
  model" (`reasoning-replay.ts:94`), so the deny-list of families does not see
  the member.
* `pi.exec` gives up after twelve seconds while its child may have written the
  manifest (`native.ts:1186`).

### Bounds

Bounds appear in guards only (`MaxEntries`, `MaxId`, `MaxMoves`, `MaxKills`,
`MaxPolicy`, `MaxRevision`, `MaxPrompts`, `MaxTokens`, `MaxTraces`, `MaxTurns`,
`MaxDisturbances`, `MaxHostMoves`, `MaxRequests`, `MaxEvents`, `MaxCommands`,
`MaxUses`, `MaxEdition`, `MaxRuns`, `MaxEdits`, `MaxRules`, `MaxRuleEdits`,
`MaxHistory`, `MaxMessages`, and in the `MC` modules `ShortBranch` and
`MaxChanges`) and every run sets them in its `.cfg`. They are enough for the
cases that matter:

* 11 journal entries hold a plan, a user message and three stalled rounds with an
  attempt each, one more than two stages allow. Two invocations are the least at
  which one can resume into the other's turn. One move is the least at which a
  branch can differ from the one a record was written on. `MaxChanges` lets a
  branch have two plans, or one and a move, not both.
* 2 policies with 2 processes give a writer older than the manifest.
* The ledger is explored in two parts. Branches of 3 entries (`ShortBranch`) in two
  sessions with a move or a kill hold a plan, a record that extends it and the one
  made after the move, and two sessions whose writes fail. Branches of 6 without
  moves hold a plan with its step attempted, verified, touched again, verified
  again and completed. Record size and revision are limited to 5, so that
  observed, verified and completed records fit and a sixth revision does not.
* Two attempts and two requests are the least at which something can be repeated,
  and 5 events hold a start, a block of markers with its end and the text that
  decides about it.
* 2 prompts with 2 disturbances hold a stall, its follow-up, a move or compaction
  and the next stall; 4 tokens against windows of 2 to 5 make every comparison of
  the plan go both ways.
* 3 commands with 2 processes hold an overlap and a later command that finds what
  a killed one has left; both a creation and an update may or may not tell the
  value. A Skill needs 4 uses for install, publication and two overlapping updates;
  OMP's files need 3 runs for enabling, an upgrade and a
  removal, and for migration, save and rollback.
* 4 edits with pages of one rule move a rule across both page limits of both
  reads. The 4 deployments are chosen for a resold model, a wrong or missing
  source, an aggregator, members with different promises, and pinned and weighted
  targets; they are the least with which every disjunct of the planning is
  reached.
* 4 items of a history hold a run between two boundaries with both kinds of
  reasoning; every contract is tried on each.
* Room for 2 sessions with 3 ids, and for 1 agent and 1 route of 2, makes
  eviction, collapse and their meeting happen with 4 requests.

`CHECK_DEADLOCK FALSE` is set throughout because the systems may stop: a journal
at its bound, a lock left by a killed process, a user who sends no prompt.

### Fairness

Liveness is checked by `protocol_plan`, whose specification has both of the
following. `RouteReconcile!ReconcileFairness` assumes that a process which is not killed goes on
(each of its requests has a timeout), that a session's `pi.exec` returns once its
child is gone, that a fetch ends or fails (each request is given
`AbortSignal.timeout`), and strong fairness of the refresh a check asks of OMP,
since OMP serves its queue of calls although other calls may come.
`ProtocolPlan!Fairness` assumes that the transport goes on, whatever it answers
(OMP's transports give up on a request that gets no answer), and that the runner,
a loop on the JavaScript thread, does. Prompts, edits of the policy, kills and
OMP's own refreshes need not happen. The fair actions of the part a behaviour is
not about are disabled, so that its fairness demands nothing there. The other
modules state safety only: that tool activity is acknowledged, or that the
compaction scheduler becomes free again, the code does not guarantee (above).

### Refinements

`RouteReconcile` implements `ReconcileLock` (`ImplementsLock`), `RuleInventory`
implements `LiveCheck` (`AttestationAtomic`) and `ProtocolPlan` implements
`AnswerStream` (`PlanGivesOneAnswer`). All three are proved; TLC checks the last
two as well, as `AttestationIsAtomic` and `OneAnswer`. `RouteSession` takes an
attestation for one atomic look, which is what `LiveCheck` promises.

## What is proved

`RouteReconcileProofs` holds for every finite or infinite set of processes and
sessions, every number of kills and every number of policies. It assumes `LockAssumption` (no process is called `Nobody`, `MaxKills`
is a natural number) and `ReconcileAssumption` (`MaxPolicy` is positive).

* `LockInvariance`, `LockTypes`, `Serialization`. `SerializedChecks` says
  nothing of the file, so it is not inductive. `LockInv` adds that, unless
  something was stolen, a process between creating and removing the lock owns
  the file that is there, and that a process judged dead is gone. Breaking a
  lock then removes a file nobody holds, or sets `stolen`.
* `ImplementsLock`. Each step of `RouteReconcile` is a step of the lock or
  leaves its variables alone, so `ReconcileSpec` implies `LockSpec`;
  `ChecksSerialize` is `Serialization` carried over.
* `Types`. The one disjunct that is not routine is the reply: the child of a
  check that waits for one is a process (`ChildNamed`).
* `ManifestAdvances`. A process's captures have to be newer than every manifest
  written before it entered, and stay so until it writes. `ManifestInv` says that
  manifest and captures are never ahead of the gateway and that what the process
  inside has captured is at least the manifest; the lock invariant gives that no
  other process writes meanwhile.
* `UpdatesAreKept`. `UpdateInv` follows an update from the capture to the models:
  a process replies what it has written, the manifest is at least what a session
  was told, a check that waits for a refresh has one coming, and a fetch that will
  be registered for a check was started for a manifest at least as new as the
  update, or the session still needs a refresh.

`CheckpointLifecycleProofs` holds for any sets of sessions, steps, evidence and
prompts, any limits and any length of history. It assumes
`CheckpointAssumption` (the absent evidence and prompt are none of the others,
the limits are natural numbers, a first revision is allowed) and
`BoundsAssumption`.

* `CheckpointInvariant`. `RecordsExtendTheBranch` speaks of the branch the user
  is on, and is not inductive for two reasons: a return makes another place the
  branch, and a record is derived from the last *valid* record of the session,
  which is the last one only if all of them are valid. `CheckpointInv` asks both
  of both places (`Sound`). The argument is that what a branch says of a position
  depends on the entries up to it (`PrefixKeepsRecords`), so that a rewind keeps
  soundness, and that what is appended is a new plan or a revision of the
  restored record, which is the predecessor (`RestoredIsLast`).
* `CheckpointTypeCorrect`, `JournalledRecordsAreValid` and
  `BranchesExtendThemselves` are parts of it: the first says what kind of thing the
  state is, the second that every record on the branch is within the limits that
  restoring asks for.
* `CompletionTrustworthy`. A completed record extends its predecessor, which has
  no verification pending; a tracked plan with none pending can itself only be what
  a verification has made of the record before (`NothingPendingIsVerified`), since
  an attempt, a failure and an observation all set the flag. So the property
  follows from the branch extending itself, whatever path led to the branch.
* `MirrorIsAccountedFor` is by `MirrorInv`, which adds that a session is noticed only
  if its user was warned; without it a second failure, which is silent, would leave
  a gap nobody was told of.
* `OperatorPlanIsKept` is an action property, proved from the invariant step by
  step; it needs that the record just appended is the one restored next
  (`AppendedIsRestored`).

`SessionStopProofs` holds for any sessions, handlers, prompts, signatures, stages,
outputs and bounds, under `CheckpointAssumption`, `RecoveryAssumption` (what the
settings may be) and `SessionStopAssumption` (the bounds are natural numbers, what
is enumerated is of its kind).

* `StopInvariant`. What a branch says of an attempt depends on the entries up to
  it, so `Attempts` states it of that prefix: the attempt was `Written` there,
  chained to the attempt before it, for the last response, with the outcome of
  every tool call since the user's last message certain. No later entry can take
  this back, a rewind shortens the branch to a prefix (`Agree`), and a return makes
  the other place the branch, so both are asked for it. `IdsIncrease` makes the
  last response of a branch the one written last. `Ends` ties the settlement that
  is being handled to the branch: its response is still the last one and no plan
  began after it.
* `AttemptsAreBounded`. An attempt is written on a ledger without unknown entries, so
  those before it are attempts of this version. Without progress between two attempts the later one's
  ordinal exceeds the earlier one's by the number of attempts between them, and
  ordinals go from 1 to `Limit`. That is an induction over the attempts of the
  branch; the proof takes the least one at which the count is off, and its
  predecessor, which `Written` chains it to.
* `RecordsReadBack` shows that the attempt appended passes the validation of the
  next reader; `UncertaintyBlocks` that the entries made while a model was
  selected bring no uncertain outcome into the turn without taking the settlement
  from the handler.
* `OnlyOwnContinuations`. `OwnInv` adds that a response that was continued, or for
  which a model is being selected, has an attempt on the branch that settles it, so
  that it is not attempted again; that a handler which selects a model is the only
  one for its response; and that no place holds another attempt for that response
  than the handler's. The theorem assumes that responses have some content
  (`"empty" \notin RunOutputs`): two empty responses have the same content, by which
  the code tells settlements apart, and without the assumption the statement is
  false, which is what `session_stop_stale` shows.

`SessionProofs` holds for any sessions, settings, route members, thresholds and
bounds, under `CompactAssumption`, `IdleAssumption` (the bounds are natural
numbers, there is a session) and `RecoveryForkAssumption`. None of the four safety
properties of `IdleSession` is inductive; `IdleInv` adds

* for `FollowUpOncePerPrompt`: a session whose follow-up was sent is in `attempted`,
  unless a shutdown has removed it, after which its next turn can only begin with a
  prompt (`SentIsAttempted`);
* for `FollowUpOnItsHistory`: only the session on display has an observation
  pending, and of its present history (`PendingIsCurrent`), since whatever leaves a
  session drops it;
* for `ContinuedOnce`: as long as a turn is settled and nobody has continued it,
  no follow-up is queued, and the other way round (`FollowUpHoldsTheTurn`);
* for `CompactedOnce`: a timer exists only while a compaction is scheduled that the
  turn has not had (`TimerIsScheduled`).

`ForksAreGrounded` is by `ForkInv`: as long as no turn has begun since the command
was given, the session on display is the one it was given in, no turn runs, and the
latest attempt there is the failure it was given for (`StillFailed`), because an
attempt needs a turn and a session is not left while a dialog is open.

`RequestsCreditedOnce` is about the agent account, for any sets of agents, routes
and sessions and any limits (`AttributionAssumption`, which also says that there are
finitely many kinds of agent; the code has two). `AttributionInv` adds to
`BoundedAccountIsExact` what the records of the sessions look like: one for each
session at most, so that taking a session's record away takes away what waited
there and nothing else (`WaitsElsewhere`, `Touched`); and no two rows of a map for one
route, so that an increment changes one count (`Incremented`). Sums are counted:
`Sum(f)` is the number of units of all counts, so that changing one count changes
the sum by the difference follows from the cardinality of unions
(`SumChanges`), without induction over the map. The one loop, which credits what
waited when an agent is told, is dealt with by the least position at which the
account would be wrong (`LeastNumber`, `LoopRuns`).

`ProtocolPlanProofs` holds for plans of any length and any statuses, requests and
events (`PlanAssumption`). `PlanInv` says that the capture's note of output is the
truth about what the transport has made, before filter and queue; so an attempt
without noted output has made none, whatever is still on its way
(`RepeatedSafely`); and that of an attempt of one request the capture is that of its
ending. For `PlanGivesOneAnswer` it says that nothing is shown before an
attempt commits and that everything shown is of the attempt that runs
(`ShownByThisAttempt`); the step refinement then goes through the actions of the
runner.

`AnswersAreWhole` follows the events on their way. While an attempt is read, what
ends its stream is the last event in the queue (`EndsLast`); and as long as the
stream has not failed, the texts made are those shown and those queued
(`TextsFlow`), output is shown, queued or with the filter unless another block was
opened (`OutputFlows`), the start is ahead of everything else (`StartFlows`), and a
stream that has ended has left nothing in the filter. So the read of an ending
finds a queue of that event alone, and what it shows completes the answer. Texts
are counted, since one is like another here: joining sequences adds their counts
(`JoinedTexts`), which needs no induction.

`RepositoryProofs` holds, for Skills and OMP's files, for any number of processes,
uses, editions and edits.

* `UserTextKept`. What a run has read and what it will write are at least as new as
  what settled before it, by the kind of step it is at, and a journal whose
  `after` could still be the configuration has a backup that is recent enough to go
  back to (`JournalIsCurrent`): an edit that settles is newer than `after`.
* `InstalledSkillKept`. `Handles` says what an installer may have
  in its hands at each step, `KeptSomewhere` where the good copy is: the target, a
  leftover, or a backup whose promotion is still due.

For the Virtual Keys it holds for any repositories, any finite set of processes and
any number of commands, under `RepoAssumption` (no repository's key name is the
basename or one of the two markers of the model).

* `KeyInvariant`, `KeyTypes`, `KeysNeverShared`. `KeyInv` says of every id a file, a
  process's memory or a plan holds that it is of a key of that repository (or of
  one that is gone; the gateway does not use ids again), that a name has one key,
  and, for the ids of the model to suffice, that a command is issued one value at
  most (`IdsSuffice`). What is left of a command is one of a short list of plans
  (`PlanFits`).
* `AloneInvariant`, `SecretAlwaysWorks`, `GatewayIsReported`. `AloneInv` is about a
  command that has everything to itself: its memory differs from the files in its
  own repository's row only, a repository has one candidate key at most, the value
  held with it is that key's, and the command knows its grants and servers. Nothing
  is assumed of what the gateway reveals: a creation without a value makes the
  repository `lost` until a value is saved.

`RouteProofs` holds for any rules, page limit and number of edits
(`InventoryAssumption`), and about sessions for any deployments
(`DeploymentAssumption`: a rule has a target, as the gateway demands of one, and a
target that is the only one is drawn; `ByLength` names no reference twice). That the
limits some source knows are numbers and that the gateway tells something of each
model it lists (`LimitsAssumption`) only the ceilings need.

* `QuietReadsAreComplete`. While nothing is edited a read has read a prefix of the
  rules (`QuietReadProceeds`), and it ends only at their end.
* `AttestationAtomic`. The second read can return the profile's policy only if each
  rule of it was there after the first capture; as a version is never used again,
  it was there at the first capture too. And there was no other, since a read that
  ends has read at least as many rules as the gateway has then
  (`SecondReadMisses`). So the first capture's moment is the atomic look.
* `RoutesAreOwn` is for any keys, in the configuration and in the environment: the
  cache entry a session accepts, the fetch it waits for and what it publishes carry
  one of its two keys. That a third key's entry is refused is the fingerprint check
  of `cache.ts`.
* `CleanupIsFaithful` says of histories of any length what the run checks up to its
  bounds. A cleaned history is a subsequence (`Subsequences`): its n-th item is the
  one of rank n among those that stay (`Ranked`, `Placed`). Selecting what is of
  substance from the cleaned history selects it from the history (`SelectedTwice`),
  since nothing of substance is removed. To be of one run is an equivalence
  (`RunsAreClasses`), and every run keeps an item (`RunStays`), so the boundaries
  between two items that stay are those between their places (`RunsCorrespond`), and
  the guard demands the same of both histories (`GuardAgrees`). A contract that lets
  synthetic reasoning go is one that requires none (`ContractsAgree`).
* `AttemptsAreLive` is for any number of models, rules, references and edits. Only a
  dynamic alias is sent member by member, and it has one related rule without pins,
  so the gateway has exactly one order for it, the rule's (`TheOnlyOrder`). The
  profile of its route is that order without repetitions: the catalogue has no two
  members of one id (`CatalogueApart`), and a joined sequence that is as long as the
  chain has the chain's ids (`ProfileIsChain`, `ShortJoin`). The attempts are what is
  left of the profile, cut into consecutive parts (`PartsJoin`, `AttemptsSelect`), so
  their references are a selection of the order (`PlanFollows`). The invariant is
  that what is published, cached and being fetched names rules that exist
  (`Sources`), and that an attested request's rules are those its route was made for
  (`RequestFollows`). Where a lemma is about sequences of any length, the argument
  counts positions up (`CountedUp`) or takes the least position at which it would
  fail (`LeastNumber`); the operators are defined by what their n-th item is
  (`Selected`, `Parts`), not by recursion.
* `CapsAreWithinCeilings` is for whatever the sources say of the models. A budget is
  the least of some limits, so it is below each ceiling among them if all of them are
  numbers; the least of a set of anything else would be nothing in particular. So the
  lemmas follow the limits from each source (`ProviderNumeric`, `SheetNumeric`,
  `VendorNumeric`, `BundledNumeric`) through the selection (`SelectNumeric`,
  `MemberNumeric`) into the catalogue, the promise and the profile (`FreshLimited`).
  And a request under the alias must reckon with every model the gateway may choose:
  whatever any rule makes it try is in the alias's chain, over chained rules and pins
  (`OrderMembers`, `ChainMembers`); the members of an alias on offer are that chain
  (`AliasLimited`); and a request with a profile is left to the gateway only if no
  member was excluded, so that its one attempt has all of them (`PlanLimited`). The
  invariant (`Capped`) keeps the limits with the rules the route was made for, as the
  registered promise may be of another catalogue than the route (`CapsBelow`).

### What is only model-checked

* `ContinuationOwned` when empty responses occur among others: the violation shows
  that it fails; that it holds for the responses that are not empty is proved only
  for runs without empty ones.
* Of `RouteSession`: `AdvertisedRequestIsServed` compares with the truth about the
  models, which a deployment only relates to its sources through the many tables of
  the catalogue; and `WholeCatalogue` is a property of the answers a deployment is
  given.
* Liveness (`CheckEnds`, `RequestEnds`) is out of the provers' reach. No module uses a RECURSIVE operator.

## What is not modelled

Components with status `not_modelled` in `PROJECT.json`: credentials (reads only),
MCP shapes (one request, one response), diagnostics (read-only reports), judges
and research providers (registration and probing). Of the components modelled
partly: sizing tokens and images (`omp-context-policy.ts`, an input here), the
order of protocols of a direct alias and learned protocol capabilities,
transport models and rich content (payloads reshaped field by field), the legacy
fetch wrapper of `dynamic-routing.ts` that the provider does not install, the
merge of a profile's other keys, the notices about traces, and all of pricing
but the capture the attempt policy reads. Within the modelled ones: wording,
the digests themselves, sub-agents (every handler returns at once for them) and
status texts.

## Plan

1. Done: the models; proofs about checkpoints, automatic recovery, lock and
   reconciliation, the end of a turn, the recovery fork, the agent account, the
   protocol plan, Virtual Key, Skill and OMP's files, the reading of the rules, the
   cleanup of a replayed history, the attempts of a request and their limits.
2. `RouteSession`: that the rows of all sources combined never promise more than
   each of a deployment's models can do, for `AdvertisedRequestIsServed`.
