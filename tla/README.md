# Formal models of epaflix

TLA+ models of the programs in this repository that keep state and meet failures
or each other: the AirVPN agent and scorer (`images/airvpn-bluetit`,
`images/vpn-picker`), the subtitle translator
(`2-k3s/08.servarr/bazarr-autotranslate`), the t3code workspaces with their vault
and Keeper clients, start-up, builds and rollout (`2-k3s/13.t3code*`,
`29.t3-build`), the MCP hub (`2-k3s/23.mcp-hub`), and the jobs and checkers
beside them. TLC checks each model on a small instance; TLAPS proves the results
listed under *What is proved* for every value of the constants. `PROJECT.json`
maps every definition to the lines it models and lists the runs, the mutants, the
hazards and the findings.

    tlc -workers 2 -config MCSwitchBudget.cfg SwitchBudget      # a run
    tlapm SwitchBudgetProofs.tla                                # a proof

## The system

The repository describes a home cluster. Most of it is YAML, CI and tests. The
parts with logic of their own:

| component | state | operations | talks to |
|---|---|---|---|
| vpn-agent (`agent.py`) | switch history (memory and file), pending verdicts, ranking snapshot and cache, loss counter, current server | boot check, watch cycle, switch, publish verdict, read ranking, scrape | Bluetit by `goldcrest`, ranking file on hard NFS, verdict directory or the scorer's intake, Prometheus |
| vpn-picker (`vpn_picker.py`) | base journal, public ranking, verdict files, served payload | scoring cycle, refresh of ejections, verdict intake, restart | AirVPN API, agents, NFS |
| bazarr-autotranslate (`main.py`) | dict of items, `state.json` | scan, search, translate, poll, pause | Bazarr's HTTP API and job queue |
| t3code vault client (`vault-client.py`) | bw's cache, lock file, scope file, ssh-agent | add, update, attach, run, serve, refresh of keys | Vaultwarden through `bw serve` |
| t3code Keeper client (`keeper-client.py`) | session, saved configuration, login lock | serve, login, request, give up, stop | Keeper |
| t3code workspace | home volume, staged inputs, kube contexts, Azure session, skills in the inputs Secret | start-up, kubectl credential, skill rotation, install of the safety net | kubelet, Azure CLI, Kubernetes |
| t3code manager tools | hub and workspace Secrets, input directories, agents' configuration files | provision, import of a cluster, configure clients | Kubernetes, the owner |
| idle rollout (`idle-rollout.sh`) | none between runs | look, ask both containers, delete the pod | StatefulSet, T3's database, terminals |
| image builds (`t3-build.py`) | Job, Secret and ConfigMap of a build | create, follow, poll, clean up | Kubernetes, kaniko |
| mcp-hub and its servers | Notion grant and its Secret, client digests, Gmail token and label cache | request, refresh, flush, reload, item and mail tools | Notion, Vaultwarden, Gmail |
| hub bootstrap tools | SOPS files, key files, `clients.json` | consent, append, revoke, configure | providers, SOPS, the owner |
| cliproxy transcripts | cursor `seen`, attempt counts | pass, emit, skip | the proxy's log directory |
| repository checks | none | check a commit, check a blueprint | git, authentik |
| TrueNAS unlink tool, media import | none; `attempted` set; torrent tags | unlink redundant names; import finished torrents | file system, qBittorrent, Sonarr |

How they interact. The scorer measures servers and publishes a ranking; every
agent reads it through a daemon thread that may hang in NFS, keeps a copy, and
dials from it when its own probes say that the current server loses packets. It
then publishes a *verdict*, as a file or through the scorer's HTTP intake; the
scorer leaves the server out of the public ranking until the verdict expires. The
switch budget damps the agent so that this loop does not flap. In the workspaces,
the manager tools stage inputs in Secrets whose digests the start-up checks;
the hub accepts the tokens whose digests those same tools registered; kubectl and
ssh in a workspace take their credentials from the Azure session and from the
vault sidecar's agent; the rollout job restarts what has a new revision.

What is hard here, and what each part owes:

* **Switch budget.** A scrape thread reads what the agent thread changes, without
  a lock; the file is written after the fact; processes die. Owed: no recorded
  slot is forgotten, cap and cooldown hold at the front door, one escape a day
  unless a crash takes a marker that was in no file (finding 4).
* **Verdict publisher.** Three kinds of thread on one condition, storage that may
  never return. Owed: latest evidence per destination, no lost wakeup, nothing
  after shutdown, shutdown returns.
* **Ranking reader and cache.** A reader that can hang, a lock, two copies and a
  lease; a scrape may start the reader before the agent has read its own file.
  Owed: nothing past its lease, no old file clearing a new adoption that is saved
  or that the agent knows of, the control thread never blocked.
* **Degradation watch.** A probe window lasts minutes while the tunnel may be
  replaced. Owed: a verdict rests on consecutive bad windows of one session of
  the server it names; real loss does trip.
* **Switch walk.** Bluetit refuses, lands late, and says connected when it is not;
  deadlines. Owed: success is verified traffic on another server, quick before no
  tunnel, a bound on the time, an end.
* **Scorer, its cycle and its intake.** Two files published one after the other,
  restarts without the API, posts that overtake each other, rows with odd
  numbers that the writer publishes and the readers refuse. Owed: a journal that
  can be read has the full base, stamps are honest, the ejection cap, file and
  HTTP agree while the file can be read, no ban that outlives both the verdict
  and the next cycle; an accepted verdict stays until a newer one; what is
  published passed every filter.
* **bazarr-autotranslate.** Two coroutines share a dict across awaits, answers are
  lost, either side restarts. Owed: one translation at a time, searches first,
  the retry grace, the failure pause.
* **Vault and Keeper clients.** Caches that lag behind the server, requests whose
  answer is lost, children that outlive a sidecar, callers that give up. Owed: a
  confirmed write is kept, one good copy of an attachment, keys that are
  current, truthful reports, one use per one-time code.
* **Workspaces.** Starts, builds, rotations and imports that are cut anywhere and
  repeated, and tools that overlap. Owed: a home of one environment, t3 only on a
  whole configuration, no half artifact, nothing unreviewed blessed, no
  credentials left behind, no user thrown out, and a home that nothing stands in
  the way of starts.
* **Hub and bootstrap tools.** A rotating grant with one Secret behind it, several
  operators, an owner who revokes. Owed: the grant is never lost, a token opens
  one hub, nobody's append is overwritten.
* **Jobs and checkers.** Data that changes between the look and the act. Owed: no
  last name unlinked, no episode twice, no transcript twice, no false green of
  what was read.

## Modules

| module | models | its state and steps |
|---|---|---|
| `SwitchBudget` | `class SwitchBudget`, and the callers that ask and charge it | `history` and `disk` are sets of entries with an id for list order; asking, switching, recording and saving are separate steps, so crash and scrape fall between them; `slots`, `durable` and `forgotten` are auxiliary (what was recorded, what reached the file, which escapes a crash undid) |
| `VerdictMailbox` | the promise: one slot per destination, accepted evidence replaces older | abstract |
| `VerdictPublisher` | `class VerdictPublisher` | the dict as a sequence of keys, the condition's waiters as a set, one step per critical section |
| `RankingCache` | `RankingReader` and the agent's cache methods | a ranking is its `generated_at`; the lock is a variable; a scrape starts the reader at any time after `main()` serves; `unsaved` is auxiliary |
| `DegradationWatch` | `watch_once` | a step per reading (status, tunnel generation, probe, again); auxiliary variables hold what really happened in the window |
| `SwitchWalk` | `boot_check`, `switch`, `connect`, `verify_tunnel`, `_quick`, `_fall_back`, `_finish` | the walk's locals and a clock in ticks; Bluetit is the environment |
| `Scorer` | `run_cycle`, `refresh_ejections`, `load_existing`, `apply_ejections`, `persist_verdict` | journal, ranking, served payload, verdicts with their times; one step per file; a restart refuses a file with an overcommitted row, and a journal that is lost; `orphaned` is auxiliary |
| `ScoreCycle` | what one cycle makes of rows and probes: shortlist, probe, score, validation, publication, reading back | a row is load, bandwidth and whether it parses; a step per stage |
| `VerdictIntake` | `do_POST`, `persist_verdict` and the store the scorer reads | HTTP threads, the temporary file, `os.replace`, posts given up by the agent |
| `Autotranslate` | `main.py` of bazarr-autotranslate | a step runs from await to await; entries carry the age of `ts`, so that time has no end |
| `VaultWrites` | add, update, attach, run of `vault-client.py` | vault and lagging cache, the write lock, requests that land late |
| `VaultSidecar` | `serve` and the ssh-agent of `vault-client.py` | client process, login, session, scope file, agent keys by version |
| `KeeperSidecar` | `keeper-client.py` | the server's queue, login lock, session file, callers that give up |
| `WorkspaceBoot` | `isolated-config.py`, `private-config.py`, the entrypoint | home, marker, contexts, services snapshot, project; every file operation may be the last; `blocked` has the steps that something in the home makes refuse for good |
| `WorkAuth` | `work-aks-auth.py` | one Azure session, the lock, calls of two contexts |
| `SkillRotation` | `rotate-skills.py`, `install_github` | the inputs Secret with its resourceVersion, backups, overlapping runs |
| `ClusterImport` | `add-cluster.py` | directories of staged inputs, file by file |
| `SafetyInstall` | `cc-safety-net-install.py` | the artifact in image and home, temporary trees |
| `IdleRollout` | `idle-rollout.sh`, `t3-idle.py` | a step per kubectl call; users, owner and controllers between them |
| `ImageBuild` | `t3-build.py`, `kaniko-job.yaml` | what is in the namespace; calls that fail after they did their work |
| `Provisioning` | `provision.py`, `inputs.py` | Secrets of hub, proxy and one workspace (`site`), one call per step, overlapping runs in any order, a pod that may start; `crossed` is auxiliary |
| `AgentConfig` | `hub_clients.py`, `hub_services.py`, `local-clients.py configure` | configuration files of the agents, an agent that saves meanwhile |
| `HubAccess` | `mcp_hub.py`, `local-clients.py`, `add-client.py` | digests, key files, `clients.json`, several operators |
| `NotionGrant` | `notion_grant.py`, `upstream.py`, `bootstrap-notion.py` | the grant in memory and in its Secret, token pairs, two requests |
| `GoogleGrant` | `bootstrap-gmail.py` | the plaintext temporary file, SOPS, overlapping runs |
| `VaultTools` | `vaultwarden_mcp.py` | items, attachments, app edits, failed and half-done requests |
| `GmailCalls` | token and label cache of `gmail_mcp.py` | two locks, lifetimes in ticks; a token is issued and its answer read in two steps |
| `Transcripts` | `emit-transcripts.py`, `payload_lib.py` | a log file as its pieces; passes, restarts, pruning |
| `SeadexImport` | `seadexarr-import.py` | torrents, tags, what Sonarr has, runs that die |
| `TempUnlink` | `temp-redundant-name-unlink.py` | names, inodes, torrents that hold them; batches |
| `SecretGuard` | `check_sops_encrypted.py` | the loop over files and documents; the walk over a tree of keys and leaves, level by level up to `MaxDepth` |
| `BlueprintCheck` | `check_authentik_blueprint.py` | the loop over the payloads of a Secret, skipped ones too; pure but for the server's answers |
| `Composition` | how components that share no state are put together | `active` |
| `Services`, `Tools` | such compositions: services and jobs; the owner's tools and what promises only safety | the union of their components' |
| `*Proofs` | the theorems about the module or composition they extend | |
| `MC*` | values for TLC; `MCServices` also has the progress of the services | |

`Tools` and `Services` each put together components that share no state: the
variable `active` picks one component in the initial state and only that one
moves, so a run explores each of them whole without their product. A property of
these modules names the component it is about, sometimes two that make one
promise. TLC and TLAPS use the same compositions: what the runs check of
`ToolsSpec` and `ServicesSpec` is what the theorems are about.
The components whose state is shared are composed inside one module: the Notion
grant with its upstream and its bootstrap tool, the hub with the tools that edit
its clients, the provisioning tools with the pod and the hub they serve, the
rotation with the installer that writes the same Secret, the build tool with
Kubernetes.

A definition whose comment begins *Mutant of* is a plausible bug of the
definition that follows. It is not part of the specification: each property of a
passing run is checked to fail when the mutant takes that definition's place.

## Runs

Where several promises of one component are facets of one, a property is the
conjunction of named parts.

| run | bounds | shows |
|---|---|---|
| `switch_budget` | day 3, cooldowns 2 and 1, cap 2, escape window 2, 4 records, time to 4 | more records than the cap, over more than a day: BudgetCounted (SlotsCounted, FrontDoorWithinCap), EscapesMarked, CooldownHeld |
| `daily_cap` | as above, time to 5 | *violation*: boot upgrades pass the cap |
| `verdict_publisher` | 3 destinations, cap 2, 4 generations of evidence (modulo, so the run has no end) | the cap is hit; PublisherQuiet (NoLostWakeup, NoLogAfterShutdown), LatestKept, NoWriteAfterShutdown, ImplementsMailbox, PublisherProgress (ShutdownReturns, NoStarvation) |
| `ranking_cache` | TTL 1, time to 4, one crash | CacheSound (LeaseHonoured, AdoptionKept, SnapshotBacked), ControlProceeds |
| `degradation_watch` | 2 servers, 2 bad windows, 2 sessions | a server left and met again; VerdictBacked, CounterHonest, LossTrips |
| `switch_walk` | 3 servers, band 2, 2 attempts, one switch, 2 faults | WalkSound (SuccessVerified, SuccessLeaves, QuickBeforeNoTunnel, RecoveryBounded), SwitchEnds |
| `scorer` | pools of three, two and one, one server overcommitted, one producer, verdict TTL 1, time to 2, two crashes that may take the journal | RankingHonest (HonestStamp, EjectionBounded, ConsumersAgree), BaseRecoverable, RankingLives (NeverOlder, NoPermanentBan) |
| `autotranslate` | 2 items of one kind, 2 rounds, spacing 1, grace 2, timeout and pause 1, one fault | two candidates in one scan while the worker works on either; QueueSound (OneAtATime), SendsInOrder (RetryGraceHeld, SearchedBeforeSend, PauseHeld) |
| `retry_grace` | the deployed proportions in ticks of 4 h, no fault | *violation*: a search in flight overwrites a recorded attempt |
| `tools` | twelve components, below | VaultToolsKeep (`VaultTools`), BlueprintTells (`BlueprintCheck`), ProvisioningKeeps (`Provisioning`, `SkillRotation`, `ClusterImport`), AgentConfigKept, HubAccessSound, GoogleGrantSound, IntakeKeeps (`VerdictIntake`), CycleSound (`ScoreCycle`), NotionGrantKept, GuardTells (`SecretGuard`) |
| `services` | twelve components and the Notion grant, below | VaultWritesKept, ReportsHonest (`KeeperSidecar`, `ImageBuild`), TranscriptsWhole, ImportSound (`SeadexImport`), UnlinkSafe (`TempUnlink`), WorkspaceWhole (`WorkspaceBoot`, `SafetyInstall`, `IdleRollout`), WorkAuthReviewed, GmailCallsSound; VaultSidecarSettles and ServicesProgress are their liveness |
| `notion_rejected` | 2 requests, 4 token pairs, 2 consents, lifetime 2, one crash | *violation*: a refused token is presented again |

Bounds of `tools`: two concurrent calls on two items with three files and one app
edit (`VaultTools`); every blueprint set listed in `Tools`; two
provisioning runs of the work or of the homelab site with four mints and two
interruptions; two agents'
edits and three configure runs; two operators, two machines, two mints and one
revocation; three Google runs of which one is killed; two skill runs, three
stagings and one change by others; two imports, two outputs, five kinds of
source and one kill; one agent with two posts, TTL 1 and one crash; three servers
of which one has every odd row, and one restart; two Notion requests, three
pairs, two consents, one tick, one crash; documents that nest up to four deep, every
tree and every pair of staged files that `MCFileSets` in `Tools` lists. The run is
reduced by symmetry (`MCSymmetry`): the calls, runs, machines, operators, requests,
skills and outputs come in pairs of model values that no module tells apart (`CHOOSE`
is never applied to a set of them), and all its properties are safety. A state is looked at once with the
one in which the two of every pair have changed places.

Bounds of `services`: two clients, items and fields; a sidecar with two keys,
three versions and four faults; two Keeper callers, three logins, two stops; one
transcript file and three kinds of request (streamed, retried, never whole), two
attempts, one restart; three torrents, of which two share a series and episodes,
one death; two temporary paths and one library path over two inodes, batches of
one, one change by others; five staged inputs of two environments, two stagings, and
two of kills, failed calls and things users leave in a home; two kubectl callers of two contexts, two logins and two upsets; two
Gmail calls, token life 2, margin 1, label life 1 (so a refresh of one tick and a
call of one more exceed the margin); a build with three failing
calls; two starts that install over one home, one edit; a rollout with idle time
2 and deadline 1, two revisions, two uses and two upsets; two Notion requests,
two pairs, one consent, one crash.

Why the bounds are enough: every counter that a guard compares with a limit goes
past that limit within them (cap plus an escape plus a boot slot, one destination
more than the dict holds, a session more than a window needs, a verdict that
outlives its TTL, an attempt that outlives its timeout, a second try of a
cleanup that fails twice), two actors of each kind that may overlap do, and every
action of every next-state relation is taken. `RecoveryBounded` is tight: with a
bound smaller by one tick TLC finds a longer switch. `SwitchWalk` was also
checked with two switches, `IdleRollout` with idle time 3 and deadline 2.

Deadlock is checked except in `tools`, `services` and `notion_rejected`, whose
commands and jobs end: a state in which every run is over has no successor.

Ticks stand for the smallest delay that a property tells apart: in
`Autotranslate` an hour or so, in `SwitchWalk` the pause between two polls.
Within a tick, steps come in any order.

### Fairness

* `VerdictPublisher`: weak fairness of the worker outside storage and of a caller
  inside `shutdown()`: threads run. Nothing is assumed of storage, except in the
  premise of NoStarvation, which says so.
* `RankingCache`: the control thread runs and the reader finishes what it does on
  the local disk; taking the lock is strongly fair, because the reader sleeps
  `poll_seconds` between two adoptions. Nothing is assumed of the NFS read.
* `DegradationWatch`, `SwitchWalk`: the agent thread runs, for each of its calls
  has a timeout and each of its sleeps ends.
* `Scorer`: the main loop runs; a publish that is tried again and again succeeds
  in the end (strong fairness of `RankingPublished` and `Refresh`).
* `services`: every command, sidecar loop and job that has begun goes on, because
  its calls have timeouts or return an error; a caller that waits for a lock
  others release again and again gets it (strong fairness of `VaultWrites.Acquire`
  and of the Notion lock: `flock` and `threading.Lock` wake a waiter at every
  release, and the holders come and go); the vault sidecar's next round is not
  passed over for ever while failures stop. Of a workspace, EnrolledStarts
  claims a start only while the home is `Free`: nothing in it makes a step refuse
  and its project is the reviewed one; and what a start calls (git, the model
  endpoint, the vault sidecar's agent) fails only so often. Of the outside only this is assumed:
  kubectl's calls return, and Kubernetes' Job, garbage, StatefulSet and CronJob
  controllers run (`ImageBuild`, `IdleRollout`). Nothing is assumed of users,
  owners, apps, or of faults ever happening; that they end is the bound on them.

## What is proved

Each proof takes the same way: TLC finds the property true on the small instance;
an inductive invariant that implies it;
`Init => Inv`; `Inv /\ [Next]_vars => Inv'` with a lemma per action or group of
actions; and that `Inv` implies the property, or that a step from it satisfies the
action property. The assumptions are the named `...Assumption`s of the modules,
which TLC evaluates in the runs: bounds are naturals (positive where the code
needs it), `None` is no value of the data, and what the code's own constants say
(below, where it is more than that).

The programs that run alone:

* `SwitchBudgetProofs`: **BudgetSafe** (EscapesMarked and the rest),
  **BudgetCounting** (BudgetCounted) and **CooldownSafe** (CooldownHeld). The
  properties are about recorded slots, while the answer is given before the
  switch: what makes them inductive is `Pending`, that an answer still holds when
  it is charged, `Storage`, how list, file and recorded slots lie inside one
  another through crashes and failed saves, and `Lost`, that an escape which is no
  longer among the recorded slots was undone by a crash before the next one.
* `SwitchWalkProofs`: **WalkIsSound** (WalkSound, with its time bound). Each step
  knows what the steps before it left: `Standing`, which name was dialled and what
  was seen of it since; `JobInv`, that no candidate is the server being left;
  `InTime`, how late each step can be, a poll's deadline being the limit set by
  its dial. `HardEnd` is then arithmetic.
* `DegradationWatchProofs`: **WatchSafe** (VerdictBacked) and **CounterSafe**
  (CounterHonest). The strengthening says of each position inside `watch_once`
  what the readings taken so far tell about the session.
* `RankingCacheProofs`: **CacheIsSound** (CacheSound), for every lease and however
  long either thread waits. `Polled`: a poll is about to adopt nothing older than
  what polls before it adopted; `Judged`: what a control thread found out under
  `cache_lock` still holds when it discards; `Unread`: before load_cache() the
  memory has what a reader started by a scrape adopted last, and the file too
  unless its write failed; `Kept` is the property without its condition on the
  lock.
* `ScorerProofs`: **RankingIsHonest** (RankingHonest), **BaseIsRecoverable**
  (BaseRecoverable) and **RankingIsNeverOlder** (NeverOlder, a part of
  RankingLives). Two arguments meet. The cap is counting: the blamed servers are
  strictly ordered, so fewer than `Limit` come before one that is ejected, and the
  k-th row kept is the k-th position that stays. (`SelectSeq` is recursive and
  out of the provers' reach, so the model's filter says by rank which row stands
  where.) And `SInv` says what journal, public file and memory say of one another
  at each step of a round: the journal has one measurement per stamp and has the
  public one, unless it was lost or a restart left that one orphaned (`JournalInv`), a draft is newer than what is public until it replaces
  it (`Drafted`, `Ages`).
* `AutotranslateProofs`: **QueueIsSound** (QueueSound) and **SendsAreInOrder**
  (SendsInOrder). `QueueInv`: between the idle look and the queueing of a job none
  of this program runs. `OrderInv`: what an entry of the dict, of the file or in
  the scanner's hand says of the past (`Backed`, `Remembered`, `Holding`), and who
  may change it meanwhile (`Attempt`): an entry under way is still ready unless it
  was dropped, which is where the violation of the run `retry_grace` enters.

The composed services (`ServiceProofs`). Every section takes one instance of
`Services` to an inductive invariant:

* `WorkAuth` (`AuthInv`): past its login the session is nobody's or the reviewed one
  while the run holds the lock. **TokensStayReviewed**
  [WorkAuthReviewed].
* `IdleRollout` (`RInv`): an age that was read still is what it was or started
  again after the reading; the deadline of a run is shorter than the idle time
  (assumed, as the manifest has it). **RolloutSparesUsers**.
* `GmailCalls` (`GmailInv`): only the holder of the label lock replaces the cache,
  and by a newer one; the pod takes a token for younger than it is by its latency, and
  the token a call holds is judged by both. The margin is shorter than the life of
  a token (assumed, as the code has it).
  **GmailCallsStaySound**.
* `TempUnlink` (`UnlinkInv`): a name that a torrent has held since the list was seen
  by the walk where it is, so no held inode is worked on. **UnlinkStaysSafe**.
* `VaultWrites` (`VaultInv`): who is between its read and its last request holds
  the lock; its own upload is told apart from what was there before, of which a
  good one is left until the upload was read back. **ConfirmedWritesStay**.
* `SeadexImport` (`ImportInv`): while a run goes on no tag changes but that of its
  own torrent, and Sonarr works only while a run waits. **ImportStaysSound**.
* `KeeperSidecar` (`KeeperInv`: `CodeInv`, `CallTrue`) and `ImageBuild`
  (`BuildInv`): the code on disk is the one Keeper expects unless a login was cut
  off; a Job is complete only after the push. **ReportsStayHonest**.
* `WorkspaceBoot` (`WorkspaceInv`: `Owned`, `Behind`, `Publishing`) and
  `SafetyInstall` (`InstallInv`): a step of `Program` that a start has passed was done in this start, whatever may
  refuse the ones before a later start; what is
  renamed into place was verified, and nobody else touches a temporary package
  after that. With `RInv`: **WorkspaceStaysWhole**.
* `Transcripts` (`EmitInv`): a candidate that rested is whole by now unless its
  writer only paused; a file that was printed is not forgotten while it is there,
  and its request was one of a whole file. That gives EmittedOnce and which pieces
  a record is about. What it says of them is `WholeRecord`: the reading of a whole
  file, whose reply was cut into starts and deltas and written twice, has the
  request's last message, each block of the reply with all its pieces in order,
  the tools called, and the attempts with their first five errors. (A block that
  was streamed without a body, such as a call without arguments, is dropped with
  its name, as `reassemble_sse()` does; `Expected` says so.) The pieces of a
  file and the state of the reader are functions of how much was written or read,
  and a fact about all of them is proved of the set of numbers it holds for: it
  has 0 and each successor, so it has no least number missing.
  **RecordsStayWhole** [TranscriptsWhole].
* `VaultSidecar` (`ServeInv`): where `serve()` stands says which of the login, the
  load and the publication are behind it, and an agent that is published was
  loaded whole. **SidecarStaysWhole**: ScopeBacked and KeysWhole, the safety that
  the liveness property VaultSidecarSettles includes.

The mailbox and the composed tools (`ToolProofs`):

* `VerdictPublisher`: **PublisherSafe** (LatestKept, the dict's bound),
  **PublisherStaysQuiet** (PublisherQuiet), **NoLateWrite** (NoWriteAfterShutdown)
  and **PublisherImplementsMailbox**. The key is `Sleepers`: whoever is in the
  wait set has a reason to sleep and somebody who will wake it. The refinement
  maps the dict and the publication in storage to the mailbox's slots.
* `VaultTools` (`ToolInv`): what a call read is no older than the vault at its sync,
  and what it is about to delete has a newer upload. **ItemsStayKept** [VaultToolsKeep].
* `VerdictIntake` (`IntakeInv`): the posts of one agent follow each other, so all
  but the last are answered or given up, and an accepted verdict is covered by the
  stored one. **VerdictsStayKept** [IntakeKeeps].
* `ScoreCycle` (`CycleInv`): whatever is public is the document of some answer of
  the API and some outcome of the probes, so the property is about `Document`
  alone. Both sorts are strict orders of a finite set (`RoomierOrders`,
  `BetterOrders`), and such a set is counted off (`PlacesCounted`): each survivor
  has its place, and nobody left off a list of `Size` places has more room than
  one on it. **CycleStaysSound** [CycleSound].
* `SecretGuard` (`GuardInv`: the verdict so far is that of the documents checked so
  far). What `validate_plaintext()` returns for a document is a function per level
  of nesting, built on the level below. Such a function exists and unfolds at every
  depth because there is no least depth at which it would not (`LeastOf`,
  `ValueUnfolds`, `ValidUnfolds`, `LeavesUnfold`, `WaysUnfold`). `ValidAlong` is the
  recursion against the reference definition, which does not pass flags down but
  looks back along each way into the document: they agree, for what a sensitive
  key started goes on until a step resets it (`GatedOnward`), and an exempt path
  spares what is below it (`SparedOnward`). `LeavesAlong` and `ValidIsSealed` do the
  same for SOPS payloads. **GuardStaysSound** [GuardTells]: `MaxDepth` is any natural.
* `NotionGrant` (`GrantInv`: `ValidOwn`, `BootUnseen`, `UnsavedLater`, `Relies`):
  requests exclude each other, so under the lock only a bootstrap changes the
  Secret, by a newer consent; what a refresh starts from is the last rotation or
  the one before it. **GrantStaysKept**.
* `HubAccess` (`AccessInv`): a Secret with the resourceVersion that was read is the
  one that was read, and a staged token is never replaced. **AccessStaysSound**.
* `GoogleGrant` (`GoogleInv`): who is past the consent holds a grant that passed
  the checks of its path. **StoredGrantSound**.
* `BlueprintCheck` (`BlueprintInv`): what each payload that decodes went through
  before the run left it, and that the others went through nothing. **GreenStaysTrue** [BlueprintTells].
* `Provisioning` (`ProvisionInv`): unless homelab runs cross, tokens are only
  added (`OnePair`), so what a run has seen stays true of the Secrets, and what is
  staged without a GitHub token was registered even if they do (`StagedRegistered`). `SkillRotation` (`SkillInv`): a patch goes through only
  over the Secret that was read, which is in the backup. `ClusterImport`
  (`ImporterInv`): a file is whole, empty or absent, and a reported directory has
  no run that still writes. Together **ProvisioningStays** [ProvisioningKeeps].
* `AgentConfig` (`ConfigInv`): an undisturbed run's progress follows from the
  document it loaded (`Halfway`, `Tracked`), and registering twice changes no more
  than once (`DocumentAgain`); so what it leaves has nothing left to do
  (`LeftClean`). **ConfigsStayKept** [AgentConfigKept].

`ServicesSteps` and `ToolsSteps` are the argument of the composition: a step of
`ServicesNext` or `ToolsNext` is a step of the component or leaves its variables
alone, so each invariant holds of the whole. `ServicesAssumption` and
`ToolsAssumption` are the conjunctions of the components' own. Beyond the above
they say that Secrets of the blueprint check are sequences, that `"base"` names no
import and the given directory is no output, that what is the user's own in a
configuration is neither maintained nor retired, that a request behind a transcript
has messages, attempts and blocks (`Request`), and of the scorer's cycle that the
API lists a server once with no load below zero and that the load gate is a
percentage and the loss gate below a total loss (both are settings; by default 75
and 1). A negative load or a load gate above 100 would publish a ranking that its
readers refuse, just as an overcommitted server does.

Only model-checked:

* every liveness property (ControlProceeds, LossTrips, SwitchEnds,
  PublisherProgress, NoPermanentBan, VaultSidecarSettles, ServicesProgress):
  fairness and ENABLED are outside this prover. The safety that
  VaultSidecarSettles includes is proved (above).

## Findings

Runs that expect a violation:

1. `daily_cap`: `boot_check()` does not ask the budget that its switch is charged
   to, so restarts pass the cap that the alert text says counts every reason.
2. `retry_grace`: `process()` writes back an entry held across
   `request_search()`. If the item was dropped and listed again during its own
   attempt, this overwrites the record of that attempt, and the item is sent
   again before its 24 h.
3. `notion_rejected`: two requests refused with the same token both call
   `invalidate()`; the second forgets what the first remembered, and the retry
   presents the refused token again.

Met while modelling, without a run. The first four are the exceptions that a
property names; TLC finds each of them when the exception is dropped:

4. The marker of an escape may be lost: `record()` (`agent.py:825`) appends it and
   then calls `_save()`, which only logs a failure. A crash after that, or between
   the two, forgets it, and the next process grants another escape, although the
   docstring (`agent.py:682-684`) has the marker bound escapes "including across
   a restart". EscapesMarked says that there is no other way to a second one.
5. The scorer publishes a measured row whose bandwidth in use exceeds what there is
   (`build_base_state`, `build_document`), and its readers refuse the whole file for
   it (`vpn_picker.py:649-664`, `734-736`). A restart then has no ranking at all
   or, when the row is ejected from the public file, a ranking without its base,
   from which nothing restores the ejected server until a cycle succeeds:
   `Orphaned` in BaseRecoverable, ConsumersAgree and NoPermanentBan. It takes one
   such row and one restart; a lost journal does the same.
6. `secret_payloads()` skips a value that is not base64 of UTF-8
   (`check_authentik_blueprint.py:560`); its docstring says that this surfaces as
   the refusal of a Secret without payload. It does only when nothing beside it
   decodes. GreenIsTrue speaks of the payloads `Found`.
7. `Cluster.put()` (`inputs.py:96`) replaces a Secret that was built without a
   resourceVersion, whatever is there by now. Two homelab provisionings that both
   found no grants put one pair of tokens over the other, while the README of the
   homelab says that a run retains grants that were created (lines 269-271). The
   hub then refuses the second registration, and no first provisioning stages
   what is not registered; but a GitHub token added after such a crossing may.
   TokensKept, OneToken and PodAccepted name it (`crossed`).
8. The backoff between two dials (`agent.py:1438`) is slept without regard to the
   walk deadline, so quick may start with less than the verify window its reserve
   was meant to keep (`agent_selftest.py:1261`). What does hold is RecoveryBounded.
9. In the translator, `save_state()` (`main.py:351`) stands before the failure
   pause; when it raises, the next item is sent after one poll. PauseHeld says
   what holds: the pause is kept unless that save failed or the process restarted.
10. `t3-build.py` follows the log for up to its own TIMEOUT. If the stream hangs
    until the Job's TTL has removed a Job that completed, the poll finds no Job
    and the tool exits 1 although the image was pushed. ExitTells therefore asks
    the other direction only.
11. `inputs.py github` reads the inputs, and later replaces the Secret with them
    and with fresh digests of everything, whatever the Secret holds by then. An
    overlapping skill rotation would be undone and an unreviewed change would get
    a digest; the tool tells the owner to review the result before a start, which
    is what `SkillRotation` takes it to mean.
12. `idle-rollout.sh` deletes the pod by name. A pod that replaced the one it
    looked at, perhaps on the wanted revision already, is restarted once more;
    UsersSpared says that nobody loses a session the readings could have seen.
13. A first start killed inside `write_private()` of its first marker leaves a
    temporary file in the home, and every later first start refuses a home that
    is not clean. A home with a marker recovers from a start that was killed or
    failed, but for a kill inside `git config --global`, whose `~/.gitconfig.lock`
    refuses every later start at `isolated-entrypoint.sh:20`, and one inside `git
    clone` before the origin is set, at line 28. What users or agents leave can
    refuse for good too: a cloud credential cache (`isolated-config.py:145`), a file
    in the place of a link with a backup beside it (`private-config.py:74`),
    anything a step cannot read or replace. A clone killed later passes line 28
    with an incomplete checkout.
14. `switch()` may raise out of `watch_once()` before `_finish()`: the attempt is
    charged to nothing (`agent.py:1799`).

## Not modelled

* Text: metrics, log lines, parsing of ping, `goldcrest`, YAML and JSON, message
  and record formatting. What a parser decides (fresh, connected, lost, valid) is
  a choice of the environment or a comparison.
* In `Scorer`, the probing itself; a clock that steps back anywhere.
* In `Autotranslate`, more than one target language (one is deployed), and file
  sizes that change between scans.
* Read-only commands (list, get, status) of the clients: they select and print.
* In `IdleRollout`, exit codes: a run that fails and one that has nothing to do
  both leave the next run to try again. In `ImageBuild`, the content of the
  context and the registry's tags.
* `pi-setup.py`, `manager-setup.py`, `vault-run.py`, `vault-ssh-agent.py`,
  `ssh-policy.py`, `searxng_mcp.py`, `heartbeat.py`: each runs once, in one
  process, and writes one file or executes one program. `reconcile-config.psql` is
  one transaction. The other TrueNAS scripts read and report.
* Tests and self-tests: they are read as claims about the programs.
* Kubernetes and CI YAML and the patches of other programs: declarations, used as
  bounds and environment steps where a model needs them.

## Plan

What the models leave open, in order of importance:

1. `VpnLoop`: agents and scorer composed (watch, verdict, ejection, ranking,
   switch, budget), with an abstract specification of the loop: an agent leaves a
   bad server, does not flap, and a server comes back. Bounds: two agents, three
   servers.
2. Proofs: the start of a walk (`SwitchWalk`) as a step of what `SwitchBudget`
   allows.
3. An abstract specification of a staged Secret (what is installed is what was
   reviewed) that `SkillRotation`, `Provisioning` and `WorkspaceBoot` implement.
