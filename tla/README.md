# gryonixnexusd in TLA+

`gryonixnexusd` (`src/Agent/gryonixnexusd`) is the control-plane agent of a
self-hosted server: a Rust daemon, one tokio process run by systemd as root,
that answers Connect calls of the owner's devices over a unix socket reached
through SSH.  It installs services, updates, backs up, restores and removes
them, does the same for container groups somebody else set up, pulls language
models, replaces itself, keeps the deployment's secrets in a vault that the
devices share, and reports on all of it.  These modules model the parts of it
where order, concurrency or failure decide whether it is right.  Paths below
are relative to `src/Agent/gryonixnexusd/src/`.

Contents: 1 inventory · 2 modules, and how they correspond to the code ·
3 runs, bounds, fairness · 4 theorems · 5 where code and documentation part ·
6 limits · 7 plan.

## 1. Inventory

| Component | State it keeps | Operations | What makes it correct |
|---|---|---|---|
| Job journal, claims, switches (`jobs.rs`) | one JSONL file per run; the maps `CLAIMED`, `RUNNING`, `SWITCHES` of the process | claim, open, append, finish, cancelled, drop, prune, sweep; WatchJob, ListJobs, CancelJob | one run per subject; a record that tells what happened; nothing held by a run that is over; followers that miss nothing and end |
| Wrapper-driven runs (`restore.rs`; `update.rs`, `backup.rs`, `uninstall.rs`, `control.rs` alike) | a spawned task, a child process, a bounded channel | one streaming call each | one true end-of-stream envelope; the run ends |
| Response bodies, dispatch, session gate (`api.rs`) | the receiving half of a stream | one arm per call | every stream ends, and says how |
| Model pulls (`models.rs`) | nothing but the engine's volume | ListModels, PullModel, DeleteModel | no disk filled by the pull itself; a stop that is obeyed, and harms nobody else; a success is whole |
| Vault (`state.rs`, `vault.rs`, `install/llm_keys.rs`) | table `vault`, a revision, one rendered file per service | GetVault, PutVaultEntries, DeleteVaultEntry | last write wins whatever the order; a delete stays; a revision is a promise |
| Container groups (`container_update.rs`, `container_backup*.rs`, `container_removal.rs`, `container_ops.rs`, `container_schedule.rs`) | docker's tags and containers; a row per scheduled group | update, backup, removal, power, the schedule's pass | no pull without the archive it owes; a report that is so; archives taken at rest; a group that is given back |
| Host wrappers (scripts of `install/host/`) | services' data and images, two lock files, results kept for the agent | back up, update, restore, by the agent or a timer | no data lost; what was stopped starts again; an outcome that is so |
| Installs (`install/execute.rs`, `journal.rs`, `caddy.rs`, `llm_keys.rs`) | a journal and a map of its own; Caddyfile, wrappers, shared secrets | InstallService, WatchInstall, ProvisionHost | both ends of a pair hold one secret; wrappers and sites know what is installed; ProvisionHost answers |
| Agent self-update (`agent_update.rs`) | marker file, staging directory, the binary | check, apply, reconcile at start | what systemd starts is whole and tested; the next start reports the truth |
| Devices, pairing, sessions (`state.rs`) | table `devices`, the one pairing code, the session policy | Pair, ListDevices, sign-out, policy | a code is used once; an expired device gets nothing but Pair |
| Everything else | none that outlives a request, or the host's own | metrics, DNS text, firewall rules, VPN clients, mailboxes, mods, security posture | text generation and single commands: unit tests reach it |

How they interact: a streaming call claims its subject, opens a journal, and
spawns a task that outlives the call; the task reads a child or the engine,
tees every event into the journal and sends it into the channel the response
body drains.  Watchers read the journal's file and the `RUNNING` map, never the
task.  The one SQLite store is shared by all handlers behind one mutex; the
vault's handlers call the rendering of service files, under that mutex or not.
Beside the calls there are three actors of their own: the agent's scheduler,
which takes no claim; the timers of the host, which run the same wrappers under
file locks; and docker, which restarts what crashes.  An install renders the
wrappers; an uninstall runs one and renders none.  A self-update restarts the
process, and with it everything the agent had under way.  `PROJECT.json` lists
each component with its status, and the hazards at the lines where they bite.

## 2. Modules

| Module | Models | Extends |
|---|---|---|
| `Jobs` | claim, journal, `RUNNING`, switches, prune, death of the process | |
| `JobRecord` | what a record promises, without files and maps: the abstract specification of `Jobs` | |
| `JobReaders` | WatchJob, ListJobs, CancelJob against live runs | `Jobs` |
| `RunStream` | one restore from its first event to the end of its stream | |
| `ModelPull` | concurrent pulls, the engine, the volume | |
| `Vault` | the vault, its devices, its rendered file | |
| `ContainerGroup` | one compose project, and what docker commands do to it | |
| `ContainerBackup` | the archive of a group, for the verb and for the schedule | `ContainerGroup` |
| `ContainerUpdate` | the update of a group, with watch and rollback | `ContainerBackup` |
| `Containers` | the claim, all verbs on a group, and the schedule: the composition | `ContainerUpdate` |
| `HostService` | one installed service: container, image, data directory | |
| `HostBackup`, `HostUpdate`, `HostRestore` | the three wrappers, step by step, with their locks | each other, in this order |
| `HostWrappers` | who runs them: the agent under its claim, timers, deadline, death: the composition | `HostRestore` |
| `AgentUpdate` | ApplyAgentUpdate, the binary, the marker, the next start | |
| `Installs` | InstallService and ProvisionHost over what they share on the host | |
| `HostProvision` | ProvisionHost's channel that nobody reads | |
| `Jobs_proofs` | theorems about `Jobs`, its refinement of `JobRecord`, and `JobReaders` | `JobReaders` |
| `RunStream_proofs`, `ModelPull_proofs`, `Vault_proofs`, `Containers_proofs`, `HostWrappers_proofs`, `AgentUpdate_proofs`, `Installs_proofs` | theorems about the module they are named after | that module |
| `MC*` | instances: subjects, names, plans, symmetry | |

**Jobs.**  A run is one execution of a long verb, its identity the job id
(minted once).  `pc[r]` is the place of its handler or task; `claimed`,
`running`, `switches` are the three maps; `file[r]` holds what a parser of the
journal can tell apart (is there a head line, which sequence numbers, which
ending, is the last line torn); `handle[r]` is `Inner` with its `closed` and
`completed` flags; `older` is the order of modification times that `prune`
sorts by.  `Journal::open` is two actions, since a reader may come between the
head line and `RUNNING`, and so is `close` (end line, then the map).  `prune`
is part of `OpenRegister`, as in the code.  Every write may fail or leave half
a line when `DiskFails`.  `Restart` is the process dying at any point: tables
empty, files as they are.  `truth[r]` is a history variable, how the work
really went.  Verbs without a claim, without a switch, or that narrate after
they failed (`PullSink::fail`) are the sets `Claiming`, `Stoppable`,
`Trailing`.  `JobRecord` has a record per run (`none`, `open` or an ending), the
runs that write and their results; `Record` in `Jobs` is the refinement mapping.

**JobReaders.**  A follower reads the file and looks in `RUNNING` in two steps,
as `follow` does; a listing or a cancel reads the file, then the map, then the
switch, then both again.  A restart takes the readers with it.

**RunStream.**  `pc`, `pending` (the frame whose `send().await` the task is
in), the child and the number of lines in its pipes, how many reading ends the
task has let go (`next_line` fails on a line that is not UTF-8 and its reader is
dropped), the outcome, the journal, the channel, the client.  The deadline wraps
the read loop only, as in the code, so `Timeout` may cut a send short there and
nowhere else.  A task may unwind between two awaits.  The journal may not open, and
its last line may not be written (`unended`), with the trailer sent all the same.
The body yields the
success envelope when the senders are gone and no trailer went through.

**ModelPull.**  Each pull: `Look` (the free space read before the claim),
`Claim`, `Open` (which may fail: the pull goes on without a record), `Connect`,
`CheckSpace` on the first report that names a total, `End`, `Stop`, and the
cleanup in two steps, `Count` and `Reclaim`, because the code awaits docker
between them.  The engine is external: it writes unit by unit and renames a
model when it is whole; a partial file carries no owner.  Assumed of it: nothing
is written before the report the pull checks, all of a pull's bytes are of the
one model, and dropping the connection ends its work at once.  `Running` is what
ListJobs would list: a record that later runs pruned (`Prune`) has lost its head
line and is `unlisted`, while its pull goes on and its switch works.  `OthersWrite`
and `OthersFree` are the rest of the host on the volume; `before` is a history
variable, what that and other models came to when a pull looked.  `Stall` is a client that stays
and does not read, so that a send waits (`stuck`), `Drain` the same client reading
again or hanging up.  `DeleteModel` takes no claim, so it may come at any moment of a
pull; ListModels is `Look`.

**Vault.**  A row is its version `[at, by, deleted]`; what it says is left out.
`Wins` is the comparison of `put_vault_entries`, `Merged` its loop;
`PutVaultEntries` holds the store through the rendering, `DeleteVaultEntry`
does not, hence `ReconcileDelete`.  `PutRefused` is a request that ends in its
middle.  A reply is a whole snapshot; it may be lost and overtaken.  The
devices are the app, which is not in this repository; they edit offline, push
all they hold, and merge by the rule the comment at `state.rs:707` says they
share.  `Fast` are devices whose clock is ahead.  A server's tombstone is taken
to be stamped later than every edit made before it by a device whose clock is
right.

**The container family.**  `ContainerGroup` keeps, per image reference, the
version the tag stands for, the version the container was made from, and the
container's state; a docker command may fail with its work done on any part of
the group.  `ContainerBackup` is written once and indexed by its worker (`verb`
or `pass`), since the code is one function (`execute`) called from two places.
`ContainerUpdate` is the ladder of `container_update.rs`: refusals, ids, backup
first, pull, compare, recreate, three clean looks or a rollback, and the event
it reports.  Time passes as looks, `MaxLooks` of them.  `Containers` adds the
claim the verbs share, the removal with its early write to the store, the row of
the schedule, and the pass, which holds no claim.  History variables say what a
property excepts: `mishap` (a command of this update failed), `crashed`,
`together` (a verb and the pass at work on one group).

**The host family.**  A directory is known by what it holds, and a container
has mounted what was at the data path when it started (`served`), so a rename
under a running container is visible.  The wrappers are external shell at run
time, but their text is generated here, and it is that text that is translated:
the generic archive body with its dump, stop, tar and start; the update with its
watch and rollback; the restore with its way back.  Backups hold one lock,
updates another (and, while they save first, the backup's), restores none.
`Deadline` is the agent's 600 s, which kills the wrapper and not a child of it;
`AgentDies` is systemd stopping the unit with every process in it.  A killed
wrapper is killed between two of its commands.  `excused` and `disturbed` are
history: what is down may stay so; another was at work.

**AgentUpdate.**  `live` is what systemd starts, `beside` its copy-to-be,
`staging` the directory of the build, `marker` the file.  The copy is opened and
written in two steps (`Open`, `Pour`), and a rename carries along whoever still
writes (`pours`), as an inode does.  Every step may fail; the process may die
anywhere, by its own request or not; `Start` is systemd plus
`reconcile_on_startup`.  Nothing claims the operation, so applies may overlap;
`crowd` says which did.

**Installs.**  A run is admitted by looking for another of its service
(`LookForRun`) and entered in the journal's map in a later step (`OpenJournal`,
which may fail and then stops nobody).  Of the services' steps it keeps what
they share: the secret of the pair open-webui and litellm (read, drawn,
truncated, written, copied into the .env, taken by the container when it
starts), the Caddyfile (read and judged, truncated, written) and the wrappers
(survey of docker, rendering one by one).  `WriteSites` writes from the beginning
of whatever the file holds by then: over another run's longer copy it leaves that
copy's end (`rest`), a write that fails leaves a part of its own, and one to a
file an uninstall has replaced meanwhile (`adrift`) is lost.  `StartRender` leaves
each wrapper old, cut short or new, so a death before `Render` leaves them so.
The uninstall wrapper, which no claim keeps from an install, is stepped through
by `Removal`: containers down, the Caddyfile filtered into a copy, the copy moved
over the file, whatever was written to it since, and with a purge the .env and
the gateway's secret.  History variables name what the code cannot promise:
`raced` (two runs have made a secret at once), `spoilt` and `doubtful` (file or
wrappers were cut short, or written beside another run or an uninstall), `mixed`
(a run wrote where another had written since its own truncation), `current` (an
end whose secret was not purged since it read it).  Two uninstalls at once cut
each other's copy; the model keeps their steps whole, sets `spoilt` and `mixed`,
and claims nothing of the file after that.

**HostProvision.**  The handler, its bounded channel and the package manager.

## 3. Runs

`tlc -workers 2 -config X.cfg M` runs any of them.  Deadlock is not checked:
every one of these systems may legitimately stop (all runs over, nobody asks).

| Run | Distinct states | Shows |
|---|---|---|
| `jobs_faults` | 17 871 | `ClaimExclusion`, `OnlyLiveRunsHold`: one run per subject, nothing held by a run that is over, and no subject locked by nobody; `RecordTruthful`, `KeepsItsRecord`: the record says what happened, through failing writes, pruning and restarts; `EveryRunEnds`; with `TypeOK` |
| `job_watch` | 78 609 | `NothingMissed`, `TrailerTruthful`: a follower gets every line once and in order, and an end that is so; `AnswersAgree`: ListJobs and CancelJob say the same of one run; `WatchersEnd` |
| `stream_attentive` | 34 520 | `OneTrailerLast`, `TrailerTruthful`, `SeenBeforeTrailer`: one envelope, the last, that tells the truth, with every line told before it, but for the one whose send the deadline cut; `RunEnds` for a client that reads |
| `pull_pair` | 250 091 | `SucceededMeansWhole`: a record of success is of a model; `OnlyOthersFillTheDisk`: what the comparison with an old look guarantees when other pulls and the rest of the host write too; `StopIsObeyed` |
| `vault_merge` | 443 053 | `LastWriteWins`, `DeletedStaysDeleted`, `RevisionMeansNews` through lost, late and cut calls; with `TypeOK` |
| `containers` | 340 263 | `NothingPulledUnsaved`, `RollbackHasACause`, `TornOnlyBesideAnother`, `GivenBack`, `ReportTruthful`: all verbs and the schedule on one group; with `TypeOK` |
| `host_wrappers` | 755 145 | `NothingLost`, `RestoreTakesEffect`, `TornOnlyBesideAnother`, `ComesBack`, `OutcomeTruthful`: wrappers of the agent and of timers on one service; with `TypeOK` |
| `agent_update` | 121 906 | `LiveIsWholeAndTested`, `StartsReport`: what systemd starts, and what it reports, with a crash at any step; with `TypeOK` |
| `installs` | 1 368 798 (up to symmetry) | `SecretsAgree`, `SurfaceKnowsAll`, `NoNameTwice`: installs, provisioning and the steps of an uninstall over what they share |
| `vault_file` | counterexample | `FileHoldsTheVault` (section 5) |
| `host_served` | counterexample | `RestoredIsServed` (section 5) |
| `provision_answers` | counterexample | `AnswersInTheEnd` (section 5), under fairness of the handler |

**Bounds.**  Two runs are enough for a claim to be contended and for a record
to be pruned by another's start.  `MaxEvents` 1 or 2 is one line before and one
after a follower's first read.  One restart separates two lifetimes.  `Keep` 1
stands for `KEEP_JOBS` (80): prune depends only on being above it.  `job_watch`
keeps 2, so that the record of a followed run is not pruned: there a follower
whose file vanishes ends without a trailer of the run (`jobs.rs:643-646`).  The
properties hold with pruning too, except of a record that was forgotten: that is
what the theorems of section 4 say for any `Keep`, and a check of one watcher or
one client with `Keep` 1 (0.6 and 1.6 million states) agrees.
The channel holds 2 frames and the child prints 4 lines, so that it fills,
drains and fills again (64 in the code, where a restore prints thousands); in
`provision_answers` 3 frames, 2 steps of the handler and up to 4 lines stand for
64, a dozen and some hundred.  `Size` 1, `Margin` 1, `Disk` 2 with `taken`
anything from 0 to 2 and changing: one model fits with its margin or none does, two
that were both let through fill the disk, and so does one whose margin the host used
up; `Slow`, one of the two clients, may stop reading.  In the vault two devices
and one entry (entries do not interact in `Merged`; two in `vault_file`, where
they share a file); `MaxClock` bounds edits and deletes, `MaxRevision` writes,
`MaxReplies` what is on its way.  A container group has one image in the run and
any number in the proofs; `MaxLooks` 4 is three clean looks and a spare (36 in
the code); one new version, which may crash; every kind of plan.  The host
family has one archive and the same versions.  `agent_update` has two applies,
so that a second one meets what the first left; two releases, so that the second
is newer; two crashes, one in the apply and one in its restart.  `installs` has
two calls (each may be of either service, or ProvisionHost) on a host that is
empty or has the gateway, which is three installs deep; `MaxEvents` 1 is one
uninstall or one death between any two steps; the gateway is to serve no site or
`{a}`, the chat `{a, b}`, a site and a mirror, whose overlap is the conflict; no
more than two secrets are ever in use there, so two suffice.  Symmetry is used
there only, over runs and secrets, and all its properties are invariants.

**Fairness.**  The runtime polls a spawned task from one wait to the next, so the
steps of a run at which it waits for nobody are weakly fair (`Fairness` of `Jobs`);
where it waits (`Waits`: for its preconditions, its work, or a client to take a
frame) nothing is assumed, since a send outside a read loop has no deadline
(`restore.rs:296`, 308-310) and a fetch has none at all (`models.rs:352-387`).
`EveryRunEnds` therefore says two things: an unwinding run, and one whose success
or stop is being closed, lets go whatever anybody does; and a run lets go if each of
its own waits ends, which it takes as a premise (`WF` of its waiting steps).
`WatchersEnd` likewise has its watcher's reading for a premise (a follower waits in
its send for ever, `jobs.rs:651`), and speaks of runs that are out of RUNNING for
good.  A client's requests are not fair, nor is a stop.  The
deadline of `RunStream` is one of the run's own steps (the code has one timeout
around the whole read loop), which is what bounds a child that hangs; nothing is
assumed of the child.  `AttentiveSpec` adds a client that goes on reading until
it hangs up; `HostSpec` does not.  In
`ModelPull` a run that can go on again and again goes on (strongly fair, since a
send may wait more than once) and a client in the end reads or hangs up; of the
engine nothing is assumed.  In `HostProvision` every step of
the handler is weakly fair, its deadline among them, and a client need not hang
up.  The container, host, agent and install families state safety only: what
ends them is docker, curl or a package manager, some without a deadline.

## 4. Theorems

Checked by `tlapm` for every value of the constants that meets the named
assumptions (`RunsAssumption`, `BoundsAssumption`, `VaultAssumption`,
`GroupAssumption`, `PlanAssumption`, `UpdateAssumption`, `ServiceAssumption`,
`UpdatesAssumption`, `InstallsAssumption`, `ReadersAssumption`,
`StreamAssumption`, `PullAssumption`), none of which excludes a real host.  What
a theorem assumes beyond them stands in its statement.

- `Jobs_proofs!TypeCorrect`: `Spec => []TypeOK`.
- `ClaimsExclude`: `Spec => []ClaimExclusion`.  Not inductive by itself: the
  next admission is exclusive only because each live run of a claiming verb
  still holds its key.  `AdmissionInv` adds that (`ClaimsHeld`).
- `RecordsAreTruthful`: `Spec => []RecordTruthful`.  `RecordInv` adds `Honest(r)`
  for each run: no ending on file before the result is known, and the
  `COMPLETED` flag, which failing and stopped runs raise too, is consulted only
  where it tells a success from an unwinding task.  The disk may fail anywhere.
- `Vault_proofs!TypeCorrect`: the same for `Vault`, whatever the clocks.
- `LastWriteAlwaysWins`: if no clock is ahead (`Fast = {}`), each row is the
  greatest of all that arrived.  The strengthening `IInv` says that nothing
  known is from the future (`Clocks`), that no tombstone shares its time with a
  live row (`NoClash`, without which the order is not total and the merge
  depends on who calls first), that every reply is made of rows that arrived
  (`SentIsOld`), and that what was buried is older than the row (`BuriedIsOlder`).
- `DeletedIsGone`: under the same assumption nothing given to the server before
  a delete is the row again; from `BuriedIsOlder`.
- `RevisionTellsAll`: under the same assumption, holding the current revision is
  holding all of the vault but for what a request that was cut short wrote;
  `RInv` adds that each snapshot on its way with the current revision has the
  current rows (`SentTells`).
- `Containers_proofs`: `TypeCorrect`, `PullsAreSaved`, `RollbacksHaveACause`,
  `ArchivesAreWhole`, `GroupsAreGivenBack`, `ReportsAreTruthful`, for groups of
  any size.  `IInv` is `TypeOK` with five parts.  `ClaimInv`: an update or a
  verb's backup is at work only under its claim, which is what keeps two of them
  apart.  `SavedInv`: an update past its backup owes none.  `AloneInv`: a worker
  that stopped the group, alone, finds it stopped until it starts it.
  `WatchInv`: the clean looks counted so far saw every container of the group
  run without a restart since its counter was read.  `TagInv`: what the tags
  stand for at each stage of an update that has met no mishap.
- `HostWrappers_proofs`: `TypeCorrect`, `NothingIsLost`, `RestoresTakeEffect`,
  `ArchivesAreWhole`, `ServicesComeBack`, `OutcomesAreTruthful`.  `IInv` is
  `TypeOK` with `DataInv` (between putting the original aside and having something in
  its place, a restore finds nothing of worth at the data path), `OwnInv` (an update
  saves through a backup of its own), `RestoreInv` (what a restore that is alone has
  there, stage by stage), `AloneInv` (a backup that stopped the service, alone,
  finds it stopped), `DownInv` (who will start what is down) and `TagInv` (what an
  update's ids and tag are).
  `OutcomesAreTruthful` and `ReportsAreTruthful` are action properties, from the
  same invariants.
- `Jobs_proofs!OnlyTheLiveHold`: `Spec => []OnlyLiveRunsHold`.  `HoldInv` says
  for each stage of a run whether it is listed, has a switch and holds its journal
  (`Tidy`); that it holds its claim comes from `AdmissionInv`, and that every
  claimed key is some live run's from `ClaimsOwned`: whoever leaves takes its key
  along, and a restart empties the table.
- `RecordsAreKept`: `Spec => KeepsItsRecord`, the refinement of `JobRecord`.  Every
  action of `Jobs` is a step of it or a stutter, under `KeepInv`: `RecordInv`, for
  an ending must be the run's own; `HoldInv`, for nobody writes after its drop; and
  `Filed`, for what is on file at each stage, so that a head line is only ever
  written to no file and an ending only after none.
- `EndingsAreForEver`: `Spec => OneEnding`, a temporal consequence of the
  refinement: an ending on record never becomes another one, through prunes,
  restarts and the late event that brings a pruned record back.
- `ReadersAreHarmless`: `ReadersSpec => Spec`.  Followers, listings and stop
  requests are steps of `Jobs` or stutters, so all of the above holds beside them.
- `TrailersAreTruthful`, `NothingIsMissed`, `AnswersAlwaysAgree` (and
  `ReadersTypeCorrect`), for any number of runs, followers and clients, any `Keep`
  and any failures.  None is inductive.  `ReadersInv` has `RunsInv` (`KeepInv`, and
  `Numbered`: an open journal is about to use a number no line on file has);
  `Following` (a follower holds what is on file between the number it was asked
  for and the next one it wants, and what it ends with is settled, with nothing
  behind it); `Told` and `Asking` (what a client was told, or read a step ago,
  still stands on record).  The proof goes through two facts about a step of
  `Jobs`, whoever takes it: lines are only added at the end, and an ending stays.
  All three except `Forgotten`, a record that `prune` took and a late event may
  have begun again.
- `RunStream_proofs`: `StreamTypeCorrect`, `OneTrailerIsLast`,
  `TrailersTellTheOutcome`, `TrailersComeLast`, for every capacity of channel and
  pipe.  `StreamInv` is `TypeOK` with `Staged` (what the run's stage says of its
  outcome), `Trailing` (one error at most is sent, last of all and after the
  record's own ending), `FailureTold` (a failure is on its way to a client that
  stays, which is why the body's own success never follows one) and `Accounted`
  (frames received, queued and being sent are the lines told and the trailer,
  less one at most that the deadline cut).
- `ModelPull_proofs`: `PullTypeCorrect`, `SuccessIsWhole`, `TheMarginIsForOthers`,
  for any pulls, models and volume.  `PullInv` is `TypeOK` with `Fetching` and
  `Finished` (what a stage says of the engine and the record) and `Looked` (what a
  pull saw free and what else it saw taken fit on the volume, and whoever is past
  the check saw room for its model and the margin).  The last theorem counts: the
  units of one model inject into `1 .. Size`, so a full volume holds at least
  `Disk - Size` of everything else, which is the margin more than the look saw.
- `Vault_proofs!MergeIsAJoin`: the merge is idempotent, commutative and associative
  on tables whose tombstones tie with no live row, which is why retries and lost or
  overtaken calls do no harm.
- `Vault_proofs!FileFollowsTheVault`: `OneAtATimeSpec => []FileHoldsTheVault`, where
  no request is cut short and no rendering fails.  `OneAtATimeSpec` is `Vault`
  without a write between a delete and its rendering; so where nothing fails, the
  lock that `DeleteVaultEntry` gives up early is what the counterexample needs.
- `AgentUpdate_proofs`: `TypeCorrect`, `LiveIsGood`, `StartsTellTheTruth`.  `IInv` is
  `TypeOK` and, as long as no two applies overlapped, one apply at work (`Alone`),
  which writes to the copy beside and nothing else (`PourInv`), of the very build
  it tested (`BuildInv`); what is live is whole and is what the stage says
  (`LiveInv`); and the marker is that of the apply from its mark to the next start
  (`MarkInv`), which the report is read from.
- `Installs_proofs`: `TypeCorrect`; `NamesAreServedOnce`, as long as nothing was
  mixed, from `NameInv` (file, uninstall's copy and what each run holds are free of
  double names; what a run has read and judged is still free of conflicts when it
  writes it into the file it truncated, because it writes that very copy);
  `SecretsStayShared`, from `SecretInv` (one run at most makes a secret, and only
  where none is); `TheSurfaceKnows`, from `CrowdInv` (who overlapped, with a run or
  an uninstall, is on record), `WrapperInv` (what a run that is alone has surveyed is
  all that is noted, and wrappers half written are in doubt) and `SiteInv` (at most
  one copy of the file is being written or moved, and it has every site).

Only model-checked: the liveness properties (`EveryRunEnds`, `WatchersEnd`,
`RunEnds`, `StopIsObeyed`), since liveness under fairness and ENABLED are beyond
this prover.  Every invariant and every action property of a passing run is a
theorem.  No module uses recursion: what a recursive definition computes could not
be proved either.

## 5. Where code and documentation part

With a run:

- `vault_file`: DeleteVaultEntry unlocks the store before it renders, so its
  older snapshot can be written over a later one.  The file also
  falls behind where a rendering fails or never comes, which is logged and left (api.rs:1121-1123),
  or a request is cut short; `FileFollowsTheVault` shows that there is no fourth way.
- `host_served`: the restore of a service that is not stopped for it renames the
  directory under the running container and ends with `docker compose start`,
  which does nothing to a running container: it goes on with what was put aside.
- `provision_answers`: ProvisionHost gathers its notes from a channel of 64 when
  everything is done.  Where CrowdSec is wanted and missing, the package
  manager's lines fill it; the child's deadline ends the installation, and the
  warning after it waits for ever.

Read in the code while modelling, and left without a run of their own.

*Jobs and streams.*  A healthy daemon reports ABANDONED for a run that is just
starting (head line written, not yet in `RUNNING`) or just ending (file read
before the end line, map after); the proto says the daemon died.  A client that
stays connected and stops reading holds the run, its claim and its child's pipe
for ever once 64 frames wait, because the sends outside the read loop have no
deadline; `jobs.rs` says the work was never owned by the stream.  CancelJob
answers `failed_precondition` for a run that ended since it looked
(`jobs.rs:805`, against the comment at 789).  A task that unwinds ends its
stream like a success (`api.rs:909`), which `TrailerTruthful` excepts by name,
and a pull that fails does too (`models.rs:558`).  A failed pull tees one more
event after it closed its record, which brings a record back that was pruned
just before, without its ending.

*Pulls.*  The stop races the read but not the send after it, so one client that stays
and does not read keeps a pull from being stopped (`models.rs:374-387`, 431), which
the fairness of `StopIsObeyed` excludes.  A cleanup deletes the layers of a pull it did not count (`models.rs:447-458`
promises that it breaks no download nobody asked to stop): one that opened its
record between the count and the deletion, has none, or lost it to `prune`; no
property is stated of it, since the count's guard is all that would be left.  Two
pulls stopped together leave their layers,
each counting the other (`models.rs:452`); two pulls checked against one free
space fill the disk together, and the rest of the host fills it under one:
`OnlyOthersFillTheDisk` says how much they must have taken; an engine that goes away in the middle of a pull may leave a record that
SUCCEEDED, which `SucceededMeansWhole` excepts by name.

*Vault.*  A device whose clock is ahead revives what was deleted
(`state.rs:754`), and a request cut short writes rows under the old revision
(`state.rs:681`); the theorems except the one by assumption, the other by name.

*Devices.*  Pairing again dates the session from now but leaves `paired_at` as it was
(`state.rs:477-484`), and a change of policy dates every session from `paired_at`
(`state.rs:546`; the proto, too, says "Derived from paired_at plus the deployment's
SessionPolicy", line 2601): writing the window that is in force already may sign out a
device that paired again yesterday.  An app without a `device_uid` that pairs under
the key of a row which a newer app has adopted clears that row's uid, and the newer
app is no longer paired.

*Container groups.*  An update compares what the tags pointed at before and
after its own pull, never what the containers run: after one that failed past
its pull, or died with the agent, the next answers AlreadyCurrent over
containers of the old image (`container_update.rs:225-228`).  The row of a
removed group is to carry no backup time (`api.rs:223-231`), but its schedule
stays, and the next pass, or a backup that was under way, records one again.
`docker compose ps` without `-a` hides stopped containers.  The watch takes a
group for rolled back even where a reference was not put back.  A stop that
fails half way leaves the group partly down, and an agent that dies while it
packs leaves it down.

*Host wrappers.*  "The rest of the project stays down until it is loaded"
(`install/host/restore.rs:474-475`) is not so for services with a database and no
list of what to stop.  Restores take no lock: a timer's wrapper can start the
service in the middle, docker makes an empty directory, and the archive is moved
into it (`RestoreTakesEffect` excepts it by `disturbed`).  The deadline leaves a
service down, or on a new image, while `update.rs:529-531` takes silence for
"nothing was touched"; the child of a killed wrapper keeps the lock it
inherited.  A stop that fails is ignored and the archive of the running service
announced DONE; under `set -e` a failing `mv` leaves the service down
("Up again on every path").  A killed update's new image is what the next one
rolls back to.

*Self-update.*  Two applies that overlap share staging, copy and marker: one's
cleanup removes the other's build, a rename can put a half-written copy live
(against `agent_update.rs:688-690`), and a failing swap clears the other's
marker.  The properties speak of applies that follow each other.  The check
compares with the process, not with the installed binary.  The proto's
`apply_attempted` is "since this process started", but the file keeps it.

*Installs.*  Two installs of one service at once are both admitted
(`install/execute.rs:1964-1975`), and a journal that cannot be opened removes the
guard altogether.  A scan of docker that fails reads as a host without services,
and the wrappers are rewritten for the installed one alone (`2707`).  Installs
that overlap write the Caddyfile and the wrappers from stale reads; a read of
the Caddyfile while another truncates it drops every other site; two that have
both truncated it leave the short copy followed by the end of the long one
(`7758`), where a name can be in two blocks.  An uninstall reads the Caddyfile
into a copy and moves that over it later (`install/host/uninstall.rs:1132-1136`):
a site written in between is gone, and a file read while it was truncated
replaces the finished one.  A death while the wrappers are written
(`2798-2810`) leaves one cut short until the next rendering.  A purge of the
gateway deletes the shared secret while the chat keeps the old one
(`install/host/uninstall.rs:365-366`); a chat installed before the gateway is
never wired to it (`install/execute.rs:4335`, "because it is installed FIRST").
`install/caddy.rs:249-253` says a changed mirror list drops the stale block;
`merge_site` matches the new header only, so the old block stays, and adding a
mirror is refused as a name served by another.  A panic leaves the install
"running" until the agent restarts: its journal has no `Drop`.

## 6. Limits

Time is not modelled: a deadline may strike at any moment, and a clock that is
set back (which makes no schedule due) is out.  What a line, a row or a model
says is left out.  In the host family the arms of mailcow and vaultwarden,
retention and the deletion of archives are left out; in `Installs` what the
forty services do in their own directories, the firewall, the packages and
authelia's rewriting of sites.  The type invariants of `JobReaders`
(`ReadersTypeOK`), `RunStream`, `ModelPull` and `Installs` are proved and in no
run; that of `HostProvision` documents its variables.

The implementation is 68 750 lines.  Two thirds are text: forty services'
compose files and scripts, firewall rules, DNS records, catalogues in three
languages, and unit tests inside the modules.  What is modelled is what keeps
state or waits while others work; the map's share of all lines stays small for
that reason.

Components `not_modelled`: metrics, security posture, VPN clients, DNS, mods
(text or single commands without state of their own); encryption at rest
(cryptography); startup (its sweep only logs; what a restart does to the tables is
`Restart` in `Jobs`); devices and sessions (each call is atomic under the store's
mutex; a model of pairing, adoption and policy is the first of the plan).

## 7. Plan

Models to come: the device registry; WatchInstall and ListJobs over the install's
own journal; the uninstall wrapper in the host family; a composition of `Jobs`
with one of the families above it.  Theorems to come: those of these models, and
for the container and host families an abstract specification of a group and of a
service that both are shown to implement.
