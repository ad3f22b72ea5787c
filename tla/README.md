# A TLA+ development of teploy-dash

teploy-dash is a single Go process: an HTTP and MCP server that operates a fleet
through the `teploy` CLI, watches monitors, domains, backups and restore tests,
and sends alerts. Its state is a set of in-memory structures behind mutexes, each
with files it can be rebuilt from. What is hard in it is rarely the arithmetic.
It is the order of two critical sections, a file written just before or just
after the memory it mirrors, a goroutine that reads under a lock and acts outside
it, a call to another machine that fails after it took effect, and a process that
ends between two of those steps.

This directory holds TLA+ models of that core, the TLC configurations that check
them, and TLAPS proofs about them. Source paths are relative to the repository;
a bare `.go` name is a file of `internal/server`.

    tlc -workers 2 -config op_exec.cfg MCOperationManager.tla
    tlc -workers 2 -config services.cfg MCServices.tla
    tlapm OperationManager_proofs.tla

## 1. Inventory

| Component | State | Operations | What makes it hard | What makes it correct |
|---|---|---|---|---|
| Operation manager (`internal/operation/manager.go`, `store.go`, `types.go`) | `operations`, `idempotency`, `targets` (per-target queues), one runner goroutine per busy target, record files | Enqueue, Retry, Cancel, run, recover, reconcile, sweep, Shutdown | admission has two critical sections around `Build`; the context is canceled outside the lock; receipts are read outside the lock; files are deleted by the sweep without the lock; crashes | a command starts at most once; refused work never runs; an acknowledged cancel before the start wins; FIFO per target; outcomes are final; nothing is stranded; a key finds its operation; budgets hold |
| Operation event journal (`operation/store.go`, `manager.go`) | journal files, the window in memory, the debt of unwritten events | append, gap marker, compaction, repair, replay | torn tails, failing writes, the byte cap | a client is told of every hole in what it reads |
| Event stream of a client (`operations.go`, `Subscribe`) | what the handler has copied and sent, a channel of one token | subscribe, wake, send, complete | events appended between a copy and a wait; the end of the operation | nothing stays unseen; "complete" is complete |
| Incident tracker (`internal/incident/incident.go`) | incidents, streaks, holds, pending adoptions, `incidents.json` | Observe, Retire, CloseMatching, Sweep, AnnounceWith, AdoptOpen/Failing, EndAdoption | state is persisted before the alert is handed over; a failing save is only logged; streaks are not persisted | per incident an opening precedes its recovery, no alert for a state nobody was told of, a held alert is announced or dropped exactly once |
| Alert outbox (`internal/outbox/outbox.go`) | records with per-channel outcomes, journal | Send, deliver, retry, supersede, compact, load | delivery works on snapshots; outcomes are persisted after the lock is released | at least once up to the attempt limit, never an opening after its own recovery, no repetition on an acknowledged leg |
| Holds and silences (`alerting.go`) | when a flag of an app was first and last seen; silences and their file | ask for a hold, create, remove, prune | several reasons to hold follow one another; expiry, failing writes and restarts | a hold ends; what was silenced stays quiet, what was removed stays removed |
| Channels (`alerting.go`) | `notifications.json`, announcers | save, delete, first channel, dead letters | the tracker reads the file without the lock its writers take | what opened while nobody could be told is announced in the end |
| Heartbeats (`internal/heartbeat`, `alerting.go`) | receivers, outcomes | round, test ping, delete | a ping outlives the delete of its receiver | a deleted receiver leaves no outcome once it is forgotten, but that of a ping that was under way |
| Monitor runner (`internal/monitor`, `fleet_monitors.go`, the handlers in `server.go`) | schedulers, push tokens and last pings, stored monitors, the incarnation clock | Start, Reload, Remove, check, Ping, evaluate, sweep of the fleet | store and scheduler change in two steps without a common lock; checks in flight across a reload | what the store enables is watched, with its configuration; a result is accepted only for the configuration it was made under |
| Domain health (`domains.go`) | rows per server, the servers that evidence a rule | sweep, open, adopt, retire | partial and failing answers, servers that come and go, restarts | an incident is retired on evidence alone |
| Restore tests (`internal/restoretest`, `internal/store`) | schedules, claims, verdicts | run, edit, delete, recreate | the tracker is fed outside the runner lock | one run per test; a verdict is of the target it is shown with |
| Backup sweep and automatic tests (`backupfleet.go`, `backuptests.go`) | status and migration evidence per server, tests, claims | sweep, push, tick, verify | readings applied out of order; claims of a goroutine that may be lost | one verification per server; "the old job may go" needs two new backups |
| Backup policy and recovery key (`backuppolicy.go`) | recovery key, policies on the servers | generate, confirm, policy, exclude, drill | one CLI call per server, each may fail; whether a server is Dash's host may be unknown | without a recovery key the host's own volumes are backed up in plain text only where the host was not recognised |
| Backup setup (`backupsetup.go`) | storage keys on record, leftovers, the setup run | mint, prove, push, retire, turn on | calls to a provider and to servers that fail after they took effect, process ends | no key in use is deleted; what the owner left out is not adopted |
| Sources (`internal/source`, `gitsource.go`) | sources, delivery ledger, relays in flight | receive, relay, record, rotate, delete | the forge is answered before the ledger record | a delivery reported as done is recorded or its relay runs; one relay each |
| Accounts and sessions (`sessions.go`, `users.go`) | accounts with epochs, sessions, setup state | setup, sign in, renew, change, delete, SSO | sign-ins in flight across a revocation; sessions written on a best effort | nothing issued before a revocation is accepted after it |
| Fleet cache (`fleet.go`, `server.go`) | observations, last good apps, generation | sweep, invalidate, expire, MCP list | a sweep that began before a change | what is shown as fresh contains the change |
| Groups and projects (`server.go`, `membership.go`) | `groups.json`, shared by processes | create, rename, delete, assign | read-change-write by several processes | no lost update, distinct names |
| Cleanup audits (`cleanup.go`) | reports, dismissals | audit, dismiss, remedy, forget | partial audits, servers that leave or change their machine | a dismissed finding stays hidden until an audit clears it |
| Link to Observe (`observe.go`) | connection, opt-ins, the app's environment | connect, apply, disable | each of a row of calls may fail, as may the record | every variable set is on record |
| Sibling discovery (`siblings.go`) | products and probes per server | sweep, probe, forget | two sweeps may overlap, the probes run unlocked | probes are of the products they are shown with |
| MCP tokens (`internal/mcp/tokens.go`) | token list, file | create, revoke, verify | copy, save, publish | not modelled |
| Process (`cmd/teploy-dash/main.go`) | none of its own | start, stop | order of the component shutdowns under one deadline | not modelled |

How they interact. HTTP and MCP handlers call the operation manager, the monitor
runner, the test runners, the source store and the session gate, each behind its
own mutex; no lock is held across two components except that the incident
tracker calls the outbox's `Send` under its own lock, and asks there whether a
rule is held or silenced and whether there is a channel. Monitor checks, restore
tests, backup tests, domain health and the fleet rules feed the tracker
(`Observe`); the tracker feeds the outbox; the outbox calls the alert channels
from a goroutine of its own and reports dead letters back as channel health. The
operation manager calls the CLI (`Executor`) and reads receipts through
`receipts.go`. The other components talk to the fleet through the CLI as well, one
call per server, and keep what they learned. On shutdown `main.go` stops the HTTP
server, then the loops, the runners, the outbox and the manager.

The full list of components, modelled or not, is in `PROJECT.json`
(`components`), the list of what is hard to test, with lines, under `hazards`.

## 2. Modules

| Module | Role |
|---|---|
| `OperationManager` | the operation service, one action per critical section |
| `OperationInvariant` | the inductive invariant `IInv`, in named parts |
| `OperationContract` | what the service promises callers: a FIFO of operations per target, started at most once and only at the head |
| `OperationRefinement` | the refinement mapping from the manager to the contract |
| `OperationManager_proofs`, `OperationRecords_proofs` | proofs about it: the execution of operations; their records, keys, budgets and the contract |
| `MCOperationManager` | requests, symmetry and model values for TLC |
| `AlertEvents` | the alerts, and which channels an alert is for |
| `IncidentTracker` | the incident state machine, one action per operation |
| `Outbox` | the durable queue, its worker and its journal, one action per critical section, append or request |
| `Alerting` | composition: the tracker handing alerts to the outbox under its mutex, with process ends; the properties of both |
| `MCAlerting` | symmetry for TLC |
| `OperationJournal`, `EventStream` | the events of an operation on disk and in memory, and a client that follows them |
| `RestoreTests`, `BackupWatch`, `BackupPolicy`, `BackupSetup`, `SetupTurn` | restore tests; the backup sweep with its tests; the recovery key and the policies; the storage keys; turning backups on |
| `SourceDeliveries`, `Access`, `FleetCache`, `Groups` | webhook deliveries; accounts and sessions; the fleet cache; the groups file |
| `MonitorRunner`, `DomainHealth` | monitors with their store and schedulers; the incident of a domain |
| `AlertHolds`, `Silences`, `Notifications`, `Heartbeats` | the four parts of `alerting.go` that have state of their own |
| `Cleanup`, `ObserveLink`, `Siblings` | server audits; the telemetry opt-in; sibling discovery |
| `Services`, `Watching` | the sums of the two groups: a behaviour is a behaviour of one of the components |
| `MCServices`, `MCWatching` | their symmetry for TLC |
| `Absence` | the value for what is not there |
| `Filtering`, `Filtering_proofs` | the loop that filters a list, and what it computes |
| `Alerting_proofs`, `OperationJournal_proofs` | proofs about these two |
| `Backups_proofs`, `Services_proofs` | proofs about `BackupWatch`, `BackupPolicy` and `BackupSetup`; about the other services and `Services` |
| `Watching_proofs` | proofs about the components of `Watching` and about it |

### OperationManager and the code

An action is one critical section of `Manager.mu`, or one call made outside it.

| State | Code |
|---|---|
| `mem`, `attr` | `m.operations`: the mutable half of a record (status and reconciliation) and the half fixed at admission (request, principal, key, retry origin, creation time, sequence) |
| `disk` | the record files of `fileStore` |
| `index` | `m.idempotency`, by namespace |
| `client` | the local state of a caller inside `enqueue`, between its two critical sections |
| `runner`, `worker` | `m.targets` and the `runTarget` goroutines with the point they have reached in `execute` |
| `ctxDone`, `cancelling` | whether an operation's context is canceled; whether `cancel()` is due because the intent is recorded or a shutdown collected it |
| `pending`, `recon` | what the startup reconcile loop still has to read, and the answer it holds outside the lock |
| `sweeping` | ids whose files a sweep deleted and whose memory `retire` has not removed yet |
| `recordErr` | what Health reports of record writes |
| `installed`, `landed` | external: what runs on a target, and whose effect reached it |
| `starts`, `acked`, `cancelAcked` | history, for the properties |
| `clock`, `faults`, `crashes` | bounds of the model |

| Action | Code |
|---|---|
| `Enqueue`, `Retry` | the first section of `enqueue`; `Retry`'s check before it |
| `Admit`, `Refuse` | the second section: seal, lookup again, budgets, save (the commit point), publish |
| `Pop`, `Drain` | `runTarget`: take the head, or delete the runner and end |
| `CheckContext`, `AcquireSlot`, `CheckTarget`, `SetRunning`, `FailUnsaved` | `execute` up to the executor call |
| `EffectLands`, `ExecReturn` | the command: its effect may reach the target at any time until it returns, or not at all |
| `AfterExec`, `FinishDecided`, `ReadReceipt`, `FinishCanceled` | `beginStopping`, `finish`, `resolveCancellation` |
| `Cancel`, `FireCancel` | the intent, saved under the lock; the context, canceled after it |
| `ReconcileRead`, `ReconcileRecord`, `ReconcileAbandon` | the startup reconcile loop |
| `Sweep`, `Retire` | `sweepRetention` and `retire`; `Finish` contains the count sweep it triggers |
| `Seal`, `ForceCancel`, `Exit`, `Crash` | `Shutdown` in its phases; the end of the process |
| `Restart`, `RestartFails` | `New`: sweep, load, rebuild the index, recover |

`saveOperation` writes a temporary file, syncs, renames and syncs the directory.
It may therefore fail with nothing visible or with the new record visible, and
`SaveFails` allows both. `Restored` rebuilds the key index in map order, so any
of several records with one key may win.

Abstractions: request contents are a kind, a target, an image and whether a
secret is present (a retry refuses those); a receipt answers `applied`,
`not_applied` or `manual` from what the target runs at the moment of the read, or
`manual` when it cannot be read; a process end takes its child processes with
it; the hourly sweep may run at any time. Left out: the event journal (`OperationJournal`),
the read-only mode for records of a future version, and
failing deletions of the sweep. Constants below 1 disable a budget, a window or
a retention limit, as in `Options`.

### Alerting and the code

The tracker has one mutex and keeps it while it hands alerts over, so an
operation is one action (memory and `incidents.json`) followed by one `HandOver`
per alert; `out` is what it has left, and the mutex is free when `out` is empty.

| State | Code |
|---|---|
| `streak`, `held`, `incident`, `adopting` | `ruleState` (streaks saturate at the thresholds, where the code only compares), `st.held`, `t.incidents`, `t.adopting` |
| `file`, `firstRun` | `incidents.json`, and whether it exists |
| `rec`, `order` | `o.records`, `o.order` |
| `jlast`, `jorder` | the journal as `load` folds it: last line per id, ids in order of first lines |
| `sender` | a caller inside `Send` that has appends left |
| `worker` | the goroutine: its batch, the route and legs of the round, their verdicts, the snapshot it will append |
| `event`, `sends` | history: what was handed over, and the requests made |

| Action | Code |
|---|---|
| `FailQuietly`, `FailRepeats`, `FailHeld`, `FailOpens`, `PassQuietly`, `PassRecovers` | the branches of `Observe` |
| `RetireClosed`, `RetireOpen`, `CloseMatching`, `Sweep`, `ReleaseHolds`, `Seed` | the methods of these names |
| `AdoptOpen`, `AdoptFailing`, `EndAdoption`, `Announce` | adoption and `AnnounceWith` |
| `Send`, `RecordSuppressed`, `PersistSuperseded`, `PersistNew` | the section of `Send` and the appends that follow it |
| `DeliverDue`, `BeginAttempt`, `BeginUnreadable`, `SendLeg`, `Conclude`, `PersistOutcome` | the scan, and `attempt` up to its append |
| `CrashAndRestart` | the process ends anywhere; `New` of both |

Whether a rule is held or silenced, whether a channel is configured and whether
the configuration can be read is asked anew at each use, so each is an input.
Backoff and `Retry-After` are abstracted: a record that failed may be due or not.
Every alert is a delivery of its own (the id covers its time in nanoseconds).
`Persist` is one step; its failing branch also covers a process end between the
append and the compaction. Adoption applies to rules without auto-resolve, as in
its callers. Left out: setting a corrupt `incidents.json` aside, torn journal
lines, kind filters and excluded channels, the channel-health hooks, and the
whole-record fallback for a sender that is not a `ChannelSender`. That every
queued alert is eventually delivered or given up is not checked; that attempts
end is part of `TypeOK`.

### The services (`Services`)

Each of the eleven has its own lock and files and reads no variable of another.
An action is one critical section, one call to the CLI, a provider or the
tracker, or one step of a handler outside its lock. `service` names the one that
runs.

| Module | State and the code it stands for |
|---|---|
| `OperationJournal` | `journal` (`<id>.jsonl`: its lines, how its last bytes end, whether a handle is open), `window` (`m.events`), `debt` (`m.droppedEvents`), `reader` (a client that reads from its last position) |
| `EventStream` | `appended`, `ended` (the history of one operation), `stream` (`handleOperationEvents` with its channel), `received` (`Last-Event-ID`), `complete` |
| `RestoreTests` | `testFile`, `drawn` (incarnations), `run` (`startTest` and `RunNow`), `claimed` (`Runner.running`), `edit` (handlers between two calls), `failing` (open incidents) |
| `BackupWatch` | `made` (on the server), `record`, `tests`, `job` and `running`, `sweep`, `push`, `alarm` |
| `BackupPolicy` | `policy`, `newest` (on each server), `recovery`, `pendingKey`, `selfExcluded`, `owner` (handlers between two CLI calls); what `selfHostOn` answers is an input of each write |
| `BackupSetup` | `alive`, `unminted` (at the provider), `held` (the key a server uses), `setupRec`, `leftovers`, `setupRun`, `hand` (by-hand pushes) |
| `SetupTurn` | `coverage`, `turnedOn` (on the servers), `chosen` (`backups.json`), `turn` (the handler that holds `setupMu`) |
| `SourceDeliveries` | `secret`, `degraded`, `ledger` (`deliveries.jsonl`), `seen`, `hook`, `inFlight`, `relay`, `route` |
| `Access` | `row`, `counter` (the store in memory), `store` (`users.json`), `setup`, `sso`, `session`, `kept` (`sessions.json`), `login` (verified, not committed), `wiping` |
| `FleetCache` | `fleet` (the servers), `generation`, `fresh`, `observed`, `lastApps`, `refresh`, `listing` |
| `Groups` | `groupsFile`, `lockedBy` (`groups.json.lock`), `loaded` (what a process has read) |

| Module | Actions and the code they stand for |
|---|---|
| `OperationJournal` | `AppendEvent`, `AppendAfterDebt` (`appendEventLocked` with repair, write, compaction and the marker for lost events), `CloseJournal`, `ReadOn` (`EventsAfter`), `JournalRestart` (`loadEvents`) |
| `EventStream` | `Subscribe`, `WriteEvent`, `Woken`, `Released`, `Complete`, `Drop`; `AppendOne`, `FinishStream` of the manager |
| `RestoreTests` | `TimerFires`, `RunByHand`, `ClaimRun`, `Verify`, `SaveResult`, `Report`, `ReleaseClaim` of `RunNow`; `PostTest`, `ReadBack`, `StopSchedule`, `StartSchedule`, `RetireTest`, `RemoveTest`, `DeleteFile` of the handlers; `StopTests`, `TestsRestart` |
| `BackupWatch` | `SweepReads` ... `SweepEvaluates` (`sweepBackups`, one step per section), `PushReads`, `PushRecords`, `TickTests`, `JobChecks`, `JobVerifies`, `JobReleases`; `BackupRuns` on the server |
| `BackupPolicy` | `GenerateKey`, `ConfirmKey`, `ApplyPolicy`, `Exclude`, each followed by `ReadPolicy` and `SetPolicy` per server and its end; `OfferDrill`, `PassDrill`, `StartProof`, `PassProof`, `PolicyRestart`; `PolicyRuns` on the server |
| `BackupSetup` | `StartSetup`, `MintKey`, `MintFails`, `ProbePasses`, `ProbeFails`, `TakeBack`, `BeginPushes`, `PushBegins`, `PushLands`, `PushVerified`, `PushUnsure`, `PushMissed`, `DropReplaced`, `EndSetup` (`handleSetupStorageApply` in its phases); `RetireKey`, `HandPush`, `HandRecorded`, `DismissLeftover`, `SetupRestart` |
| `SetupTurn` | `BeginTurn`, `ReadCoverage`, `SkipWhole`, `SetOn`, `RecordOn`, `StartFirst`, `EndTurn` (`handleSetupTurnOn`), `StartByHand`, `TurnCrashes`; `ItemMoves` on the server |
| `SourceDeliveries` | `DeliveryArrives`, `AuthenticateAgain`, `CheckSeen`, `VerifyPush`, `RecordIgnored`, `StartRelay` of the hook; `RelayRecords`, `RelayReleases`; `CreateSource`, `RotateWebhookSecret`, `MarkCredentialState`, `DeleteSource`, `RouteChanges`, `SourcesRestart` |
| `Access` | `Setup`, `Authenticate`, `IssueSession`, `SsoSignIn`, `RenewSession`, `DropSession`, `SessionExpires`, `ChangePassword`, `ResetOrRevoke`, `SetRole`, `SetProfile`, `CreateUser`, `DeleteUser`, `WipeSessions`, `AccessRestart` |
| `FleetCache` | `ReadFleet`, `ReadApps`, `ListApps` begin a sweep, `Probe` asks one server, `EndRefresh`, `AbandonRefresh`, `EndListing`; `Invalidate`, `Expire`, `ServerChanges` |
| `Groups` | `LoadGroups`, `SaveGroups`, `LeaveGroups` (`updateGroups`); the requests are the operators `Created`, `Renamed`, `Removed`, `Assigned`, `Unassigned` |

### What watches and tells (`Watching`)

| Module | State and the code it stands for |
|---|---|
| `MonitorRunner` | `monFile`, `upRows`, `incClock` (`FileStore`), `task` (goroutines of `startMonitor`, calls of `Ping`), `pushEntry`, `lastPing`, `down` (open incidents), `request` (handlers and sweeps between two calls), `monStopped`, `boot` |
| `DomainHealth` | `members`, `served` (the world), `domainRec`, `adopted`, `ruleKeys`, `incident`, `domainSweep` |
| `AlertHolds` | `flagsRead`, `listed` (the fleet cache), `lockFirst`, `maintFirst`, `flagLast`, `appOp` |
| `Silences` | `covered`, `muted`, `mutedFile`, `elapsed`, `announced`; `incidents`, `incidentsFile`, `waiting` of the tracker |
| `Notifications` | `stored`, `announcers`, `retiring`, `complaint`, `starting`; `opened`, `notified`, `observing` of the tracker |
| `Heartbeats` | `receivers`, `outcomes`, `pings` (what a round or a test has read and not yet pinged), `forgetting` |
| `Cleanup` | `machine` (what a name stands for), `audit`, `records`, `dismissed` |
| `ObserveLink` | `answering`, `envSet` (the world), `link`, `optIn`, `observeFile`, `putBack`, `applying`, `disabling`, `wedged` |
| `Siblings` | `siblingFleet`, `reports`, `siblingRec`, `siblingFile`, `siblingSweep` |

| Module | Actions and the code they stand for |
|---|---|
| `MonitorRunner` | `PostMonitor`, `DeleteRequest`, `SweepSaves` and the calls that follow (`SaveMonitor`, `ReloadStops`, `StartReads`, `StartRegisters`, `RemoveMonitor`, `DeleteMonitor`); `Fire`, `Judge`, `SaveCheck`, `Publish`, `Finish` of a task; `Ping`, `MoveDeadline`, `PingLate`; `StartListed`, `StopMonitors`, `MonitorsRestart` |
| `DomainHealth` | `BeginSweep`, `AskServer`, `EndSweep` (grouping, opening, adoption, retirement), `WorldMoves`, `DomainRestart` |
| `AlertHolds` | `AskHold` (`alertHold`), `FlagsChange`, `SnapshotChanges`, `OperationAdmitted`, `OperationStarts`, `OperationEnds`, `ClockTicks` |
| `Silences` | `AddSilence`, `CloseCovered`, `RemoveSilence`, `ListSilences`, `RuleFails`, `Release`, `RulePasses`, `SilenceElapses`, `DashRestarts` |
| `Notifications` | `PutChannel`, `PatchSettings`, `DeleteChannel`, `RetireChannel`, `AnnouncerAsks`, `AnnouncerMarks`, `RuleObserved`, `Opens`, `Recovers`, `DeadLetter`, `ComplaintObserved`, `RunAlerting`, `AlertsRestart` |
| `Heartbeats` | `SaveReceiver`, `DeleteReceiver`, `DeleteFails`, `ForgetReceiver`, `BeginRound`, `BeginTest`, `PingEnds`, `HeartbeatsRestart` |
| `Cleanup` | `QueueAudit`, `AuditReports`, `AuditFails`, `Dismiss`, `Undismiss`, `ServerEdited`, `CleanupRestart` |
| `ObserveLink` | `Connect`, `Disconnect`, `PutBack`, `BeginApply`, `Mint`, `SetKey`, `SetFails`, `RecordOptIn`, `RecordUnqueued`, `BeginDisable`, `Unset`, `EndDisable`, `ObserveMoves`, `LinkRestart` |
| `Siblings` | `BeginSiblings`, `SweepsNothing`, `ServerReports`, `ReportFails`, `RecordReport`, `MergeProbes`, `ForgetDeparted`, `EndSiblings`, `SweepGivesUp`, `SettingsSaved`, `SiblingFleetEdited`, `SiblingsRestart` |

History variables carry no code state. They say what a property has to know
about the past (what a client was told, what a restart brought back, whether two
requests overlapped), and are marked `history` where they are declared.

Abstractions the modules share. Time is a nondeterministic "due" or "expired"
except in `OperationManager` and `AlertHolds`, which compare durations. What another
machine answers is an input; a call that fails may have taken effect where the
code cannot know. A save of a file may fail with nothing visible or, because the
directory is synced after the rename, with the new content visible; `BackupSetup`,
`Cleanup` and `BackupPolicy` leave failing saves of Dash's own files out. Wording,
rendering and HTTP are left out.

## 3. What the runs check

| Run | Instance | Shows |
|---|---|---|
| `op_exec` | one target, deploy and remove of one app, receipt reader, one process end | no second start, an acknowledged cancel before the start wins, one goroutine per target, every live operation has an owner, `canceled / not applied` is true of the target |
| `op_faults` | one target, one failing save anywhere, one process end | refused work never runs, `IInv`, outcomes are final in memory and on disk, the manager implements `OperationContract` |
| `op_admission` | two callers, one key, window 1 in a clock of 2, global budget 1, one process end | replays resolve to their operation; what the first section of `enqueue` found still holds in the second: one start per key and window, budgets are kept (`RecheckHolds`) |
| `op_process` | two targets, one slot, retention of one record, one process end | a drained shutdown leaves only terminal records, and a live operation keeps its record although the sweep does not take the lock (`RecordsHold`) |
| `op_live` | fair; two operations of one target, two process ends (a reconcile loop can itself be cut short by a shutdown) | an admitted operation settles, `reconciling` ends |
| `op_key_reuse` | window 1, retention age 2, clock 3 | violation, see below |
| `op_late_receipt` | as `op_exec` | violation, see below |
| `alert_incidents` | two rules (one with auto-resolve), two incidents, three alerts, one failing save, one process end; the worker does not run | recoveries follow openings and each incident has one opening (`ToldInOrder`), no card is left open (`ClosedIsTold`) |
| `alert_delivery` | one rule, one incident, an opening and its recovery, two channels, two attempts, retention of one record, one process end | types, with the bound on attempts; undelivered work survives compaction and restart, acknowledged legs are not sent again, no opening after its recovery while the process runs |
| `alert_reopened` | as `alert_delivery`, one channel | violation, see below |
| `services` | eleven services, see below | what each of them promises |
| `watching` | nine of them, see below | the same |

For the operation manager, two operations are enough for every property: each
relates at most two operations (one key, one target, one slot). One fault and one
process end let a failure meet every step; the second fault or crash of a trace
could only repeat it. The executor has one slot, so two targets compete for it.

The bounds of the alert runs: two incidents are what a summary needs (it is sent
for more than one) and three alerts are what that summary is (`AlertsLeft` starts
an operation only if each of its alerts finds an id). The thresholds are 1;
`FailQuietly` and `PassQuietly` also occur with a threshold of 1, for an open and
a closed incident. The tracker reads nothing of the outbox, so
`SpecUndelivered`, which never runs the worker, has every behaviour of the
tracker and lets TLC take two rules. In the outbox only a recovery touches
records other than its own, those of its incident; the opening and the recovery
are also enough for one record to be compacted away while the other is pending.

### The sums

The components of `Services` share no variable, nor do those of `Watching`: what
the code of one reads of another (the tracker's open incidents, the fleet cache's
flags, a server's answer) is in its module as an input or as a variable of its
own. What a component can do among the others it can therefore do alone, and an
invariant of one component is an invariant of the program if it is one of the
component alone. So `Services` and `Watching` choose one component at the start
and let it run; the number of states is the sum of theirs and not the product,
and the others keep their initial state. A conjunction such as `SingleFlight`
joins what two or three components promise of the same kind.

The identifiers of a component that are interchangeable are taken from the sets
`A` and `B`, so that one permutation group (`Alike`) serves all of them: no
component distinguishes two elements of `A`, nor of `B`, and one that does
distinguish an identifier (`SelfHost`, `VolumesItem`, `FlatChannels`) takes it
from outside. Where a set has one element only (`m1`, `e1`) it is not in `A` or
`B`. `CHECK_DEADLOCK FALSE` is there because bounded counters and sets of names
run out.

| Component | Instance | Property |
|---|---|---|
| `RestoreTests` | one test that can have two targets, two incarnations, two runs, one request | `VerdictIsOfTarget`; `SingleFlight` (one run, its claim held as long) |
| `BackupWatch` | one database, backups up to 3 (two can arrive after the first sighting), a sweep, a push and a verification at a time, reads of the status that do not overlap | `SingleFlight` (one verification per server); `ReadyWhenReadsInOrder`: the page offers to remove a hand-written backup job only after two new backups in a row |
| `BackupPolicy` | Dash's host and another, one key, one request at a time | `PlainVolumesStayOut`: without a recovery key the host's own volumes are on the list of what its policy leaves out, unless `selfHostOn` did not recognise the host in the write that took them in or left them in |
| `BackupSetup` | two servers, two keys, one by-hand push | `HeldIsAlive`: no key a server uses is deleted |
| `SetupTurn` | one server with volumes and two databases, one change there | `ChoiceIsKept`: nothing recorded as left out was adopted |
| `SourceDeliveries` | two deliveries, two hooks, two relays, two secrets | `AcknowledgedIsKept`; `SingleFlight` (one relay per delivery) |
| `Access` | one account and one SSO identity, two sessions, one sign-in, three epochs | `RevokedStaysOut`: what carries an accepted epoch was issued after the last change of its identity |
| `OperationJournal` | a window of 2, a file of 3 lines, 4 sequence numbers, 2 lost events | `StreamsAreWhole`: a hole in a replay from the start is marked; `ResumedReplayIsHonest`: so is one in a replay from an event the history still has |
| `EventStream` | 4 events | `StreamsAreWhole`: no lost wake-up, "complete" is complete |
| `Groups` | two processes, two names, one app on two servers or on none, 6 writes | `GroupsAddUp`: no lost update, distinct names |
| `FleetCache` | one server, two changes | `FreshShowsChanges`: what a refresh publishes as fresh contains every change the cache was invalidated for |
| `MonitorRunner` | one push monitor, one token (which edits keep), two requests, two tasks, two incarnations, one process end | `WatchedRightly` (the schedulers follow the store unless requests overlapped or a deletion failed, incidents follow the schedulers), `IncarnationNamesConfig` |
| `DomainHealth` | two servers, one change of the world | `RestsOnEvidence`: an incident is retired only when no server's last whole answer shows the domain |
| `Siblings` | one server, three reports, two overlapping sweeps | `RestsOnEvidence`: probes belong to the products they are shown with, unless two sweeps were at the server together |
| `AlertHolds` | a clock of 4, grace 1 | `AlertsGoOut`: reasons to hold that follow one another hide an outage for a bounded time |
| `Notifications` | two channels, one of them in the flat form, one rule, one announcer | `AlertsGoOut`: what opened while there was no channel is announced |
| `Silences` | two silences, one rule | `StaysAsAsked`: a silenced incident is quiet until the silence ends |
| `Heartbeats` | two receivers | `StaysAsAsked`: a receiver that was deleted and forgotten has no outcome until a ping that had read it before ends |
| `Cleanup` | two servers, two machines, one finding | `StaysAsAsked`: a dismissed finding stays hidden until an audit clears it |
| `ObserveLink` | two instances, two keys | `SetIsRecorded`: between calls every variable that is set is on record |

The bounds are the smallest in which the hazard happens: two of what may overlap,
two of what may be confused, and one more event than the window holds.
`BackupWatch` leaves reads that overlap out of the run (`ReadsMayOverlap`): its
property says nothing from the first such read on. With them, and one database, it
has 1.74 million states, and both of its properties hold.
`MonitorRunner` takes no new request after a process end while another is under
way (`Open`): a restart meets every step of two requests, and one request at a
time meets every state a restart leaves. A larger instance of one component is a
cfg of that module: with two servers `Siblings` has 5.5 million states and its
property holds.

### Fairness

Fairness (`FairSpec`) is what the code relies on: a runnable goroutine runs and
a command returns within its timeout (weak fairness of `WorkerStep`); a blocked
send on the slot channel is served when slots keep becoming free (strong
fairness of `AcquireSlot`); `cancel()` follows its record (`FireCancel`); a
receipt read ends within `receiptReadTimeout` (`ReconcileStep`); a shutdown's
deadline and grace expire (`ForceCancel`, `Exit`); the supervisor starts the
process again (`Restart`). Callers, crashes and sweeps are not fair. `op_live` has one
worker because the fair two-target instance is out of TLC's reach; contention
for the slot is checked for safety in `op_process`.

No other run states fairness: the promises of the services are safety, and what
"goes out in the end" is stated there by a bound on time (`HoldsEnd`) or by what
must be under way (`OpenIsAnnounced`).

### Three disagreements

*A key that is reused loses its entry* (`op_key_reuse`, `ReplayResolves`). When
a key is reused after its window, `enqueue` points the index at the new
operation. Retiring the old record then runs `delete(m.idempotency, key)`
(`manager.go:1606`) without asking whose entry it is. A replay inside the new
operation's window is then admitted as new work.

*Not applied, although it was* (`op_late_receipt`, `NotAppliedIsHonest`).
`types.go:227` defines `not_applied` as "the receipt shows the effect did not
land". The reconcile loop reads receipts while recovered targets accept new
work. A remove admitted after the restart that completes before the read makes
the interrupted deploy's receipt say that it did not land.

*An opening after its recovery* (`alert_reopened`, `NeverReopened`).
`outbox.go:46` says that a retried opening "must never reach a receiver AFTER its
own recovery". While the process runs it does not (`OpeningBeforeRecovery`).
Across a restart it may: `Send` makes the recovery visible to the worker in the
section that supersedes the opening, but appends the superseded line after it
released the lock (`outbox.go:340`), so a process end in between leaves the
opening pending in the journal. The same happens without that timing when the
worker has just failed to deliver the opening: the snapshot it appends
(`outbox.go:581`) was taken before, and may become the last line of the record.
(With the crash restricted to moments when no `Send` is under way, TLC still
finds the second trace.)

### Smaller differences

They were noticed while modelling and have no run. Where a property is named it
is defined in the module and fails, or is weakened to the property a run checks.

*Operations and alerts.* An anonymous caller has
no per-principal budget (`manager.go:537` skips an empty scope) although
`README.md:644` gives the budget per principal; a record recovered from
`cancel_requested` becomes `canceled` with no reconciliation although the
command may have run (the comment at `types.go:197` has every canceled command
reconciled); a record that was refused after its rename became visible holds its
key after a restart (`manager.go:388`); a process end between the save of
`incidents.json` and the hand-over (`incident.go:571`) leaves an incident marked
as announced that was not, so its recovery is sent without an opening
(`README.md:478`), or closes one whose recovery is never sent;
`RecoveryFollowsOpening` and `ClosedIsTold` are therefore stated for a process
that has not ended. A recovery whose opening was superseded is still sent.
Reconciliation appends events to operations that have finished; a client that was
told `replay-complete` never sees them. A client that follows from its last event
may miss a hole when that event is itself no longer kept: the marker may lie
before it (`NoSilentHole`, with a file of 8 lines, 7 numbers and one lost event;
`manager.go:1139-1145`).

*Monitors.* `file.go:130` has a recreated monitor continue past the deleted
incarnation; the clock is in memory, so after a restart it may not
(`RecreatedContinues`). The fleet sweep writes back a whole monitor that it read
before (`fleet_monitors.go:146`). Requests on one monitor that overlap, and a
deletion that fails part-way, can leave a scheduler that is not what is stored
(`clean` excepts them in `WatchedAsStored`).

*Restore tests and backups.* A removed test may be left with an open incident,
because `RunNow` feeds the tracker outside the runner lock (`RemovedIsClosed`,
`restoretest.go:496`). A push that reads a server while the sweep does may make
one backup count twice (`ReadyMeansTwoBackups`). A drill may open an object of the
previous key on a server that took the new one at a second try
(`DrillProvesHeldKey`). Overlapping requests of the owner break
`PlainVolumesStayOut`. On Dash's own host `selfHostOn` may answer `unknown`, and
`absent` when `TEPLOY_APP` is not set (`backupsetup_status.go:442-467`): a policy
is then written with volumes and without the exclude, with a warning at most
(`backuppolicy.go:652-661`), and taking the volumes back in is let through
(`:922`), so that without a recovery key they are backed up in plain text.
`selfExcluded` is not remembered when the CLI fails after storing. In guided
setup, a by-hand push that deletes a record during a run leaves `pushOne` a nil
record, a process end between `CreateKey` and its record orphans a key, and
replaced keys are forgotten before they are deleted. In `SetupTurn`, a call that
failed after the server stored it leaves a database adopted that is on record as
left out until the next turn, and databases that appeared after the coverage page
was read are adopted too.

*Deliveries.* `handleSourceWebhook` announces a 200 only after the fsync, but
`relayVerifiedPush` is answered for before its record. The relay of a deleted
source records into a recreated one. A second relay starts when the first ends
while the second reads the branch's head. A torn line that the next append makes
an interior one keeps the store from opening.

*Accounts.* A logout whose session file could not be written is undone by a
restart. `setCapabilities` can leave no account that may administer.

*Fleet cache.* An MCP list, and `handleApps` on an empty cache, sweep with no
previous state and forget the apps of a server they cannot reach
(`AllFreshShowsChanges` covers both kinds of sweep).

*Groups.* Unassigning an app from a group leaves it in the group's project,
although assigning adds it to both. The id of a server that has none is a hash of
its name, so a rename and a new server of the old name move a membership, which
the comment at `server.go:2934` rules out.

*Domains.* A server that answered in part while another still showed the domain
is no longer a holder (`AllRetiredOnEvidence`).

*Holds, silences, channels.* The lock hold lasts up to `lockHoldCap` and twice the
grace, its comment says once. A silence whose save failed is in force although the
request reported an error, and a removal likewise. A dead letter that read the
file before a delete opens an incident of the deleted channel (`DeletedIsClosed`);
the flat form retires none. An incident marked as announced because the file was
unreadable, or whose channel was deleted between check and mark, reaches nobody.
A heartbeat ping that read its receiver before the delete and ends after `Forget`
stores its result again (`heartbeat.go` waits for none), and it stays until the
process ends or a receiver of that id is deleted.

*Cleanup.* One failed read of the server list while an audit is merged forgets the
records of all other servers (`NothingForgotten`). An audit that ends after its
server left the fleet writes that server's record again; it stays until the audit
of another server ends. A remedy may run on another
machine than the audited one when the name was moved (`RemedyOnAuditedMachine`).
The check that no audit is live and its admission are two steps. A dismissal kept
through a partial report cannot be undone until a report lists it again.

*Observe.* After a restart with no opt-in, recording one writes to a nil map and
panics with the lock held (`LockIsReleased`, `observe.go:949`). A key may be
minted at another instance than the one that was checked (`MintedWhereFenced`). A
failed disconnect restores the connection in a second section, over a later one.

*Siblings.* The comment of `recordSiblings` has the merge after the probes
re-check that the record is still this sweep's. It compares pointers to a record
all sweeps share, and the hourly sweep does not take `sweepInFlight`, so an older
sweep's rows or probes may replace newer ones (`StillThisSweeps`); they disagree
until one sweep reads the server alone. An envelope that says `unreachable`
replaces the rows and keeps the probes, although a failed sweep is to keep both.

## 4. What is proved

Eight modules hold proofs: two about the operation manager, one each about its
journal and about alerting, `Backups_proofs`, `Services_proofs` and
`Watching_proofs` about the components of the two sums, and `Filtering_proofs`
with what they share about lists. Every theorem is about the component's own
specification, for any values of the constants that satisfy the assumptions: any
operations, callers, workers, servers or clients, any number of faults and process
ends. Every invariant and every action property of a passing run is stated by a
theorem, but for `ResumedReplayIsHonest`; the two liveness properties are not.

| Module | Theorem | Statement |
|---|---|---|
| `OperationManager_proofs` | `Invariance`, `Typing` | `Spec => [](TypeOK /\ IInv)`, every variable keeps its type |
| | `AtMostOneStart`, `OnlyAcknowledgedWorkRuns`, `QueuedCancelWins`, `SerialTargets`, `NothingIsStranded` | `[]NoSecondStart`, `[]OnlyAckedStart`, `[]CancelBeforeStartHonored`, `[]OneRunnerPerTarget`, `[]LiveIsOwned` |
| `OperationRecords_proofs` | `ReceiptsAreRight` | `[]CanceledReceiptHonest` |
| | `MemoryIsStored`, `NextProcessKnows` | `[]WriteThrough`, `[]RecordsHold` |
| | `OutcomesAreFinal` | `OutcomeFinal`, an action property |
| | `BudgetsAreKept` | `[]BudgetsHold` |
| | `KeysResolve`, `RecheckIsEnough` | `[](RetentionOff /\ faults = 0 => ReplayResolves)`, and of `RecheckHolds` |
| | `KeysUsedOnceResolve` | with retention too: a key one operation was acknowledged under leads to it while its record is kept and its window lasts, if no save failed |
| | `ManagerKeepsContract` | `Spec => Contract`: the manager implements `OperationContract` |
| `OperationJournal_proofs` | `HistoryIsWhole` | `[]WholeReplayIsHonest` |
| `Alerting_proofs` | `AlertingIsTyped` | `[]TypeOK` |
| | `UndeliveredIsKept`, `AckedLegsAreDone` | `[]PendingIsDurable`, `AckedLegIsDone` |
| | `ReceiversAreToldInOrder`, `NoStaleCard`, `OpeningsComeFirst` | `[]ToldInOrder`, `[]ClosedIsTold`, `OpeningBeforeRecovery` |
| `Backups_proofs` | `TakeoverIsEarned` | `[]ReadyWhenReadsInOrder` |
| | `PlainVolumesAreOut` | `PolicySpec /\ []OneAtATime => []PlainVolumesStayOut` |
| | `KeysInUseLive` | `[]HeldIsAlive` |
| `Services_proofs` | `VerdictsFit`, `RunsAreSingle` | `RestoreTests`: `[]VerdictIsOfTarget`, `[]OneRunPerTest` |
| | `AcknowledgedStays`, `AdmissionFollowsSecret`, `RelaysAreSingle` | `SourceDeliveries`: `[]AcknowledgedIsKept`, `[]AdmittedUnderSecret`, `[]OneRelay` |
| | `RevocationIsFinal`, `SetupIsForFresh` | `Access`: `[]RevokedStaysOut`, `[]SetupOnlyFresh` |
| | `StreamIsHonest` | `EventStream`: `[](NoWakeupLost /\ CompleteIsWhole)` |
| | `ChoicesAreKept`, `ChangesAddUp`, `FreshIsCurrent` | `SetupTurn`, `Groups`, `FleetCache`: `[]ChoiceIsKept`, `[](WritesAddUp /\ OneEntryPerName)`, `[]FreshShowsChanges` |
| | `ServicesAreTyped`, `FlightsAreSingle`, `HistoriesReach`, `ChangesAddUpEverywhere` | `Services`: `[]ServicesTypeOK`, `[]SingleFlight`, `[]StreamsAreWhole`, `[]GroupsAddUp` |
| `Watching_proofs` | `IncarnationsAreHonest`, `SchedulersFollow` | `MonitorRunner`: `[]IncarnationNamesConfig`, `[]WatchedRightly` |
| | `KeysAreRecorded` | `ObserveLink`: `[]SetIsRecorded` |
| | `RetiredRightly`, `ProbesMatch`, `HoldsAreBounded`, `OpeningsAreTold`, `SilencesHold`, `DismissalsStand`, `OutcomesAreForgotten` | the promise of `DomainHealth`, `Siblings`, `AlertHolds`, `Notifications`, `Silences`, `Cleanup` and `Heartbeats` |
| | `WatchingIsTyped`, `ConclusionsRest`, `WishesStand`, `AlertsAreNotKept` | `Watching`: `[]WatchingTypeOK`, `[]RestsOnEvidence`, `[]StaysAsAsked`, `[]AlertsGoOut` |

### Assumptions

They are those the modules declare: `None` is no value of the state it stands
beside (`...Records`), bounds are numbers, and where the code knows more of a name
(`VolumesItem` is an item, users and SSO identities are different) that. For the
operation manager they are `ConstantsAssumption` and `NoneIsNoRecord`. TLC
evaluates all of them in the runs. Four theorems have a hypothesis of their own:

* `KeysResolve` and `RecheckIsEnough` are for a manager without retention on which
  no save has failed yet. With retention the property is false (`op_key_reuse`):
  when the clock moves on a key may be used again, and retiring the older record
  drops the entry of the newer. That is all retention loses: a key that is used
  once resolves (`KeysUsedOnceResolve`). With a failed save the property is false
  for such a key too: an admission whose save failed may have left a visible
  record, and after a crash `New` may index that older, unacknowledged record under
  the key. When it leaves its window the key is free, although the acknowledged
  operation of the key is still within its own (TLC, on `op_admission` with one
  fault and three operations, needs ten states).
* `PlainVolumesAreOut` is for owner's requests that do not overlap. What
  `selfHostOn` answers is open in it: `unproved` is set by a write whose answer was
  not yes, and the property excepts the host until a write whose answer is. Two that do
  lose an update: an exclusion that read before the policy's own exclusion of the
  volumes was written puts them back. The code holds no lock from read to write.

### The invariants

*Operation manager.* None of the five safety properties is inductive. That a command starts
only once needs to know that a worker before its start holds an operation nobody
else holds, that has not been started and was acknowledged (`HeldWellFormed`); that needs the
same of everything in a queue (`QueuesWellFormed`), which needs that each target
has one goroutine exactly when it is busy (`RunnersWellFormed`), that ids not yet
generated appear nowhere (`KnownIds`) and that workers carry what their program
point says (`WorkersWellFormed`). The converse, that whatever is live is in a
queue or held (`NothingStranded`), gives `LiveIsOwned`. The proof has one lemma
per action and part that the action can disturb.

*Records.* `RInv` relates memory, the record files and the targets. A settled file
is not contradicted by memory, and what is live has an unsettled file
(`FilesFollow`); as long as no save failed an unsettled file is a live operation's,
and without retention the files are what memory holds (`FilesAgree`). One lemma
says what any step may do to one record (`RecordsMove`), so that each action is
shown to be such a move once. `ReceiptsHonest` needs the target: the effect of a
held operation is what its target runs, since no other goroutine serves it
(`EffectsStand`). Keys: of two acknowledged operations of one key one starts after
the other's window, and the one in its window is what the index leads to
(`KeysLead`); with retention this is so for what is alone under its key
(`OnceLeads`), since what goes leads to nothing else. The budgets are inductive
with the fact that what is live is finite.

*The contract.* The mapping reads the queue of a target off its goroutine's job
and its queue, so a pop is a stutter. Each of the manager's actions gets the step
of the contract that it is, or a proof that nothing the contract speaks of changed.

*Alerting.* Two invariants. `QueueInv` is about the outbox: what is pending is in
the queue and, once written, in the journal; the worker's snapshot is the record's
unless it was superseded; a leg the journal knows as delivered is so in memory and
not owed. `ToldInv` is about what receivers know: the alerts of an operation that
were not handed over yet (`Left`) tell of the incidents as they are; without a
process end an announced incident was handed over as opened, and nothing was that
is not open, recovered or about to be (`ToldAsOpen`); while writes succeed no
opening is handed over twice (`OpensOnce`); and a queued recovery has superseded
what is pending of its incident and shares no batch with it (`RecoveryOvertakes`).

*Journal.* The window in memory rises with a marker at each jump (`WellMarked`),
and the file is at most one event ahead of it, the one a failed write still owes
(`NotAhead`). `loadEvents` restores the first from any file, whatever was lost of
it, since it marks what is missing between the events it finds. `EndsWith` is there
for the bound on sequences only: a marker of damage must have a number left.

*Backups.* Without an overlap one status is on its way at a time and it is not
behind what was recorded (`ReadsInOrder`). A write whose answer was yes leaves the
volumes on the list of what stays out (`WrittenIsOut`), and what an owner's request
read is what is there, since no other request came between. No storage key is about two servers,
none about one before it is minted (`KeysApart`), and for each stage of a setup
`KeysOf` says what may and may not be in use: a key whose push was not begun is
not, and what is deleted after a verified push is not.

*Event stream.* The cursors are in order: what was received was copied, what was
copied was appended, the channel is closed exactly when the operation has ended,
and the last copy reaches that end (`CursorsInOrder`).

*Restore tests.* A claim belongs to exactly one run past `ClaimRun`, and every
such run holds its own (`ClaimsHeld`). That a verdict is of its target needs no
strengthening beyond the types: the store compares both when it commits.

*Source deliveries.* The index is the ledger (`IndexIsLedger`), claims and relay
goroutines match one to one (`ClaimsMatch`), and a relay that only has its claim
to release has recorded or could not (`ReleasedIsRecorded`). A delivery that is
answered because it is in flight has, by these, a relay that will record it.

*Access.* Epochs are drawn from a counter that neither the file nor a failed save
is behind (`RowsDrawn`). What was revoked carries an epoch that neither a row in
memory nor one in the file has (`CarriersSound`), and no change gives it back,
because a change keeps a row's epoch or draws a new one.

*Fleet cache.* A refresh of the present generation has read, wherever it got an
answer, at least what the last invalidation was for (`RefreshIsCurrent`).

*Turning backups on.* What a turn adopted is covered on the server
(`AdoptedIsCovered`), and a plan that is not yet on record leaves out nothing any
turn adopted (`PlanIsKept`), nor is anything recorded as on that is not
(`OnIsOn`).

*Groups.* Only the process with the file lock has read the file, and nobody wrote
since (`LoadedIsFile`); each edit of a file with distinct names leaves one.

*Monitor runner.* A number names one configuration among all that are stored,
scheduled or on their way (`NumbersName`). While no two changes overlapped and none
failed, a monitor that is neither listed for `Start` nor being changed is scheduled
as its file says, and the one change under way has torn down what its program
point says (`StoreFollowed`). That incidents have schedulers needs only that push
tokens have (`PushIsScheduled`, `OpenIsWatched`).

*The other watchers.* Each invariant is its property and what a step under way may
already have changed: `KeysAreHeld` (what is set is on record or in the hands of
the one call that will record or unset it), `OpeningIsTold` (no usable channel, an
announcement due, or nothing left to tell), `HeldWithin` (how long each reason has
held the alert, and which came first), `ShownIsKnown` and `RetiredRests` (who
evidences the rule, in the midst of a sweep), `RowsAreOwn` and `TwoAreApart` (rows
of a sweep that probes are its own unless two sweeps have read the server),
`PingsAreExpected`. *Silences*: from the write that stored it until it expires or
somebody asks for its removal, a silence is in memory and in the file
(`StoredStay`); what a client was told of covers nothing open but what a restart
brought back (`CoveredIsQuiet`).

*The sums.* Every behaviour of `Services` is one of each of its components, since
a step of another one leaves its variables alone (`EachServes`), and the same for
`Watching` (`EachWatches`); their properties follow from those of the components.

### Lists and recursion

Filters of lists are recursive functions (`Filtering`). What they compute for
every input is proved from the fact that a nonempty set of numbers has a least
element: were there a shortest prefix for which it is wrong, the loop's next step
would be (`LeastNumber`, `FilterExists`). That every finite set of events can be
put in order, and that every set of alerts can be listed, is proved the same way.

### Model-checked only

`LiveEventuallySettles` and `ReconciliationEnds` in `op_live`: liveness under
fairness, and `ENABLED`, are out of the prover's reach. `ResumedReplayIsHonest`, for
the bounds of `services`. What the three violations
show is TLC's as well.

## 5. What is left

In this order:

| What | Why not yet |
|---|---|
| `KeysResolve` after a failed save | needs an order between the acknowledged record of a key and the visible leftovers of failed admissions |
| a proof of `ResumedReplayIsHonest` | needs that the window loses no event between two of its own that the journal still has |
| `NoSilentHole` for a file that is compacted before the window is | false as it stands, see above; the weakest condition on the two bounds is not known |
| the order of shutdown in `main.go` | one deadline over all components; "no in-flight handler or worker can touch a closed store" ends with the timeout of a join |
| `McpTokens` | copy, save and publish under one lock; little can interleave |
| an abstract ledger of alerts that `Outbox` implements | each alert delivered to each leg at least once or given up |

Not modelled, and why:

* Rendering, decoding and HTTP: the page handlers, templates, alert formats, the
  frontend. They keep no state; what a handler changes is an action of the
  component it changes.
* Transport: `internal/cli`, `internal/ssh`, `internal/remote`, `internal/b2`,
  `internal/s3probe`. Their answers and failures are inputs.
* Pure decisions: the command builder, capability lookups, configuration keys,
  which addresses a probe may dial. A test reaches them better.
* Parts of modelled components: the migration of the old account file, the
  lockout after wrong passwords, the state of an OIDC sign-in between its two
  redirects, last-used times of MCP tokens, rate limits of the push endpoint,
  suggestions of groups, edits of the server registry, retention of check
  history, and how damaged files are set aside.
