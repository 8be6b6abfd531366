# agentkeeper: a verification project

TLA+ models of agentkeeper's stateful core, checked with TLC on small instances
and, most of them, proved with TLAPS for every instance. The models are
translated from the TypeScript under `src/`; `PROJECT.json` maps every
definition to its lines.

To check one run: `tlc -config X.cfg Module`; to check the proofs:
`tlapm X.tla` with X one of the eight modules `...Proofs` of section 6.

## 1. Inventory

| Part | State it keeps | Operations | Interacts with |
|---|---|---|---|
| File transaction (`ExecuteInstallationPlan.ts`) | `attempted[]`, the files it touches | `execute(plan)` | files, shared with the user's editor |
| Planner (`ManagedInstallation.ts`, `ProtectionInstallation.ts`) | none; reads manifest, backups, Git state copies, hooksPath, service, announced version | `plan(op)`, `health()` | the command and `doctor` |
| Protection executor (`ExecuteProtectionInstallation.ts`, service controllers, Git controller) | `attempted[]`, `degraded[]` | `execute(plan)` | file transaction, `git config --global`, launchd / systemd / Task Scheduler |
| Installation command (`InstallationCommand.ts`) | `controlPlaneBefore` | activate, repair, deactivate, `--purge`, `--dry-run` | planner, executor, prompt, baseline |
| Notification budget (`NotificationPolicy.ts`) | window, counter, map of recent keys | `claim(key, at)` | persistence monitor |
| Scheduler (`SingleFlightScheduler.ts`) | `dirty`, `inFlight` | `request()`, `drain()` | daemon callback and timer, watch refresh |
| Persistence monitor (`MonitorPersistence.ts`, `BaselineCollector.ts`) | baseline, decisions, incidents on disk; one pass in memory | `execute()` | stores, rules, notifier |
| Daemon (`DaemonCommand.ts`) | debounce timer, watch session, announced version | start, watch callback, shutdown, upgrade check | scheduler, watch service, service manager |
| Watch service (`NodeWatchService.ts`) | registrations, issues, `closed` | `start`, `refreshCoverage`, `close` | daemon |
| Stores and audit log (`stores.ts`, `JsonDocument.ts`, ...) | JSON documents, log segments | load, save; append, roll over, prune, read | every process of agentkeeper |
| Destination broker (`NodeDestinationBroker.ts`, `DestinationGuard.ts`) | connections, timers | accept, resolve, connect, close | sandboxed processes |
| Policy and grants (`domain/paths`, `domain/policy`, `Grant.ts`, `GrantAccess.ts`) | `allowlist.json` | allow, revoke, build a policy | sandbox launch |
| Sandbox back ends (`SeatbeltProfileCompiler.ts`, `BubblewrapArgumentBuilder.ts`, `WindowsPolicyTranslator.ts`, runners) | one confined process tree | translate a policy, report gaps, run | launch, canary |
| Sandbox launch (`RunSandboxed.ts`) | one run | gate, start the broker, spawn, clean up | runners, broker |
| Assessment (`DoctorCommand.ts`, `AssessProtection.ts`, `NodeSandboxProbe.ts`, `NodeNetworkProbe.ts`) | canary processes, directories, sockets | probe, assess, report | runners, broker, installation health, `daemon.json` |
| Scan and review (`ScanCommand.ts`, `ScanWorkspace.ts`, `ReviewFindings.ts`) | `decisions.json`: answers and drift hashes | scan, ask, record | rules, stores, other scans |
| Tool-call hook (`HookCommand.ts`, `EvaluateToolCall.ts`) | none | judge one call | rules, configuration, stores |
| Rules (`domain/rules`) | none | match artifacts and tool calls | scan, hook |

What is hard in this system:

* every read, write, `git` and service-manager call is an `await`: the user, an
  editor, a package manager or the resident act in between;
* an installation spans files, a Git setting and a service, none of which can be
  changed atomically with another, and nothing is journalled;
* `activate` starts a resident process that writes a file the command has still
  to write;
* the resident must neither lose a file event, nor trust what nobody vouched
  for, nor flood the user, across its own death and restart;
* every store is loaded and saved whole by several processes without a lock;
* a policy is one thing and what Seatbelt, bubblewrap or an AppContainer make of
  it another;
* `doctor` asks processes that may hang, lie or outlive it;
* the broker's timers, look-ups, dials and peers race each other and `close()`,
  and an `error` event nobody listens to ends the launcher.

What makes each part correct is stated by the properties of section 4;
`PROJECT.json` lists the hazards behind them, with those no property covers yet.

## 2. Modules

| Module | Models | Uses |
|---|---|---|
| `FileTransaction` | `TransactionalInstallationExecutor` | |
| `InstallationPlanner` | both planners, as operators on a snapshot | |
| `ProtectionLifecycle` | command, executor, controllers and their environment | EXTENDS `InstallationPlanner`; `Files == INSTANCE FileTransaction` over the same `fs` |
| `NotificationBudget` | `NotificationBudget` and the clock | |
| `PersistenceMonitor` | daemon, scheduler, monitor, stores, the end of `activate` | `Budget == INSTANCE NotificationBudget` |
| `WatchSession` | `ActiveNodeWatchSession`, its refresh scheduler and a changing file system | |
| `DestinationBroker` | `NodeDestinationBroker`, `DestinationGuard`, peers and destinations | |
| `SandboxRun` | `RunSandboxed.execute()` | EXTENDS `DestinationBroker` |
| `SensitivePaths` | patterns, the registry, tiers | |
| `SandboxPolicy` | `PolicyBuilder`, `SandboxPolicy` and the three back ends | EXTENDS `SensitivePaths` |
| `Grants` | allowlist, its commands, the user's editor, launches | EXTENDS `SandboxPolicy` |
| `Rules` | artifact and tool-call rules, `ScanEngine`, `ScanReport` | |
| `WorkspaceScan` | scan, review and the decision store | EXTENDS `Rules` |
| `ToolCallHook` | `HookCommand`, `EvaluateToolCall` | EXTENDS `Rules` |
| `AuditLog` | `JsonlAuditLog`, as several processes use one archive | |
| `SandboxProbe` | `NodeSandboxProbe`, the runners and the confined processes | |
| `NetworkProbe` | `NodeNetworkProbe` against any broker | |
| `Assessment` | `AssessProtection`, `ProtectionStatus`, `doctor` | EXTENDS `SandboxProbe`, `NetworkProbe` |
| `...Proofs` | theorems about `FileTransaction`, `ProtectionLifecycle`, `NotificationBudget` and `WatchSession` (both in `AlertingProofs`), `PersistenceMonitor`, `SandboxRun`, `WorkspaceScan` (and `ToolCallHook`), `AuditLog`, `Assessment` | EXTEND their module and TLAPS |
| `MC...` | small instances | EXTEND what they instantiate; `MCStateFiles` and `MCAlerting` put parts that share no state into behaviours of their own (`part`), so that each runs as if alone |

Operators named as mutants in a comment are deliberate bugs; no specification
uses them. They show that a property can fail.

Every module with state has a type invariant, `TypeOK` (`AuditTypeOK`,
`GrantsTypeOK` and `SessionTypeOK` where modules are extended together). The
configuration of `sandbox_run` lists it, because there it also says that the limit
bounds the clients; it holds of the other runs too, whose configurations spend
their properties on more than types.

**FileTransaction.** `pc`, `cursor`, `attempted` and `rollbackErrors` are the
control state of `execute()`; `attempted` is a number because `attempted[]` is
always a prefix of the plan. There is one action per await. `Edit` is anybody
else writing a file, `Crash` the process dying. `world` (how the outside last
left each path before the executor claimed it) and `raced` (paths edited after
the second check, where no user-space executor can do better) are history
variables. `NodeFileSystem.write` renames a finished temporary file, so a write
happens or does not; a remove may take effect and still report failure, as the
code's own comment says.

**InstallationPlanner.** A checksum stands for the content it was taken from.
The shell init file and the shims are one artifact, the three Git hooks another;
`"extra"` is an artifact that only a later release generates. A merged shared
file is a record holding the user's part, so restoring it byte for byte can be
told from losing it. `Kept` is the `filter` of the planners, written by rank
rather than by recursion so that it can be reasoned about. Gates that only refuse
(`configurationConflicts`, duplicates, file modes) are left out, as are the
sandbox canary and the profile lookup that precede planning.

**ProtectionLifecycle.** `cmd` is the command in progress: its stage, the plan
made before the prompt, the index of the transition in hand, and what
`finishActivation` must put back. `git` and `svc` are `core.hooksPath` and the
service as `inspect()` reports it. `resident` is the build that the process the
service last started runs, `watcher` the version in `daemon.json`: the resident
writes it once its watch session has started and its first comparison is done
(`Announce`), for which no controller waits, so it comes at any time after the
start, or never. A resident that sees an upgrade restarts itself (`HandOver`, the
upgrade monitor). A Git call that fails may or may not have taken effect; a service
call that fails may leave the service in any state. Two simplifications: the
planner's parallel reads are one step (everything planned is verified again before
use), and so are the parallel reads of `verifyExternalPreconditions`. The
environment edits shared files and the hooksPath, damages managed files, stops the
service, upgrades the package and kills the command. What of this a run has is the
set `Events`; without `"announce"`, where there is only one build anyway, nothing
is ever announced. The audit entry written after a success is left out.

**NotificationBudget.** Grants are numbered, so the insertion-ordered map is a
set of numbers. The clock moves to any later instant of `Time` and may be set
back, once and for all recorded in `stepped`.

**PersistenceMonitor.** `pass` holds the locals of `execute()`; hashing every
file and loading the stores happen in any order, the content of changed files is
read again afterwards, as in the code. A hash stands for its content. `Loud`
files are those of which any change is a finding, `Quiet` files those judged by
content (`GitConfigRule`, the npmrc rule). `scenario` is what may happen to the
watcher and how often, chosen once. `now` is the clock as the pass in
flight read it. `Decide` is `DecisionStore.record` applied to an incident: at
this commit no command records decisions on persistence incidents, but the
monitor reads them. A rejected notification leaves the budget spent, as in the
code. An open watch session is taken to report every edit. The three stores a
pass loads are read in one step.

**WatchSession.** `run` holds the progress of `initialise()` and of
`refreshCoverage()`, which may overlap: a handle's events are delivered as soon
as it is registered. What an `lstat` or `readdir` answered decides the stage, the
next step acts on it, so the tree may change in between. A handle is a record of
the directory, its inode (`made`) and a serial number: a directory that is
removed and made again has another inode and its old handle hears nothing. A
handle reports names that come and go in its directory and, as on Linux, its own
end. `issues` is the set behind the verdict. `change` events only call
`onChange` and are left out, file types are fixed, and subdirectories are visited
in any order. `unseen` and `late` are history: a target that changed where no
handle could report it, and a `close()` that found a refresh in flight.

**DestinationBroker.** A connection is a record: how far `onData` is (`stage`),
its two sockets, whether the client is in `sockets` (an open upstream always
is), and what was asked and answered. An address is `public`, `private` or
`loopback`, as `isPublicAddress` and `isLoopbackAddress` sort them; a host either
matches an explicit rule, or is a name of the loopback interface, or neither. A
malformed, overlong or non-CONNECT header is one outcome of `ReadHeader`. Timers
are actions that may fire at any time. A socket is `ended` after `end()` and
`closed` once both directions are. From Node come three facts the code depends
on: `server.maxConnections` drops a client before the handler sees it,
`server.close()` calls back when the last client is gone, and writing to an ended
socket emits `error`, which ends the process when nobody listens (`Dies`; the
listeners are only added with the tunnel). `late` is history: `close()` found
this connection being set up. Bytes through the tunnel and the relay inside the
sandbox are left out.

**SandboxRun.** `launch` is how far `execute()` is. Every gate (context, back
end, policy, broker, enforceable gaps, audit) may refuse or throw, `close()` and
the removal of the scratch directory included; peers connect while the command
runs. `makeTemporaryDirectory` succeeds or leaves nothing.

**SensitivePaths.** A path is the sequence of its segments and a pattern a
sequence of literals, `**` and names with a star; `matchSegments` is a recursive
function over both. The table holds the rows of `registry.ts`, group by group;
`Compiled` takes a row to the paths of the instance it matches and to its
literal prefix, which is all the rest of the code asks of it.

**SandboxPolicy.** `Build` is `PolicyBuilder.build`: reads, writes, refusals,
overrides and the references of run-time grants, in the code's order. A Seatbelt
profile is a sequence of rules and a bubblewrap command line one of mounts; in
both the last match decides, which is what the code relies on and the model takes
from it. Windows grants whole references and denies the objects that a scan finds.
`...Reach` is the set of paths a back end lets through, `...Gaps` what it reports
as beyond it. Network rules are left out: any of them is a gap on Windows, and on
the others they are the broker's.

**Grants.** A command loads the file in one step and saves it in another.
`typed` remembers every entry that came from the user's editor. A launch keeps
what the policy promised and what the back end lets through; in an unsafe
workspace, or with gaps, nothing runs. `Forge` is the confined agent writing the
allowlist, if it can.

**Rules.** A content is the set of traits its rules look for, a tool call has
classes of paths and shell words; what a rule says of them is a table with the
rule's disposition, severity and id, taken from the rules. How text is matched is
left out.

**WorkspaceScan.** A scan is a record: its snapshot of `decisions.json`, what it
read, what is left to ask. `recordMany` is a load and a save, so that two scans
interleave between them. Edits, vanished and oversized files and an abort come
from outside. `approved` and `once` are history: what the user answered.

**ToolCallHook.** One call, with every failure the hook can meet before and
after the rules have judged it.

**AuditLog.** A process has its open segment; appending prepares, maintains,
lists, decides, claims and unlinks step by step. The archive is a set of named
segments, so that a rename under another process's listing makes a name dangle as
it does on disk. Sizes are numbers of entries, time is in days. `evicted`, `due`
and `moved` are history.

**SandboxProbe**, **NetworkProbe**, **Assessment.** `world` is the machine: its
platform, its mechanism, what the confined process really can read, the gaps and
whether the policy asks for egress; `broker` says which destinations the broker
really refuses. The canary, its child, the runner and the two deadlines are
processes of their own. The egress canary makes, uses and gives back two
directories, two brokers and a sink, one step per await: `net.open` is what it has
open, and every release in a `catch` or `finally` may itself reject, which skips
the rest of its block (`net.failed`). `doctor` runs the canaries, builds the status
and exits.

## 3. Bounds

* `StateFiles.cfg`, three parts. File transaction: three paths, two contents, a
  three-change activation (write over, create, create last) and its inverse
  (removals), every fault; all positions of the commit point and all rollback
  depths occur. Audit log: a daemon that appends four times, a command that appends
  twice and reads, segments of two entries, a total of three, two segments, a
  retention of one day and three days: rollover (also between another process's
  listing and its `stat`), expiry, eviction for either limit and a legacy file
  happen at once. Allowlist: each platform; two commands at once; five requests (a
  tree, a directory named as a file, the workspace's own `.env`, a file of the
  agent's state, a credential), two entries the user may type (a credential, the
  state directory itself), three workspaces of which one is the home, and a file of
  at most two entries; seventeen paths, at least one for every way a rule can go.
* `PolicyMirrored.cfg`: the allowlist part alone.
* `LifecycleFaults.cfg`: fresh machine, two commands, every file, Git and service
  fault at every call; no environment. Two commands reach repair and
  deactivation after every outcome of an activation, and the undo of a failed
  one.
* `LifecycleRaces.cfg`: two events out of an edit of a shared file, a changed
  hooksPath, damage to a Git state copy, hook or manifest, a stopped service, an
  upgrade and a crash, at any step of three commands, with and without files and
  hooksPath at the start, and besides them any number of announcements and
  hand-overs; no failing calls. One event is enough to fall between
  any check and its use, two to combine an upgrade with damage or a race, and
  three commands reach activate, repair and deactivate around them.
* `RepairReconciles.cfg`: two commands and an upgrade.
* `Alerting.cfg`, two parts. Notification budget: three keys, a memory of fewer, a
  limit and a window small enough that eviction, expiry and window reset all
  happen. Watch session: a home with the tree `~/.config/autostart/<sub>`, the
  directory `~/.claude` and the file `~/.zshrc` as targets, a limit of three
  directories (one less than all of them), two changes of the tree and one failure
  of a call or of an open handle. Two changes remove a directory and bring it back,
  or move one event into a refresh that another one started. Changes after
  `close()` are not considered.
* `Monitor.cfg`: one loud and one quiet file and two contents, in two scenarios.
  In one the watcher's first passes run while `activate` records the baseline,
  with failing stores, a pause, an edit, a crash and a clock that moves. In the
  other there are two edits, a decision and a crash: enough for an edit between
  the two reads and for one content in two files.
* `SandboxRun.cfg`, `RunRemoved.cfg`: two connections and a limit of one, so that each turns the
  other away, before and behind the handler; a host of each kind; answers that
  are empty, pure and mixed. Connections only meet in the limit and in `close()`,
  where two are enough.
* `WorkspaceScan.cfg`, `RefusalSurvives.cfg`: an interactive scan and one of the
  git hook, the settings and the instruction file, a harmless content, one that
  raises a question and a refusal and one that only changes the instructions;
  one edit, which may also remove a file or make it too large. The hook judges
  one of nine calls in behaviours of its own: it reads no record a scan writes.
* `Assessment.cfg`: every back end with every subset of the reads, with and
  without gaps and egress, two machines without a back end, every broker.

Deadlock checking is off where the system really stops: after the bounded number
of commands, edits or plans there is nothing left to do.

## 4. What the runs show

| Run | Property | Meaning |
|---|---|---|
| `state_files` | `CommitIsWhole` | success means every change is in place against the bytes it was planned for |
| | `FailureLeavesNothing` | failure leaves every path as the outside last left it |
| | `LastChangeCommits` | the manifest never vouches for missing files, even after a crash |
| | `UnseenBytesKept` | no step overwrites bytes the executor has not compared |
| | `EvidenceKept` | an acknowledged entry is in the archive until its segment is evicted |
| | `ActiveEvidenceSafe` | nobody evicts the open segment of a living process, however old the listing it acts on |
| | `CapacityBound` | the limits hold up to one segment's entries and one file for every process but one, which is what a check without a lock costs |
| | `ReadOmitsOnlyMoved` | a read omits only what was evicted or renamed while it went on |
| | `TierTwoIsTyped` | a tier 2 path is only opened by an entry the user typed, whatever commands and confined agents wrote |
| | `NeverGrantsMore` | what a back end lets through is what the policy allows, up to the surface it has by construction and one named gap, a directory granted as a file (`BoundWhole`) |
| | `GrantTakesEffect` | a grant that was reported is honoured by the next launch in its workspace, unless a refusal of a wider anchor hides the path (`Overshadowed`) |
| `lifecycle_faults` | `ManifestIsTruth` | between commands: no manifest, machine untouched; manifest, everything recorded is in place |
| | `CommandEnds` | a confirmed command ends |
| `lifecycle_races` | `UserBytesSurvive` | the user's part of a shared file is never lost |
| | `HooksPathRecoverable` | while Git runs managed hooks, the value to go back to is on disk |
| | `NoDangling` | neither Git nor the service manager points at a missing file; a killed `activate` may leave files without a manifest, never a pointer to nothing |
| | `SuccessStands` | reported success is a standing protection with a resident of the installed build, or says degraded; excused are what was changed from outside since the plan was made and an old resident that had announced nothing by then |
| `alerting` | `NoEarlyRepeat` | no repeat within the cooldown unless the memory was exhausted |
| | `BurstIsBounded` | 2 * MaxPerWindow consecutive grants span a window |
| | `RefusalsAreEarned` | a refusal has a recent grant or a full window behind it |
| | `NothingLeaks` | the open handles are the registered ones, so `close()` gives all of them back, and they are never more than the limit |
| | `CoverageSettles` | once the tree is quiet every target is watched as it is, or an issue says why not |
| | `NoFalseGreen` | `protected` is not claimed for a target that is not watched |
| `monitor_live` | `TrustIsEarned` | the baseline holds only what somebody vouched for or no rule objects to |
| | `FinalStateObserved` | once changes cease every file is trusted or reported, and no report is left over |
| `sandbox_run` | `TypeOK` | types; the limit bounds the clients |
| | `EgressIsVetted` | nothing is dialled but the first address of an answer that suits its rule as a whole |
| | `FailClosed` | the command only runs with its scratch directory and the broker its policy needs |
| | `NothingIsLeft` | when `execute()` is over the broker, its clients and the scratch directory are gone (unless the caller was told that it cannot be removed); what is left are upstreams that were being set up when `close()` came or had been given up |
| | `HandshakesEnd` | a client gets its tunnel or an answer and its look-up and dial end, whatever peer, resolver and destination do; that a peer which was answered gives its slot back is not promised |
| | `RunEnds` | after the command has ended the run ends too, unless a peer that was told 503 never hangs up |
| `workspace_scan` | `ApprovalIsTheUsers` | a content is allowed only if somebody answered allow-forever to a finding about it, however stale the document a scan writes back |
| | `NothingHidden` | a finished scan reports every finding of what it read, but for the user's own answers |
| | `NoSilentDrift` | a scan that replaces the recorded hash of an instruction file reports the change |
| | `RefusalHolds` | once the rules have judged a call, no later failure turns a refusal into consent |
| `assessment` | `ProtectedIsProven` | exit code 0 means that the boundary was observed to hold, in every respect the policy asks for |
| | `StatusIsConsistent` | the guard of `ProtectionStatus.create` never fires |
| | `NothingLeft` | a canary that answered has given back its directories, brokers and sockets; one that rejected because a release failed has left what that release and its block held, and never a broker |
| | `DoctorEnds` | `doctor` ends, even if the canary never does |
| | `CanaryReclaimed` | no confined process outlives it for ever |

Four runs are expected to fail, because a comment or a document says more than the
code does. What does hold is the property named last.

* `refusal_survives`: `allow-forever`, given to a question, is stored under the
  hash of the file's content (`Finding.ts:53-58`), and `applyDecisions`
  (`ScanWorkspace.ts:128`) drops every finding with that hash, a refusal by
  another rule included. `NothingHidden`.
* `repair_reconciles`: after an upgrade `activate` refuses and names `repair` as
  the remedy, and the comments of `validateManifest` (`ManagedInstallation.ts:552`,
  565, 598, 613) say that repair reconciles. It succeeds, restarts the resident and
  leaves hooks, manifest and configuration checksum as they were; `activate` goes on
  refusing. `SuccessStands`, which is about what the manifest records and `health()`
  compares.
* `policy_mirrored`: `docs/policy.md:99` says that `allows` mirrors the generated
  profiles. A grant that names a directory as a file covers only that path in the
  policy, bubblewrap binds the directory whole, a tier 2 `.env` below it included,
  and `unenforceable()` reports nothing: this is what TLC shows. The property fails
  the other way round as well: the literal prefix of `~/.claude/settings*.json` is
  `~/.claude`, so Seatbelt refuses writing there and bubblewrap shadows it as a
  whole, although `SandboxPolicy.allows` calls the rest writable and a grant on it
  is reported. `NeverGrantsMore` and `GrantTakesEffect`, which name the two cases.
* `run_removed`: `RunSandboxed.ts:210-211` says that the scratch directory is
  removed on every exit path, `NodeDestinationBroker.ts:222-224` that `close()`
  leaves no live sockets. A peer that breaks off before its tunnel stands ends the
  launcher with an unhandled `error`, and the `finally` block does not run: this is
  what TLC shows. And an upstream that is being dialled when `close()` comes opens
  afterwards and keeps the process until the idle timeout. `NothingIsLeft`.

Elsewhere, where the code does less than one would wish, a property states what it
does do, and says so. From the lifecycle, the monitor and the watch service:

* `watcherIsStale` leaves a resident alone that has announced nothing. One that is
  still starting up on the old build when an upgrade comes is not restarted by
  `activate` or `repair`; it restarts itself once its upgrade monitor runs
  (`SuccessStands` excuses it);
* the compare-and-swap refuses a hooksPath the user just changed, and the
  rollback then overwrites it (`contested`, excused by `HooksPathRecoverable`);
* hash and judged content come from two reads, so a file that changes in between
  can be trusted with a harmful hash (`torn`, excused by `TrustIsEarned`);
* a refresh keeps a registration whose path is a directory, so one that was
  removed and made again in the meantime keeps a handle on the deleted directory.
  Nothing inside the new one is reported, and no issue is recorded (`Stale`,
  excused by `CoverageSettles` and `NoFalseGreen`).

`NothingLeaks` excuses two cases in which the code does lose a handle: a
`close()` in the middle of a refresh, which goes on registering in the closed
session, and a handle that fails while `initialise()` and a refresh overlap,
whose error handler may delete the registration of a newer one. No statement of
the repository speaks of them.

In the installing scenario of `monitor_live` there is one more loss, on the safe
side: the first pass of the watcher that `activate` started can save a baseline
computed from an empty one over the snapshot `activate` just recorded. Files are
then missing from the baseline and reported as created; none is trusted.

Of the broker (`sandbox_run`): besides a peer that breaks off, a second answer to a
client that was already answered and has hung up (a 408, then the 502 of a look-up
that ran into the same timeout) ends the launcher as well; the liveness properties
stop there. A dial that succeeds after `withTimeout` gave it up belongs to nobody
and has no timer. A client that was answered is only `end()`ed and its one timer is
spent, so a peer that keeps its side open keeps its slot until `close()`; one that
was told 503 is in no list, and `server.close()` waits for it. Not visible in the
model, because bytes through the tunnel are left out: `setTimeout` at
`NodeDestinationBroker.ts:227` adds a listener and leaves the one of the handshake
in place, so an idle tunnel is sent a 408 before it is cut.

Of the policy, the back ends and the grants (`state_files`):

* on Windows any network rule is a gap, and the objects to deny are those that
  existed when the scan ran;
* a grant's id does not hold its origin, so `allow` replaces an entry the user
  wrote by hand; and of two commands at once the later save wins, which can lose
  a grant or bring back a revoked one. `TierTwoIsTyped` holds in spite of it.

Of `doctor` and its canaries (`assessment`):

* exit code 0 does not depend on the watcher;
* a failing `realpath` in front of the runner's `try`, and a failing write of the
  Seatbelt profile, leave a temporary directory (`NothingLeft` excuses it);
* a `finally` block of the egress canary stops at its first failing release: if
  `close()` of the session rejects, the sink is not closed and the directory not
  removed (`NothingLeft` says exactly what stays);
* a kill does not reach the child of a Seatbelt canary (`CanaryReclaimed`);
* the Windows helper's timeout is only recognised by its message, and any other
  wording is reported as a launch failure;
* the destination that stands for an arbitrary one is a `.invalid` name, so a
  resolver that fails and a broker that refuses look alike.

Of scanning and the hook (`workspace_scan`):

* a scan that is killed after it saved the new hash of an instruction file and
  before it reported the change has swallowed it: `NoSilentDrift` speaks of what
  the scan is about to report;
* `EndpointOverrideRule` names files that the scan never reads;
* the hook's timer on standard input lets a call through that came in too slowly,
  in strict mode too: `RefusalHolds` starts once the rules have seen the call.

## 5. Fairness

* `ProtectionLifecycle`: weak fairness of the executor's next
  step. Every await is a file operation or a child process that ends or times
  out. Nothing is assumed of the user (the prompt may stay open for ever), the
  environment or the success of a call.
* `PersistenceMonitor`: weak fairness of delivering a queued event, firing an
  armed timer, starting the watcher (the service manager restarts it) and the
  next step of a pass: Node's event loop runs whatever is due. A pass that throws
  is not retried by the code until the next event, so `FinalStateObserved` is
  about the scenario without failing stores.
* `WatchSession` (`SessionFairness`): weak fairness of the next step of
  `initialise()` and of a refresh, of the settling timer and of event delivery,
  again the event loop. Nothing is assumed of the file system or of `close()`.
* `SandboxRun`: weak fairness of `execute()` but for the command itself, of the
  handshake timer and of the timeouts on look-up and dial. Nothing is assumed of
  peers, answered or not, of the resolver or of destinations. `RunEnds` has one
  hypothesis about peers in the property itself, `[]<>(Untracked = {})`: those told
  503 hang up at some time, because `server.close()` waits for them and nothing
  else ends them.
* `Assessment`: weak fairness of `doctor`'s own steps, of those of the two probes
  and of the runner, of both deadlines and of the death of a process that was
  killed. Nothing is assumed of a canary or its child that was not.

The other specifications have no fairness: their properties are about what may
not happen.

## 6. What is proved

The eight proof modules follow one pattern: an inductive invariant `IInv`, also
checked by TLC while it was found; `Init => IInv`; lemmas that a
step preserves it; and the properties as its consequences, for every value of
the constants. That several modules assume of `None` or `Null` that it is
different from some string says no more than that "nothing" is no answer.

* `FileTransactionProofs` (assumptions: `Null` is no content, plans are finite
  sequences of changes to distinct paths, faults are from the named set). The
  properties only speak of the end of `execute()`, so they are not inductive.
  `ControlInv` relates `pc`, `cursor` and `attempted`, `ClaimInv` says which
  paths still are as the outside left them, and `DiskInv` says for every
  attempted change whether its path holds `before` or `after` at every point of
  the loop, of the rollback and after a crash. From these follow `TypeCorrect`,
  `CommitTheorem`, `RollbackTheorem`, `CommitPointTheorem` and the action
  property `OverwriteTheorem`.
* `AlertingProofs`, first part (assumptions: positive limits, as
  `NotificationPolicy.create` enforces, and instants that are numbers).
  `OrderInv`: grants are in order of time. `WindowInv`: the last `sentInWindow`
  grants are those of the current window and a full window's worth before them
  is older. `MemoryInv`: a grant within the cooldown is still remembered or has
  `RecentBound` later grants. From these follow `NoRepeatTheorem`,
  `BurstTheorem`, `RefusalTheorem` and `TypeCorrect`. All but the last hold until
  the wall clock is set back.
* `AlertingProofs`, second part, on `WatchSession` (assumptions `Tree` and
  `WatchAssumption`: every name has a parent above it, targets are a finite
  sequence, the limit is a number, `None` is no record and no verdict). That the
  open handles are the registered ones is not inductive: `refreshCoverage()` takes
  a copy of the registrations and closes handles from it many steps later. `SInv`
  adds `SessionStages` (a refresh that runs on after `close()` makes the session
  `late`, and nothing else does) and, in `NoHandleLost`, that a handle the refresh
  still has to check is registered under its own directory with the same serial
  number, although `initialise()` registers beside it. From these `SessionTyped`
  and `HandlesAreNotLost`.
* `SandboxRunProofs` (assumptions: finitely many connections, rules about known
  hosts, answers that are sequences of addresses, a positive limit, as
  `positiveInteger` enforces). `LaunchInv`: where `execute()` is decides whether
  there is a session and a scratch directory. `ConnInv`: what a connection's stage
  says of its two sockets, that an upstream only exists for a vetted answer, that
  after `close()` no tracked client is connected and whatever is still being set
  up is marked `late`. `NothingIsLeft` speaks of the last state only, so it needs
  both. There is one lemma per group of actions; `FewerClients` and `ConnectStep`
  carry the counting argument for the limit. From these follow `TypeCorrect`,
  `EgressTheorem`, `FailClosedTheorem` and `NothingLeftTheorem`, of an `execute()`
  that is over.
* `ProtectionLifecycleProofs` (assumptions: `Null` is no content and neither is a
  merge, nor what agentkeeper writes itself, the manifest included; the user's
  contents are not those agentkeeper writes; agentkeeper's own hooks directory is
  none of the user's `hooksPath`s; only artifacts can be damaged).
  `UserBytesSurvive` compares a file with what the user last wrote, and the
  executor writes what a plan made some time ago holds; so `PlanOK` says of every
  change of every plan that it leaves the user's part as it is
  (`ChangeOK`), `ClaimOK` that the changes already attempted were compared with
  what the user last wrote, and `CursorOK` that the executor only acts on such
  changes. That the planners make such plans, their inverse included, are lemmas
  about `InstallationPlanner` (`FirstActivationOK`, `InstalledOK`,
  `DeactivationOK`, `FilePlanOK`, `ProtectionPlanOK`, `PlanInverse`); they rest on
  lemmas about filtered and reversed sequences. It follows that
  `TheUsersBytesSurvive` every fault, crash, edit and damage, any number of times
  and in any order, and any number of commands.

  `NothingDangles` needs a second invariant, `PInv`, because a pointer is set (or
  taken back) several stages after, or before, the file it names is written (or
  removed), and every stage can fail or be cut off. `RecordsOK`: every copy of the
  manifest, on disk or in a plan, is a record whose entries are the artifacts'
  own, and the plan's external transitions are well-formed. `StageOK`: what each
  stage of the executor knows of its plan and its position in it. `PointerOK`: for
  each file that Git or the service manager relies on (`Targets`: the hooks, the
  record of the former `hooksPath`, the descriptor, and for both of them the
  manifest, without which deactivation would not know of them), while installing the pointer
  is not set before the file is there, and while deactivating the file is not
  removed before the pointer is back, in every stage, the rollback and the inverse
  plan included.
  What the planner gives is in `FirstActivationFacts`, `InstalledFacts`,
  `DeactivationFacts` and, for the composed plan, `ProtectionPlanFacts`; the files
  of a plan are followed change by change in `InstallingFiles` and
  `RemovingFiles`. There is one lemma per step of the executor (`Pointers...`).

  `TheHooksPathIsRecoverable` needs a third, `HInv`: there is one `hooksPath` that
  every copy of the Git state, on disk and in the plans, and every transition of
  the plan tells (`Told`), and it is the user's own as soon as Git is on the
  managed hooks or the executor has claimed the transition (`Meant`). The two do
  not coincide before: a plan made before the user sets another `hooksPath` tells
  the old one, and it is the check just before the transition (`HooksClaimed`)
  that makes sure it is not carried out. That some copy is there at all is
  `PointerOK` for the record.

  `TheManifestIsTruth` needs a fourth, `MInv`, because the property only speaks of
  the time between commands and every file in it is written by a plan that was
  made earlier. `Wants` is what a manifest says a file holds, and `Fits` that the
  file holds it, or nothing if the manifest says nothing; of a shared file, which
  the user may edit at any time, it only says that the managed block is in no file
  the manifest does not name. A plan `Leads` from manifest m to manifest n if each
  of its changes takes a file from what fits m to what fits n and the files it
  leaves out are the same to both. The planners only make such plans
  (`FirstLeads`; `InstalledLeads`, where m = n and a repair touches nothing but
  damaged files; `DeactivationLeads`, where n is no manifest), and the inverse of
  one leads back (`LeadsBack`). `Passing` follows a single file through the
  transaction, change by change and back again (`PassingStep`), and `Along` says
  for each stage of a command which of the two manifests the files fit. There is
  one lemma per step (`Truth...`); nothing is promised any more once a command
  died, a rollback step failed or the manifest was damaged (`Lost`). At rest, the
  user's bytes come from the first invariant, core.hooksPath and the service from
  the second and the third.
* `PersistenceMonitorProofs` (assumptions: contents, files and the names of stores
  are different things, files initially hold contents). What a pass will save was
  hashed and judged steps before, so `Ready` follows the locals of `execute()`:
  until it is torn, a hashed file still is as hashed (`Collected`), one read again
  is as hashed when it was read (`Compared`), what the pass means to trust no rule
  objects to (`Judged`), and the decisions it loaded are ones the user made
  (`Approved`). `Earned` is the same of the stored baseline. From these
  `NoTrustByObservation`, and the types in `WatcherIsWellFormed`.
* `WorkspaceScanProofs` (assumption: `None` is not one of the answers). Every copy
  of `decisions.json`, on disk or in a scan's hands, holds only answers that were
  given, and what is left to ask is what the scan found: `ApprovalsAreTheUsers`,
  `ReportsAreComplete`, `DriftIsReported` (for a configuration in which the drift
  rule is not disabled) and, for the hook, `RefusalsHold`.
* `AuditLogProofs` (assumptions: positive limits, a segment fits into the total).
  `Behind`: the segments of a living process are older than the one it writes, so
  the name a rollover closes to is free; `Chosen`: the victim a process has chosen
  is closed or its owner is dead; `Owes`: what a reader still owes it has read, or
  finds under a name it listed, or was evicted or renamed meanwhile. From these
  `EvidenceIsKept`, `ActiveEvidenceIsSafe` and `ReadsAreComplete`.
* `AssessmentProofs` (assumptions: a back end is one of three or none, refusals are
  not statuses). One part for each process: `CanaryInv` and `RunInv` for a canary
  and the runner that started it, `ProbeInv` and `NetInv` for the two probes,
  `DoctorInv` for what `doctor` may conclude from them. `NetInv` says of each step of
  the egress canary what is open at it (`HeldOpen`) and, in the blocks that release,
  that what stays is what a failed release left. From these
  `ExitZeroIsProven`, `CreateNeverThrows` and `CanariesCleanUp`.

Only model-checked:

* all liveness properties: `CommandEnds`, `FinalStateObserved`, `CoverageSettles`,
  `HandshakesEnd`, `RunEnds`, `DoctorEnds` and `CanaryReclaimed` are outside the
  prover's reach;
* `CapacityBound`, which is about sums over a set, and `NoFalseGreen`, which is
  about all directories above a target (`Above`): both need induction over data;
* `TierTwoIsTyped`, `NeverGrantsMore` and `GrantTakesEffect` of `Grants`: a grant is
  matched against a path segment by segment, recursively, and lists of grants are
  filtered and flattened;
* `SuccessStands` of `ProtectionLifecycle`, which also needs what a plan says of the
  damaged and stopped parts it was made to repair (section 7).

## 7. Not modelled, and the plan

Not modelled:

* the integrations installer (a merge of JSON settings; the files it writes go
  through the same executor), the command line and the composition root;
* the native Windows helper, its protocol and the clean-up of its access rules:
  their behaviour is that of the operating system;
* the relay inside the sandbox, and the bytes of a tunnel;
* how text is matched by rules, patterns of a shell and parsers, and rendering;
* in the daemon, shutdown.

In this order:

1. `WatchSession` composed with `PersistenceMonitor`, whose assumption that every
   edit is reported it should discharge, up to the excuses above.
2. Shutdown of the daemon; two installation commands at once.
3. Abstract specifications: an atomic multi-file update that `FileTransaction`
   implements, a trusted-baseline service that `PersistenceMonitor` implements.
4. Proofs: `SuccessStands` for `ProtectionLifecycle`. `MInv` excuses a file that
   was ever damaged; here only damage since the command was planned counts, so it
   needs the same argument from the snapshot the plan was made of.
