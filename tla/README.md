# TLA+ models of the PowerStore CSI driver controller and node helpers

This directory holds TLA+ models of the Go sources under `src/`, TLC configurations that
check them on small instances, and TLAPS proofs of their main invariants for every
value of the constants.

## 1. The system and its parts

The sources are one package `array` (`src/unnamed/part_001`), a generated mock of it
(`src/unnamed/part_000`), the controller service, its unit tests and the container build
(all concatenated in `src/Dockerfile`), and node-side helpers (`src/pkg/node/base.go`).

| Part | Source | State | Operations | Interacts with |
|---|---|---|---|---|
| ArrayRegistry | part_001 175-395 | `Locker.arrays` (GlobalID -> array), `Locker.defaultArray`, the package variable `IPToArray` (IP -> GlobalID), one mutex each | `Arrays`, `GetOneArray`, `SetArrays`, `DefaultArray`, `SetDefaultArray`, `setIPToArray`, `UpdateArrays`, `GetPowerStoreArrays` | read by every controller handler |
| VolumeHandleCodec | part_001 397-490 | none (reads `IPToArray`, the default array, and the array for a legacy probe) | `ParseVolumeID` | ArrayRegistry, the array API |
| ReplicationAction | Dockerfile 1733-1861, 2000-2058 | none locally: the replication session lives on the array | `Service.ExecuteAction`, the helper `ExecuteAction`, `validateRSState`, `GetStorageProtectionGroupStatus` | ArrayRegistry, the array |
| ProtectionGroupLifecycle | Dockerfile 1409-1730, 1864-1998 | none locally: volume groups, protection policies and replication rules live on the array | `CreateRemoteVolume`, `CreateStorageProtectionGroup`, `EnsureProtectionPolicyExists`, `EnsureReplicationRuleExists`, `GetReplicationCapabilities`, `DeleteStorageProtectionGroup`, `DeleteLocalVolume` | ArrayRegistry, VolumeHandleCodec, the array |
| VolumeGroupSnapshot | Dockerfile 62-222 | on the array: volume groups and their snapshots | `CreateVolumeGroupSnapshot`, `validateCreateVGSreq` | ArrayRegistry, the array |
| HostConnectivity | Dockerfile 225-400 | the response being built | `ValidateVolumeHostConnectivity`, `checkIfNodeIsConnected`, `IsIOInProgress`, `checkIfEntryIsLatest` | ArrayRegistry, VolumeHandleCodec, the node status endpoint, performance metrics |
| NodeHelpers | base.go 84-385 | files: the mount table, volume-to-device mapping files | `getMounts`/`consistentRead` and the queries `getTargetMount`, `isAlreadyPublished`, `getStagedDev`, `getRemnantTargetMounts`; `createMapping`/`getMapping`/`deleteMapping`; the pure `getNodeOptions`, `formatWWPN`, `getStagingPath`, `format` | the node's file system, other node operations that mount and unmount |
| Controller tests | Dockerfile 403-1408 | - | unit tests | read for what they expect |
| Container build | Dockerfile 1-45 | - | - | - |
| Consumer mock | part_000 | - | generated | - |

What is hard in this code, and what a unit test hardly reaches:

* **The registry is hot-reloaded under concurrent handlers.** `UpdateArrays` (part_001 245-255)
  installs the new arrays map, IP index and default array in three separate critical
  sections under three mutexes, `arraysLock`, `ipToArrayMux` and `defaultArrayLock`
  (and `ParseVolumeID` reads `IPToArray` with no lock at
  all, line 475). A handler reads `DefaultArray()` (for `ParseVolumeID`), then
  `IPToArray`, then `Arrays()`, each at its own time.
* **GetPowerStoreArrays' error paths.** A null list element ends the loop with a nil
  error (line 331-332); an entry without GlobalID, client or IP fails the whole call;
  a later entry overwrites an earlier one with the same GlobalID or IP; the default is
  the first `isDefault` entry, else the first element, which may be nil.
* **The replication action state machine** (Dockerfile 1807-1861) runs against a
  session whose state the array changes on its own, with several controllers acting
  on the same session and an error filter that drops every array error except one.
* **Deletion with preconditions read before the delete** (Dockerfile 1864-1998):
  the volume group, protection policy and replication rule are looked up, checked
  and then deleted, and only `APIError`s are treated as errors.
* **The node reads `/proc/mounts` while it changes.** `consistentRead` (base.go
  276-294) reads the file until two reads are equal, but one `ReadFile` is several
  reads, and mounts and unmounts by other operations land between them.
* **Mapping files are truncated before they are written** (base.go 297): a failed
  write or a restart in between leaves an empty file.

The specification (`spec.md`) states what these operations promise; where the code
does something else the model follows the code and a violation run records the
difference (section 4).

## 2. Modules

| Module | Models | Notes |
|---|---|---|
| `ArrayRegistry` | ArrayRegistry, and the `arrayID` choice of `ParseVolumeID` inside a handler | the core module |
| `ConfigRegistry` | what `UpdateArrays` promises: an atomic reload of the config file, keeping the old registry when the file does not load | abstract spec, refined by `ArrayRegistry` |
| `MCArrayRegistry` | constants for TLC: two GlobalIDs, two hosts, five entries, three sets of configs | |
| `ArrayRegistryProofs` | TLAPS proofs about `ArrayRegistry` | EXTENDS ArrayRegistry, WellFoundedInduction, TLAPS |
| `ReplicationAction` | ReplicationAction: the handler, its helpers and the array's session as environment | |
| `ReplicationSession` | what `Service.ExecuteAction` promises about one session: a call is rejected, or starts one action, sends it at most once and answers the current status | abstract spec, refined by `ReplicationAction` |
| `MCReplicationAction` | two callers as model values, with symmetry; a reduced set of states and requests for the refinement run | |
| `ReplicationActionProofs` | TLAPS proofs about `ReplicationAction` | EXTENDS ReplicationAction, TLAPS |
| `NodeMounts` | the mount-table queries, `getMounts` and `consistentRead`, with other mounts and unmounts as environment | |
| `MCNodeMounts` | three mount entries (the target, a path below it, another path) | |
| `NodeMountsProofs` | TLAPS proofs about `NodeMounts` | EXTENDS NodeMounts, SequenceTheorems, FiniteSetTheorems, TLAPS |
| `DeviceMapping` | the volume-to-device mapping files, with failed writes and restarts | |
| `MCDeviceMapping` | two volumes and two devices as model values, with symmetry | |
| `DeviceMappingProofs` | TLAPS proofs about `DeviceMapping` | EXTENDS DeviceMapping, TLAPS |
| `NodeHelpers` | `getNodeOptions` with `strconv.ParseBool`/`ParseInt`, `formatWWPN`, `getStagingPath` with `path.Join`/`path.Clean`, the mkfs command line of `format` | operators only, checked by TLC |
| `MCNodeHelpers` | every input of small sets, and the reference definitions | |
| `NodeHelpersProofs` | TLAPS proofs of `getNodeOptions` and `format` for every input | EXTENDS MCNodeHelpers, FiniteSetTheorems, TLAPS |

### ArrayRegistry

State (VARIABLES) and the code they stand for:

* `arrays`, `ipToArray`, `defaultArray`: `Locker.arrays`, `IPToArray`, `Locker.defaultArray`.
  A registry is a record `[arrays, ip, default]` (`Registry`); an array entry keeps the
  fields the registry is built from: GlobalID, host, `isDefault`, and whether the client
  can be created (`Entry`).
* `file`, `edits`, `dirty`: the config file, the operator's edits of it (bounded by
  `MaxEdits`) and a change the watcher has not yet handed to `UpdateArrays`.
* `upc`, `pending`: where the running `UpdateArrays` is (idle, or before `SetArrays`,
  `setIPToArray`, `SetDefaultArray`) and the registry it is installing.
* `lastGood`, `published`: history variables, the last file that loaded without error
  and the registries reloads have completed; no code reads them.
* `rpc`, `rhandle`, `rdefault`, `rgid`, `rresult`: per handler, the step it is at, the
  volume handle (bare legacy ID, legacy IP, GlobalID), the `DefaultArray()` it passed
  to `ParseVolumeID`, the `arrayID` that returned, and the outcome (an array, "failed
  to find array", or a nil dereference).

`GetPowerStoreArrays` is a closed-form operator: `StopIndex` is the first null or failing
element, `Loaded` the elements before it, `LastWith` the last loaded element with a given
GlobalID or IP (the later entry wins, lines 386-387), and the default is the first loaded
element flagged `isDefault`, else the first element (nil when that is null).  Reading the
file and YAML parsing are abstracted to the choice of a list from `Configs` or `BadFile`.

Actions: `EditConfig` (the operator; the watcher is not under `src/`), `UpdateArraysFail`
and `UpdateArraysLoad` (the two outcomes of `UpdateArrays`' call of `GetPowerStoreArrays`),
`SetArrays`, `SetIPToArray`, `SetDefaultArray` (its three critical sections), and for
each handler `ReadDefault`, `ParseVolumeID`, `LookupArray` (`CreateRemoteVolume`,
Dockerfile 1426-1459; the other handlers read the registry the same way).

Fairness: `WF_vars(Updater)`. The driver's config watcher calls `UpdateArrays` for
every change, and an `UpdateArrays` that has started runs to the end (nothing in it
blocks except the mutexes, which are held only for one assignment). Handlers get no
fairness: no property needs them to finish.

Refinement. `ConfigRegistry` states what a reader of the registry may assume of
the updater: the registry changes only by a whole reload of the current file, and a
file that does not load leaves it as it was. `ArrayRegistry` implements it
(`ImplementsConfigRegistry`) under `Atomic`:

* `config <- file` and `stale <- dirty`;
* `registry <-` the registry (`Reg`) when no reload is in progress, and otherwise the
  one being installed (`pending`), so that `UpdateArraysLoad` is the atomic reload and
  the three `Set*` steps are stutters;
* `Load <- GetPowerStoreArrays`.

The handlers are stutters: they change no part of the abstract state. They are not in
`ConfigRegistry`, because a handler that reads the registry in the middle of a reload
does not see an atomic registry (the `registry_torn` finding).

### ReplicationAction

The handler `Service.ExecuteAction` makes three calls to the array: the session read
(`GetReplicationSessionByLocalResourceID`, line 1758), the action
(`ExecuteActionOnReplicationSession`, line 1818) and, inside
`GetStorageProtectionGroupStatus`, a second session read (line 2021). The model splits
the handler at these calls, so other callers and the array can act in between; what
happens between two calls is local and forms one step.

State: `state` and `role` are the session's `State` and `Role` on the array. Per
caller `c`: `pc[c]` ("idle", "call", "status"), `req[c]` (the request's action and
whether its globalID is present and registered), `snapshot[c]` (`rs.State` as read),
`called[c]` (the result of the action call), `resp[c]` (the gRPC answer: a code, and for
success the projected status and `IsSource`). `seen[c]` is a history variable: the
statuses the session had since the handler's last array call.

Actions:

* `ReadSession(c)`: lines 1733-1815. The request is an input (`\E r \in Requests`). A
  missing or unregistered globalID answers `InvalidArgument`, a failed read answers the
  raw error, an unknown action `Unknown`. Otherwise `validateRSState` on the read state:
  done goes to the status read, in progress (`Failing_Over` for a Failover) answers
  `Aborted`, anything else goes to the call.
* `IssueAction(c)`: lines 1816-1829. The array accepts (the session moves to the
  action's transitional state), answers "cannot fail over from destination" (only a
  Failover on a destination session; the handler answers `Internal`), or fails in any
  other way (the handler goes on as if it had succeeded).
* `ReadStatus(c)`: lines 1788-1804 with `GetStorageProtectionGroupStatus`. It answers
  success with `Project(state)` and `role # "Destination"`, or `Internal` when the
  re-read fails.
* `ArrayProgress`, `ArrayFault`: the array completes a transition (to `Failed_Over` or
  `OK`) or moves the session to `System_Paused` or `Error` on its own. These are the
  environment (spec 3: the session lifecycle is owned by the array).

The initial session state and role are any of the 14 states and 2 roles. No fairness
is assumed: every property of this module is a safety property.

Refinement. `ReplicationSession` keeps the session (`state`, `role`) and, per caller,
the running call's action (`act`), whether the array accepted it (`sent`) and the last
answer (`resp`). Its steps are `Reject`, `Invoke`, `Send`, `Answer`, and the array's
`Complete` and `Fault`. `ReplicationAction` maps to it with `act` the action of a
running handler (`SessionAct`) and `sent` the accepted call (`SessionSent`):

* `ReadSession` is `Reject` when it answers, `Invoke` when the handler starts;
* an accepted `IssueAction` is `Send`; a failed one is a stutter, because the handler
  goes on as if it had succeeded. The abstract spec therefore allows a success after
  a refused call; that is what `replication_swallow` shows of the code;
* the from-destination answer and `ReadStatus` are `Answer`, with the status the
  session has at that moment;
* `ArrayProgress` is `Complete`, `ArrayFault` is `Fault`.

### NodeMounts

State: `file` (the mount table, a sequence of entries), `writes` (mounts and unmounts
so far, bounded by `MaxWrites`), and the handler: `rpc` (`idle`, `begin` before a
`ReadFile`, `end` between its two reads), `query`, `nreads`, `part` (what the first read
returned), `old` (`oldContent`), `got` (what `consistentRead` returned) and `answer`.
History variables, which the code does not have, record what the properties speak of:
`held` (the tables the file held since the call began), `winPrev`/`winCur` (a write
since the previous or the current `ReadFile` began) and `quiet` (two consecutive
`ReadFile`s ran with no write from the first's start).

A `ReadFile` of `/proc/mounts` is modelled as two reads. The first returns at most
`Chunk` lines, and none means end of file. The second returns the lines after those
of the table as it is then. This is how a change between reads tears the content.

* `StartCall`: a query handler calls `getMounts` (lines 263-264).
* `ReadFileBegin`, `ReadFileEnd`: one `ReadFile` and what the loop of `consistentRead`
  does with it. `ReadFileEnd` covers the read error, the first read, an equal read
  (returned), and a different read that replaces `oldContent` while retries are left
  (lines 276-294). `Finish` is `getMounts` returning, with the query's answer:
  * `getTargetMount`: the first entry with the target path (`TargetIndex`);
  * `isAlreadyPublished`: `FailedPrecondition` when the mode is not among the options;
  * `getStagedDev`: the source of a bind mount (`StagedDev`);
  * `getRemnantTargetMounts`: every entry whose path contains the target (`RemnantMounts`).
* `Mount(e)`, `Unmount(e)`: other node operations. The kernel lists a new mount last
  and drops an unmounted one from its place.

The comparison `bytes.Compare(oldContent, newContent) == 0` (line 286) is the operator
`bytesEqual`.

### DeviceMapping

`files` maps each volume to `Absent`, `Empty` or a device. `writing` is the device a
`createMapping` in progress writes. `result` is the last `getMapping` result, and
`created` (history) is the device of the last `createMapping` that returned nil.
The CO sends at most one stage call per volume at a time (CSI), so at most one
`createMapping` is in progress; `getMapping` and `deleteMapping` may run at any point
and the node may restart at any point. `WriteFile` is split where it can stop:

* `CreateMappingOpen`: the open with `O_TRUNC`;
* `CreateMappingWrite`: the write;
* `CreateMappingFail`: the write fails;
* `Restart`: the plugin restarts, ending every call in progress.

`GetMapping` tells a missing file, an empty one ("no device name in mapping") and a
device apart. `DeleteMapping` counts a missing file as success.

### NodeHelpers

These are pure operators, with no state. Strings whose content a property depends on
are sequences of characters. A path is a rooted flag and a sequence of components, as
`path.Join` splits it.

* `getNodeOptions` maps an environment (each of the nine variables unset or set) to
  the `Opts` record. Defaults apply for an empty prefix, chroot and tmp directory.
  `MaxVolumesPerNode` is 0 unless the value parses. The CHAP credentials are set when
  `EnableCHAP` parses as true.
* `formatWWPN` is a fold over the byte indices with the code's colon condition.
* `getStagingPath` joins and cleans, as `path.Join` does.
* `format` builds the mkfs command and its arguments.

`MCNodeHelpers` makes the input the state, `Init` every input of the small sets and
`Next` a stutter, so that every invariant is checked on every input.

## 3. Runs

| Run | Config | Checks | Result |
|---|---|---|---|
| `registry` | `MCArrayRegistry.cfg` | `TypeOK`, `RegistryMatchesLastGoodConfig`, `DefaultSetWhenArraysLoaded`, `EventuallyReflectsFile`, `ImplementsConfigRegistry` | pass, about 138 000 states |
| `registry_torn` | `MCArrayRegistry_torn.cfg` | `ResolvedAsSomePublished` | violation |
| `registry_nil` | `MCArrayRegistry_nil.cfg` | `AllConfiguredArraysLoaded` | violation |
| `replication` | `MCReplicationAction.cfg` | `TypeOK`, `SkipOnlyWhenTargetReported`, `ReportedStatusIsCurrent` | pass, about 2.9 million states |
| `replication_session` | `MCReplicationAction_session.cfg` | `ImplementsReplicationSession` | pass, about 1.2 million states |
| `replication_swallow` | `MCReplicationAction_swallow.cfg` | `SuccessOnlyIfAccepted` | violation |
| `replication_syspaused` | `MCReplicationAction_syspaused.cfg` | `NoCallWhenTargetReported` | violation |
| `mounts` | `MCNodeMounts.cfg` | `TypeOK`, `GiveUpOnlyWhenEveryPairChanged`, `QuietCallAnswersTable` | pass, about 2 million states |
| `mounts_aba` | `MCNodeMounts_aba.cfg` | `SnapshotReturned` | violation |
| `helpers` | `MCNodeHelpers.cfg` | `FormatWWPNIsColonPairs`, `NodeOptionsComplete`, `StagingPathBelowIffDescends`, `FormatNamesSourceOnce` | pass, about 92 000 states |
| `mapping` | `MCDeviceMapping.cfg` | `TypeOK`, `MappingIsLastCreated` | pass, about 1 300 states |

* `RegistryMatchesLastGoodConfig`: when no reload runs, all three parts of the registry
  are those of the last config that loaded without error. A failed reload leaves the
  registry alone; a good one replaces all of it.
* `DefaultSetWhenArraysLoaded`: between reloads the default array, which
  `ParseVolumeID` dereferences for a bare legacy ID (part_001 445), is nil only
  when no array is loaded.
* `EventuallyReflectsFile`: once the file stops changing, the registry comes to be what
  the file describes, if the file loads.
* `ImplementsConfigRegistry`: `UpdateArrays`, seen through `Atomic`, is an atomic
  reload of the current file, and every edit of the file is eventually reloaded
  (`WF_vars(Reload)`).
* `ResolvedAsSomePublished`: a handler resolves a handle as some whole registry (a
  completed one, or the one being installed) would resolve it.
* `AllConfiguredArraysLoaded`: after a reload that returned no error, every array of
  the file is in the registry.

* `SkipOnlyWhenTargetReported` (action property): a success answered without an array
  call is given only for a session whose reported status already is the action's
  target (spec 4.4). It relates two tables of the code, the desired states of
  `validateRSState` and the status projection, across the session moves of the other
  caller and the array.
* `ReportedStatusIsCurrent` (action property): the status in a success response is that
  of a state the session had after the handler's last array call, although the other
  caller and the array move the session in between.
* `ImplementsReplicationSession`: `ExecuteAction`, seen through `SessionAct` and
  `SessionSent`, behaves as the abstract session `ReplicationSession`.
* `SuccessOnlyIfAccepted`: a handler that called the array answers success only if the
  array accepted the action (spec 4.4 and 7).
* `NoCallWhenTargetReported`: no action is sent for a session whose status already
  reads as the action's target (spec 4.4: "any Paused variant" is done for Pause).

* `GiveUpOnlyWhenEveryPairChanged` (action property): `consistentRead` gives up only
  after its first read and `procMountsRetries` more, and only when no two consecutive
  reads ran with the table at rest.
* `QuietCallAnswersTable` (action property): a query during which nothing is mounted
  or unmounted answers from the table as it is. The exceptions are a failed read, and
  `procMountsRetries = 0`, with which `consistentRead` never returns content.
* `SnapshotReturned` (action property): what `consistentRead` returns is a table the
  file held during the call, which is what its log line "successfully read mount file
  snapshot" claims.
* `MappingIsLastCreated` (action property): `getMapping` yields a device only if it
  is the one the last successful `createMapping` wrote, and no delete came after.
* `FormatWWPNIsColonPairs`: `formatWWPN` gives the digit pairs joined by colons, for
  odd lengths too. The reference splits into pairs and joins them, independently of
  the code's index test.
* `NodeOptionsComplete`: the three defaulted options are never empty, and the CHAP
  password is set exactly when `EnableCHAP` parses as true.
* `StagingPathBelowIffDescends`: for a block volume ID whose components do not repeat
  the directory's, the staging path lies strictly below the cleaned staging directory
  exactly when the components, read as steps down and up (`..`), end below it without
  ever leaving it (`Descends`). So `v/..` yields the directory itself and `../v` a
  sibling of it.
* `FormatNamesSourceOnce`: mkfs names the source exactly once, right before the
  caller's options.

Bounds. Two GlobalIDs and two hosts are the least that let an array move to another
IP, and two distinct arrays share an IP index. The pass run's configs are one array,
two arrays with an explicit default, one array moved to the other host, the empty list,
a list whose second entry has no GlobalID (a failed reload after a good one), and a
list whose first entry has no client. With `MaxEdits = 3`, a good load, a failed
reload and a second good load all happen, interleaved with one handler. One handler
is enough: handlers do not interact with each other, only with the reload.
For `replication`, two callers are the least that move the session under each other;
every request, all 14 session states and both roles occur, and a caller handles an
unbounded sequence of requests (the state space is finite without a bound).
Checking the refinement costs an evaluation of the abstract next-state relation on
every step, so `replication_session` runs on a reduced instance. It keeps 9 states,
one of each class the handler tells apart:

* `Paused_For_Migration` and `Paused_For_NDU` act as `Paused` does;
* `Partial_Cutover_For_Migration` and `Initializing` act as `Synchronizing` does;
* `Failing_Over_For_DR` is only ever an initial state, and is read as
  `Synchronizing` is.

It keeps the requests `FAILOVER_REMOTE`, `SUSPEND`, `RESUME`, `SYNC`,
`REPROTECT_LOCAL` and an unknown one. `UNPLANNED_FAILOVER_LOCAL` switches to Failover
as `FAILOVER_REMOTE` does. An unregistered globalID is rejected like a failed session
read. The theorem `Refinement` covers every state and request.
For `mounts`:

* `Chunk = 1` makes every non-empty table tear.
* `Retries = 2` gives a first read, one retry that can be told from the last, and a
  last one.
* The entries are the target, a path below it and an unrelated path, so that every
  query has a found and a not-found answer.
* The initial table is any table of the entries. Four mounts or unmounts
  (`MaxWrites = 4`) reach every pattern of reads with or without a write between them.

`mounts_aba` needs six writes and `Retries = 1` for the same tear to happen twice. For
`mapping`, two volumes and two devices (under symmetry) let a create of one device
follow another. For `helpers`, the inputs are:

* WWPNs of up to five digits;
* environments with every plain variable unset, empty or set, and numeric and Boolean
  variables with signs, words and near-misses;
* four staging directories, volume IDs of up to two components among `v`, `g`, `.`,
  `..` and the empty component, and three file system types.

Mutants (each makes TLC report its property violated under the run's own config):
`LookupArrayUnchecked` uses the nil array of a missing key (`TypeOK`);
`SetIPToArrayForgotten` never installs the new IP index (`RegistryMatchesLastGoodConfig`
and `ImplementsConfigRegistry`);
`UpdateArraysFailUnchecked` drops a reload as if the file had failed to load
(`EventuallyReflectsFile`).
`StatusOfRaw` reports the raw session state (`TypeOK`);
`validateRSStateInProgressDone` takes a Failover in progress for a finished one
(`SkipOnlyWhenTargetReported`); `StatusOfSnapshot` reports the status of the
session read at the start instead of re-reading it (`ReportedStatusIsCurrent`).
`BuildRegistryNoFallback` drops the fallback to the first element
(`DefaultSetWhenArraysLoaded`). `RetryLeftOffByOne` runs one retry too many
(`TypeOK`). `KeepOldContent` never replaces `oldContent`
(`GiveUpOnlyWhenEveryPairChanged`). `bytesEqualInverted` inverts the comparison
(`QuietCallAnswersTable`). `StatusOfSnapshot` also breaks
`ImplementsReplicationSession`: the answered status is not the session's current one. `ReadMappingUnchecked` drops the empty-file check
(`TypeOK` and `MappingIsLastCreated`). `ColonAfterEvenIndex` tests the wrong parity
(`FormatWWPNIsColonPairs`). `DefaultNodeChrootDropped` drops the chroot default
(`NodeOptionsComplete`). `getStagingPathUnjoined` returns the directory itself
(`StagingPathBelowIffDescends`). `MkfsArgsAppended` appends to the ext4 arguments for xfs
(`FormatNamesSourceOnce`).

## 4. Findings

* **Torn reload** (`registry_torn`). The spec says readers never see a registry mixing
  pre- and post-reload state. TLC finds this sequence. The config changes from array
  g2 at host h1 to g1 at h1 and g2 at h2. `UpdateArrays` has installed the new arrays
  map but not yet the new IP index. A handler for a legacy handle naming h1 then reads
  the old index (h1 -> g2) and the new map, and gets g2's new entry, the array at h2.
  The old registry resolves h1 to g2 at h1 and the new one to g1.
* **Null element accepted** (`registry_nil`). A null element of the `arrays` list
  makes `GetPowerStoreArrays` return what it built so far with a nil error. The spec
  (4.1) says a bad config makes `reload` fail and leave the registry untouched.

* **Array errors swallowed** (`replication_swallow`). The helper `ExecuteAction`
  returns an error of `ExecuteActionOnReplicationSession` only when it is
  `UnableToFailoverFromDestination` (line 1821); every other error is dropped and the
  handler answers `Success: true`. TLC finds a `FAILOVER_REMOTE` on an `OK` session
  that the array rejects, answered as a success with status `SYNCHRONIZED`.
* **System_Paused is not paused for Pause** (`replication_syspaused`). `validateRSState`
  counts `Paused`, `Paused_For_Migration` and `Paused_For_NDU` as done for Pause (line
  1847), but not `System_Paused`, which the status projection reports as `SUSPENDED`.
  A `SUSPEND` on a `System_Paused` session is sent to the array; the spec says any
  Paused variant returns success without contacting it.

* **Torn mount table taken for a snapshot** (`mounts_aba`). `consistentRead` returns
  the second of two equal `ReadFile`s and logs it as a snapshot (base.go 287). But two
  reads torn by the same unmount and remount are equal. TLC finds this sequence. The
  table is `[t, x]`. A first read takes `[t]`, `t` is unmounted, and the second read
  finds nothing past line 1, so the read is `[t]`. Mounts rebuild a table starting
  with `t`, and the same tear repeats. `[t]` is returned, a table the file never
  held, and the queries act on it.

## 5. Proofs

`ArrayRegistryProofs` proves, for every value of the constants that satisfies
`ConstantsAssumption`:

* `TypeCorrect`: `Spec => []TypeOK`;
* `RegistryConsistent`: `Spec => []RegistryMatchesLastGoodConfig`;
* both from `IInvHolds`: `Spec => []IInv`.

`RegistryMatchesLastGoodConfig` is not inductive by itself. Between `UpdateArraysLoad`
and `SetDefaultArray` the registry is part old and part new, and a step out of that
state must restore the invariant. `IInv` adds the following:

* the registry being installed is the last good config's;
* once `SetArrays` ran, the arrays map is the new one;
* once `setIPToArray` ran, the IP index is the new one.

TLC checks `IInv` as an invariant on the `registry` instance before it is proved.

The type part rests on lemmas about `GetPowerStoreArrays`:

* `LoadedEntries`: every element before the stop index is a complete entry;
* `LastWithLoaded`;
* `BuildRegistryType` and `GetPowerStoreArraysType`;
* `MinOfNats` and `MaxOfBoundedNats`: the `Min`/`Max` of FiniteSetsExt pick an element
  of a non-empty set of naturals. These are derived from `WFMin` and
  `NatLessThanWellFounded` of WellFoundedInduction.

`NextIInv` has one step per action.

* `DefaultSet`: `Spec => []DefaultSetWhenArraysLoaded`. `IInv` gives that an idle
  registry is `BuildRegistry` of the last good config, or the empty registry before
  any. The lemma `BuildRegistryDefault` then shows that the registry the code builds has
  a default exactly when it has arrays: the default is the array of the stop index's
  first element, or else of the first loaded one.
* `AtomicReload`: `Spec => Atomic!Safety`, the safety part of
  `ImplementsConfigRegistry`. `ARegIsLoaded` shows that under `IInv` the mapped
  registry is always the last good config's. `StepRefines` then proves
  `IInv /\ [Next]_vars => [Atomic!Next]_Atomic!vars`, one step per action:
  * `EditConfig` is `Edit`;
  * `UpdateArraysFail` and `UpdateArraysLoad` are `Reload`;
  * the `Set*` steps and the handlers are stutters.

`ReplicationActionProofs` proves, for every set of callers:

* `TypeCorrect`: `Spec => []TypeOK`;
* `StatusIsCurrent`: `Spec => ReportedStatusIsCurrent`;
* `SkipOnlyWhenTarget`: `Spec => SkipOnlyWhenTargetReported`;
* `Refinement`: `Spec => ImplementsReplicationSession`;
* all from `IInvHolds`: `Spec => []IInv`.

The action properties speak of the step that answers; `IInv` states what holds of a
running handler before that step:

* its action is a known one;
* its response is empty;
* its history holds the current status: every change of the session adds its status
  to the history of every running handler, and the handler's own call restarts it;
* it has made no call before the call step;
* at the status read without a call, it read a desired state.

The lemma `SuccessOnlyByReadStatus` shows that only a `ReadStatus` step of a handler
at its status read answers success, since any other step leaves a running handler's
empty response alone. Each property then follows from one conjunct of `IInv`;
`SkipOnlyWhenTarget` also uses the lemma `DesiredReportsTarget`: every desired state of
an action projects to that action's target status. TLC
checks `IInv` on the `replication` instance. `NextIInv` has one step per action, and
under `ReadSession` one per branch of `validateRSState`. `ReturnIInv` covers every
answering step at once.

For `Refinement`, `StepRefines` proves `IInv /\ [Next]_vars => [Session!Next]_Session!vars`.
`ReturnRefines` covers every answering step: from an idle handler with a reject code it
is `Reject`, from a running one with a success or `Internal` it is `Answer`. Then:

* `ReadSession` is `Reject`, or `Invoke` of the request's action, split on the branches
  of `validateRSState`;
* `IssueAction` is `Send` when accepted, `Answer` for the from-destination error, and a
  stutter otherwise;
* `ReadStatus` is `Answer`, `ArrayProgress` is `Complete`, `ArrayFault` is `Fault`.

`IInv` supplies what the mapping needs: a running handler has a known action, has not
called the array before its call step, and has an empty response.

`NodeMountsProofs` proves, for every set of entries, every `Chunk > 0` and every
`Retries` (`NodeMountsAssumption`):

* `TypeCorrect`: `Spec => []TypeOK`;
* `GiveUpOnlyAfterChanges`: `Spec => GiveUpOnlyWhenEveryPairChanged`;
* `QuietCallAnswered`: `Spec => QuietCallAnswersTable`;
* the first two from `IInvHolds`: `Spec => []IInv`.

The property is about the step that gives up, and it holds because a pair of reads
with no write between them is equal. That needs facts about the reads before that
step, which `IInv` states:

* `nreads` stays within `Retries + 1`, and within `Retries` before a read;
* a handler never runs with `quiet` set;
* with no write since the current read began, the first part is the table's prefix;
* with no write since the previous read began, `oldContent` is the table;
* a gave-up result has `nreads = Retries + 1` and `~quiet`.

From the last two facts, an equal pair is returned and never counted as a change.
The lemmas give the types of the operators:

* `PrefixType`, `ReadIsTable` and `RemoveAtType` (via SequenceTheorems);
* `MountTablesType`;
* `QueryAnswerCode`, the codes a query answers.

`NextIInv` has one step per action and one per branch of `ReadFileEnd`. TLC checks
`IInv` on the `mounts` instance.

`QuietCallAnswered` needs `QInv` on top of `IInv`. `QInv` ties `held = {file}`, no
change during the call, to the windows of the reads:

* a running handler's table is in `held`;
* with a write in the current window, or in the previous window after the first read,
  `held # {file}`.

A mount or unmount changes the table: it gains or loses a line (`WriteChangesTable`).
So a write during a call leaves two tables in `held`. The step that ends a quiet call
is therefore a `ReadFileEnd` with no write in its window, and that read returns the
table. With more than one read, the previous window was free of writes too, so
`oldContent` is the table and `bytesEqual` succeeds. With one read, the call ends only
when `Retries = 0`. TLC checks `IInv /\ QInv` on the `mounts` instance.

`DeviceMappingProofs` proves, for every set of volumes and devices:

* `TypeCorrect`: `Spec => []TypeOK`;
* `GetMappingReturnsLastCreated`: `Spec => MappingIsLastCreated`;
* both from `IInvHolds`: `Spec => []IInv`.

`IInv` adds `FileIsLastCreated` to the types: a file that holds a device name holds
the device of the last `createMapping` that returned nil. The truncation empties the
file, a failed write leaves it empty, and only the write that completes puts a name
in it, at the same time as it sets `created`. From it, a `getMapping` that succeeds
reads `created`.

`NodeHelpersProofs` proves what the helpers compute for every input, not only the
inputs of the run:

* `NodeOptionsAlwaysComplete`: for every environment, with every variable unset or
  set to any value, `getNodeOptions` leaves no defaulted option empty, and sets a
  CHAP password exactly when `EnableCHAP` parses as true. This rests on the true and
  false strings of `ParseBool` being disjoint.
* `FormatNamesSourceOnceForAll`: for every file system type, and every source and
  option list where the options do not name the source and the source is not one of
  the fixed flags, the mkfs arguments name the source once, right before the options.
  The lemma `SourceOnceInArgs` does the index arithmetic of the concatenation.
* `NodeOptionsCompleteHolds` and `FormatNamesSourceOnceHolds`: the run's two
  invariants, as instances of the above.

Only model-checked:

* `FormatWWPNIsColonPairs` and `StagingPathBelowIffDescends`. `formatWWPN` and
  `path.Clean` are folds (`FoldLeft` of Folds). `FoldLeft` is built on
  `MapThenFoldSet`, a recursive function over `SUBSET S`. What it computes for every
  input needs induction over that recursion, and the induction theorems take an
  operator parameter, which the provers cannot instantiate;
* `EventuallyReflectsFile`, and the fairness part of `ImplementsConfigRegistry`:
  liveness under fairness, and the `ENABLED` it needs, are out of TLAPS' reach;
* the violated properties.

## 6. Plan

Modules still to build, in order:

1. `ProtectionGroupLifecycle`: `EnsureReplicationRuleExists`,
   `EnsureProtectionPolicyExists`, `CreateStorageProtectionGroup`,
   `DeleteStorageProtectionGroup` and `DeleteLocalVolume` over abstract volume groups,
   policies, rules and volumes on the array, with not-found, transient errors, and
   concurrent `AddMembersToVolumeGroup`. Properties: a policy with members is never
   deleted; a delete that reports success has removed the group; repeated ensure calls
   converge on one policy and one rule.
2. `VolumeGroupSnapshot`: `CreateVolumeGroupSnapshot` with a concurrent same-name call
   and a retry after a lost response; an abstract spec (one snapshot group per
   name) refined by the handler.
3. `VolumeHandle`: `ParseVolumeID`'s grammar over a small alphabet of fields, the
   legacy protocol probe, and the round trip of spec 8 against a reference encoder.
4. `HostConnectivity`: `ValidateVolumeHostConnectivity`'s sequential loops, and the
   concurrent fan-out of spec 4.3 (spec-modelled, the functions the tests name are not
   in `src/`) refined to an abstract "first positive, all negative or deadline" result.
5. `NodeMounts`: a composition with the node's publish and unpublish handlers that
   call the queries, once those handlers are in `src/`.

Theorems planned: type correctness of each module, the deletion safety of
`ProtectionGroupLifecycle`, and the refinement of the snapshot module. Also planned:
a liveness run of `ReplicationAction` with the caller's retry loop. It would ask
whether a retried Failover stops being answered `Aborted` once the array completes
the transition.

## 7. Not modelled

* The container build and the generated mock, which have no behaviour of their own.
* The unit tests; they are read only as a statement of expected behaviour.
* `getOutboundIP` (a UDP dial) and `isBlock` (a type switch on a protobuf value).
* The result of running mkfs in `format`, and the value of `identifiers.RandomString`.
* `strconv.ParseInt` at the edge of the int64 range: the inputs are a few characters.
* Logging, and the wording of error messages.
