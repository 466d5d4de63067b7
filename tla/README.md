# mushroomdb in TLA+

mushroomdb is an embedded graph database in Rust: an in-memory graph that is
made durable by a write-ahead log and snapshots, shared between the threads of a
process by `SharedDb` and between processes by an advisory lock, with a history
that can be read as of any commit, interactive transactions, and a worker that
keeps a backup in an object store. This project models the parts whose
correctness depends on the order of steps (of crashes, threads, processes and
file operations), checks them with TLC and proves theorems about them with
TLAPS. Paths below are relative to the repository root; `db.rs`, `shared.rs`
and `transaction.rs` are in `src/crates/core-api/src/`, `wal.rs`, `fs.rs` and
`v8/mod.rs` in `src/crates/core-storage/src/`, `tx.rs` in `src/crates/server/src/`,
`worker.rs`, `lease.rs`, `disk.rs` and `restore.rs` in `src/crates/backup/src/`.

## 1. Inventory

| Component | State | Operations | What makes it correct |
|---|---|---|---|
| **WAL, snapshots, recovery** (`db.rs` `log_then_apply_with`, `snapshot_with`, `load_from_disk`; `wal.rs`, `v8/mod.rs`, `fs.rs`) | `wal.bin`, `snapshot.bin`, `snapshot.intent`, the graph in memory, `intent_unsettled`, the fsync policy | commit, snapshot (keep / truncate / archive the WAL), V11 upgrade, open | whenever the process dies, an open rebuilds exactly the commits the WAL reaches: nothing acknowledged is lost, nothing is applied twice |
| **Processes** (`db.rs` `refresh_checking`, `enter_write_scope`; `shared.rs` `read`, `write`, `open`; `fs.rs` lock and identities) | the files, `LOCK`, and per handle its graph, WAL cursor, snapshot and WAL identities | read, refresh, reload, write scope, open, close, die | a read sees what was acknowledged before it; a write lands on top of everything others wrote |
| **Group commit** (`shared.rs` `WriteQueue`, `drain_loop`, `submit_*`, `WriteGuard`) | queue, condition variable, `wal_mu`, drain thread, deferred events, degraded flags | submit (plain, compare-and-set, role-scoped), direct write, group apply, fsync, answer, degrade, shut down | "ok" means durable, an error means never there but in two cases, everyone gets an answer |
| **History** (`db.rs` archives, `wal.floor`, genesis marker, `open_at`) | archives, floor on disk and in memory, genesis marker, live WAL | archive, retention sweep, truncate, orphan cleanup, history reads, `open_at` | a commit number names one commit for ever; an as-of read is exact or refused |
| **Published snapshots and readers** (`shared.rs` `Published`, `DiskProbe`, `reader`) | published slot and its mark, `writing` flag, the looks that captures share | publish at the end of a write guard, capture, follow a peer | a capture has everything its process acknowledged before it, time never runs backwards, and no capture waits for ever |
| **Interactive transactions** (`transaction.rs`, `db.rs` `tx_base_last_change`, `check_preconditions`; `tx.rs`) | base snapshot, recorded keys and numbers, buffer; the registry's slots, deadlines and tombstones | begin, statement, commit, roll back, reap, close | no update is lost; one request at a time has a transaction; none is forgotten |
| **Backup worker, lease and restore** (`worker.rs`, `lease.rs`, `disk.rs`, `restore.rs`, `boot.rs`; `durable_wal.rs`) | the LEASE object and each holder's handle; the durable position; the prefix's objects, manifests and LATEST; the worker's generation and cursor | acquire, renew, reconcile, release; look, open, upload, ship, write a manifest, retain, resume, restore on boot | one uploader at a time; a snapshot goes with its own WAL; what LATEST names can be restored and is never less than it was |
| Commit-time sidecar (`commit_times.rs`) | one date per commit | append, trim | not modelled yet |
| Rules, indexes, storage layout, Cypher, roles, subscriptions, servers, CLI, bindings | | | not modelled: see section 8 |

How they interact. `SharedDb` owns a `GraphDb`. A submission goes through the
queue to the drain thread, which takes `wal_mu`, then the store's lock, then
refreshes from disk, then the write guard, and commits the group with
`commit_group_nosync` (module GroupCommit). The lock and the refresh are what
two processes see of each other (Processes). Each commit is an append and
perhaps an fsync of the WAL, and each snapshot a sequence of file operations
(Store) which, when the WAL is archived or truncated, also renumbers nothing and
moves the floor (History). Every write guard publishes what it leaves, and a
read captures the published state or follows a peer first (Readers). A
transaction buffers its writes over a capture and commits them as one
compare-and-set through the queue (Transactions); the server keeps open
transactions in a registry with deadlines (TxStore). The backup worker reads the
directory beside all of them without a lock, asking the handle for its durable
position (Ship), and writes to a prefix of a bucket (Bucket) while it holds the
bucket's lease (Lease).

Hard behaviours: a crash between any two file operations; a file operation that
fails with the handle going on; a reader that looks at files one after the other
while a writer replaces them; an append seen half-way by another process; an
fsync that fails after others have read what it covered; a thread that ends with
work queued; a number of one numbering compared with one of another; a request to
a service that is lost, late, or done and not answered; a holder that is frozen
past its lease; a deadline that passes while a request is under way. They are listed one by one, with their lines, under `hazards` in
`PROJECT.json`.

## 2. Plan

Order of the modules, the most important behaviour first:

1. **Store** with its first proofs, **Processes**, **GroupCommit** with its
   abstract specification **CommitLog**, and **History**: done.
2. **Readers**, **Transactions**, **TxStore**, **Lease**, **Ship** and **Bucket**:
   done, described below.
3. Prove: Store, Lease, TxStore, Transactions, Readers, GroupCommit with its
   refinement of CommitLog, Processes and Ship: done, section 6. To do: Bucket.
4. Left to model: the commit-time sidecar and a second process in History, the
   migration at open in Processes, the staging and undo of an in-place restore.

New questions join the existing runs as further deployments (the `Worlds` of
Processes, History, Ship, Bucket and Readers: a behaviour is in one of them from
its first state to its last) rather than as further runs.

## 3. Modules

| Module | Models | Variables ↔ code | Actions ↔ code |
|---|---|---|---|
| `Store` | one writing handle and its files | `wal`, `synced`, `snap`, `intent`, `archives` are the files; `pc`, `mem`, `cur`, `mode`, `unsettled` the handle; `hist`, `base`, `promised` what clients saw | `SettleSnapshotIntent`, `AppendFrame`, `SyncWal`, `ApplyFrameAndAck` are `log_then_apply_with`; `SyncForUpgrade` is `upgrade_to_v11`; `WriteIntent` … `EmptyIntent` are the file operations of `snapshot_with`; `Open` is `load_from_disk`; `AppendFails`, `SyncFails`, `SnapshotFails`, `Crash` are the failures |
| `StoreInv` | invariants of Store | | |
| `StoreProofs` | lemmas and theorems about Store | | |
| `ProcessesProofs`, `GroupCommitProofs`, `ReadersProofs`, `TransactionsProofs`, `TxStoreProofs`, `LeaseProofs`, `ShipProofs` | invariants and theorems about these modules | | |
| `Processes` | several processes over one store | `wal`, `ino`, `snap`, `lock` are the files; `h[p]` the handle (`wal_consumed`, `snapshot_ident`, `wal_ident`, …); `acked` what callers were told, `dropped` what a snapshot left out; `world` the deployment | each look at a file and each write to one of `refresh_checking`, `load_from_disk`, the write scope, the group's append, fsync and cut, a snapshot's two writes; `OpenOwner` is `GraphDb::open`, `OpenUnlocked` a read-only open and `SharedDb::open` |
| `GroupCommit` | the write path inside one process | `pending`, `qDegraded`, `shutdown` are `WriteQueue`; `drain` the drain thread; `walMu`; `mem` (the frames applied), `degraded`, `deferred` are `GraphDb`'s | `CheckDegraded`, `Enqueue`, `Notify` are `submit_batch*`; `DirectLock` … `DirectUnlock`, with `DirectRefused` and `DirectSyncFails`, are `SharedDb::write`; `WaitAndDrain` … `AnswerFailed` are the steps and exits of `drain_loop` |
| `CommitLog` | the promise to callers (abstract) | a durable `log`, and what each caller was `told` | `Grow`, `Tell` |
| `History` | archives, floor, numbering, `open_at` | `wal`, `arch`, `floor`, `genesis`, `snap`, `intent` are the files; `hfloor`, `chain`, `preserved` the handle | the file operations of `snapshot_with` that move history; `Open` with `cleanup_orphaned_archives`; `OpenAt` is `open_at` as an operator |
| `Readers` | captures of a snapshot beside the writers of the process and a peer | `disk`, `xlock` are the files and the process lock; `handle`, `guard` the `RwLock` and its contents; `slot`, `writing` are `Published`; `probe` is `DiskProbe`; `cap` the callers of `reader()` | `TakeGuard` … `Unlock` are the life of a publishing guard; `WriteLock` … `WriteReturns` a direct write and a group of the drain thread; `Start` … `RefreshLock` and `ReadHandle` are the steps of `reader()` and `DiskProbe::observe`; `RefreshLook` … `ReloadIdent` the looks and reads of `refresh_checking` and `load_from_disk` |
| `Transactions` | one transaction's numbers and keys among other writers | `disk`, `handle` the store and the two processes' `commit_seq`, `last_change`, `store_id`; `tx` the `Transaction` | `Begin`, `Execute`, `Commit`, `Rollback` are its methods; `Write`, `Snapshot`, `Refresh` what others do; `ApplyFrame` is the numbering of replay and of live commits, `ApplyFrames` what a replay of several frames comes to, in closed form |
| `TxStore` | the server's registry of open transactions | `open`, `expired`, `closed` are `Registry`; `req` the requests under way; `fate`, `told` what became of a transaction and what clients were told | `HasRoom`, `Begin`, `Checkout`, `Checkin`, `Info`, `Reap`, `Close` are `TxStore`'s methods; `Land`, `Landed`, `RolledBack`, `Panic` the handlers' ends |
| `Lease` | the bucket's lease | `obj` the LEASE object; `late` requests without a sender; `handle`, `watch` are `Held` and `LeaseWatch`; `now`, `skew` the clocks | `Blocked` … `ProbeAccepted` are `acquire_as`, `Renew` … `Lose` are `renew`, `Shutdown` … `Released` the release; `LandLate`, `Tick`, `Crash` the environment |
| `Ship` | the worker against a directory that is being written | `snap`, `wal`, `floor`, `arch`, `intent` the files; `eng` the handle and `DurableWal`; `job` a running snapshot; `w`, `cur`, `gens` the worker and what it uploaded | each stat of `disk.rs`, each position, each open and read of `run_once`, `upload_base` and `ship_segments`; `ReadRefreshes` … `FinishSnapshot` the writers |
| `Bucket` | the prefix, and the workers' tenures | `bucket` the objects, manifests and LATEST; `dir` the data directories; `w` the worker's memory; `late` requests without a sender | `Resume`, `Refuse`, `UploadBase`, `ShipSegments`, `WriteManifest`, `Retain`, `Sweep` are the worker's methods; `Send`, `Conflict`, `TimesOut`, `TenureEnds`, `LandLate` what becomes of a request; `RestoreOnBoot` is `boot.rs` |
| `MC…` | constants and deployments for TLC | | |

### Abstractions, and why they are sound here

* **Graphs.** Store keeps the set of commits applied, the one declaration, and a
  flag that some commit was applied a second time: `apply_frames_over` says that
  "applying a write to the state it produced is not always a no-op", so no
  property may rely on it being one. In Processes a graph is the set of commits.
* **Checksums** are the bytes they cover: a WAL mark and an intent match exactly
  the WAL they were computed from. Two writes may have the same bytes, two
  declarations always do.
* **Frames** have unit length; a frame half-written is `Torn`. `decode_all` stops
  at the first torn bytes.
* **Files.** `write_atomic` and `rename` take effect at once and in order (they
  fsync the file and the directory); a plain append is durable only when an
  fsync has covered it, and a power loss keeps any prefix beyond that.
* **Identities** (inode of the WAL; length and time of the snapshot) are always
  fresh in Processes. Their reuse is a listed hazard.
* `DiskMark::is_stale_on` makes two looks, the WAL first; `Stale` makes them at
  once. A peer's snapshot writes the snapshot before it replaces the WAL, so the
  two looks find a change whenever the one does.
* A snapshot is two writes in Processes; what a crash between them leaves is in
  Store. A snapshot and its intent are one action in History for the same
  reason.
* In GroupCommit a group is applied item by item under the write guard: a run of
  mergeable batches is gathered and committed as one frame, the others commit
  alone, and each item's outcome is held until the group's fsync. All frames touch the one node whose version a compare-and-set
  names, so that version is the number of frames the handle has applied (`mem`),
  which is not the number in the WAL once a direct write's fsync has failed
  (`db.rs:7310`). A direct writer's append, fsync and event are one action, under
  the guard nobody else can hold; a failing append and a failing fsync are actions
  of their own. A failed append leaves no bytes here; torn bytes are in Store.
* CommitLog tells an error apart by what the caller can conclude from it, which the
  code's `Err` does not say: "err" of a commit that never becomes durable, "unsure"
  of one that may. Only two paths are "unsure": a direct write whose fsync failed
  after its append, and a group whose fsync failed and whose frames could not be cut
  off the WAL (`shared.rs:1718` ignores the error of the cut).
* In Readers the state of a store is the set of its commits. A refresh and a reload
  of a capture are one step for each look at a file and each read of one, and a
  peer's snapshot is two writes, as in Processes. A peer's commit is one step, and
  the refresh of a write scope another: the process lock keeps everyone else from
  the files meanwhile. Each handle and each capture remembers whether a step of a
  peer's snapshot fell inside the refresh that read it (`whole`), which the code does
  not know. How a snapshot is built (folds, delta tails, the background builder) is
  left out: it has the commits it stands for. The `RwLock` is not assumed to be fair.
* In Transactions a statement reads and writes any keys. One transaction is
  enough: the auto-commit writers of both processes do to it whatever another
  transaction's commit could, which is one more frame. Snapshots truncate the WAL.
  `ApplyFrames` says what a replay comes to, rather than folding `ApplyFrame`, so
  that proofs need no induction over frames: the last frame that wrote a node gives
  its content, the last that touched it its number. `ReplayIsFrameByFrame` of
  MCTransactions is the fold, compared on every sequence of up to three frames.
* In TxStore a transaction's body is where it is and nothing else; whether its
  commit lands or conflicts is Transactions' question. `Forget` is both a
  tombstone that outlives its retention and one that makes room.
* In Lease an ETag is the content of the object, and a probe and a renewal carry
  the stamp of the moment they are made. TTLs are multiples of three time units,
  the fence is two thirds of one, and clocks differ by one unit: the margin that
  is left. A `DELETE` is sent after a read that found the sender's own record;
  without the fault "overtaken" no takeover lands in between, and no lease the
  sender itself took meanwhile is there when a late one lands.
* In Ship a commit is one action, as the cross-process lock keeps writers apart,
  and every look of the worker at the directory is one of its own. The
  replacement of a WAL holds no frame. A peer's group that is cut off the WAL in
  place after a failed fsync (`shared.rs:1718`) is not among its faults: a generation
  that had shipped the group's frames would no longer be a prefix of the store.
* In Bucket what a worker reads of its directory in one go holds together, which
  is what Ship shows. A request that timed out may land later in the same tenure or
  after it. One file stands for the side files. An object's version is
  its content.

## 4. Runs

Every run ends with no error unless it says otherwise. State counts are distinct
states.

| Run | Question | Properties | States |
|---|---|---|---|
| `store_power` | Strict policy, all snapshot modes and the upgrade, failing snapshot steps, power loss anywhere | `TypeOK`, `CrashSafe`, `ReopenIsIdentity`, `NoRevivableIntent` | 1,240,444 |
| `store_faults` | appends and fsyncs that fail and a handle that goes on | `RecoversPrefix` | 299,742 |
| `proc` | two processes in every deployment (below) | `WriteIsOnTop`, `AckedSurvives`, `ReadIsCurrent`, `HandleIsPrefix` | 3,263,382 |
| `group` | submitters and a direct writer, all faults of the drain thread and of direct writes | `TypeOK`, `EventsFollowWal`, `CasOnUnchanged`, `Implements`, `EveryoneAnswered`, `DrainStops` | 76,106 |
| `history` | all three modes and retention, with kills, and with failing steps | `NumbersKept`, `AsOfIsExact`, `HistoryIsWhole` | 479,800 |
| `readers` | two captures beside a direct writer, a drain thread and a peer | `OwnWritesSeen`, `CapturesAdvance`, `PeersFollowed`, `CapturesReturn` | 891,777 |
| `tx` | a transaction, two writing processes, one snapshot | `ConflictsDetected`, `ConflictsAreReal` | 1,740,635 |
| `tx_store` | two transactions, two requests, the reaper and the shutdown | `BodyIsInOnePlace`, `IdleIsRolledBack`, `WithinLimit`, `DrainedIsEmpty`, `SlotsAreFreed` | 28,634 |
| `lease` | two workers, four kinds of service, lost and late requests, freezes, crashes | `OneWriter`, `FailClosed`, `HolderGoverns` | 1,784,830 |
| `ship` | the worker beside two writers in three deployments | `RestoresPrefix`, `NumbersItsCommits`, `VouchedIsDurable`, `AllShipped` | 2,328,478 |
| `bucket` | tenures on one prefix in nine deployments | `LatestVerifies`, `ManifestsVerify`, `OneHistory`, `CalmlyBuriesNothing` | 685,977 |
| `tx_reload` | *violation*: a transaction across a reload | `NoLostUpdate` | |

Three more configurations pass and are kept beside the runs: `StoreKill.cfg` (the
batched policy with rule markers, kills and torn appends: `CrashSafe`,
`ReopenIsIdentity`; 619,161 states), `StoreUpgrade.cfg` (the upgrade's snapshot
when nothing is fsynced per commit: `CrashSafe`; 91,536) and `GroupSafe.cfg` (one
submitter of each kind, groups of four: the safety properties of `group`; 1,735,409).
The `TypeOK` of Processes, History, Lease, TxStore and Ship holds in their runs too: add
`INVARIANT TypeOK` to check it.

What they show:

* **Store.** `CrashSafe` quantifies over every crash possible in a state, so it
  covers a crash between any two file operations and every prefix of the
  unsynced WAL. `ReopenIsIdentity` says the same of a clean close. Both hold for
  strictly synced stores under power loss and for killed processes under the
  batched policy, and `CrashSafe` for the upgrade under the relaxed one. They are false in the configurations of section 5.
* **Processes.** `proc` has five deployments: `SharedWorld` (shared handles and
  readers, no fault, three snapshots), `MixedWorld` (every kind of handle, killed
  between appends), `OwnerWorld` (owners that are also killed in the middle of an
  append, so that the next has a torn tail to repair), `SyncWorld` (shared handles
  whose group's fsync fails; the group is cut off, or the cut fails too) and
  `FollowWorld` (a reader beside a committing peer). `WriteIsOnTop` is the claim
  of `docs/site/concurrency.md` that a write lands on top of every commit other
  processes have made, in the deployments that are `Safe` (no unlocked repair, no
  failed fsync, no torn append beside shared handles). It has two halves: the
  writer's cursor and its WAL's identity are always those of the file, and its graph
  is that of the files unless the handle `Straddles` a snapshot, that is, its last
  reload read one snapshot and took the identity of a later one (`db.rs:3439`).
  `AckedSurvives` says what that hole can cost: an acknowledged commit is in the
  files, or a straddling handle's own snapshot has left it out (`dropped`), which does
  happen (`HoleWorlds` in section 5). In `SyncWorld` it says that what was
  acknowledged survives a cut. `ReadIsCurrent` and `HandleIsPrefix` are about
  deployments whose files only grow.
* **GroupCommit.** `Implements` is refinement: the durable part of the WAL and
  the answers given behave as CommitLog, where "ok" is told only of what is in
  the log, and what was told "err" never gets there; the two errors that leave a
  commit in doubt are "unsure". `EventsFollowWal` and `CasOnUnchanged` hold although
  such frames lie in the WAL and in no graph. `EveryoneAnswered` is
  liveness, and stops at a drain thread that gave up after a failure.
* **History.** `NumbersKept` compares every number ever readable with what it
  finds later; `AsOfIsExact` compares `open_at` with the commits themselves at
  every moment, within a snapshot and after a kill. `NumbersKept` is about the
  worlds in which steps are cut short and do not fail.
* **Readers.** `OwnWritesSeen` holds although a capture takes no lock: the slot is
  set before `writing` is cleared, and `writing` is cleared before the guard goes,
  so whoever was answered finds his write in the slot; it holds through torn reloads
  and on a degraded handle. `PeersFollowed` depends on
  a look that began after the capture did; a capture served while a guard was held
  owes the peer nothing, and neither does one of a state that a peer's snapshot tore
  in its refresh (section 5, `LoadWorlds`). `CapturesAdvance` leaves out only that a
  later read goes back from such a state. Once a group's fsync has failed the handle
  is degraded, and only `OwnWritesSeen` and `CapturesReturn` are claimed.
* **Transactions.** `ConflictsDetected` is the promise of `transaction.rs` for a
  server that was not reloaded since BEGIN; section 5 has the other case.
  `ConflictsAreReal` says that a retry with nobody else writing succeeds.
* **TxStore.** `IdleIsRolledBack`: a client told that its transaction idled out
  can rely on it being rolled back, although requests race the reaper.
  `SlotsAreFreed` needs the reaper to look at slots that requests hold.
* **Lease.** `OneWriter` is the fence against the TTL: a holder stops writing two
  thirds of a TTL after its last confirmed renewal was sent, on either clock, and
  a contender waits a whole one after the stamp. `HolderGoverns` says whose TTL; the
  run's instances have equal ones, and for different ones it is the theorem of
  section 6.
* **Ship.** `RestoresPrefix` and `NumbersItsCommits` say that two looks around the
  reads are enough, with a snapshot, a reload, a power loss or a kill between any
  two of them. `AllShipped` is liveness: no deferral repeats for ever. It is claimed
  where no process is killed, no handle is blind, and no snapshot step fails with the
  handle going on, which leaves an intent that the worker waits for (`worker.rs:1016`).
* **Bucket.** `LatestVerifies` and `ManifestsVerify` hold at every moment, so also
  for a restore that starts between two requests of a dying worker.
  `OneHistory` has a parent and the child restored from it that both go on and come
  back, and a stranger's store. `CalmlyBuriesNothing` says that a tenure, a late
  request, a timeout or a retry never moves the newest restore point back, in a store
  that takes no snapshot between the start of a base upload and the generation's
  first manifest. It speaks of what the manifest names, and of the segments after it
  as well where no request lands late and LATEST stays with its lineage.

Each property of a passing run has a mutant in `PROJECT.json`: a definition
changed as a plausible bug would change it, under which TLC finds the property
violated. The mutated forms stand beside the originals as "Mutant of …".

### Bounds

* `Store`: at most 4 commits of two kinds of write, one a batch, with
  declarations. A second snapshot over an intent left by a failed first one, with
  a commit between, a crash and a WAL that comes to look like an old one, takes
  three. Snapshots and crashes are not bounded. Writes are symmetric where the
  policy does not tell batches apart.
* `Processes`: two interchangeable processes, three commits; three snapshots in
  `SharedWorld`, which is what it takes to open a hole, to come to write with it and to
  snapshot it; two or none elsewhere.
  Each counterexample of section 5 but one takes two processes;
  `CutThreeWorlds` takes three, and the theorems of section 6
  are about any number.
* `GroupCommit`: four callers, each with one call; a group holds up to two, so
  that a queue is drained in several groups.
* `History`: 5 commits where processes are killed and 4 where steps fail, 4
  snapshots, one declaration, retention 1: enough for archives to be swept, and
  for a sweep to be cut short and retried.
* `Readers`: two capturing threads (they share looks). Two captures with two commits
  of either process, two with a commit and a peer's snapshot, and one with two
  commits and two snapshots, so that a reload meets the second; in the world of
  failing fsyncs one capture.
* `Transactions`: two keys, one transaction, three other commits, one snapshot.
* `TxStore`: two transactions for one place, two requests, an idle time of 2 and a
  lifetime of 3: a transaction can be extended once and then runs into its
  lifetime, held or not.
* `Lease`: two instances, a TTL of 3 units and time to 3, clocks one unit apart,
  one request that lands late: the shortest takeover of a frozen holder fits.
* `Ship`: two commits and one snapshot, and one crash: a snapshot between any two
  looks, with a commit on either side of it.
* `Bucket`: two instances, one late request and one timeout, one retained restore
  point, so that retention deletes at every manifest after the first. Each world has
  its own bounds: two commits; three tenures without a snapshot, or two with one where
  requests are late or time out and three elsewhere. Where parent and child both write
  after the restore (`ParentAndChild`) it has three commits and the four tenures that
  takes: the parent's, the restore's and one more of each.

### Deadlock and fairness

The runs of Store, Processes and History check for deadlock. The others do not:
once everyone is answered, every transaction has ended, everything is shipped or
the time modelled is over, the system stops, as it should. That nobody waits for
ever is a liveness property where it matters (`EveryoneAnswered`,
`CapturesReturn`, `SlotsAreFreed`, `AllShipped`).

* GroupCommit: weak fairness of the drain thread, of a submitter that is past its
  degraded check, and of a direct writer that holds `wal_mu`: operating system
  threads that can run are run, and none of these steps waits for a user. Nobody
  has to submit, nobody has to drop the handle, and no fault has to happen.
  `wal_mu` needs no more than weak fairness here because each caller makes one
  call.
* Readers: weak fairness of the writer's thread, of guards that are being let go
  and of each capture. Nothing is assumed of the peer, which is another process.
* TxStore: weak fairness of the clock and of the reaper thread, which wakes by
  itself. No client has to send anything, and no request has to end.
* Ship: weak fairness of the worker's loop, of a load and of a snapshot that has
  begun. Nobody has to commit.

## 5. Where the code and its words differ

One disagreement is a run:

* `tx_reload`: a peer's snapshot makes the server reload, and a reload numbers
  commits anew: `commit_seq` restarts from the largest `last_change`, which
  deletions and declarations do not move, and marker frames are counted in replay
  but not when they are written. `check_preconditions` (`db.rs:15589`) compares a
  key's number of before the reload with its number of after it; they can be equal
  although the node was changed after BEGIN, and the commit overwrites the change.
  `transaction.rs:24`: "**Lost updates are impossible**".

More configurations mark the boundary of what the passing runs show. The first
column names the file, or the run's own file and what to change in it; the
deployments named are in the MC modules. TLC finds the property violated in each.

| Configuration | Violated | What it shows |
|---|---|---|
| `ProcTorn.cfg` | `AckedSurvives` | A peer killed in the middle of an append leaves torn bytes for good. A write scope's refresh (`db.rs:3789`) treats them as an append in flight, although it holds the lock and nobody can be appending; it appends behind them and acknowledges a commit no open decodes. `docs/design.md:211`: "a committed write survives crash, power loss, kill -9". |
| `GroupStuck.cfg` | `EveryoneAlwaysAnswered` | When a group's fsync fails, the drain thread answers that group and ends (`shared.rs:1746`); submissions queued behind it, or whose submitter passed the degraded check just before it was set, wait for ever. `shared.rs:1271`: "All submitters in the failed group and all subsequent callers receive `Err`". |
| `StoreMarker.cfg` | `CrashSafe` | A snapshot that keeps its WAL (`db.rs:17270`) is durable at once and covers a rule marker that no fsync has reached, even under Strict; a power loss leaves the WAL shorter than the snapshot's mark, and the open replays all of it over a snapshot that holds it. `upgrade_to_v11` has the missing fsync (`db.rs:10413`: "What the snapshot holds must be durable first"). |
| `StorePower.cfg` with `Crashes = {"kill", "power"}` | `CrashSafe` | The same of a commit: a process killed between the append and the fsync (`db.rs:7310`) leaves a frame that the next open reads and never fsyncs; a snapshot that keeps its WAL then holds it. Under a policy other than Strict (`Policy = "Batched"`) no kill is needed. |
| `StoreTorn.cfg` | `CrashSafe` | An append that fails part way (`db.rs:7297`) leaves its bytes and a usable handle; commits acknowledged after it lie behind torn bytes. |
| `StoreSync.cfg` | `ReopenIsIdentity` | A failed fsync (`db.rs:7310`) returns the error with the frame in the WAL and not in the graph, and the handle is not degraded: a reopen brings back a commit the caller was told had failed. |
| `StoreTorn.cfg`, or `StoreSync.cfg`, with `Modes = {"keep"}` | `RecoversPrefix` | What a snapshot after such an error does: the mark of one that covers torn bytes never matches, and the open applies every frame again over the snapshot that holds it; one that covers a frame whose fsync failed says that it holds a commit which it lacks, and the next commit is recovered without it. |
| `StoreIntent.cfg` | `IntentSettledAtAppend` | A keeping snapshot makes an intent untrue without marking it unsettled, so it outlives the next append, which `db.rs:9745` says it must not. The theorem `IntentsNeverRevive` shows that it is harmless. |
| `StoreV9.cfg` | `CrashSafe` | Without section 18 (V9, V10 snapshots) a crash between the archiving rename and the baseline write (`db.rs:17693`) loses a declaration; the comment at `db.rs:17563` calls the window safe. |
| `Proc.cfg` with `CutWorlds` | `WriteIsAlwaysOnTop` | A group cut off in place after a failed fsync (`shared.rs:1718`) and regrown to the same length goes unnoticed by a handle that had read the cut commit. |
| `Proc.cfg` with `CutThreeWorlds` and a third process | `AckedSurvives` | The same, with a snapshot: one process cuts its group off, a second appends and acknowledges another of the same length, and a third that had read the cut one enters its write scope, finds the length it remembers, and writes a snapshot without the acknowledged commit. |
| `Proc.cfg` with `LookWorlds` | `ReadIsAlwaysCurrent` | A refresh (`db.rs:3729`) that looks at the snapshot before, and at the WAL after, a peer replaced both serves a read without an acknowledged commit. |
| `Proc.cfg` with `RepairWorlds` | `AckedSurvives` | `SharedDb::open`, which holds no lock, takes a peer's half-written frame for a torn tail and replaces the WAL (`db.rs:3286`); the peer's commit goes with the unlinked file. |
| `Proc.cfg` with `LoadWorlds` | `WriteIsAlwaysOnTop` | A reload whose snapshot is from before, and whose WAL and identity are from after, a peer's snapshot (`db.rs:3439`) has a hole that nothing tells it of; with no fault, the handle enters its write scope with it. |
| `Proc.cfg` with `HoleWorlds` | `AckedAlwaysSurvives` | The same handle's own snapshot: its refresh under the lock finds the identities and the length it remembers, `snapshot_with` writes the graph it has (`db.rs:17533`) and replaces the WAL, and an acknowledged commit of the peer is gone. Three snapshots, no fault. |
| `History.cfg` with `IoWorlds` | `NumbersAlwaysKept` | A sweep that fails after it raised the floor (`db.rs:17745`) leaves archives counted from the wrong floor until the next open. |
| `History.cfg` with `AsOfWorlds` | `AsOfIsExact` | The floor is raised in memory before its write; when that fails, a retry raises it again, a truncating snapshot skips its own floor write and deletes the archives, and `open_at` answers without the older commits. |
| `Readers.cfg` with `SnapWorlds` | `PeersAlwaysFollowed` | A capture made while this process holds a write guard is served the published state unseen (`shared.rs:451`), without what a peer acknowledged before it. `concurrency.md` promises a peer's writes to the next read. |
| `Readers.cfg` with `LoadWorlds` | `PeersFollowedThroughSnapshots` | The same reload in a capture: it is served a state without a commit that the peer had acknowledged before it began, although it met no write guard. |
| `Readers.cfg` with `FailWorlds` | `CapturesAreStates` | After a failed fsync the handle keeps the lost group in its graph (`shared.rs:1718`), and its next refresh puts a peer's commits on top: a capture is then a state the store was never in. |
| `Tx.cfg` with `Legacy <- OneKey`, no snapshots | `NoLostUpdate` | A node of a snapshot older than the `last_change` section has no number, and a deletion and re-creation within the check's reach go unnoticed: the limit that `db.rs:15511` documents. |
| `TxStore.cfg` | `ToldIsRolledBack` | A commit in flight when its transaction's lifetime passes lands after its client was told, on another request, that the transaction expired; `tx.rs:28` and `tx.rs:43` allow it, the words of the 410 do not say so. |
| `LeaseSane.cfg` | `OneWriter` | A TTL above `MAX_SANE_TTL_S` makes a live holder's record suspect (`lease.rs:177`), and a contender with a short TTL takes over while the holder writes; nothing caps the configured TTL (`store.rs:115`). |
| `LeaseLost.cfg` | `LossIsReal` | The second swap of `reconcile` (`lease.rs:529`) can lose to the instance's own late renewal, and the worker gives up a lease it holds. `lease.rs:33`: "A request whose answer was lost is not a lost lease". |
| `Lease.cfg` with a third instance, the fault `"overtaken"`, time to 4 | `OneWriter` | The `DELETE` of a release removes the lease of whoever took over after the read before it, and a third instance acquires at once: the window that `lease.rs:573` documents. The lease removed can also be a newer one of the sender itself, when the hand-back of a superseded acquisition (`lease.rs:366`) arrives late. |
| `ShipKilled.cfg` | `LosesAtMostTheCadence` | A process killed within a snapshot leaves an intent, and the worker defers every step while one is there (`worker.rs:1016`), for as long as nobody writes. `docs/site/deployment.md:386`: a restore loses at most the segment cadence. |
| `Bucket.cfg` with `BackWorlds` | `BuriesNothing` | A snapshot during a base upload makes `ship_segments` return without the old WAL's tail, and the manifest that follows moves LATEST back to the base (`worker.rs:1415`), until the next one. |
| `Bucket.cfg` with `ChildWorlds` | `BuriesNothing` | A parent that comes back after its child was restored ships a segment and dies before its manifest; the child's adoption compares the manifest's key only (`worker.rs:1093`), and its LATEST buries that segment. |
| `Bucket.cfg` with `TailWorlds` | `ShippedIsRestored` | A segment whose PUT timed out but landed, and the longer one that is sent again from the same offset, both match `tail_segments` (`restore.rs:634`), which stops there: later segments are not restored before the next manifest. |
| `Bucket.cfg` with `FileWorlds` | `LatestVerifies` | `put_file` looks and then puts without a condition (`worker.rs:1848`); an upload of an ended tenure completes over the object of the next. |
| `Bucket.cfg` with `DeleteWorlds` | `LatestVerifies` | A `DELETE` of an ended tenure arrives after the side file it names, addressed by content, was uploaded again. |
| `Bucket.cfg` with `CopyWorlds` | `OneHistory` | A copied data directory has the lineage of the original; with as many commits it is not refused (`worker.rs:1093`) and LATEST passes to it. |

The comment at `worker.rs:48` says that a restored store carries its lineage on;
`restore.rs:25`, and the code, give it a new one. Bucket follows the code.

## 6. Proofs

Each theorem is about every value of the constants that satisfies the module's
assumption: any set of writes, callers, instances or transactions, any limits and
any combination of the faults modelled. Each inductive invariant was an invariant
of TLC runs before it was proved.

### Store

* **`TypeCorrect`**, `Spec => []TypeOK` (StoreProofs). `TypeOK` says more than
  types in four places: an open yields a graph from any files, `synced` is a
  prefix of the WAL, no more than two intents are ever in the file, and
  `promised` counts commits of the store. The last is not inductive: `Open` cuts
  the history to what the WAL reaches, so one must know that the WAL reaches no
  more than there is. `TypeInv` adds `IdsInOrder`: the commits that longer and
  longer parts of the WAL reach never decrease, and never exceed the history.
* **`IntentsNeverRevive`**, `Spec => []NoRevivableIntent` (StoreProofs).
  `NoRevivableIntent` speaks of the moments after an append. The invariant
  `IntentInv` says why it holds there: when the handle has nothing to settle,
  every intent that names the snapshot on disk is true of the WAL
  (`NothingWaits`), and while a snapshot is replacing the WAL, the handle knows
  that it has something to settle (`KnowsUnsettled`). The steps that carry the
  argument: a growing WAL keeps intents true (`NamingStandLonger`); a file without
  left-overs holds only true ones (`SettledStand`); the torn tail that an open
  cuts off is in no WAL an intent names (`OpenIntentInv`); a snapshot that keeps
  its WAL is marked, and no intent names a marked one (the `WriteSnapshot` case).
* **`CrashesLoseNothing`**, `SafeConfig => (Spec => []CrashSafe)`, and
  **`ReopenRebuilds`**, the same of `ReopenIsIdentity` (StoreProofs), from
  `CrashInv`, together with `TypeInv` and `IntentInv`. `SafeConfig` is what the
  counterexamples of section 5 leave: the snapshot carries the declarations
  (`StoreV9`), no append and no fsync fails with the handle going on (`StoreTorn`,
  `StoreSync`), and what a snapshot holds is durable when it is taken, because
  there is no power loss, or because every frame is fsynced before anything else
  happens (Strict, no markers, no kills: `StoreMarker` and `StorePower` with kills),
  or because the only snapshots are those of `upgrade_to_v11`, which fsyncs first.
  Writes, their number, the order of commits, snapshots of all modes, failed
  snapshot steps, crashes and opens are arbitrary.

  The argument has three parts. *The WAL is a record of the commits* (`Chained`):
  every stretch of frames writes exactly the commits between those its two ends
  reach, and leads from the declaration at the one to that at the other; hence
  replay over the graph after the first q frames gives the graph after the last,
  if it skips those q or if they write nothing (`ReplayChained`; that a declaration
  may be replayed over its own effect is `DeclAgain`). *What an open takes for held
  is held* (`SnapIsHeld`): the frames named by the snapshot's own mark, or by an
  intent that stands, are those in the snapshot, and no crash can lose them; if
  neither is there, the snapshot is the graph after a part of the WAL without
  writes. `IntentsInOrder` is what makes this inductive through a snapshot that
  replaces the WAL, where for a moment only the intent says what the new snapshot
  holds, and `IntentInv` keeps a growing WAL from meeting an intent that is not
  true. *What a snapshot will hold is durable* (`NothingUnsynced`), and what was
  promised is within what no crash loses (`PromisesKept`). `Recovers` puts the
  three together, for every prefix a crash may leave.
* **`FaultsKeepPrefix`**, `SafeConfig \/ Modes = {} => (Spec => []RecoversPrefix)`
  (StoreProofs): with any appends cut short, any failed fsyncs, markers, kills
  and power losses, an open rebuilds the graph after some number of the commits,
  as long as a handle that went on after such an error takes no snapshot (section 5
  has what one does). `MemIsCurrent`, `TornOnlyWhenDown` and `PromisesKept` are false
  here: the handle's graph may lack commits that are in the WAL, torn bytes lie
  between whole frames, and commits behind them are lost. What is left is `FaultInv`:
  the WAL is the whole store (`WalIsAll`), it is still `Chained`, since torn bytes and
  markers write nothing and reach no further commit (`ChainedSilent`), and it reaches
  every commit while the handle is up (`ReachesEnd`), although the frames behind torn
  bytes are only there to be cut off. An open then stops at the first torn bytes of
  whatever prefix it finds, and `ReplayChained` says what it has read.
* **StoreProofs** also has what the operators return: `ValidLen`, `StandingIntent`,
  `DeclAfter`, `Replay`, `Recover`, and the order of commits in a WAL that is
  appended to or cut.

### Processes

The theorems (ProcessesProofs) are about any number of processes, commits and
snapshots. Two hold in the deployments that satisfy `Safe`, which leaves out three
faults, each with a counterexample in section 5: repairs of a WAL without the lock
(`RepairWorlds`), failed fsyncs (`CutWorlds`, `CutThreeWorlds`), and, where there are
shared handles, writers that die in the middle of an append (`ProcTorn`).

* **`WritesLandOnTop`**, `Spec => []WriteIsOnTop`, and **`AcknowledgedIsKept`**,
  `Spec => [](Safe => AckedSurvives)`, from `SafeInv`. It says of the handle that
  holds the lock what it knows at each of its looks (`HolderPart`): which of the
  snapshot, the WAL and the cursor it has already compared with the files. A shared
  handle without the lock may be anywhere in a refresh when a peer replaces the
  files, any number of times. `SharedPart` says what is left of it then: the
  snapshot it loaded, and the identities it has, are at most those on disk; if its
  WAL's identity is that on disk its cursor is within that WAL; and if the snapshot it
  *loaded* and the one it *names* are both the one on disk, its graph is that
  snapshot and the WAL before the cursor (`Coherent`). What a handle loaded and what
  it names differ only if it straddled a snapshot, so the graph of any other handle
  is right by the time it may write. A snapshot under the lock therefore drops
  commits only if its handle straddles, and these are what `dropped` collects.
  Torn bytes are only at the end of a WAL, and are those of an append under way or of
  a dead owner (`FilePart`).
* **`ReadsAreCurrent`** (`ReadIsCurrent`) and **`HandlesSkipNothing`**
  (`HandleIsPrefix`), from `GrowInv`: while the WAL only grows, a handle, whatever it
  is doing, has exactly the commits before its cursor, and its cursor stops at torn
  bytes.

Attempting `AcknowledgedIsKept` without the exclusion of failed fsyncs showed that a
cut and a snapshot together lose an acknowledged commit among three processes:
`CutThreeWorlds` in section 5.

### GroupCommit

`GroupInv` (GroupCommitProofs) holds for any callers, any kinds of batches, any
size of a group and any faults of the drain thread. Its parts beyond the types:
each batch is once in the queue or in the group, and its caller waits (`Queued`);
how far the thread is with its group (`Progress`); `wal_mu` has one holder
(`Exclusion`); a caller has at most one frame, and a frame belongs to a caller who
was told "ok", is in doubt or holds the lock, or is of a group that is open or has
failed (`Frames`); what is applied and not yet delivered is deferred (`Delivered`);
what is applied lies in the WAL in the same order, with frames between that no graph
has, and durably once it is delivered (`Placed`). Neither
property below is inductive without them: that an event follows the WAL depends
on nobody else appending between the group's frames and its fsync, hence on
`Exclusion`, and that a failed group can be cut off at `pre` depends on
`Delivered` and `Placed`.

* **`WellTyped`**, `Spec => []TypeOK`; **`EventsInOrder`**, `Spec =>
  []EventsFollowWal`; **`CasLandsOnNamed`**, `Spec => []CasOnUnchanged`.
* **`KeepsPromise`**, `Spec => Implements`: the write path refines CommitLog, by
  step simulation under `GroupInv`. A step leaves the durable log and the answers
  alone, or grows the log at the end by frames of callers not yet answered or in doubt
  (the group's fsync, a direct write), or answers callers (the group's results, a
  failure): "ok" only where `Frames` finds the caller in the log, "err" only where
  it finds that the caller is not, and never will be, there; a caller whose frame an
  error leaves in the WAL is "unsure", and a later fsync of anybody may log it.

### Readers

The theorems (ReadersProofs) hold for any number of captures, commits and
snapshots, with every look and every read of a refresh a step of its own. They rest
on two invariants, because what a failed fsync leaves differs.

* **`OwnWritesAreSeen`** (`OwnWritesSeen`), in every world, from `OwnInv`. Outside a
  guard's body and its end the slot is the handle (`SlotIsHandle`), and the commit of
  a group that may still be cut off is the last of the WAL and nobody was told of it
  (`GroupIsLast`). What this process acknowledged is in the files, and either in the
  snapshot on disk or the handle has no reason to reload (`Anchored`): a refresh reads
  the files at several moments, but a reload begins only after a peer's snapshot, or
  after a cut, and whatever was there at its beginning is in every snapshot after it.
  So a reload that loses a peer's commits still finds this process's own (`OwnKept`).
* **`CapturesGoForward`** (`CapturesAdvance`) and **`PeersAreFollowed`**
  (`PeersFollowed`), until a group's fsync fails, from `PeerInv`. A whole state whose
  snapshot's identity is still that on disk misses only the WAL's tail after its mark
  (`Follows`); this is kept for the handle, the slot and the slot each capture copied,
  and, read by read, for a handle that is being reloaded (`CapturePeer`). All that any
  whole capture has shown, or may yet show from a slot it holds, is `Anchored` and in
  the handle and the slot (`Shown`, `PeerKept`), so a torn reload cannot take it back
  either. The peer may commit while a look that began later is under way, so
  `LooksVouch` speaks of looks: one numbered after the capture's, finished or not,
  vouches for what the capture's slot has if it saw the slot's mark. A snapshot of
  the peer between a look's two reads keeps that, since its identity is one that no
  slot has.

### Transactions

The theorems (TransactionsProofs) hold for any keys and transactions, any number of
commits of either process, and snapshots of either.

* **`NoUpdateIsLost`**, `Legacy = {} => (Spec => ConflictsDetected)`. A commit compares
  numbers and promises contents, and the numbers are a handle's own: the peer's differ,
  and so do this server's after a reload. `TxInv` therefore speaks of the server's
  handle while its `store_id` is still that of BEGIN (`OfOneNumbering`): a node whose
  number BEGIN had seen is as in the base, or deleted. That survives a refresh and a
  commit because both only move a handle forward (`Advances`): what they change gets a
  number above all of BEGIN's, or is deleted. A deletion leaves no number, so what is
  compared must tell an absent node from one that is there (`Recording`), which is
  where the hypothesis is needed: in a store whose nodes all have a number
  (`AllMarked`) a recorded 0 is an absence. That what the handle has after its refresh
  is what is on disk is `ServerFollows`: the frames after the position it has read up
  to bring it to the store, or the snapshot is another one and it reloads. Without the
  hypothesis section 5 has the counterexample (`Legacy <- OneKey`), and `tx_reload` has
  the one for a reload.
* **`ConflictsHaveACause`**, `Spec => ConflictsAreReal`, from the same `TxInv` without
  any hypothesis: a node that no commit after the base moved keeps its content and its
  number in the server's handle, and was recorded with that number, at whatever moment
  the transaction first touched it. `FramesMove` ties the frames of the WAL to the
  commits that moved their nodes.

### TxStore

`TxInv` (TxStoreProofs) relates three pieces of state that the code keeps in
different places: the registry, the requests under way and what became of each
transaction. A body is lent to one request (`RequestsAlone`); a slot without its
body belongs to a request that will end it or give it back (`SlotsOwned`); a live
transaction's body is somewhere (`FatesTrue`); only what was rolled back is
remembered as idle (`IdleIsDropped`); the slots are finitely many and within the
limit (`SlotsCounted`). From it:

* **`OneBody`** (`BodyIsInOnePlace`), **`IdleMeansRolledBack`**
  (`IdleIsRolledBack`), **`SlotsWithinLimit`** (`WithinLimit`) and **`Drained`**
  (`DrainedIsEmpty`).

### Lease

* **`OneWriterHolds`** (`OneWriter`) and **`HolderGovernsHolds`**
  (`HolderGoverns`), from `LeaseInv` (LeaseProofs), under two hypotheses, both
  necessary (section 5 has the counterexamples): `SafeTtls`, wall clocks differ by
  at most a third of any TTL and no TTL is above `MAX_SANE_TTL_S`; and no fault
  "overtaken", no `DELETE` arrives after the lease it was sent for is gone. The
  TTLs, the clocks' drift within that, the number of instances, lost, late and
  repeated requests, freezes and crashes are arbitrary. The invariant says of
  every record, wherever it is (in the object, in a late request, in an answer
  being read), that its writer's clock has shown its time (`RecTrue`), and of every
  request that the version it names is one its sender may replace (`ReqTrue`): none,
  its own, or one whose TTL has passed on the sender's clock, which stays true
  however late the request lands. `AwaitsNewest` says that what an instance waits
  for is the newest of its records, so an older one that lands late cannot shorten
  its lease; `Fenced`, that until its fence the object is the holder's. Two
  instances before their fences would both be in the object.
* **`FailClosedHolds`** (`FailClosed`), from `ProbeInv`, with no hypothesis: on a
  service that ignores a precondition no instance ever gets past the probes.

Attempting `OneWriterHolds` showed that the model's first rule for a late
`DELETE` was too weak: it excluded a takeover between the read and the `DELETE`,
and not a lease that the sender itself took in between. The row of
section 5 about the fault "overtaken" records what then happens.

### Ship

The theorems (ShipProofs) hold in every deployment: either process or both write and
take snapshots of any mode, under any policy, any number of times, with kills and
power losses.

* **`PositionIsDurable`** (`VouchedIsDurable`), from `VouchInv`. The worker fsyncs
  the file that has the WAL's name, without a lock, and tells the handle afterwards
  how much that covered; in between the handle may have moved to another WAL.
  `VouchesForSynced` says that what is vouched for of the WAL on disk is synced. It
  needs two more facts: inodes the handle remembers are never those of a WAL to come
  (`RemembersPast`), and a handle that is about to move vouches for nothing, with a
  generation no answer under way has (`MovesClean`, `Clean`). The order in
  `DurableWal::replaced`, first the generation and then the file, is what makes
  `MovesClean` inductive.
* **`BackupsArePrefixes`** (`RestoresPrefix`), from `RestoreInv`, which adds to
  `VouchInv` that the snapshot and the WAL together are the store (`StorePart`), and
  that every set of commits the worker has read is `Good`: first commits of the store
  that no power loss takes back. For what is read of the WAL that is not so when the
  files have moved since the generation began. `ReadPart` therefore says that the
  read goes on from the generation (`GoesWith`), or the files have moved and the look
  after the read will say so (`Moved`). The new files' identities are new
  (`FilesGoOn`), so `Moved` stays true until that look.
* **`BackupsKeepNumbers`** (`NumbersItsCommits`), from `NumInv`. The worker opens the
  snapshot, the archives and reads the floor one after the other, while a snapshot
  moves all three. The files number the WAL's frames except between the floor and the
  end of a truncating snapshot (`Steady`); a look that saw no intent beside the
  snapshot still on disk was made when none of them was being moved, and none has
  been since (`CalmPart`); hence what was opened is of one moment, or the second look
  sees another snapshot (`OpenNum`). Crashes are excluded by the property itself.

### Only model-checked

* Liveness (`EveryoneAnswered`, `DrainStops`, `CapturesReturn`, `SlotsAreFreed`,
  `AllShipped`) and everything that rests on fairness: TLAPS does not reach it.
* `AckedSurvives` where a group's fsync fails (`SyncWorld`: two processes and no
  snapshot).
* History: what `open_at` and the archives' numbers give are folds over the sorted
  archives, and what a fold computes takes induction over data.
* Bucket.

## 7. Running

    tlc -config StorePower.cfg MCStore
    tlapm StoreProofs.tla
    tlapm GroupCommitProofs.tla
    tlapm ShipProofs.tla

`PROJECT.json` pairs every run with its module and configuration, and every
definition that models code with the lines it models.

## 8. Not modelled, and why

* Rule engine, vector, full-text and property indexes, column and topology
  storage, encodings, identifier maps: sequential computation over large data,
  with oracles and differential tests in the repository. What they mean for
  durability (marker frames, declarations) is in Store.
* Cypher and the query engine: a language implementation with a conformance
  suite of its own and no shared state.
* Roles, masks and access keys: rules over data. The place of a role-scoped batch
  in a group is in GroupCommit.
* Delivery of subscriptions, HTTP, MCP and Bolt servers, command line, bindings,
  clients, user interface: input and output around the modelled calls. The order
  of events against the WAL is in GroupCommit.
* In the modelled parts: `enable_multiplicity`'s own snapshot, migration of old
  formats at open, the commit-time sidecar, a second process during a history
  read, and reuse of file identities; the staging, install and undo of an in-place
  restore and point-in-time cuts (`restore.rs`), which are sequential file
  operations of one process on a directory nobody else has open; requests that
  other clients send to the bucket; retry pacing and logging of the worker;
  panics, except those of a transaction's statement.
