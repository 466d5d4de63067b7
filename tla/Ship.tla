-------------------------------- MODULE Ship --------------------------------
(***************************************************************************)
(* The backup worker against the files of a store that is being written:   *)
(* which snapshot goes with which WAL, and how much of the WAL a power     *)
(* loss cannot take back (BackupWorker::run_once, disk.rs, durable_wal.rs).*)
(*                                                                         *)
(* Three actors share the store directory.  The server's handle commits,   *)
(* fsyncs, takes snapshots and follows a peer; a peer process commits and  *)
(* takes snapshots; the worker looks at the files' metadata, asks the      *)
(* handle for its durable position, and reads.  The worker takes no lock:  *)
(* each stat, each position and each read is an action.  The cross-process *)
(* lock keeps writers apart, so a commit is one action, and a snapshot     *)
(* that runs excludes commits.                                             *)
(*                                                                         *)
(* A frame is its commit's number and has length 1; the replacement of a   *)
(* WAL holds no frame (a store without declarations).  What is uploaded    *)
(* is an element of `gens`: how it reaches the bucket is module Bucket's.  *)
(***************************************************************************)
EXTENDS Naturals, Sequences, FiniteSets, SequencesExt

CONSTANTS
  Worlds,      \* the deployments, one of which a behaviour is in:
               \*   writers, who commits, and snappers, who takes snapshots: "own", "peer"
               \*   policies, FsyncPolicy: "full" for every commit, "relaxed" for none
               \*   faults: "power" loses unsynced frames, "kill" stops a process
  Modes,       \* what a snapshot does with the WAL: "truncate", "archive", "keep"
  MaxCommits, MaxSnaps, MaxCrashes

ASSUME ShipAssumption ==
  /\ Worlds \subseteq [writers  : SUBSET {"own", "peer"}, snappers : SUBSET {"own", "peer"},
                      policies : SUBSET {"full", "relaxed"}, faults : SUBSET {"power", "kill"}]
  /\ Modes \subseteq {"truncate", "archive", "keep"}
  /\ MaxCommits \in Nat /\ MaxSnaps \in Nat /\ MaxCrashes \in Nat

VARIABLES
  world,    \* the deployment this is; it never changes
  log,      \* the commits the store holds, in order
  next,     \* the next commit's number
  snap,     \* snapshot.bin: its identity and the commits it holds
  wal,      \* wal.bin: its inode, its frames and how many are on stable storage
  floor,    \* wal.floor
  arch,     \* how many frames the archives hold
  intent,   \* snapshot.intent: the snapshot and the WAL it names
  job,      \* the snapshot that runs
  eng,      \* the handle: its cursor, and the DurableWal cell
  w,        \* the worker
  cur,      \* the worker's current generation: its WalKey and its cursor
  gens,     \* the generations uploaded, oldest first
  crashes

disk == <<snap, wal, floor, arch, intent>>
vars == <<world, log, next, disk, job, eng, w, cur, gens, crashes>>

NoIntent == [snap |-> 0, wal |-> 0]
NoJob == [by |-> "none", mode |-> "none", pc |-> "none"]
NoKey == [gen |-> 0, snap |-> 0, wal |-> 0]
NoCur == [key |-> NoKey, cursor |-> 0]
NoLook == [snap |-> 0, wal |-> 0, len |-> 0, intent |-> FALSE]
NoPos == [key |-> NoKey, len |-> 0, busy |-> FALSE]
NoVouch == [gen |-> 0, len |-> 0]
Idle == [pc |-> "idle", goal |-> "idle", disk |-> NoLook, eye |-> NoLook, pos |-> NoPos,
         vouch |-> NoVouch, key |-> NoKey, read |-> <<>>,
         opened |-> [snap |-> 0, done |-> <<>>, arch |-> 0, floor |-> 0]]

\* standing_intent: an intent that names the snapshot and the WAL on disk is kept.
LeftOver == intent # NoIntent /\ (intent.snap # snap.id \/ intent.wal # wal.ino)
Settled == IF LeftOver THEN NoIntent ELSE intent

\* DurableWal::loaded: nothing of the WAL is vouched for.
Loaded(gen) == [gen |-> gen, len |-> 0, unvouched |-> Len(wal.frames), snap |-> snap.id,
                wal |-> wal.ino, busy |-> FALSE, consumed |-> Len(wal.frames),
                unsettled |-> LeftOver, pc |-> "up"]

Init ==
  /\ world \in Worlds /\ log = <<>> /\ next = 1
  /\ snap = [id |-> 0, done |-> <<>>] /\ wal = [ino |-> 1, frames |-> <<>>, synced |-> 0]
  /\ floor = 0 /\ arch = 0 /\ intent = NoIntent /\ job = NoJob
  /\ eng = [gen |-> 1, len |-> 0, unvouched |-> 0, snap |-> 0, wal |-> 1, busy |-> FALSE,
            consumed |-> 0, unsettled |-> FALSE, pc |-> "up"]
  /\ w = Idle /\ cur = NoCur /\ gens = <<>> /\ crashes = 0

worker == <<w, cur, gens>>

-----------------------------------------------------------------------------
(* The handle follows a peer: refresh_checking, and load_from_disk.        *)

IsStale == Len(wal.frames) # eng.consumed \/ snap.id # eng.snap
IsCurrent == eng.snap = snap.id /\ eng.wal = wal.ino /\ eng.consumed = Len(wal.frames)

\* What no tail read can follow.  Before an append the WAL's identity is always
\* looked at, by a reader only if the WAL grew.
MustReload(appending) ==
  \/ snap.id # eng.snap
  \/ Len(wal.frames) < eng.consumed
  \/ (appending \/ Len(wal.frames) > eng.consumed) /\ wal.ino # eng.wal

\* DurableWal::replaced, before the load; DurableWal::absorbed, after a tail.
Refresh(appending) ==
  eng' = IF MustReload(appending)
         THEN [eng EXCEPT !.gen = @ + 1, !.len = 0, !.unvouched = 0, !.pc = "load"]
         ELSE [eng EXCEPT !.consumed = Len(wal.frames),
                          !.unvouched = IF Len(wal.frames) > eng.len THEN Len(wal.frames) ELSE @]

\* A read on the server refreshes; so does the scope of a write, under the lock.
ReadRefreshes ==
  /\ eng.pc = "up" /\ job.by # "own" /\ IsStale
  /\ Refresh(FALSE)
  /\ UNCHANGED <<world, log, next, disk, job, worker, crashes>>

WriteRefreshes ==
  /\ "own" \in world.writers \cup world.snappers /\ eng.pc = "up" /\ job = NoJob /\ ~IsCurrent
  /\ Refresh(TRUE)
  /\ UNCHANGED <<world, log, next, disk, job, worker, crashes>>

\* The WAL is read, and at the end the identity of the snapshot.
LoadWal ==
  /\ eng.pc = "load"
  /\ eng' = [eng EXCEPT !.pc = "ident", !.consumed = Len(wal.frames), !.wal = wal.ino,
                          !.unsettled = LeftOver]
  /\ UNCHANGED <<world, log, next, disk, job, worker, crashes>>

LoadIdent ==
  /\ eng.pc = "ident"
  /\ eng' = [eng EXCEPT !.pc = "up", !.snap = snap.id, !.unvouched = eng.consumed]
  /\ UNCHANGED <<world, log, next, disk, job, worker, crashes>>

-----------------------------------------------------------------------------
(* Commits.                                                                *)

\* Under "full" the commit's fsync is made before the lock is let go.  The first
\* append to a store without a WAL makes the file.
Commit(policy) ==
  /\ next <= MaxCommits /\ job = NoJob
  /\ wal' = [ino    |-> IF wal.ino = 0 THEN snap.id + 1 ELSE wal.ino,
             frames |-> Append(wal.frames, next),
             synced |-> IF policy = "full" THEN Len(wal.frames) + 1 ELSE wal.synced]
  /\ log' = Append(log, next) /\ next' = next + 1

\* DurableWal::synced follows the fsync.
OwnCommit(policy) ==
  /\ "own" \in world.writers /\ eng.pc = "up" /\ IsCurrent
  /\ Commit(policy)
  /\ LET n == Len(wal.frames) + 1
     IN eng' = [eng EXCEPT !.consumed = n, !.wal = wal'.ino, !.unsettled = FALSE,
                           !.len = IF policy = "full" THEN n ELSE @,
                           !.unvouched = IF policy = "full" THEN 0 ELSE @]
  /\ intent' = IF eng.unsettled THEN Settled ELSE intent
  /\ UNCHANGED <<world, snap, floor, arch, job, worker, crashes>>

\* A peer that opened the store after the intent was left settles it.
PeerCommit(policy) ==
  /\ "peer" \in world.writers
  /\ Commit(policy)
  /\ intent' \in {intent, Settled}
  /\ UNCHANGED <<world, snap, floor, arch, job, eng, worker, crashes>>

-----------------------------------------------------------------------------
(* snapshot_with, by the handle or by the peer.                            *)

\* The intent is written before the snapshot, by a snapshot that replaces the WAL.
BeginSnapshot(by, mode) ==
  /\ job = NoJob /\ snap.id < MaxSnaps
  /\ by = "own" => eng.pc = "up" /\ IsCurrent
  /\ job' = [by |-> by, mode |-> mode, pc |-> "snapshot"]
  /\ intent' = IF mode = "keep" THEN intent ELSE [snap |-> snap.id + 1, wal |-> wal.ino]
  /\ eng' = IF by = "own" THEN [eng EXCEPT !.busy = TRUE, !.unsettled = @ \/ mode # "keep"] ELSE eng
  /\ UNCHANGED <<world, log, next, snap, wal, floor, arch, worker, crashes>>

WriteSnapshot ==
  /\ job.pc = "snapshot"
  /\ snap' = [id |-> snap.id + 1, done |-> log]
  /\ job' = [job EXCEPT !.pc = CASE job.mode = "keep" -> "finish"
                                 [] job.mode = "archive" -> "archive"
                                 [] job.mode = "truncate" -> "floor"]
  /\ UNCHANGED <<world, log, next, wal, floor, arch, intent, eng, worker, crashes>>

\* The floor goes first, past every frame that is about to be discarded.
WriteFloor ==
  /\ job.pc = "floor"
  /\ floor' = floor + arch + Len(wal.frames)
  /\ job' = [job EXCEPT !.pc = "replace"]
  /\ UNCHANGED <<world, log, next, snap, wal, arch, intent, eng, worker, crashes>>

\* DurableWal::replaced goes before the WAL's replacement.
Replaced == [eng EXCEPT !.gen = IF job.by = "own" THEN @ + 1 ELSE @,
                        !.len = IF job.by = "own" THEN 0 ELSE @,
                        !.unvouched = IF job.by = "own" THEN 0 ELSE @]

\* An empty WAL has nothing to archive, and stays.
ArchiveWal ==
  /\ job.pc = "archive"
  /\ IF wal.frames = <<>>
     THEN /\ job' = [job EXCEPT !.pc = "empty"]
          /\ UNCHANGED <<arch, wal, eng>>
     ELSE /\ job' = [job EXCEPT !.pc = "replace"]
          /\ arch' = arch + Len(wal.frames)
          /\ wal' = [ino |-> 0, frames |-> <<>>, synced |-> 0]
          /\ eng' = Replaced
  /\ UNCHANGED <<world, log, next, snap, floor, intent, worker, crashes>>

ReplaceWal ==
  /\ job.pc = "replace"
  /\ wal' = [ino |-> snap.id + 1, frames |-> <<>>, synced |-> 0]
  /\ eng' = IF job.mode = "truncate" THEN Replaced ELSE eng
  /\ job' = [job EXCEPT !.pc = IF job.mode = "truncate" THEN "prune" ELSE "empty"]
  /\ UNCHANGED <<world, log, next, snap, floor, arch, intent, worker, crashes>>

\* A truncating snapshot deletes the archives, all of which end below the floor.
DeleteArchives ==
  /\ job.pc = "prune"
  /\ arch' = 0 /\ job' = [job EXCEPT !.pc = "empty"]
  /\ UNCHANGED <<world, log, next, snap, wal, floor, intent, eng, worker, crashes>>

EmptyIntent ==
  /\ job.pc = "empty"
  /\ intent' = NoIntent /\ job' = [job EXCEPT !.pc = "finish"]
  /\ eng' = [eng EXCEPT !.unsettled = @ /\ job.by # "own"]
  /\ UNCHANGED <<world, log, next, snap, wal, floor, arch, worker, crashes>>

\* The handle re-takes its markers; a replaced WAL was written with an fsync.
FinishSnapshot ==
  /\ job.pc = "finish"
  /\ job' = NoJob
  /\ eng' = IF job.by = "own"
            THEN [eng EXCEPT !.consumed = Len(wal.frames), !.snap = snap.id, !.wal = wal.ino,
                             !.busy = FALSE,
                             !.len = IF eng.wal = wal.ino THEN @ ELSE Len(wal.frames)]
            ELSE eng
  /\ UNCHANGED <<world, log, next, disk, worker, crashes>>

-----------------------------------------------------------------------------
(* Crashes.  A process that stops leaves its files; the server starts      *)
(* again, with a worker that knows nothing of the one before.              *)

ServerKilled ==
  /\ "kill" \in world.faults /\ crashes < MaxCrashes /\ crashes' = crashes + 1
  /\ job' = IF job.by = "own" THEN NoJob ELSE job
  /\ eng' = Loaded(1) /\ w' = Idle /\ cur' = NoCur
  /\ UNCHANGED <<world, log, next, disk, gens>>

PeerKilled ==
  /\ "kill" \in world.faults /\ crashes < MaxCrashes /\ crashes' = crashes + 1
  /\ job.by = "peer" /\ job' = NoJob
  /\ UNCHANGED <<world, log, next, disk, eng, worker>>

PowerLoss ==
  /\ "power" \in world.faults /\ crashes < MaxCrashes /\ crashes' = crashes + 1
  /\ job = NoJob
  /\ \E n \in wal.synced..Len(wal.frames) :
       LET lost == ToSet(SubSeq(wal.frames, n + 1, Len(wal.frames))) \ ToSet(snap.done)
       IN /\ wal' = [wal EXCEPT !.frames = SubSeq(@, 1, n), !.synced = n]
          /\ log' = SubSeq(log, 1, Cardinality(ToSet(log) \ lost))
          /\ eng' = [Loaded(1) EXCEPT !.unvouched = n, !.consumed = n]
  /\ w' = Idle /\ cur' = NoCur
  /\ UNCHANGED <<world, next, snap, floor, arch, intent, job, gens>>

-----------------------------------------------------------------------------
(* The worker's looks and positions.  A look is three stats.               *)

Others == <<world, log, next, disk, job, eng, cur, gens, crashes>>

Look(goal) == [w EXCEPT !.pc = "stat_snap", !.goal = goal, !.eye = NoLook, !.pos = NoPos]

StatSnapshot ==
  /\ w.pc = "stat_snap"
  /\ w' = [w EXCEPT !.pc = "stat_wal", !.eye.snap = snap.id]
  /\ UNCHANGED Others

StatWal ==
  /\ w.pc = "stat_wal"
  /\ w' = [w EXCEPT !.pc = "stat_intent", !.eye.wal = wal.ino, !.eye.len = Len(wal.frames)]
  /\ UNCHANGED Others

\* Mutant of StatIntent: the intent is not looked at.
StatNoIntent ==
  /\ w.pc = "stat_intent"
  /\ w' = [w EXCEPT !.pc = IF w.goal = "caught" THEN w.goal ELSE "position"]
  /\ UNCHANGED Others

\* The looks that are followed by a position; an intent defers the step.
StatIntent ==
  /\ w.pc = "stat_intent"
  /\ w' = IF w.goal = "caught"
          THEN [w EXCEPT !.pc = w.goal, !.eye.intent = (intent # NoIntent)]
          ELSE IF w.goal = "start" /\ intent # NoIntent THEN Idle
          ELSE [w EXCEPT !.pc = "position", !.eye.intent = (intent # NoIntent)]
  /\ UNCHANGED Others

\* durable_wal_position: bytes the handle did not write are fsynced, by the
\* file's name and with no lock, and then vouched for.
VouchSync ==
  /\ w.pc = "position" /\ w.vouch = NoVouch /\ eng.unvouched # 0
  /\ wal' = [wal EXCEPT !.synced = Len(wal.frames)]
  /\ w' = [w EXCEPT !.vouch = [gen |-> eng.gen, len |-> eng.unvouched]]
  /\ UNCHANGED <<world, log, next, snap, floor, arch, intent, job, eng, cur, gens, crashes>>

\* Mutant of Vouched: whatever generation the fsync was of.
VouchedBlindly(v) ==
  [eng EXCEPT !.len = IF @ < v.len THEN v.len ELSE @,
              !.unvouched = IF @ <= v.len THEN 0 ELSE @]

\* DurableWal::vouch.
Vouched(v) ==
  IF v = NoVouch \/ v.gen # eng.gen THEN eng
  ELSE [eng EXCEPT !.len = IF @ < v.len THEN v.len ELSE @,
                   !.unvouched = IF @ <= v.len THEN 0 ELSE @]

KeyOf(e) == [gen |-> e.gen, snap |-> e.snap, wal |-> e.wal]

TakePosition ==
  /\ w.pc = "position" /\ (w.vouch # NoVouch \/ eng.unvouched = 0)
  /\ LET e == Vouched(w.vouch)
     IN /\ eng' = e
        /\ w' = [w EXCEPT !.pc = w.goal, !.vouch = NoVouch,
                          !.pos = [key |-> KeyOf(e), len |-> e.len, busy |-> e.busy]]
  /\ UNCHANGED <<world, log, next, disk, job, cur, gens, crashes>>

\* Mutant of UnchangedUntil: files are told apart by length alone.
UnchangedByLength(before, after) ==
  ~before.intent /\ ~after.intent /\ after.len >= before.len

\* DiskState::unchanged_until.
UnchangedUntil(before, after) ==
  /\ ~before.intent /\ ~after.intent
  /\ before.snap = after.snap /\ before.wal = after.wal /\ after.len >= before.len

-----------------------------------------------------------------------------
(* run_once.                                                               *)

Begin ==
  /\ w.pc = "idle"
  /\ w' = Look("start")
  /\ UNCHANGED Others

Started ==
  /\ w.pc = "start"
  /\ w' = [w EXCEPT !.disk = w.eye,
             !.pc = IF w.pos.key.snap # w.eye.snap \/ w.pos.key.wal # w.eye.wal \/ w.eye.len # w.pos.len
                    THEN "catch_up" ELSE "decide"]
  /\ UNCHANGED Others

\* Mutant of CatchUp: the handle is left where it is.
CatchUpNever ==
  /\ w.pc = "catch_up"
  /\ w' = [w EXCEPT !.pc = "catching"]
  /\ UNCHANGED Others

\* refresh_if_stale, and the wait for its end.
CatchUp ==
  /\ w.pc = "catch_up" /\ eng.pc = "up" /\ job.by # "own"
  /\ IF IsStale THEN Refresh(FALSE) ELSE UNCHANGED eng
  /\ w' = [w EXCEPT !.pc = "catching"]
  /\ UNCHANGED <<world, log, next, disk, job, cur, gens, crashes>>

CaughtUp ==
  /\ w.pc = "catching" /\ eng.pc = "up"
  /\ w' = Look("caught")
  /\ UNCHANGED Others

LookedAgain ==
  /\ w.pc = "caught"
  /\ w' = IF UnchangedUntil(w.disk, w.eye)
          THEN [w EXCEPT !.pc = "position", !.goal = "decide", !.disk = w.eye] ELSE Idle
  /\ UNCHANGED Others

\* A restore point is started when the handle is on the files on disk.
Decide ==
  /\ w.pc = "decide"
  /\ w' = IF w.pos.busy \/ w.pos.key.snap # w.disk.snap \/ w.pos.key.wal # w.disk.wal
             \/ w.disk.len < w.pos.len
          THEN Idle
          ELSE IF w.pos.key # cur.key THEN [w EXCEPT !.pc = "open_snap", !.key = w.pos.key]
          ELSE Look("before")
  /\ UNCHANGED Others

\* upload_base: the snapshot, the archives and the floor are opened one by one.
OpenSnapshot ==
  /\ w.pc = "open_snap"
  /\ w' = [w EXCEPT !.pc = "open_arch", !.opened.snap = snap.id, !.opened.done = snap.done]
  /\ UNCHANGED Others

OpenArchives ==
  /\ w.pc = "open_arch"
  /\ w' = [w EXCEPT !.pc = "open_floor", !.opened.arch = arch]
  /\ UNCHANGED Others

ReadFloor ==
  /\ w.pc = "open_floor"
  /\ w' = [Look("base") EXCEPT !.opened.floor = floor]
  /\ UNCHANGED Others

UploadBase ==
  /\ w.pc = "base"
  /\ IF /\ UnchangedUntil(w.disk, w.eye) /\ w.opened.snap = w.disk.snap
        /\ w.pos.key = w.key /\ ~w.pos.busy
     THEN /\ cur' = [key |-> w.pos.key, cursor |-> 0]
          /\ gens' = Append(gens, [base |-> w.opened.done, segs |-> <<>>,
                                   count |-> w.opened.floor + w.opened.arch])
          /\ w' = [Look("before") EXCEPT !.opened = Idle.opened, !.key = NoKey]
     ELSE UNCHANGED <<cur, gens>> /\ w' = Idle
  /\ UNCHANGED <<world, log, next, disk, job, eng, crashes>>

\* ship_segments: a read of durable bytes between two looks.
ReadSegment ==
  /\ w.pc = "before"
  /\ w' = IF \/ w.eye.intent \/ w.eye.snap # cur.key.snap \/ w.eye.wal # cur.key.wal
             \/ w.pos.key # cur.key \/ w.pos.len <= cur.cursor
          THEN Idle
          ELSE [Look("after") EXCEPT !.disk = w.eye,
                  !.read = SubSeq(wal.frames, cur.cursor + 1,
                                  IF w.pos.len < Len(wal.frames) THEN w.pos.len ELSE Len(wal.frames))]
  /\ UNCHANGED Others

PutSegment ==
  /\ w.pc = "after"
  /\ IF UnchangedUntil(w.disk, w.eye) /\ w.pos.key = cur.key /\ w.read # <<>>
     THEN /\ gens' = [gens EXCEPT ![Len(gens)].segs = @ \o w.read]
          /\ cur' = [cur EXCEPT !.cursor = @ + Len(w.read)]
          /\ w' = [Look("before") EXCEPT !.read = <<>>]
     ELSE UNCHANGED <<cur, gens>> /\ w' = Idle
  /\ UNCHANGED <<world, log, next, disk, job, eng, crashes>>

SnapshotStep ==
  WriteSnapshot \/ WriteFloor \/ ArchiveWal \/ ReplaceWal \/ DeleteArchives \/ EmptyIntent \/ FinishSnapshot

WorkerStep ==
  \/ Begin \/ StatSnapshot \/ StatWal \/ StatIntent \/ VouchSync \/ TakePosition
  \/ Started \/ CatchUp \/ CaughtUp \/ LookedAgain \/ Decide
  \/ OpenSnapshot \/ OpenArchives \/ ReadFloor \/ UploadBase \/ ReadSegment \/ PutSegment

Next ==
  \/ ReadRefreshes \/ WriteRefreshes \/ LoadWal \/ LoadIdent
  \/ \E policy \in world.policies : OwnCommit(policy) \/ PeerCommit(policy)
  \/ \E by \in world.snappers, mode \in Modes : BeginSnapshot(by, mode)
  \/ SnapshotStep
  \/ ServerKilled \/ PeerKilled \/ PowerLoss
  \/ WorkerStep

Spec == Init /\ [][Next]_vars

\* The worker's loop runs every interval; a load and a snapshot that started end.
Fairness ==
  /\ WF_vars(WorkerStep)
  /\ WF_vars(LoadWal \/ LoadIdent)
  /\ WF_vars(SnapshotStep)

FairSpec == Spec /\ Fairness

-----------------------------------------------------------------------------
(* Properties.                                                             *)

Keys == [gen : Nat, snap : Nat, wal : Nat]
Looks == [snap : Nat, wal : Nat, len : Nat, intent : BOOLEAN]
Positions == [key : Keys, len : Nat, busy : BOOLEAN]
Vouches == [gen : Nat, len : Nat]
Opens == [snap : Nat, done : Seq(Nat), arch : Nat, floor : Nat]
Points == [base : Seq(Nat), segs : Seq(Nat), count : Nat]

Snaps == [id : Nat, done : Seq(Nat)]
Wals == [ino : Nat, frames : Seq(Nat), synced : Nat]
Intents == [snap : Nat, wal : Nat]
Jobs == {NoJob} \cup
        [by : {"own", "peer"}, mode : {"truncate", "archive", "keep"},
         pc : {"snapshot", "floor", "archive", "replace", "prune", "empty", "finish"}]
Handles == [gen : Nat, len : Nat, unvouched : Nat, snap : Nat, wal : Nat, busy : BOOLEAN,
            consumed : Nat, unsettled : BOOLEAN, pc : {"up", "load", "ident"}]
Goals == {"idle", "start", "caught", "decide", "base", "before", "after"}
Workers == [pc : Goals \cup {"stat_snap", "stat_wal", "stat_intent", "position", "catch_up", "catching",
                             "open_snap", "open_arch", "open_floor"},
            goal : Goals, disk : Looks, eye : Looks, pos : Positions,
            vouch : Vouches, key : Keys, read : Seq(Nat), opened : Opens]

\* Types of the files, of the handle and of the worker.
TypeOK ==
  /\ world \in Worlds
  /\ log \in Seq(Nat) /\ next \in Nat /\ crashes \in Nat
  /\ snap \in Snaps /\ wal \in Wals /\ floor \in Nat /\ arch \in Nat /\ intent \in Intents
  /\ job \in Jobs /\ eng \in Handles
  /\ w \in Workers /\ cur \in [key : Keys, cursor : Nat] /\ gens \in Seq(Points)

Restored(g) == ToSet(g.base) \cup ToSet(g.segs)

\* Every restore point holds the first commits of the store and no others: its
\* snapshot goes with its segments, and no segment holds a frame that a power
\* loss could still take back (the Consistency section of worker.rs).
RestoresPrefix ==
  \A i \in DOMAIN gens :
    \E n \in 0..Len(log) : Restored(gens[i]) = ToSet(SubSeq(log, 1, n))

\* A backup numbers its commits as the store does: the floor and the archives it
\* carries end where its first segment begins (commit_seq in write_manifest).  A
\* power loss after a snapshot that kept its WAL makes the store itself renumber.
NumbersItsCommits ==
  crashes = 0 =>
    \A i \in DOMAIN gens :
      LET g == gens[i] IN
      /\ g.count <= Len(g.base)
      /\ \A k \in DOMAIN g.segs :
           g.count + k \in DOMAIN log /\ g.segs[k] = log[g.count + k]

\* The durable position never counts a byte that is not on stable storage, in the
\* files the handle's state is on (the head of durable_wal.rs).
VouchedIsDurable ==
  eng.pc = "up" /\ job.by # "own" /\ eng.wal = wal.ino /\ eng.snap = snap.id => eng.len <= wal.synced

Durable == ToSet(snap.done) \cup ToSet(SubSeq(wal.frames, 1, wal.synced))
NothingToShip ==
  Durable = {} \/ (gens # <<>> /\ Durable \subseteq Restored(gens[Len(gens)]))

\* A handle that loaded between a peer's snapshot and its new WAL does not see a
\* replacement of exactly its cursor's length.
Blind == eng.snap = snap.id /\ eng.wal # wal.ino /\ eng.consumed = Len(wal.frames)

\* What is durable is shipped in the end, when every process runs on: no deferral
\* repeats for ever.  (Claimed where commits are fsynced and the handle is not blind.)
AllShipped ==
  "kill" \notin world.faults /\ world.policies = {"full"} => <>[](NothingToShip \/ Blind)

\* "A restore of the newest backup loses at most the segment cadence"
\* (docs/site/deployment.md): also after a process was killed.
LosesAtMostTheCadence == <>[](NothingToShip \/ Blind)
=============================================================================
