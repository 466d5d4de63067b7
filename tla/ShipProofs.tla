----------------------------- MODULE ShipProofs -----------------------------
(***************************************************************************)
(* Proofs about Ship, for every deployment and any number of commits,      *)
(* snapshots and crashes: the durable position counts only what is on      *)
(* stable storage, and every restore point is a prefix of the store with   *)
(* the store's own numbers.                                                *)
(***************************************************************************)
EXTENDS Ship, SequenceTheorems, FiniteSetTheorems, WellFoundedInduction, TLAPS

-----------------------------------------------------------------------------
(* The invariant.                                                          *)

\* An inode that no later WAL of the store will have, unless the WAL on disk has it.
Past(i) == i <= wal.ino \/ (wal.ino = 0 /\ i <= snap.id)

\* Nothing of the handle's WAL is vouched for, or is being.
Clean(e, v) == e.len = 0 /\ e.unvouched = 0 /\ v.gen < e.gen

\* A WAL is replaced after the snapshot that covers it is written, by one with a
\* newer inode.
FilePart ==
  /\ wal.ino <= snap.id + 1
  /\ wal.ino = 0 => wal.frames = <<>>
  /\ wal.synced <= Len(wal.frames)
  /\ snap.id = 0 => snap.done = <<>>

JobPart ==
  /\ job.pc \in {"floor", "archive", "replace"} => wal.ino <= snap.id /\ snap.done = log
  /\ job.pc \in {"floor", "prune"} => job.mode = "truncate"
  /\ job.pc = "archive" => job.mode = "archive"
  /\ job.mode = "keep" => job.pc \in {"snapshot", "finish"}
  /\ job.pc = "prune" => wal.frames = <<>>
  /\ job.pc = "replace" /\ job.mode = "archive" => wal.ino = 0

\* What the handle remembers of the files is not from the future.
RemembersPast ==
  /\ Past(eng.wal) /\ eng.snap <= snap.id
  /\ eng.gen >= 1 /\ w.vouch.gen <= eng.gen
  /\ eng.wal = 0 => eng.consumed = 0

\* A handle that is about to move to another WAL vouches for nothing.
MovesClean ==
  eng.wal = 0 \/ eng.pc # "up" \/ (job.by = "own" /\ eng.wal # wal.ino) => Clean(eng, w.vouch)

\* The handle's own snapshot starts on the WAL on disk, and ends on it or on an empty one.
OwnJob ==
  job.by = "own" =>
    /\ eng.pc = "up" /\ (eng.wal = wal.ino \/ wal.frames = <<>>)
    /\ job.pc \in {"snapshot", "floor", "archive"} \/ job.mode = "keep" => eng.wal = wal.ino

\* What the handle vouches for of the WAL on disk is synced, and what it counts is there.
VouchesForSynced ==
  eng.wal = wal.ino =>
    /\ eng.len <= wal.synced /\ eng.unvouched <= Len(wal.frames) /\ eng.consumed <= Len(wal.frames)
    /\ w.vouch.gen = eng.gen => w.vouch.len <= wal.synced

VouchInv == TypeOK /\ FilePart /\ JobPart /\ RemembersPast /\ MovesClean /\ OwnJob /\ VouchesForSynced


\* A sequence of commits in the order of their numbers.
Grows(s) == \A i, j \in DOMAIN s : i < j => s[i] < s[j]

\* The snapshot and the WAL hold the store, and the snapshot its first commits.
StorePart ==
  /\ Grows(log) /\ Grows(wal.frames)
  /\ \A c \in ToSet(log) : c < next
  /\ ToSet(log) = ToSet(snap.done) \cup ToSet(wal.frames)
  /\ \A c \in ToSet(snap.done), d \in ToSet(log) : d < c => d \in ToSet(snap.done)

\* First commits of the store that no power loss takes back.
Good(S) == S \subseteq Durable /\ \A c \in S, d \in ToSet(log) : d < c => d \in S

\* A position is of files that were there, and counts what was synced of them.
PosPart ==
  /\ Past(w.pos.key.wal) /\ w.pos.key.snap <= snap.id
  /\ w.pos.key.wal = wal.ino => w.pos.len <= wal.synced
  /\ w.pos.key.wal = 0 => w.pos.len = 0
  /\ w.pc \in {"start", "decide", "base", "before", "after"} => w.pos.key.gen >= 1
  /\ w.pc \in {"start", "base", "after"} => w.goal = w.pc

\* The snapshot opened is the one on disk, or an earlier one.
OpenedPart ==
  /\ w.opened.snap <= snap.id
  /\ w.opened.snap = snap.id => w.opened.done = snap.done
  /\ Good(ToSet(w.opened.done))
  /\ w.pc \in {"open_snap", "open_arch", "open_floor"} \/ w.goal = "base" => w.key.snap = w.disk.snap

Newest == gens[Len(gens)]

\* The generation the worker adds to holds, of the files it was begun on, the
\* snapshot and the frames below the cursor.
CurPart ==
  /\ Past(cur.key.wal) /\ cur.key.snap <= snap.id
  /\ cur.key.gen # 0 =>
       /\ Len(gens) > 0
       /\ cur.key.wal = 0 => cur.cursor = 0 /\ Newest.segs = <<>>
       /\ cur.key.snap = snap.id => Newest.base = snap.done
       /\ cur.key.snap = snap.id /\ cur.key.wal = wal.ino =>
            cur.cursor <= Len(wal.frames) /\ Newest.segs = SubSeq(wal.frames, 1, cur.cursor)

\* The files moved on, and the look after the read will say so.
Moved ==
  \/ snap.id # cur.key.snap /\ (w.pc # "stat_snap" => w.eye.snap # cur.key.snap)
  \/ wal.ino # cur.key.wal /\ (w.pc \notin {"stat_snap", "stat_wal"} => w.eye.wal # cur.key.wal)

\* What was read goes on from the generation, or will not be uploaded.
GoesWith ==
  /\ Good(Restored(Newest) \cup ToSet(w.read))
  /\ snap.id = cur.key.snap /\ wal.ino = cur.key.wal =>
       /\ cur.cursor + Len(w.read) <= Len(wal.frames)
       /\ w.read = SubSeq(wal.frames, cur.cursor + 1, cur.cursor + Len(w.read))

ReadPart ==
  w.goal = "after" =>
    /\ cur.key.gen # 0 /\ cur.key.wal # 0 /\ w.disk.snap = cur.key.snap /\ w.disk.wal = cur.key.wal
    /\ GoesWith \/ Moved

GensPart == \A i \in DOMAIN gens : Good(Restored(gens[i]))

RestoreInv == VouchInv /\ StorePart /\ PosPart /\ OpenedPart /\ CurPart /\ ReadPart /\ GensPart

\* The files of a store go on: a newer snapshot has a newer identity, a newer WAL
\* a newer inode, and a WAL is only appended to.
FilesGoOn ==
  /\ snap.id <= snap'.id /\ (snap'.id = snap.id => snap'.done = snap.done)
  /\ \A i \in Nat : Past(i) => Past(i)' /\ (i = wal'.ino => i = wal.ino \/ i = 0)
  /\ wal'.ino = wal.ino =>
       /\ wal.synced <= wal'.synced /\ Len(wal.frames) <= Len(wal'.frames)
       /\ \A k \in 1..Len(wal.frames) : wal'.frames[k] = wal.frames[k]

\* So does the store: what is durable stays, and no commit comes before one that was there.
StoreGoesOn ==
  /\ Durable \subseteq Durable'
  /\ \A c \in ToSet(log), d \in ToSet(log)' : d < c => d \in ToSet(log)

\* No file a backup numbers its commits by is being changed: a snapshot that runs has
\* not come to the floor and the archives, or is past them.
Calm == job.pc \in {"none", "snapshot", "finish"}

\* The floor and the archives go up to the WAL, but between the floor of a truncating
\* snapshot and the end of its archives.
Steady == ~(job.pc \in {"replace", "prune"} /\ job.mode = "truncate")

NumPart ==
  /\ job.pc \in {"floor", "archive", "replace", "prune", "empty"} => intent # NoIntent
  /\ job.pc = "snapshot" /\ job.mode # "keep" => intent # NoIntent
  /\ Steady => /\ Len(log) = floor + arch + Len(wal.frames)
               /\ \A k \in 1..Len(wal.frames) : wal.frames[k] = log[floor + arch + k]
               /\ floor + arch <= Len(snap.done)
  /\ ~Steady => floor = Len(log) /\ snap.done = log
  /\ snap.id = 0 => Calm

\* A look that saw no intent beside the snapshot on disk was at a calm time, and so is now.
CalmPart ==
  /\ w.disk.snap <= snap.id /\ w.eye.snap <= snap.id
  /\ snap.id = w.disk.snap /\ ~w.disk.intent => Calm
  /\ w.pc \notin {"stat_wal", "stat_intent"} /\ snap.id = w.eye.snap /\ ~w.eye.intent => Calm

Unmoved == snap.id = w.disk.snap /\ ~w.disk.intent

OpenNum ==
  /\ w.pc \in {"decide", "open_snap", "open_arch", "open_floor"} => w.goal # "base"
  /\ w.pc = "open_floor" /\ Unmoved => w.opened.arch = arch
  /\ w.goal = "base" =>
       \/ /\ \/ w.opened.floor + w.opened.arch <= Len(w.opened.done)
             \/ w.opened.snap # w.disk.snap \/ w.disk.intent
          /\ Unmoved => w.opened.arch = arch /\ w.opened.floor = floor
       \/ snap.id # w.disk.snap /\ (w.pc # "stat_snap" => w.eye.snap # w.disk.snap)

\* What was read has the numbers the generation goes on with.
ReadIsNumbered ==
  \A k \in 1..Len(w.read) : LET n == Newest.count + cur.cursor + k IN
    n \in 1..Len(log) /\ w.read[k] = log[n]

CurNum ==
  /\ cur.key.gen # 0 => /\ Len(Newest.segs) = cur.cursor
                        /\ cur.key.snap = snap.id => Calm /\ Newest.count = floor + arch
  /\ w.goal = "after" => ReadIsNumbered \/ Moved

NumberedPoint(g) ==
  /\ g.count <= Len(g.base)
  /\ \A k \in 1..Len(g.segs) : g.count + k \in 1..Len(log) /\ g.segs[k] = log[g.count + k]

Numbered ==
  NumPart /\ CalmPart /\ OpenNum /\ CurNum /\ \A i \in 1..Len(gens) : NumberedPoint(gens[i])

NumInv == RestoreInv /\ (crashes = 0 => Numbered)

\* The numbers go on: the log is appended to, and calm files stay as they are until
\* there is another snapshot.
NumbersGoOn ==
  /\ snap.id <= snap'.id
  /\ Calm /\ snap'.id = snap.id => Calm' /\ floor' = floor /\ arch' = arch
  /\ Len(log) <= Len(log') /\ \A k \in 1..Len(log) : log'[k] = log[k]
-----------------------------------------------------------------------------
(* Types.                                                                  *)

\* A job that runs.
LEMMA JobFacts ==
  ASSUME job \in Jobs
  PROVE  \/ job = NoJob /\ job.by = "none" /\ job.mode = "none" /\ job.pc = "none"
         \/ /\ job.by \in {"own", "peer"} /\ job.mode \in {"truncate", "archive", "keep"}
            /\ job.pc \in {"snapshot", "floor", "archive", "replace", "prune", "empty", "finish"}
            /\ \A p \in {"snapshot", "floor", "archive", "replace", "prune", "empty", "finish"} :
                 /\ [job EXCEPT !.pc = p] \in Jobs /\ [job EXCEPT !.pc = p].pc = p
                 /\ [job EXCEPT !.pc = p].by = job.by /\ [job EXCEPT !.pc = p].mode = job.mode
BY DEF Jobs, NoJob

\* A set of a sequence's elements is no larger than the sequence is long.
LEMMA FewerThanLen ==
  ASSUME NEW s \in Seq(Nat), NEW T \in SUBSET ToSet(s)
  PROVE  IsFiniteSet(T) /\ Cardinality(T) \in 0..Len(s)
<1>1. Len(s) \in Nat /\ s \in [1..Len(s) -> Nat] /\ DOMAIN s = 1..Len(s)
  OBVIOUS
<1>2. s \in [1..Len(s) -> ToSet(s)]
  BY <1>1 DEF ToSet
<1>3. s \in Surjection(1..Len(s), ToSet(s))
  BY <1>1, <1>2 DEF Surjection, ToSet
<1>4. IsFiniteSet(1..Len(s)) /\ Cardinality(1..Len(s)) = Len(s)
  <2>1. 1 \in Int /\ Len(s) \in Int
    BY <1>1
  <2>2. IsFiniteSet(1..Len(s)) /\ Cardinality(1..Len(s)) = IF 1 > Len(s) THEN 0 ELSE Len(s) - 1 + 1
    BY <2>1, FS_Interval
  <2> QED BY <1>1, <2>2
<1>5. IsFiniteSet(ToSet(s)) /\ Cardinality(ToSet(s)) <= Len(s)
  BY <1>3, <1>4, FS_Surjection
<1>6. IsFiniteSet(T) /\ Cardinality(T) <= Cardinality(ToSet(s))
  BY <1>5, FS_Subset
<1>7. Cardinality(T) \in Nat /\ Cardinality(ToSet(s)) \in Nat
  BY <1>5, <1>6, FS_CardinalityType
<1> QED BY <1>1, <1>5, <1>6, <1>7

LEMMA EmptyTypes ==
  /\ <<>> \in Seq(Nat) /\ <<>> \in Seq(Points)
  /\ NoKey \in Keys /\ NoLook \in Looks /\ NoPos \in Positions /\ NoVouch \in Vouches
  /\ NoIntent \in Intents /\ NoJob \in Jobs /\ NoCur \in [key : Keys, cursor : Nat]
<1>1. <<>> \in Seq(Nat) /\ <<>> \in Seq(Points)
  OBVIOUS
<1>2. NoKey \in Keys /\ NoVouch \in Vouches /\ NoIntent \in Intents /\ NoJob \in Jobs
  BY DEF NoKey, NoVouch, NoIntent, NoJob, Keys, Vouches, Intents, Jobs
<1>3. NoLook \in Looks /\ NoPos \in Positions /\ NoCur \in [key : Keys, cursor : Nat]
  BY <1>2 DEF NoLook, NoPos, NoCur, Looks, Positions
<1> QED BY <1>1, <1>2, <1>3

LEMMA IdleType ==
  /\ Idle \in Workers
  /\ Idle.pc = "idle" /\ Idle.goal = "idle" /\ Idle.disk = NoLook /\ Idle.eye = NoLook /\ Idle.pos = NoPos
  /\ Idle.vouch = NoVouch /\ Idle.key = NoKey /\ Idle.read = <<>>
  /\ Idle.opened.snap = 0 /\ Idle.opened.done = <<>> /\ Idle.opened.arch = 0 /\ Idle.opened.floor = 0
  /\ Idle.opened \in Opens
<1> PICK o : o = [snap |-> 0, done |-> <<>>, arch |-> 0, floor |-> 0]
  OBVIOUS
<1>1. o \in Opens /\ o.snap = 0 /\ o.done = <<>> /\ o.arch = 0 /\ o.floor = 0
  BY EmptyTypes DEF Opens
<1>2. Idle = [pc |-> "idle", goal |-> "idle", disk |-> NoLook, eye |-> NoLook, pos |-> NoPos,
         vouch |-> NoVouch, key |-> NoKey, read |-> <<>>, opened |-> o]
  BY DEF Idle
<1>3. Idle \in Workers
  <2>1. NoLook \in Looks /\ NoPos \in Positions /\ NoVouch \in Vouches /\ NoKey \in Keys
        /\ <<>> \in Seq(Nat)
    BY EmptyTypes
  <2>2. PICK e : e = <<>>
    OBVIOUS
  <2>3. e \in Seq(Nat)
    BY <2>1, <2>2
  <2>4. Idle = [pc |-> "idle", goal |-> "idle", disk |-> NoLook, eye |-> NoLook, pos |-> NoPos,
         vouch |-> NoVouch, key |-> NoKey, read |-> e, opened |-> o]
    BY <1>2, <2>2
  <2> QED BY ONLY <1>1, <2>1, <2>3, <2>4 DEF Workers, Goals
<1> QED BY <1>1, <1>2, <1>3

LEMMA TypeInit ==
  ASSUME Init PROVE TypeOK
<1>1. snap \in Snaps /\ wal \in Wals
  BY EmptyTypes DEF Init, Snaps, Wals
<1>2. eng \in Handles
  BY DEF Init, Handles
<1> QED BY <1>1, <1>2, EmptyTypes, IdleType DEF Init, TypeOK

\* A change of the handle's cursor and of its DurableWal cell.
LEMMA RefreshType ==
  ASSUME TypeOK, NEW a \in BOOLEAN, Refresh(a) PROVE eng' \in Handles
<1>1. Len(wal.frames) \in Nat
  BY DEF TypeOK, Wals
<1>2. CASE MustReload(a)
  <2>0. PICK g \in Nat : g = eng.gen + 1
    BY DEF TypeOK, Handles
  <2>1. eng' = [eng EXCEPT !.gen = g, !.len = 0, !.unvouched = 0, !.pc = "load"]
    BY <1>2, <2>0 DEF Refresh
  <2> QED BY <2>1 DEF Handles, TypeOK
<1>3. CASE ~MustReload(a)
  <2>1. PICK n \in Nat : n = Len(wal.frames)
    BY <1>1
  <2>2. PICK u \in Nat : u = IF n > eng.len THEN n ELSE eng.unvouched
    BY DEF TypeOK, Handles
  <2>3. eng' = [eng EXCEPT !.consumed = n, !.unvouched = u]
    BY <1>3, <2>1, <2>2 DEF Refresh
  <2> QED BY <2>3 DEF Handles, TypeOK
<1> QED BY <1>2, <1>3

LEMMA HandleStepType ==
  ASSUME TypeOK, ReadRefreshes \/ WriteRefreshes \/ LoadWal \/ LoadIdent PROVE TypeOK'
<1>0. Len(wal.frames) \in Nat /\ wal.ino \in Nat /\ snap.id \in Nat /\ LeftOver \in BOOLEAN
  BY DEF TypeOK, Wals, Snaps, LeftOver
<1>1. CASE ReadRefreshes
  BY <1>1, RefreshType DEF ReadRefreshes, TypeOK, disk, worker
<1>2. CASE WriteRefreshes
  BY <1>2, RefreshType DEF WriteRefreshes, TypeOK, disk, worker
<1>3. CASE LoadWal
  <2> PICK b \in BOOLEAN : b = LeftOver
    BY <1>0
  <2>1. eng' \in Handles
    BY <1>0, <1>3 DEF LoadWal, Handles, TypeOK
  <2> QED BY <1>3, <2>1 DEF LoadWal, TypeOK, disk, worker
<1>4. CASE LoadIdent
  <2>1. eng' \in Handles
    BY <1>0, <1>4 DEF LoadIdent, Handles, TypeOK
  <2> QED BY <1>4, <2>1 DEF LoadIdent, TypeOK, disk, worker
<1> QED BY <1>1, <1>2, <1>3, <1>4

LEMMA CommitType ==
  ASSUME TypeOK, NEW p, Commit(p)
  PROVE  /\ wal' \in Wals /\ log' \in Seq(Nat) /\ next' \in Nat
         /\ Len(wal.frames) \in Nat /\ Settled \in Intents /\ wal'.ino \in Nat
<1>1. wal.frames \in Seq(Nat) /\ Len(wal.frames) \in Nat /\ wal.ino \in Nat /\ wal.synced \in Nat
      /\ snap.id \in Nat /\ next \in Nat
  BY DEF TypeOK, Wals, Snaps
<1>2. Append(wal.frames, next) \in Seq(Nat) /\ log' \in Seq(Nat) /\ next' \in Nat
  BY <1>1 DEF Commit, TypeOK
<1>3. Settled \in Intents
  BY EmptyTypes DEF Settled, TypeOK
<1>4. wal' \in Wals
  BY <1>1, <1>2 DEF Commit, Wals
<1> QED BY <1>1, <1>2, <1>3, <1>4 DEF Wals

LEMMA CommitStepType ==
  ASSUME TypeOK, NEW p, OwnCommit(p) \/ PeerCommit(p) PROVE TypeOK'
<1>1. CASE OwnCommit(p)
  <2>1. wal' \in Wals /\ log' \in Seq(Nat) /\ next' \in Nat /\ Settled \in Intents
        /\ Len(wal.frames) + 1 \in Nat /\ wal'.ino \in Nat
    BY <1>1, CommitType DEF OwnCommit
  <2>2. PICK n \in Nat : n = Len(wal.frames) + 1
    BY <2>1
  <2>3. PICK i \in Nat : i = wal'.ino
    BY <2>1
  <2>4. eng' \in Handles
    BY <1>1, <2>2, <2>3 DEF OwnCommit, Handles, TypeOK
  <2> QED BY <1>1, <2>1, <2>4 DEF OwnCommit, TypeOK, worker
<1>2. CASE PeerCommit(p)
  BY <1>2, CommitType DEF PeerCommit, TypeOK, worker
<1> QED BY <1>1, <1>2

LEMMA SnapshotStepType ==
  ASSUME TypeOK, SnapshotStep PROVE TypeOK'
<1>0. /\ Len(wal.frames) \in Nat /\ wal.ino \in Nat /\ snap.id \in Nat /\ snap.id + 1 \in Nat
      /\ <<>> \in Seq(Nat) /\ log \in Seq(Nat)
  BY EmptyTypes DEF TypeOK, Wals, Snaps
<1>r. Replaced \in Handles
  <2>1. PICK g \in Nat : g = IF job.by = "own" THEN eng.gen + 1 ELSE eng.gen
    BY DEF TypeOK, Handles
  <2>2. PICK n \in Nat : n = IF job.by = "own" THEN 0 ELSE eng.len
    BY DEF TypeOK, Handles
  <2>3. PICK u \in Nat : u = IF job.by = "own" THEN 0 ELSE eng.unvouched
    BY DEF TypeOK, Handles
  <2>4. Replaced = [eng EXCEPT !.gen = g, !.len = n, !.unvouched = u]
    BY <2>1, <2>2, <2>3 DEF Replaced
  <2> QED BY <2>4 DEF TypeOK, Handles
<1>w. \A i \in Nat : [ino |-> i, frames |-> <<>>, synced |-> 0] \in Wals
  BY EmptyTypes DEF Wals
<1>1. CASE WriteSnapshot
  <2>1. snap' \in Snaps
    BY <1>0, <1>1 DEF WriteSnapshot, Snaps
  <2>2. /\ job.mode = "keep" => job' = [job EXCEPT !.pc = "finish"]
        /\ job.mode = "archive" => job' = [job EXCEPT !.pc = "archive"]
        /\ job.mode = "truncate" => job' = [job EXCEPT !.pc = "floor"]
    BY <1>1 DEF WriteSnapshot
  <2>3. job' \in Jobs
    BY <1>1, <2>2, JobFacts DEF WriteSnapshot, TypeOK
  <2> QED BY <1>1, <2>1, <2>3 DEF WriteSnapshot, TypeOK, worker
<1>2. CASE WriteFloor
  <2>1. job' \in Jobs /\ floor' \in Nat
    BY <1>0, <1>2, JobFacts DEF WriteFloor, TypeOK
  <2> QED BY <1>2, <2>1 DEF WriteFloor, TypeOK, worker
<1>3. CASE ArchiveWal
  <2>1. job' \in Jobs
    BY <1>3, JobFacts DEF TypeOK, ArchiveWal
  <2>2. arch' \in Nat /\ wal' \in Wals /\ eng' \in Handles
    BY <1>0, <1>3, <1>r, <1>w DEF ArchiveWal, TypeOK
  <2> QED BY <1>3, <2>1, <2>2 DEF ArchiveWal, TypeOK, worker
<1>4. CASE ReplaceWal
  <2>1. job' \in Jobs
    BY <1>4, JobFacts DEF TypeOK, ReplaceWal
  <2>2. wal' \in Wals /\ eng' \in Handles
    BY <1>0, <1>4, <1>r, <1>w DEF ReplaceWal, TypeOK
  <2> QED BY <1>4, <2>1, <2>2 DEF ReplaceWal, TypeOK, worker
<1>5. CASE DeleteArchives
  <2>1. job' \in Jobs
    BY <1>5, JobFacts DEF TypeOK, DeleteArchives
  <2> QED BY <1>5, <2>1 DEF DeleteArchives, TypeOK, worker
<1>6. CASE EmptyIntent
  <2>1. job' \in Jobs
    BY <1>6, JobFacts DEF TypeOK, EmptyIntent
  <2>2. PICK b \in BOOLEAN : b = (eng.unsettled /\ job.by # "own")
    OBVIOUS
  <2>3. eng' = [eng EXCEPT !.unsettled = b]
    BY <1>6, <2>2 DEF EmptyIntent
  <2>4. eng' \in Handles
    BY <2>3 DEF TypeOK, Handles
  <2> QED BY <1>6, <2>1, <2>4, EmptyTypes DEF EmptyIntent, TypeOK, worker
<1>7. CASE FinishSnapshot
  <2>1. eng' \in Handles
    BY <1>0, <1>7 DEF FinishSnapshot, TypeOK, Handles
  <2> QED BY <1>7, <2>1, EmptyTypes DEF FinishSnapshot, TypeOK, worker, disk
<1> QED BY <1>1, <1>2, <1>3, <1>4, <1>5, <1>6, <1>7 DEF SnapshotStep

LEMMA BeginSnapshotType ==
  ASSUME TypeOK, NEW by \in world.snappers, NEW mode \in Modes, BeginSnapshot(by, mode) PROVE TypeOK'
<1>1. by \in {"own", "peer"} /\ mode \in {"truncate", "archive", "keep"}
  BY ShipAssumption DEF TypeOK
<1>2. job' \in Jobs
  BY <1>1 DEF BeginSnapshot, Jobs
<1>3. intent' \in Intents
  BY DEF BeginSnapshot, TypeOK, Intents, Snaps, Wals
<1>4. eng' \in Handles
  <2>1. PICK b \in BOOLEAN : b = (eng.unsettled \/ mode # "keep")
    OBVIOUS
  <2>2. eng' = IF by = "own" THEN [eng EXCEPT !.busy = TRUE, !.unsettled = b] ELSE eng
    BY <2>1 DEF BeginSnapshot
  <2> QED BY <2>2 DEF TypeOK, Handles
<1> QED BY <1>2, <1>3, <1>4 DEF BeginSnapshot, TypeOK, worker

LEMMA LoadedType ==
  ASSUME TypeOK
  PROVE  /\ Loaded(1) \in Handles
         /\ \A n \in Nat : [Loaded(1) EXCEPT !.unvouched = n, !.consumed = n] \in Handles
<1>1. PICK b \in BOOLEAN : b = LeftOver
  BY DEF LeftOver
<1>2. Len(wal.frames) \in Nat /\ wal.ino \in Nat /\ snap.id \in Nat
  BY DEF TypeOK, Wals, Snaps
<1>3. Loaded(1) \in Handles
  BY <1>1, <1>2 DEF Loaded, Handles
<1> QED BY <1>3 DEF Handles

LEMMA CrashType ==
  ASSUME TypeOK, ServerKilled \/ PeerKilled \/ PowerLoss PROVE TypeOK'
<1>1. CASE ServerKilled
  <2>1. crashes' \in Nat /\ job' \in Jobs
    BY <1>1, EmptyTypes DEF ServerKilled, TypeOK
  <2> QED BY <1>1, <2>1, IdleType, LoadedType, EmptyTypes DEF ServerKilled, TypeOK, disk
<1>2. CASE PeerKilled
  <2>1. crashes' \in Nat /\ job' \in Jobs
    BY <1>2, EmptyTypes DEF PeerKilled, TypeOK
  <2> QED BY <1>2, <2>1 DEF PeerKilled, TypeOK, disk, worker
<1>3. CASE PowerLoss
  <2>1. PICK n \in wal.synced..Len(wal.frames) :
          /\ wal' = [wal EXCEPT !.frames = SubSeq(@, 1, n), !.synced = n]
          /\ log' = SubSeq(log, 1, Cardinality(ToSet(log) \ (ToSet(SubSeq(wal.frames, n + 1, Len(wal.frames))) \ ToSet(snap.done))))
          /\ eng' = [Loaded(1) EXCEPT !.unvouched = n, !.consumed = n]
    BY <1>3 DEF PowerLoss
  <2>2. n \in Nat /\ n <= Len(wal.frames)
    BY DEF TypeOK, Wals
  <2>3. SubSeq(wal.frames, 1, n) \in Seq(Nat)
    BY <2>2 DEF TypeOK, Wals
  <2>4. wal' \in Wals
    BY <2>1, <2>2, <2>3 DEF TypeOK, Wals
  <2>5. log' \in Seq(Nat)
    <3> DEFINE left == ToSet(log) \ (ToSet(SubSeq(wal.frames, n + 1, Len(wal.frames))) \ ToSet(snap.done))
    <3>1. log \in Seq(Nat) /\ left \in SUBSET ToSet(log)
      BY DEF TypeOK
    <3>2. PICK k \in 0..Len(log) : k = Cardinality(left)
      BY <3>1, FewerThanLen
    <3>3. log' = SubSeq(log, 1, k)
      BY <2>1, <3>2
    <3> QED BY <3>1, <3>3
  <2>6. crashes' = crashes + 1
    BY <1>3, Zenon DEF PowerLoss
  <2>7. crashes' \in Nat
    BY <2>6 DEF TypeOK
  <2> QED BY <1>3, <2>1, <2>2, <2>4, <2>5, <2>7, IdleType, LoadedType, EmptyTypes DEF PowerLoss, TypeOK
<1> QED BY <1>1, <1>2, <1>3

\* A look from the start: what it leaves of the worker's memory.
LEMMA LookType ==
  ASSUME w \in Workers, NEW g \in Goals
  PROVE  /\ Look(g) \in Workers
         /\ Look(g).pc = "stat_snap" /\ Look(g).goal = g /\ Look(g).eye = NoLook /\ Look(g).pos = NoPos
         /\ Look(g).disk = w.disk /\ Look(g).vouch = w.vouch /\ Look(g).key = w.key
         /\ Look(g).read = w.read /\ Look(g).opened = w.opened
<1>1. NoLook \in Looks /\ NoPos \in Positions
  BY EmptyTypes
<1> QED BY <1>1 DEF Look, Workers

\* The steps of a look.
LEMMA StatFields ==
  ASSUME TypeOK, StatSnapshot \/ StatWal \/ StatIntent
  PROVE  /\ w' \in Workers /\ UNCHANGED Others
         /\ \/ w' = Idle
            \/ /\ w'.goal = w.goal /\ w'.disk = w.disk /\ w'.pos = w.pos /\ w'.vouch = w.vouch
               /\ w'.key = w.key /\ w'.read = w.read /\ w'.opened = w.opened
               /\ w.pc = "stat_snap" => /\ w'.pc = "stat_wal" /\ w'.eye.snap = snap.id
                                        /\ w'.eye.intent = w.eye.intent
               /\ w.pc = "stat_wal" => /\ w'.pc = "stat_intent" /\ w'.eye.snap = w.eye.snap
                                       /\ w'.eye.wal = wal.ino /\ w'.eye.intent = w.eye.intent
               /\ w.pc = "stat_intent" => /\ w'.pc = IF w.goal = "caught" THEN "caught" ELSE "position"
                                          /\ w'.eye.snap = w.eye.snap /\ w'.eye.wal = w.eye.wal
                                          /\ w'.eye.intent = (intent # NoIntent)
               /\ w.pc \in {"stat_snap", "stat_wal", "stat_intent"}
<1>0. w \in Workers /\ w.eye \in Looks /\ snap.id \in Nat /\ wal.ino \in Nat /\ Len(wal.frames) \in Nat
  BY DEF TypeOK, Workers, Snaps, Wals
<1>1. CASE StatSnapshot
  <2>1. PICK e : e = [w.eye EXCEPT !.snap = snap.id]
    OBVIOUS
  <2>2. e \in Looks /\ e.snap = snap.id /\ e.intent = w.eye.intent
    BY <1>0, <2>1 DEF Looks
  <2>3. w' = [w EXCEPT !.pc = "stat_wal", !.eye = e]
    BY <1>0, <1>1, <2>1 DEF StatSnapshot, Workers
  <2>4. /\ w' \in Workers /\ w'.pc = "stat_wal" /\ w'.eye = e /\ w'.goal = w.goal /\ w'.disk = w.disk
        /\ w'.pos = w.pos /\ w'.vouch = w.vouch /\ w'.key = w.key /\ w'.read = w.read /\ w'.opened = w.opened
    BY <1>0, <2>2, <2>3 DEF Workers
  <2>5. w.pc = "stat_snap" /\ UNCHANGED Others
    BY <1>1 DEF StatSnapshot
  <2> QED BY <2>2, <2>4, <2>5
<1>2. CASE StatWal
  <2>1. PICK e : e = [w.eye EXCEPT !.wal = wal.ino, !.len = Len(wal.frames)]
    OBVIOUS
  <2>2. e \in Looks /\ e.snap = w.eye.snap /\ e.wal = wal.ino /\ e.intent = w.eye.intent
    BY <1>0, <2>1 DEF Looks
  <2>3. w' = [w EXCEPT !.pc = "stat_intent", !.eye = e]
    BY <1>0, <1>2, <2>1 DEF StatWal, Workers
  <2>4. /\ w' \in Workers /\ w'.pc = "stat_intent" /\ w'.eye = e /\ w'.goal = w.goal /\ w'.disk = w.disk
        /\ w'.pos = w.pos /\ w'.vouch = w.vouch /\ w'.key = w.key /\ w'.read = w.read /\ w'.opened = w.opened
    BY <1>0, <2>2, <2>3 DEF Workers
  <2>5. w.pc = "stat_wal" /\ UNCHANGED Others
    BY <1>2 DEF StatWal
  <2> QED BY <2>2, <2>4, <2>5
<1>3. CASE StatIntent
  <2>1. w.pc = "stat_intent" /\ UNCHANGED Others
    BY <1>3 DEF StatIntent
  <2>2. PICK b \in BOOLEAN : b = (intent # NoIntent)
    OBVIOUS
  <2>3. PICK e : e = [w.eye EXCEPT !.intent = b]
    OBVIOUS
  <2>4. e \in Looks /\ e.snap = w.eye.snap /\ e.wal = w.eye.wal /\ e.intent = b
    BY <1>0, <2>3 DEF Looks
  <2>5. PICK q \in {"caught", "position"} : q = IF w.goal = "caught" THEN "caught" ELSE "position"
    OBVIOUS
  <2>6. w' = Idle \/ w' = [w EXCEPT !.pc = q, !.eye = e]
    BY <1>0, <1>3, <2>2, <2>3, <2>5 DEF StatIntent, Workers
  <2>7. CASE w' = [w EXCEPT !.pc = q, !.eye = e]
    <3>1. /\ w' \in Workers /\ w'.pc = q /\ w'.eye = e /\ w'.goal = w.goal /\ w'.disk = w.disk
          /\ w'.pos = w.pos /\ w'.vouch = w.vouch /\ w'.key = w.key /\ w'.read = w.read /\ w'.opened = w.opened
      BY <1>0, <2>4, <2>7 DEF Workers, Goals
    <3> QED BY <2>1, <2>2, <2>4, <2>5, <3>1
  <2> QED BY <2>1, <2>6, <2>7, IdleType
<1> QED BY <1>1, <1>2, <1>3

LEMMA VouchSyncFields ==
  ASSUME TypeOK, VouchSync
  PROVE  /\ w' \in Workers /\ wal' \in Wals
         /\ w'.pc = w.pc /\ w'.goal = w.goal /\ w'.disk = w.disk /\ w'.eye = w.eye /\ w'.pos = w.pos
         /\ w'.key = w.key /\ w'.read = w.read /\ w'.opened = w.opened
         /\ w'.vouch.gen = eng.gen /\ w'.vouch.len = eng.unvouched
         /\ wal'.ino = wal.ino /\ wal'.frames = wal.frames /\ wal'.synced = Len(wal.frames)
<1>0. w \in Workers /\ eng.gen \in Nat /\ eng.unvouched \in Nat /\ wal \in Wals /\ Len(wal.frames) \in Nat
  BY DEF TypeOK, Handles, Wals
<1>1. PICK v : v = [gen |-> eng.gen, len |-> eng.unvouched]
  OBVIOUS
<1>2. v \in Vouches /\ v.gen = eng.gen /\ v.len = eng.unvouched
  BY <1>0, <1>1 DEF Vouches
<1>3. w' = [w EXCEPT !.vouch = v]
  BY <1>1 DEF VouchSync
<1>4. /\ w' \in Workers /\ w'.vouch = v
      /\ w'.pc = w.pc /\ w'.goal = w.goal /\ w'.disk = w.disk /\ w'.eye = w.eye /\ w'.pos = w.pos
      /\ w'.key = w.key /\ w'.read = w.read /\ w'.opened = w.opened
  BY <1>0, <1>2, <1>3 DEF Workers
<1>5. wal' = [wal EXCEPT !.synced = Len(wal.frames)]
  BY DEF VouchSync
<1>6. wal' \in Wals /\ wal'.ino = wal.ino /\ wal'.frames = wal.frames /\ wal'.synced = Len(wal.frames)
  BY <1>0, <1>5 DEF Wals
<1> QED BY <1>2, <1>4, <1>6

\* DurableWal::vouch.
LEMMA VouchedFields ==
  ASSUME TypeOK
  PROVE  LET e == Vouched(w.vouch) IN
         /\ e \in Handles
         /\ e.gen = eng.gen /\ e.snap = eng.snap /\ e.wal = eng.wal /\ e.consumed = eng.consumed /\ e.pc = eng.pc
         /\ w.vouch.gen # eng.gen => e = eng
         /\ e.len = eng.len \/ (w.vouch.gen = eng.gen /\ e.len = w.vouch.len)
         /\ e.unvouched = eng.unvouched \/ e.unvouched = 0
<1>1. PICK v \in Vouches : v = w.vouch
  BY DEF TypeOK, Workers
<1>2. PICK n \in Nat : n = IF eng.len < v.len THEN v.len ELSE eng.len
  BY DEF TypeOK, Handles, Vouches
<1>3. PICK u \in Nat : u = IF eng.unvouched <= v.len THEN 0 ELSE eng.unvouched
  BY DEF TypeOK, Handles, Vouches
<1>4. PICK e : e = [eng EXCEPT !.len = n, !.unvouched = u]
  OBVIOUS
<1>5. Vouched(v) = IF v = NoVouch \/ v.gen # eng.gen THEN eng ELSE e
  BY <1>2, <1>3, <1>4 DEF Vouched
<1>6. /\ e \in Handles /\ e.len = n /\ e.unvouched = u
      /\ e.gen = eng.gen /\ e.snap = eng.snap /\ e.wal = eng.wal /\ e.consumed = eng.consumed /\ e.pc = eng.pc
  BY <1>4 DEF TypeOK, Handles
<1> QED BY <1>1, <1>2, <1>3, <1>5, <1>6 DEF TypeOK

LEMMA TakePositionFields ==
  ASSUME TypeOK, TakePosition
  PROVE  /\ w' \in Workers /\ eng' = Vouched(w.vouch)
         /\ w.pc = "position" /\ w'.pc = w.goal /\ w'.goal = w.goal /\ w'.disk = w.disk /\ w'.eye = w.eye
         /\ w'.key = w.key /\ w'.read = w.read /\ w'.opened = w.opened
         /\ w'.vouch = NoVouch
         /\ w'.pos.len = eng'.len /\ w'.pos.key.gen = eng'.gen
         /\ w'.pos.key.snap = eng'.snap /\ w'.pos.key.wal = eng'.wal
<1>0. w \in Workers /\ w.goal \in Goals /\ eng' = Vouched(w.vouch) /\ eng' \in Handles
  BY VouchedFields DEF TakePosition, TypeOK, Workers
<1>1. PICK k : k = [gen |-> eng'.gen, snap |-> eng'.snap, wal |-> eng'.wal]
  OBVIOUS
<1>2. k \in Keys /\ k.gen = eng'.gen /\ k.snap = eng'.snap /\ k.wal = eng'.wal
  BY <1>0, <1>1 DEF Keys, Handles
<1>3. PICK p : p = [key |-> k, len |-> eng'.len, busy |-> eng'.busy]
  OBVIOUS
<1>4. p \in Positions /\ p.key = k /\ p.len = eng'.len
  BY <1>0, <1>2, <1>3 DEF Positions, Handles
<1>5. w' = [w EXCEPT !.pc = w.goal, !.vouch = NoVouch, !.pos = p]
  BY <1>0, <1>1, <1>3 DEF TakePosition, KeyOf
<1>6. /\ w' \in Workers /\ w'.pc = w.goal /\ w'.vouch = NoVouch /\ w'.pos = p
      /\ w'.goal = w.goal /\ w'.disk = w.disk /\ w'.eye = w.eye
      /\ w'.key = w.key /\ w'.read = w.read /\ w'.opened = w.opened
  BY <1>0, <1>4, <1>5, EmptyTypes DEF Workers
<1> QED BY <1>0, <1>2, <1>4, <1>6 DEF TakePosition

\* The steps of run_once up to its decision.
LEMMA StartFields ==
  ASSUME TypeOK, Begin \/ Started \/ CaughtUp \/ LookedAgain \/ Decide
  PROVE  /\ w' \in Workers /\ UNCHANGED Others
         /\ \/ w' = Idle
            \/ w' = Look("start") \/ (w' = Look("caught") /\ w.pc = "catching")
            \/ (w' = Look("before") /\ w.pc = "decide")
            \/ /\ w.pc = "start" /\ w'.pc \in {"catch_up", "decide"} /\ w'.disk = w.eye /\ w'.eye = w.eye
               /\ w'.goal = w.goal /\ w'.pos = w.pos /\ w'.vouch = w.vouch /\ w'.key = w.key
               /\ w'.read = w.read /\ w'.opened = w.opened
            \/ /\ w.pc = "caught" /\ w'.pc = "position" /\ w'.goal = "decide" /\ w'.disk = w.eye /\ w'.eye = w.eye
               /\ w'.pos = w.pos /\ w'.vouch = w.vouch /\ w'.key = w.key
               /\ w'.read = w.read /\ w'.opened = w.opened
            \/ /\ w.pc = "decide" /\ w'.pc = "open_snap" /\ w'.key = w.pos.key /\ w.pos.key.snap = w.disk.snap
               /\ w'.goal = w.goal /\ w'.disk = w.disk /\ w'.eye = w.eye /\ w'.pos = w.pos /\ w'.vouch = w.vouch
               /\ w'.read = w.read /\ w'.opened = w.opened
<1>0. w \in Workers /\ w.eye \in Looks /\ w.pos \in Positions /\ w.pos.key \in Keys
  BY DEF TypeOK, Workers, Positions
<1>l. Look("start") \in Workers /\ Look("caught") \in Workers /\ Look("before") \in Workers
  BY <1>0, LookType DEF Goals
<1>1. CASE Begin
  BY <1>1, <1>l DEF Begin
<1>2. CASE Started
  <2>1. PICK q \in {"catch_up", "decide"} : w' = [w EXCEPT !.disk = w.eye, !.pc = q]
    BY <1>2 DEF Started
  <2>2. /\ w' \in Workers /\ w'.pc = q /\ w'.disk = w.eye /\ w'.eye = w.eye
        /\ w'.goal = w.goal /\ w'.pos = w.pos /\ w'.vouch = w.vouch /\ w'.key = w.key
        /\ w'.read = w.read /\ w'.opened = w.opened
    BY <1>0, <2>1 DEF Workers, Goals
  <2> QED BY <1>2, <2>1, <2>2 DEF Started
<1>3. CASE CaughtUp
  BY <1>3, <1>l DEF CaughtUp
<1>4. CASE LookedAgain
  <2>1. w' = Idle \/ w' = [w EXCEPT !.pc = "position", !.goal = "decide", !.disk = w.eye]
    BY <1>4 DEF LookedAgain
  <2>2. CASE w' = [w EXCEPT !.pc = "position", !.goal = "decide", !.disk = w.eye]
    <3>1. /\ w' \in Workers /\ w'.pc = "position" /\ w'.goal = "decide" /\ w'.disk = w.eye /\ w'.eye = w.eye
          /\ w'.pos = w.pos /\ w'.vouch = w.vouch /\ w'.key = w.key
          /\ w'.read = w.read /\ w'.opened = w.opened
      BY <1>0, <2>2 DEF Workers, Goals
    <3> QED BY <1>4, <3>1 DEF LookedAgain
  <2> QED BY <1>4, <2>1, <2>2, IdleType DEF LookedAgain
<1>5. CASE Decide
  <2>1. \/ w' = Idle \/ w' = Look("before")
        \/ w' = [w EXCEPT !.pc = "open_snap", !.key = w.pos.key] /\ w.pos.key.snap = w.disk.snap
    BY <1>5 DEF Decide
  <2>2. CASE w' = [w EXCEPT !.pc = "open_snap", !.key = w.pos.key] /\ w.pos.key.snap = w.disk.snap
    <3>1. /\ w' \in Workers /\ w'.pc = "open_snap" /\ w'.key = w.pos.key
          /\ w'.goal = w.goal /\ w'.disk = w.disk /\ w'.eye = w.eye /\ w'.pos = w.pos /\ w'.vouch = w.vouch
          /\ w'.read = w.read /\ w'.opened = w.opened
      BY <1>0, <2>2 DEF Workers
    <3> QED BY <1>5, <2>2, <3>1 DEF Decide
  <2>3. w.pc = "decide" /\ UNCHANGED Others
    BY <1>5 DEF Decide
  <2> QED BY <1>l, <2>1, <2>2, <2>3, IdleType
<1> QED BY <1>1, <1>2, <1>3, <1>4, <1>5

\* The steps of upload_base before the upload.
LEMMA OpenFields ==
  ASSUME TypeOK, OpenSnapshot \/ OpenArchives \/ ReadFloor
  PROVE  /\ w' \in Workers /\ UNCHANGED Others
         /\ w'.disk = w.disk /\ w'.vouch = w.vouch /\ w'.key = w.key /\ w'.read = w.read
         /\ \/ /\ w.pc = "open_snap" /\ w'.pc = "open_arch"
               /\ w'.goal = w.goal /\ w'.pos = w.pos /\ w'.eye = w.eye
               /\ w'.opened.snap = snap.id /\ w'.opened.done = snap.done
               /\ w'.opened.arch = w.opened.arch /\ w'.opened.floor = w.opened.floor
            \/ /\ w.pc = "open_arch" /\ w'.pc = "open_floor"
               /\ w'.goal = w.goal /\ w'.pos = w.pos /\ w'.eye = w.eye
               /\ w'.opened.snap = w.opened.snap /\ w'.opened.done = w.opened.done
               /\ w'.opened.arch = arch /\ w'.opened.floor = w.opened.floor
            \/ /\ w.pc = "open_floor" /\ w'.pc = "stat_snap" /\ w'.goal = "base"
               /\ w'.pos = NoPos /\ w'.eye = NoLook
               /\ w'.opened.snap = w.opened.snap /\ w'.opened.done = w.opened.done
               /\ w'.opened.arch = w.opened.arch /\ w'.opened.floor = floor
<1>0. w \in Workers /\ w.opened \in Opens /\ snap.id \in Nat /\ snap.done \in Seq(Nat) /\ arch \in Nat /\ floor \in Nat
  BY DEF TypeOK, Workers, Snaps
<1>1. CASE OpenSnapshot
  <2>1. PICK o : o = [w.opened EXCEPT !.snap = snap.id, !.done = snap.done]
    OBVIOUS
  <2>2. o \in Opens /\ o.snap = snap.id /\ o.done = snap.done /\ o.arch = w.opened.arch /\ o.floor = w.opened.floor
    BY <1>0, <2>1 DEF Opens
  <2>3. w' = [w EXCEPT !.pc = "open_arch", !.opened = o]
    BY <1>0, <1>1, <2>1 DEF OpenSnapshot, Workers
  <2>4. /\ w' \in Workers /\ w'.pc = "open_arch" /\ w'.opened = o /\ w'.goal = w.goal /\ w'.pos = w.pos
        /\ w'.eye = w.eye /\ w'.disk = w.disk /\ w'.vouch = w.vouch /\ w'.key = w.key /\ w'.read = w.read
    BY <1>0, <2>2, <2>3 DEF Workers
  <2>5. w.pc = "open_snap" /\ UNCHANGED Others
    BY <1>1 DEF OpenSnapshot
  <2> QED BY <2>2, <2>4, <2>5
<1>2. CASE OpenArchives
  <2>1. PICK o : o = [w.opened EXCEPT !.arch = arch]
    OBVIOUS
  <2>2. o \in Opens /\ o.snap = w.opened.snap /\ o.done = w.opened.done /\ o.arch = arch /\ o.floor = w.opened.floor
    BY <1>0, <2>1 DEF Opens
  <2>3. w' = [w EXCEPT !.pc = "open_floor", !.opened = o]
    BY <1>0, <1>2, <2>1 DEF OpenArchives, Workers
  <2>4. /\ w' \in Workers /\ w'.pc = "open_floor" /\ w'.opened = o /\ w'.goal = w.goal /\ w'.pos = w.pos
        /\ w'.eye = w.eye /\ w'.disk = w.disk /\ w'.vouch = w.vouch /\ w'.key = w.key /\ w'.read = w.read
    BY <1>0, <2>2, <2>3 DEF Workers
  <2>5. w.pc = "open_arch" /\ UNCHANGED Others
    BY <1>2 DEF OpenArchives
  <2> QED BY <2>2, <2>4, <2>5
<1>3. CASE ReadFloor
  <2>1. PICK o : o = [w.opened EXCEPT !.floor = floor]
    OBVIOUS
  <2>2. o \in Opens /\ o.snap = w.opened.snap /\ o.done = w.opened.done /\ o.arch = w.opened.arch /\ o.floor = floor
    BY <1>0, <2>1 DEF Opens
  <2>3. PICK l \in Workers : /\ l = Look("base") /\ l.opened = w.opened /\ l.pc = "stat_snap" /\ l.goal = "base"
                             /\ l.pos = NoPos /\ l.eye = NoLook /\ l.disk = w.disk /\ l.vouch = w.vouch
                             /\ l.key = w.key /\ l.read = w.read
    BY <1>0, LookType DEF Goals
  <2>4. w' = [l EXCEPT !.opened = o]
    BY <1>0, <1>3, <2>1, <2>3 DEF ReadFloor, Workers
  <2>5. /\ w' \in Workers /\ w'.pc = "stat_snap" /\ w'.opened = o /\ w'.goal = "base" /\ w'.pos = NoPos
        /\ w'.eye = NoLook /\ w'.disk = w.disk /\ w'.vouch = w.vouch /\ w'.key = w.key /\ w'.read = w.read
    BY <2>2, <2>3, <2>4 DEF Workers
  <2>6. w.pc = "open_floor" /\ UNCHANGED Others
    BY <1>3 DEF ReadFloor
  <2> QED BY <2>2, <2>5, <2>6
<1> QED BY <1>1, <1>2, <1>3

\* A restore point is put, or the step is given up.
LEMMA UploadBaseFields ==
  ASSUME TypeOK, UploadBase
  PROVE  /\ w' \in Workers /\ cur' \in [key : Keys, cursor : Nat] /\ gens' \in Seq(Points)
         /\ UNCHANGED <<world, log, next, disk, job, eng, crashes>>
         /\ w.pc = "base"
         /\ \/ w' = Idle /\ UNCHANGED <<cur, gens>>
            \/ /\ w.eye.snap = w.disk.snap /\ ~w.disk.intent /\ w.opened.snap = w.disk.snap /\ w.pos.key = w.key
               /\ w'.pc = "stat_snap" /\ w'.goal = "before" /\ w'.eye = NoLook /\ w'.pos = NoPos
               /\ w'.disk = w.disk /\ w'.vouch = w.vouch /\ w'.read = w.read /\ w'.opened = Idle.opened
               /\ cur'.key = w.pos.key /\ cur'.cursor = 0
               /\ Len(gens') = Len(gens) + 1
               /\ \A i \in 1..Len(gens) : gens'[i] = gens[i]
               /\ gens'[Len(gens')].base = w.opened.done /\ gens'[Len(gens')].segs = <<>>
               /\ gens'[Len(gens')].count = w.opened.floor + w.opened.arch
<1>0. /\ w \in Workers /\ w.opened \in Opens /\ w.pos.key \in Keys /\ gens \in Seq(Points) /\ Len(gens) \in Nat
      /\ w.opened.done \in Seq(Nat) /\ w.opened.floor + w.opened.arch \in Nat
  BY DEF TypeOK, Workers, Positions, Opens
<1>1. w.pc = "base" /\ UNCHANGED <<world, log, next, disk, job, eng, crashes>>
  BY DEF UploadBase
<1>2. CASE w' = Idle /\ UNCHANGED <<cur, gens>>
  BY <1>1, <1>2, IdleType DEF TypeOK
<1>3. CASE ~(w' = Idle /\ UNCHANGED <<cur, gens>>)
  <2>1. /\ UnchangedUntil(w.disk, w.eye) /\ w.opened.snap = w.disk.snap /\ w.pos.key = w.key
        /\ cur' = [key |-> w.pos.key, cursor |-> 0]
        /\ gens' = Append(gens, [base |-> w.opened.done, segs |-> <<>>, count |-> w.opened.floor + w.opened.arch])
        /\ w' = [Look("before") EXCEPT !.opened = Idle.opened, !.key = NoKey]
    BY <1>3 DEF UploadBase
  <2>2. PICK g : g = [base |-> w.opened.done, segs |-> <<>>, count |-> w.opened.floor + w.opened.arch]
    OBVIOUS
  <2>3. g \in Points /\ g.base = w.opened.done /\ g.segs = <<>> /\ g.count = w.opened.floor + w.opened.arch
    BY <1>0, <2>2, EmptyTypes DEF Points
  <2>4. gens' = Append(gens, g)
    BY <2>1, <2>2
  <2>5. /\ gens' \in Seq(Points) /\ Len(gens') = Len(gens) + 1 /\ gens'[Len(gens) + 1] = g
        /\ \A i \in 1..Len(gens) : gens'[i] = gens[i]
    BY <1>0, <2>3, <2>4
  <2>6. cur' \in [key : Keys, cursor : Nat] /\ cur'.key = w.pos.key /\ cur'.cursor = 0
    BY <1>0, <2>1
  <2>7. PICK l \in Workers : /\ l = Look("before") /\ l.pc = "stat_snap" /\ l.goal = "before"
                             /\ l.pos = NoPos /\ l.eye = NoLook /\ l.disk = w.disk /\ l.vouch = w.vouch
                             /\ l.read = w.read
    BY <1>0, LookType DEF Goals
  <2>8. PICK o \in Opens : o = Idle.opened
    BY IdleType
  <2>9. w' = [l EXCEPT !.opened = o, !.key = NoKey]
    BY <2>1, <2>7, <2>8
  <2>10. /\ w' \in Workers /\ w'.pc = "stat_snap" /\ w'.opened = o /\ w'.goal = "before" /\ w'.pos = NoPos
         /\ w'.eye = NoLook /\ w'.disk = w.disk /\ w'.vouch = w.vouch /\ w'.read = w.read
    BY <2>7, <2>8, <2>9, EmptyTypes DEF Workers
  <2>11. w.eye.snap = w.disk.snap /\ ~w.disk.intent
    BY <2>1 DEF UnchangedUntil
  <2>12. gens'[Len(gens')] = g
    BY <2>5
  <2> QED BY <1>1, <2>1, <2>3, <2>5, <2>6, <2>8, <2>10, <2>11, <2>12
<1> QED BY <1>2, <1>3

LEMMA ReadSegmentFields ==
  ASSUME TypeOK, ReadSegment
  PROVE  /\ w' \in Workers /\ UNCHANGED Others
         /\ w.pc = "before"
         /\ \/ w' = Idle
            \/ /\ w.eye.snap = cur.key.snap /\ w.eye.wal = cur.key.wal
               /\ w.pos.key = cur.key /\ w.pos.len > cur.cursor
               /\ w'.pc = "stat_snap" /\ w'.goal = "after" /\ w'.eye = NoLook /\ w'.pos = NoPos
               /\ w'.disk = w.eye /\ w'.vouch = w.vouch /\ w'.key = w.key /\ w'.opened = w.opened
               /\ w'.read = SubSeq(wal.frames, cur.cursor + 1,
                                  IF w.pos.len < Len(wal.frames) THEN w.pos.len ELSE Len(wal.frames))
<1>0. /\ w \in Workers /\ w.eye \in Looks /\ w.pos.len \in Nat /\ wal.frames \in Seq(Nat) /\ Len(wal.frames) \in Nat
      /\ cur.cursor \in Nat
  BY DEF TypeOK, Workers, Positions, Wals
<1>1. w.pc = "before" /\ UNCHANGED Others
  BY DEF ReadSegment
<1>2. CASE w' = Idle
  BY <1>1, <1>2, IdleType
<1>3. CASE w' # Idle
  <2>1. PICK r : r = SubSeq(wal.frames, cur.cursor + 1,
                            IF w.pos.len < Len(wal.frames) THEN w.pos.len ELSE Len(wal.frames))
    OBVIOUS
  <2>2. r \in Seq(Nat)
    <3>1. PICK m \in Nat : m = (IF w.pos.len < Len(wal.frames) THEN w.pos.len ELSE Len(wal.frames)) /\ m <= Len(wal.frames)
      BY <1>0
    <3>2. \A i \in cur.cursor + 1..m : wal.frames[i] \in Nat
      BY <1>0, <3>1
    <3> QED BY <1>0, <2>1, <3>1, <3>2, SubSeqProperties
  <2>3. /\ w.eye.snap = cur.key.snap /\ w.eye.wal = cur.key.wal
        /\ w.pos.key = cur.key /\ w.pos.len > cur.cursor
        /\ w' = [Look("after") EXCEPT !.disk = w.eye, !.read = r]
    BY <1>0, <1>3, <2>1 DEF ReadSegment
  <2>4. PICK l \in Workers : /\ l = Look("after") /\ l.pc = "stat_snap" /\ l.goal = "after"
                             /\ l.pos = NoPos /\ l.eye = NoLook /\ l.vouch = w.vouch
                             /\ l.key = w.key /\ l.opened = w.opened
    BY <1>0, LookType DEF Goals
  <2>5. w' = [l EXCEPT !.disk = w.eye, !.read = r]
    BY <2>3, <2>4
  <2>6. /\ w' \in Workers /\ w'.pc = "stat_snap" /\ w'.opened = w.opened /\ w'.goal = "after" /\ w'.pos = NoPos
        /\ w'.eye = NoLook /\ w'.disk = w.eye /\ w'.vouch = w.vouch /\ w'.read = r /\ w'.key = w.key
    BY <1>0, <2>2, <2>4, <2>5 DEF Workers
  <2> QED BY <1>1, <2>1, <2>3, <2>6
<1> QED BY <1>2, <1>3

LEMMA PutSegmentFields ==
  ASSUME TypeOK, PutSegment
  PROVE  /\ w' \in Workers /\ cur' \in [key : Keys, cursor : Nat] /\ gens' \in Seq(Points)
         /\ UNCHANGED <<world, log, next, disk, job, eng, crashes>>
         /\ w.pc = "after"
         /\ \/ w' = Idle /\ UNCHANGED <<cur, gens>>
            \/ /\ w.eye.snap = w.disk.snap /\ w.eye.wal = w.disk.wal /\ w.pos.key = cur.key
               /\ w'.pc = "stat_snap" /\ w'.goal = "before" /\ w'.eye = NoLook /\ w'.pos = NoPos
               /\ w'.disk = w.disk /\ w'.vouch = w.vouch /\ w'.key = w.key /\ w'.opened = w.opened
               /\ cur'.key = cur.key /\ cur'.cursor = cur.cursor + Len(w.read)
               /\ Len(gens') = Len(gens)
               /\ \A i \in 1..Len(gens) : i # Len(gens) => gens'[i] = gens[i]
               /\ Len(gens) > 0 => /\ gens'[Len(gens)].base = gens[Len(gens)].base
                                   /\ gens'[Len(gens)].segs = gens[Len(gens)].segs \o w.read
                                   /\ gens'[Len(gens)].count = gens[Len(gens)].count
<1>0. /\ w \in Workers /\ gens \in Seq(Points) /\ Len(gens) \in Nat /\ w.read \in Seq(Nat) /\ Len(w.read) \in Nat
      /\ cur \in [key : Keys, cursor : Nat]
  BY DEF TypeOK, Workers
<1>1. w.pc = "after" /\ UNCHANGED <<world, log, next, disk, job, eng, crashes>>
  BY DEF PutSegment
<1>2. CASE w' = Idle /\ UNCHANGED <<cur, gens>>
  BY <1>1, <1>2, IdleType DEF TypeOK
<1>3. CASE ~(w' = Idle /\ UNCHANGED <<cur, gens>>)
  <2>1. /\ UnchangedUntil(w.disk, w.eye) /\ w.pos.key = cur.key
        /\ gens' = [gens EXCEPT ![Len(gens)].segs = @ \o w.read]
        /\ cur' = [cur EXCEPT !.cursor = @ + Len(w.read)]
        /\ w' = [Look("before") EXCEPT !.read = <<>>]
    BY <1>3 DEF PutSegment
  <2>2. cur' \in [key : Keys, cursor : Nat] /\ cur'.key = cur.key /\ cur'.cursor = cur.cursor + Len(w.read)
    <3>1. PICK n \in Nat : n = cur.cursor + Len(w.read)
      BY <1>0
    <3>2. cur' = [cur EXCEPT !.cursor = n]
      BY <2>1, <3>1
    <3>3. cur' \in [key : Keys, cursor : Nat] /\ cur'.key = cur.key /\ cur'.cursor = n
      BY <1>0, <3>2
    <3> QED BY <3>1, <3>3
  <2>3. PICK l \in Workers : /\ l = Look("before") /\ l.pc = "stat_snap" /\ l.goal = "before"
                             /\ l.pos = NoPos /\ l.eye = NoLook /\ l.disk = w.disk /\ l.vouch = w.vouch
                             /\ l.key = w.key /\ l.opened = w.opened
    BY <1>0, LookType DEF Goals
  <2>4. w' = [l EXCEPT !.read = <<>>]
    BY <2>1, <2>3
  <2>5. /\ w' \in Workers /\ w'.pc = "stat_snap" /\ w'.opened = w.opened /\ w'.goal = "before" /\ w'.pos = NoPos
        /\ w'.eye = NoLook /\ w'.disk = w.disk /\ w'.vouch = w.vouch /\ w'.key = w.key
    BY <2>3, <2>4, EmptyTypes DEF Workers
  <2>6. w.eye.snap = w.disk.snap /\ w.eye.wal = w.disk.wal
    BY <2>1 DEF UnchangedUntil
  <2>7. CASE Len(gens) > 0
    <3>1. PICK g \in Points : g = gens[Len(gens)]
      BY <1>0, <2>7
    <3>a. g.segs \in Seq(Nat)
      BY DEF Points
    <3>b. g.segs \o w.read \in Seq(Nat)
      BY <1>0, <3>a, ConcatProperties
    <3>2. PICK s \in Seq(Nat) : s = g.segs \o w.read
      BY <3>b
    <3>3. PICK f : f = [g EXCEPT !.segs = s]
      OBVIOUS
    <3>4. f \in Points /\ f.base = g.base /\ f.segs = s /\ f.count = g.count
      BY <3>3 DEF Points
    <3>5. gens' = [gens EXCEPT ![Len(gens)] = f]
      BY <1>0, <2>1, <2>7, <3>1, <3>2, <3>3
    <3>6. /\ gens' \in Seq(Points) /\ Len(gens') = Len(gens) /\ gens'[Len(gens)] = f
          /\ \A i \in 1..Len(gens) : i # Len(gens) => gens'[i] = gens[i]
      BY <1>0, <2>7, <3>4, <3>5
    <3> QED BY <1>1, <2>1, <2>2, <2>5, <2>6, <3>1, <3>2, <3>4, <3>6
  <2>8. CASE Len(gens) = 0
    <3>1. gens' = gens
      BY <1>0, <2>1, <2>8
    <3>2. gens' \in Seq(Points) /\ Len(gens') = Len(gens) /\ ~(Len(gens) > 0)
          /\ \A i \in 1..Len(gens) : i # Len(gens) => gens'[i] = gens[i]
      BY <1>0, <2>8, <3>1
    <3>3. w.pos.key = cur.key
      BY <2>1
    <3> QED BY ONLY <1>1, <2>2, <2>5, <2>6, <3>2, <3>3
  <2>9. Len(gens) > 0 \/ Len(gens) = 0
    BY <1>0
  <2> QED BY ONLY <2>7, <2>8, <2>9
<1> QED BY <1>2, <1>3

\* refresh_if_stale.
LEMMA CatchUpFields ==
  ASSUME TypeOK, CatchUp
  PROVE  /\ w' \in Workers /\ eng' \in Handles
         /\ w.pc = "catch_up" /\ w'.pc = "catching" /\ eng.pc = "up" /\ job.by # "own"
         /\ w'.goal = w.goal /\ w'.disk = w.disk /\ w'.eye = w.eye /\ w'.pos = w.pos
         /\ w'.vouch = w.vouch /\ w'.key = w.key /\ w'.read = w.read /\ w'.opened = w.opened
         /\ eng' = eng \/ (IsStale /\ Refresh(FALSE))
<1>1. w' = [w EXCEPT !.pc = "catching"] /\ w \in Workers
  BY DEF CatchUp, TypeOK
<1>2. /\ w' \in Workers /\ w'.pc = "catching"
      /\ w'.goal = w.goal /\ w'.disk = w.disk /\ w'.eye = w.eye /\ w'.pos = w.pos
      /\ w'.vouch = w.vouch /\ w'.key = w.key /\ w'.read = w.read /\ w'.opened = w.opened
  BY <1>1 DEF Workers
<1>3. eng' = eng \/ (IsStale /\ Refresh(FALSE))
  BY DEF CatchUp
<1>4. eng' \in Handles
  BY <1>3, RefreshType DEF TypeOK
<1> QED BY <1>2, <1>3, <1>4 DEF CatchUp

LEMMA WorkerStepType ==
  ASSUME TypeOK, WorkerStep PROVE TypeOK'
<1>1. CASE StatSnapshot \/ StatWal \/ StatIntent
  BY <1>1, StatFields DEF TypeOK, Others, disk
<1>2. CASE VouchSync
  BY <1>2, VouchSyncFields DEF VouchSync, TypeOK
<1>3. CASE TakePosition
  BY <1>3, TakePositionFields, VouchedFields DEF TakePosition, TypeOK, disk
<1>4. CASE Begin \/ Started \/ CaughtUp \/ LookedAgain \/ Decide
  BY <1>4, StartFields DEF TypeOK, Others, disk
<1>5. CASE CatchUp
  BY <1>5, CatchUpFields DEF CatchUp, TypeOK, disk
<1>6. CASE OpenSnapshot \/ OpenArchives \/ ReadFloor
  BY <1>6, OpenFields DEF TypeOK, Others, disk
<1>7. CASE UploadBase
  BY <1>7, UploadBaseFields DEF TypeOK, disk
<1>8. CASE ReadSegment
  BY <1>8, ReadSegmentFields DEF TypeOK, Others, disk
<1>9. CASE PutSegment
  BY <1>9, PutSegmentFields DEF TypeOK, disk
<1> QED BY <1>1, <1>2, <1>3, <1>4, <1>5, <1>6, <1>7, <1>8, <1>9 DEF WorkerStep

LEMMA TypeStep ==
  ASSUME TypeOK, [Next]_vars PROVE TypeOK'
<1>1. CASE UNCHANGED vars
  BY <1>1 DEF vars, disk, TypeOK
<1>2. CASE Next
  BY <1>2, HandleStepType, CommitStepType, BeginSnapshotType, SnapshotStepType, CrashType, WorkerStepType DEF Next
<1> QED BY <1>1, <1>2

-----------------------------------------------------------------------------
(* What the handle vouches for.                                            *)

LEMMA Facts ==
  ASSUME TypeOK
  PROVE  /\ wal.ino \in Nat /\ wal.synced \in Nat /\ wal.frames \in Seq(Nat) /\ Len(wal.frames) \in Nat
         /\ snap.id \in Nat /\ snap.done \in Seq(Nat)
         /\ eng.gen \in Nat /\ eng.len \in Nat /\ eng.unvouched \in Nat /\ eng.snap \in Nat /\ eng.wal \in Nat
         /\ eng.consumed \in Nat /\ eng.pc \in {"up", "load", "ident"}
         /\ w.vouch.gen \in Nat /\ w.vouch.len \in Nat
         /\ log \in Seq(Nat) /\ next \in Nat /\ floor \in Nat /\ arch \in Nat
         /\ Len(<<>>) = 0
<1>1. /\ wal \in Wals /\ snap \in Snaps /\ eng \in Handles /\ w \in Workers
      /\ log \in Seq(Nat) /\ next \in Nat /\ floor \in Nat /\ arch \in Nat
  BY DEF TypeOK
<1>2. w.vouch \in Vouches
  BY <1>1 DEF Workers
<1>3. wal.ino \in Nat /\ wal.synced \in Nat /\ wal.frames \in Seq(Nat)
  BY ONLY <1>1 DEF Wals
<1>4. Len(wal.frames) \in Nat
  BY ONLY <1>3
<1>5. snap.id \in Nat /\ snap.done \in Seq(Nat)
  BY ONLY <1>1 DEF Snaps
<1>6. /\ eng.gen \in Nat /\ eng.len \in Nat /\ eng.unvouched \in Nat /\ eng.snap \in Nat /\ eng.wal \in Nat
      /\ eng.consumed \in Nat /\ eng.pc \in {"up", "load", "ident"}
  BY ONLY <1>1 DEF Handles
<1>7. w.vouch.gen \in Nat /\ w.vouch.len \in Nat
  BY ONLY <1>2 DEF Vouches
<1>8. Len(<<>>) = 0
  OBVIOUS
<1> QED BY ONLY <1>1, <1>3, <1>4, <1>5, <1>6, <1>7, <1>8

LEMMA FactsNext ==
  ASSUME TypeOK'
  PROVE  /\ wal'.ino \in Nat /\ wal'.synced \in Nat /\ wal'.frames \in Seq(Nat) /\ Len(wal'.frames) \in Nat
         /\ snap'.id \in Nat /\ snap'.done \in Seq(Nat)
         /\ eng'.gen \in Nat /\ eng'.len \in Nat /\ eng'.unvouched \in Nat /\ eng'.snap \in Nat /\ eng'.wal \in Nat
         /\ eng'.consumed \in Nat /\ eng'.pc \in {"up", "load", "ident"}
         /\ w'.vouch.gen \in Nat /\ w'.vouch.len \in Nat
<1>1. wal' \in Wals /\ snap' \in Snaps /\ eng' \in Handles /\ w' \in Workers
  BY DEF TypeOK
<1>2. w'.vouch \in Vouches
  BY <1>1 DEF Workers
<1> HIDE DEF TypeOK
<1>3. wal'.ino \in Nat /\ wal'.synced \in Nat /\ wal'.frames \in Seq(Nat) /\ Len(wal'.frames) \in Nat
  BY <1>1 DEF Wals
<1>4. snap'.id \in Nat /\ snap'.done \in Seq(Nat)
  BY <1>1 DEF Snaps
<1>5. /\ eng'.gen \in Nat /\ eng'.len \in Nat /\ eng'.unvouched \in Nat /\ eng'.snap \in Nat /\ eng'.wal \in Nat
      /\ eng'.consumed \in Nat /\ eng'.pc \in {"up", "load", "ident"}
  BY <1>1 DEF Handles
<1>6. w'.vouch.gen \in Nat /\ w'.vouch.len \in Nat
  BY <1>2 DEF Vouches
<1> QED BY <1>3, <1>4, <1>5, <1>6

LEMMA VouchInit ==
  ASSUME Init PROVE VouchInv
<1>1. TypeOK
  BY TypeInit
<1>2. w.vouch.gen = 0 /\ w.vouch.len = 0
  BY IdleType DEF Init, NoVouch
<1>3. job.by = "none" /\ job.pc = "none" /\ job.mode = "none"
  BY DEF Init, NoJob
<1>4. /\ wal.ino = 1 /\ wal.frames = <<>> /\ wal.synced = 0 /\ snap.id = 0 /\ snap.done = <<>>
      /\ eng.gen = 1 /\ eng.len = 0 /\ eng.unvouched = 0 /\ eng.snap = 0 /\ eng.wal = 1
      /\ eng.consumed = 0 /\ eng.pc = "up"
  BY DEF Init
<1>5. FilePart /\ JobPart
  BY <1>1, <1>3, <1>4, Facts DEF FilePart, JobPart
<1>6. RemembersPast /\ MovesClean /\ OwnJob /\ VouchesForSynced
  BY <1>1, <1>2, <1>3, <1>4, Facts DEF RemembersPast, MovesClean, OwnJob, VouchesForSynced, Past, Clean
<1> QED BY <1>1, <1>5, <1>6 DEF VouchInv

LEMMA RefreshFields ==
  ASSUME TypeOK, NEW a \in BOOLEAN, Refresh(a)
  PROVE  /\ eng'.snap = eng.snap /\ eng'.wal = eng.wal
         /\ \/ /\ eng'.gen = eng.gen + 1 /\ eng'.len = 0 /\ eng'.unvouched = 0 /\ eng'.pc = "load"
               /\ eng'.consumed = eng.consumed
            \/ /\ ~MustReload(a)
               /\ eng'.gen = eng.gen /\ eng'.len = eng.len /\ eng'.pc = eng.pc
               /\ eng'.consumed = Len(wal.frames)
               /\ eng'.unvouched = Len(wal.frames) \/ eng'.unvouched = eng.unvouched
<1>0. eng \in Handles
  BY DEF TypeOK
<1>1. CASE MustReload(a)
  <2>1. PICK g : g = eng.gen + 1
    OBVIOUS
  <2>2. eng' = [eng EXCEPT !.gen = g, !.len = 0, !.unvouched = 0, !.pc = "load"]
    BY <1>1, <2>1 DEF Refresh
  <2>3. /\ eng'.gen = g /\ eng'.len = 0 /\ eng'.unvouched = 0 /\ eng'.pc = "load"
        /\ eng'.consumed = eng.consumed /\ eng'.snap = eng.snap /\ eng'.wal = eng.wal
    BY <1>0, <2>2 DEF Handles
  <2> QED BY <2>1, <2>3
<1>2. CASE ~MustReload(a)
  <2>1. PICK n : n = Len(wal.frames)
    OBVIOUS
  <2>2. PICK u \in {n, eng.unvouched} : eng' = [eng EXCEPT !.consumed = n, !.unvouched = u]
    BY <1>2, <2>1 DEF Refresh
  <2>3. /\ eng'.gen = eng.gen /\ eng'.len = eng.len /\ eng'.unvouched = u /\ eng'.pc = eng.pc
        /\ eng'.consumed = n /\ eng'.snap = eng.snap /\ eng'.wal = eng.wal
    BY <1>0, <2>2 DEF Handles
  <2> QED BY <1>2, <2>1, <2>2, <2>3
<1> QED BY <1>1, <1>2

\* Following a peer: the handle goes on from its cursor only in the WAL it was reading.
LEMMA RefreshVouch ==
  ASSUME VouchInv, TypeOK', NEW a \in BOOLEAN, Refresh(a), eng.pc = "up", job.by # "own",
         IsStale \/ (a /\ ~IsCurrent),
         UNCHANGED <<wal, snap, job, log>>, w'.vouch = w.vouch
  PROVE  VouchInv'
<1>1. FilePart' /\ JobPart'
  BY DEF VouchInv, FilePart, JobPart
<1>2. ~MustReload(a) => wal.ino = eng.wal
  BY Facts DEF VouchInv, MustReload, IsStale, IsCurrent
<1>3. TypeOK /\ FilePart /\ RemembersPast /\ MovesClean /\ OwnJob /\ VouchesForSynced
  BY DEF VouchInv
<1>4. OwnJob'
  BY DEF OwnJob
<1>5. UNCHANGED <<wal, snap, job, log>> /\ w'.vouch = w.vouch /\ eng'.snap = eng.snap /\ eng'.wal = eng.wal
  BY <1>3, RefreshFields
<1>6. CASE /\ eng'.gen = eng.gen + 1 /\ eng'.len = 0 /\ eng'.unvouched = 0 /\ eng'.pc = "load"
           /\ eng'.consumed = eng.consumed
  <2>0. w'.vouch.gen < eng'.gen /\ eng'.gen >= 1 /\ w'.vouch.gen <= eng'.gen
    <3>1. PICK v \in Nat : v = w.vouch.gen
      BY <1>3, Facts
    <3>2. PICK g \in Nat : g = eng.gen /\ v <= g
      BY <1>3, <3>1, Facts DEF RemembersPast
    <3>3. eng'.gen = g + 1 /\ w'.vouch.gen = v
      BY <1>5, <1>6, <3>1, <3>2
    <3> QED BY <3>2, <3>3
  <2>1. RemembersPast'
    BY <1>3, <1>5, <1>6, <2>0 DEF RemembersPast, Past
  <2>2. MovesClean'
    BY <1>6, <2>0 DEF MovesClean, Clean
  <2>3. VouchesForSynced'
    BY <1>3, <1>5, <1>6, Facts DEF RemembersPast, VouchesForSynced
  <2> QED BY <1>1, <1>4, <2>1, <2>2, <2>3 DEF VouchInv
<1>7. CASE /\ wal.ino = eng.wal
           /\ eng'.gen = eng.gen /\ eng'.len = eng.len /\ eng'.pc = eng.pc
           /\ eng'.consumed = Len(wal.frames)
           /\ eng'.unvouched = Len(wal.frames) \/ eng'.unvouched = eng.unvouched
  <2>1. wal.ino = 0 => Len(wal.frames) = 0
    BY <1>3, Facts DEF FilePart
  <2>2. RemembersPast'
    BY <1>3, <1>5, <1>7, <2>1, Facts DEF RemembersPast, Past
  <2>3. MovesClean'
    BY <1>3, <1>5, <1>7, <2>1, Facts DEF RemembersPast, MovesClean, Clean
  <2>4. VouchesForSynced'
    BY <1>3, <1>5, <1>7, Facts DEF VouchesForSynced
  <2> QED BY <1>1, <1>4, <2>2, <2>3, <2>4 DEF VouchInv
<1> QED BY <1>2, <1>3, <1>6, <1>7, RefreshFields

LEMMA LoadWalVouch ==
  ASSUME VouchInv, TypeOK', LoadWal PROVE VouchInv'
<1>1. UNCHANGED <<wal, snap, job, log, w>>
  BY DEF LoadWal, disk, worker
<1>2. eng \in Handles
  BY DEF VouchInv, TypeOK
<1>3. /\ eng.pc = "load" /\ eng'.pc = "ident" /\ eng'.consumed = Len(wal.frames) /\ eng'.wal = wal.ino
      /\ eng'.gen = eng.gen /\ eng'.len = eng.len /\ eng'.unvouched = eng.unvouched /\ eng'.snap = eng.snap
  BY <1>2 DEF LoadWal, Handles
<1>4. TypeOK /\ FilePart /\ JobPart /\ RemembersPast /\ MovesClean /\ OwnJob /\ VouchesForSynced
  BY DEF VouchInv
<1>5. RemembersPast'
  BY <1>1, <1>3, <1>4, Facts DEF FilePart, RemembersPast, Past
<1>6. MovesClean' /\ OwnJob' /\ Clean(eng, w.vouch)
  BY <1>1, <1>3, <1>4, Facts DEF MovesClean, OwnJob, Clean
<1>7. VouchesForSynced'
  BY <1>1, <1>3, <1>4, <1>6, Facts DEF VouchesForSynced, Clean
<1> QED BY <1>1, <1>4, <1>5, <1>6, <1>7 DEF VouchInv, FilePart, JobPart

LEMMA LoadIdentVouch ==
  ASSUME VouchInv, TypeOK', LoadIdent PROVE VouchInv'
<1>1. UNCHANGED <<wal, snap, job, log, w>>
  BY DEF LoadIdent, disk, worker
<1>2. eng \in Handles
  BY DEF VouchInv, TypeOK
<1>3. /\ eng.pc = "ident" /\ eng'.pc = "up" /\ eng'.consumed = eng.consumed /\ eng'.wal = eng.wal
      /\ eng'.gen = eng.gen /\ eng'.len = eng.len /\ eng'.unvouched = eng.consumed /\ eng'.snap = snap.id
  BY <1>2 DEF LoadIdent, Handles
<1>4. TypeOK /\ FilePart /\ JobPart /\ RemembersPast /\ MovesClean /\ OwnJob /\ VouchesForSynced
  BY DEF VouchInv
<1>5. RemembersPast'
  BY <1>1, <1>3, <1>4, Facts DEF FilePart, RemembersPast, Past
<1>6. MovesClean' /\ OwnJob' /\ Clean(eng, w.vouch)
  BY <1>1, <1>3, <1>4, Facts DEF MovesClean, OwnJob, Clean, RemembersPast
<1>7. VouchesForSynced'
  BY <1>1, <1>3, <1>4, <1>6, Facts DEF VouchesForSynced, Clean
<1> QED BY <1>1, <1>4, <1>5, <1>6, <1>7 DEF VouchInv, FilePart, JobPart

LEMMA HandleStepVouch ==
  ASSUME VouchInv, TypeOK', ReadRefreshes \/ WriteRefreshes \/ LoadWal \/ LoadIdent PROVE VouchInv'
<1>1. CASE ReadRefreshes
  BY <1>1, RefreshVouch DEF ReadRefreshes, disk, worker
<1>2. CASE WriteRefreshes
  <2>1. job.by # "own"
    BY <1>2 DEF WriteRefreshes, NoJob
  <2> QED BY <1>2, <2>1, RefreshVouch DEF WriteRefreshes, disk, worker
<1> QED BY <1>1, <1>2, LoadWalVouch, LoadIdentVouch

\* A commit appends to the WAL on disk, or makes it.
LEMMA CommitFields ==
  ASSUME TypeOK, NEW p, Commit(p)
  PROVE  /\ (wal.ino = 0 => wal'.ino = snap.id + 1) /\ (wal.ino # 0 => wal'.ino = wal.ino)
         /\ wal'.frames = Append(wal.frames, next) /\ Len(wal'.frames) = Len(wal.frames) + 1
         /\ wal'.synced = wal.synced \/ wal'.synced = Len(wal.frames) + 1
         /\ p = "full" => wal'.synced = Len(wal.frames) + 1
         /\ job = NoJob /\ job.by = "none" /\ job.pc = "none" /\ job.mode = "none"
<1>1. /\ (wal.ino = 0 => wal'.ino = snap.id + 1) /\ (wal.ino # 0 => wal'.ino = wal.ino)
      /\ wal'.frames = Append(wal.frames, next)
      /\ wal'.synced = (IF p = "full" THEN Len(wal.frames) + 1 ELSE wal.synced)
  BY DEF Commit
<1>2. Len(Append(wal.frames, next)) = Len(wal.frames) + 1
  BY Facts
<1>3. job = NoJob
  BY DEF Commit
<1> QED BY <1>1, <1>2, <1>3 DEF NoJob

LEMMA CommitFiles ==
  ASSUME VouchInv, TypeOK', NEW p, Commit(p), UNCHANGED <<snap, job>>
  PROVE  FilePart' /\ JobPart' /\ OwnJob'
<1>1. TypeOK /\ FilePart
  BY DEF VouchInv
<1>2. FilePart'
  <2>1. PICK i \in Nat, n \in Nat, y \in Nat, k \in Nat :
          i = wal.ino /\ n = Len(wal.frames) /\ y = wal.synced /\ k = snap.id /\ i <= k + 1 /\ y <= n
    BY <1>1, Facts DEF FilePart
  <2>2. PICK j \in Nat : wal'.ino = j /\ (i = 0 => j = k + 1) /\ (i # 0 => j = i)
    BY <1>1, <2>1, CommitFields
  <2>3. Len(wal'.frames) = n + 1 /\ (wal'.synced = y \/ wal'.synced = n + 1)
    BY <1>1, <2>1, CommitFields
  <2>4. wal'.ino <= k + 1 /\ wal'.ino # 0 /\ wal'.synced <= Len(wal'.frames)
    BY <2>1, <2>2, <2>3
  <2> QED BY <1>1, <2>1, <2>4 DEF FilePart
<1>3. job'.by = "none" /\ job'.pc = "none" /\ job'.mode = "none"
  BY <1>1, CommitFields
<1>4. JobPart'
  BY <1>3 DEF JobPart
<1>5. OwnJob'
  BY <1>3 DEF OwnJob
<1> QED BY <1>2, <1>4, <1>5

LEMMA PeerCommitVouch ==
  ASSUME VouchInv, TypeOK', NEW p, PeerCommit(p) PROVE VouchInv'
<1>1. Commit(p) /\ UNCHANGED <<snap, job, eng, w>>
  BY DEF PeerCommit, worker
<1>2. TypeOK /\ FilePart /\ RemembersPast /\ MovesClean /\ VouchesForSynced
  BY DEF VouchInv
<1>3. /\ (wal.ino = 0 => wal'.ino = snap.id + 1) /\ (wal.ino # 0 => wal'.ino = wal.ino) /\ Len(wal'.frames) = Len(wal.frames) + 1
      /\ wal'.synced = wal.synced \/ wal'.synced = Len(wal.frames) + 1
      /\ job.by = "none"
  BY <1>1, <1>2, CommitFields
<1>4. PICK i \in Nat, n \in Nat, y \in Nat, k \in Nat, e \in Nat :
         /\ i = wal.ino /\ n = Len(wal.frames) /\ y = wal.synced /\ k = snap.id /\ e = eng.wal
         /\ y <= n /\ (e <= i \/ (i = 0 /\ e <= k))
  BY <1>2, Facts DEF FilePart, RemembersPast, Past
<1>5. PICK j \in Nat : wal'.ino = j /\ (i = 0 => j = k + 1) /\ (i # 0 => j = i)
  BY <1>3, <1>4
<1>6. Len(wal'.frames) = n + 1 /\ (wal'.synced = y \/ wal'.synced = n + 1)
  BY <1>3, <1>4
<1>7. e <= j /\ (e = j => e = i)
  BY <1>4, <1>5
<1>8. RemembersPast'
  BY <1>1, <1>2, <1>4, <1>5, <1>7 DEF RemembersPast, Past
<1>9. MovesClean'
  BY <1>1, <1>2, <1>3 DEF MovesClean
<1>10. VouchesForSynced'
  <2>1. CASE e # j
    <3>1. eng'.wal # wal'.ino
      BY <1>1, <1>4, <1>5, <2>1
    <3> QED BY <3>1 DEF VouchesForSynced
  <2>2. CASE e = j
    <3>1. PICK l \in Nat, u \in Nat, c \in Nat, v \in Nat :
            /\ l = eng.len /\ u = eng.unvouched /\ c = eng.consumed /\ v = w.vouch.len
            /\ l <= y /\ u <= n /\ c <= n /\ (w.vouch.gen = eng.gen => v <= y)
      BY <1>2, <1>4, <1>7, <2>2, Facts DEF VouchesForSynced
    <3>2. eng'.len = l /\ eng'.unvouched = u /\ eng'.consumed = c /\ w'.vouch.len = v
          /\ w'.vouch.gen = w.vouch.gen /\ eng'.gen = eng.gen
      BY <1>1, <3>1
    <3>3. eng'.len <= wal'.synced /\ eng'.unvouched <= Len(wal'.frames) /\ eng'.consumed <= Len(wal'.frames)
      BY <1>4, <1>6, <3>1, <3>2
    <3>4. w'.vouch.gen = eng'.gen => w'.vouch.len <= wal'.synced
      BY <1>4, <1>6, <3>1, <3>2
    <3> QED BY <3>3, <3>4 DEF VouchesForSynced
  <2> QED BY <2>1, <2>2
<1> QED BY <1>1, <1>8, <1>9, <1>10, CommitFiles DEF VouchInv

LEMMA OwnCommitVouch ==
  ASSUME VouchInv, TypeOK', NEW p, OwnCommit(p) PROVE VouchInv'
<1>1. Commit(p) /\ UNCHANGED <<snap, job, w>>
  BY DEF OwnCommit, worker
<1>2. TypeOK /\ FilePart /\ RemembersPast /\ MovesClean /\ VouchesForSynced
  BY DEF VouchInv
<1>3. /\ (wal.ino = 0 => wal'.ino = snap.id + 1) /\ (wal.ino # 0 => wal'.ino = wal.ino) /\ Len(wal'.frames) = Len(wal.frames) + 1
      /\ wal'.synced = wal.synced \/ wal'.synced = Len(wal.frames) + 1
      /\ p = "full" => wal'.synced = Len(wal.frames) + 1
      /\ job.by = "none"
  BY <1>1, <1>2, CommitFields
<1>4. /\ eng.wal = wal.ino /\ eng.pc = "up"
      /\ eng'.gen = eng.gen /\ eng'.snap = eng.snap /\ eng'.wal = wal'.ino /\ eng'.pc = "up"
      /\ eng'.consumed = Len(wal.frames) + 1
      /\ eng'.len = eng.len \/ (p = "full" /\ eng'.len = Len(wal.frames) + 1)
      /\ eng'.unvouched = eng.unvouched \/ eng'.unvouched = 0
  <2>1. eng \in Handles /\ eng.wal = wal.ino /\ eng.pc = "up"
    BY <1>2 DEF TypeOK, OwnCommit, IsCurrent
  <2>2. PICK n : n = Len(wal.frames) + 1
    OBVIOUS
  <2>3. PICK i : i = wal'.ino
    OBVIOUS
  <2>4. PICK l, u :
          /\ l = eng.len \/ (p = "full" /\ l = n)
          /\ u = eng.unvouched \/ u = 0
          /\ eng' = [eng EXCEPT !.consumed = n, !.wal = i, !.unsettled = FALSE, !.len = l, !.unvouched = u]
    BY <2>2, <2>3 DEF OwnCommit
  <2>5. /\ eng'.gen = eng.gen /\ eng'.snap = eng.snap /\ eng'.wal = i /\ eng'.pc = eng.pc
        /\ eng'.consumed = n /\ eng'.len = l /\ eng'.unvouched = u
    BY <2>1, <2>4 DEF Handles
  <2> QED BY <2>1, <2>2, <2>3, <2>4, <2>5
<1>5. wal'.ino \in Nat /\ wal'.ino # 0
  <2>1. PICK i \in Nat, k \in Nat : i = wal.ino /\ k = snap.id
    BY <1>2, Facts
  <2>2. PICK j \in Nat : wal'.ino = j /\ (i = 0 => j = k + 1) /\ (i # 0 => j = i)
    BY <1>3, <2>1
  <2> QED BY <2>1, <2>2
<1>6. RemembersPast'
  BY <1>1, <1>2, <1>4, <1>5, Facts DEF RemembersPast, Past
<1>7. MovesClean'
  BY <1>1, <1>3, <1>4, <1>5 DEF MovesClean
<1>8. VouchesForSynced'
  <2>1. PICK n \in Nat, y \in Nat, l \in Nat, u \in Nat, v \in Nat :
          /\ n = Len(wal.frames) /\ y = wal.synced /\ l = eng.len /\ u = eng.unvouched /\ v = w.vouch.len
          /\ y <= n /\ l <= y /\ u <= n /\ (w.vouch.gen = eng.gen => v <= y)
    BY <1>2, <1>4, Facts DEF FilePart, VouchesForSynced
  <2>2. Len(wal'.frames) = n + 1 /\ (wal'.synced = y \/ wal'.synced = n + 1) /\ (p = "full" => wal'.synced = n + 1)
    BY <1>3, <2>1
  <2>3. eng'.consumed = n + 1 /\ (eng'.len = l \/ (p = "full" /\ eng'.len = n + 1)) /\ (eng'.unvouched = u \/ eng'.unvouched = 0)
    BY <1>4, <2>1
  <2>4. eng'.len <= wal'.synced /\ eng'.unvouched <= Len(wal'.frames) /\ eng'.consumed <= Len(wal'.frames)
    BY <2>1, <2>2, <2>3
  <2>5. w'.vouch.gen = eng'.gen => w'.vouch.len <= wal'.synced
    BY <1>1, <1>4, <2>1, <2>2
  <2> QED BY <2>4, <2>5 DEF VouchesForSynced
<1> QED BY <1>1, <1>6, <1>7, <1>8, CommitFiles DEF VouchInv

LEMMA BeginSnapshotVouch ==
  ASSUME VouchInv, TypeOK', NEW by \in world.snappers, NEW mode \in Modes, BeginSnapshot(by, mode) PROVE VouchInv'
<1>1. UNCHANGED <<wal, snap, log, w>>
  BY DEF BeginSnapshot, worker
<1>2. TypeOK /\ FilePart /\ RemembersPast /\ MovesClean /\ VouchesForSynced
  BY DEF VouchInv
<1>3. job'.by = by /\ job'.mode = mode /\ job'.pc = "snapshot"
  BY DEF BeginSnapshot
<1>4. by = "own" => eng.pc = "up" /\ eng.wal = wal.ino
  BY DEF BeginSnapshot, IsCurrent
<1>5. /\ eng'.gen = eng.gen /\ eng'.snap = eng.snap /\ eng'.wal = eng.wal /\ eng'.pc = eng.pc
      /\ eng'.consumed = eng.consumed /\ eng'.len = eng.len /\ eng'.unvouched = eng.unvouched
  <2>1. eng \in Handles
    BY <1>2 DEF TypeOK
  <2>2. PICK b : b = (eng.unsettled \/ mode # "keep")
    OBVIOUS
  <2>3. eng' = IF by = "own" THEN [eng EXCEPT !.busy = TRUE, !.unsettled = b] ELSE eng
    BY <2>2 DEF BeginSnapshot
  <2> QED BY <2>1, <2>3 DEF Handles
<1>6. FilePart' /\ JobPart'
  BY <1>1, <1>2, <1>3 DEF FilePart, JobPart
<1>7. RemembersPast' /\ OwnJob'
  BY <1>1, <1>2, <1>3, <1>4, <1>5 DEF RemembersPast, Past, OwnJob
<1>8. MovesClean'
  BY <1>1, <1>2, <1>3, <1>4, <1>5 DEF MovesClean, Clean
<1>9. VouchesForSynced'
  BY <1>1, <1>2, <1>5 DEF VouchesForSynced
<1> QED BY <1>6, <1>7, <1>8, <1>9 DEF VouchInv

\* The actions of a snapshot, field by field.
LEMMA JobStepFields ==
  ASSUME TypeOK
  PROVE  /\ job.pc # "none" => job.by \in {"own", "peer"} /\ job.mode \in {"truncate", "archive", "keep"}
         /\ \A q : (job' = [job EXCEPT !.pc = q]) => job'.by = job.by /\ job'.mode = job.mode /\ job'.pc = q
<1>1. job \in Jobs
  BY DEF TypeOK
<1> QED BY <1>1 DEF Jobs, NoJob

LEMMA WriteSnapshotVouch ==
  ASSUME VouchInv, TypeOK', WriteSnapshot PROVE VouchInv'
<1>1. UNCHANGED <<wal, eng, log, w>> /\ job.pc = "snapshot" /\ snap'.id = snap.id + 1 /\ snap'.done = log
  BY DEF WriteSnapshot, worker
<1>2. TypeOK /\ FilePart /\ JobPart /\ RemembersPast /\ MovesClean /\ OwnJob /\ VouchesForSynced
  BY DEF VouchInv
<1>3. /\ job'.by = job.by /\ job'.mode = job.mode /\ job.mode \in {"truncate", "archive", "keep"}
      /\ job.mode = "keep" => job'.pc = "finish"
      /\ job.mode = "archive" => job'.pc = "archive"
      /\ job.mode = "truncate" => job'.pc = "floor"
  <2>1. PICK q : q = CASE job.mode = "keep" -> "finish"
                       [] job.mode = "archive" -> "archive"
                       [] job.mode = "truncate" -> "floor"
    OBVIOUS
  <2>2. job' = [job EXCEPT !.pc = q]
    BY <2>1 DEF WriteSnapshot
  <2>3. job.mode \in {"truncate", "archive", "keep"}
    BY <1>1, <1>2, JobStepFields
  <2>4. /\ job.mode = "keep" => q = "finish"
        /\ job.mode = "archive" => q = "archive"
        /\ job.mode = "truncate" => q = "floor"
    BY <2>1
  <2> QED BY <1>2, <2>2, <2>3, <2>4, JobStepFields
<1>4. PICK i \in Nat, k \in Nat, e \in Nat, s \in Nat :
        /\ i = wal.ino /\ k = snap.id /\ e = eng.wal /\ s = eng.snap
        /\ i <= k + 1 /\ s <= k /\ (e <= i \/ (i = 0 /\ e <= k))
  BY <1>2, Facts DEF FilePart, RemembersPast, Past
<1>5. snap'.id = k + 1 /\ wal'.ino = i /\ eng'.wal = e /\ eng'.snap = s
  BY <1>1, <1>4
<1>6. wal'.ino <= snap'.id /\ wal'.ino <= snap'.id + 1 /\ snap'.id # 0 /\ eng'.snap <= snap'.id
  BY <1>4, <1>5
<1>7. FilePart'
  BY <1>1, <1>2, <1>6 DEF FilePart
<1>8. JobPart'
  BY <1>1, <1>3, <1>6 DEF JobPart
<1>9. Past(eng.wal)'
  BY <1>4, <1>5 DEF Past
<1>10. RemembersPast'
  BY <1>1, <1>2, <1>6, <1>9 DEF RemembersPast
<1>11. MovesClean' /\ OwnJob' /\ VouchesForSynced'
  BY <1>1, <1>2, <1>3 DEF MovesClean, OwnJob, VouchesForSynced
<1> QED BY <1>7, <1>8, <1>10, <1>11 DEF VouchInv

LEMMA JobOnlyVouch ==
  ASSUME VouchInv, TypeOK', UNCHANGED <<wal, snap, log, w>>,
         eng'.gen = eng.gen, eng'.len = eng.len, eng'.unvouched = eng.unvouched, eng'.snap = eng.snap,
         eng'.wal = eng.wal, eng'.consumed = eng.consumed, eng'.pc = eng.pc,
         job'.by = job.by, JobPart', OwnJob'
  PROVE  VouchInv'
<1>1. TypeOK /\ FilePart /\ RemembersPast /\ MovesClean /\ VouchesForSynced
  BY DEF VouchInv
<1>2. FilePart' /\ RemembersPast'
  BY <1>1 DEF FilePart, RemembersPast, Past
<1>3. MovesClean' /\ VouchesForSynced'
  BY <1>1 DEF MovesClean, VouchesForSynced, Clean
<1> QED BY <1>2, <1>3 DEF VouchInv

LEMMA WriteFloorVouch ==
  ASSUME VouchInv, TypeOK', WriteFloor PROVE VouchInv'
<1>1. UNCHANGED <<wal, snap, eng, log, w>> /\ job.pc = "floor" /\ job' = [job EXCEPT !.pc = "replace"]
  BY DEF WriteFloor, worker
<1>2. TypeOK /\ JobPart /\ OwnJob
  BY DEF VouchInv
<1>3. job'.by = job.by /\ job'.mode = job.mode /\ job'.pc = "replace" /\ job.mode = "truncate"
  BY <1>1, <1>2, JobStepFields DEF JobPart
<1>4. JobPart' /\ OwnJob'
  BY <1>1, <1>2, <1>3 DEF JobPart, OwnJob
<1> QED BY <1>1, <1>3, <1>4, JobOnlyVouch

LEMMA DeleteArchivesVouch ==
  ASSUME VouchInv, TypeOK', DeleteArchives PROVE VouchInv'
<1>1. UNCHANGED <<wal, snap, eng, log, w>> /\ job.pc = "prune" /\ job' = [job EXCEPT !.pc = "empty"]
  BY DEF DeleteArchives, worker
<1>2. TypeOK /\ JobPart /\ OwnJob
  BY DEF VouchInv
<1>3. job'.by = job.by /\ job'.mode = job.mode /\ job'.pc = "empty" /\ job.mode = "truncate"
  BY <1>1, <1>2, JobStepFields DEF JobPart
<1>4. JobPart' /\ OwnJob'
  BY <1>1, <1>2, <1>3 DEF JobPart, OwnJob
<1> QED BY <1>1, <1>3, <1>4, JobOnlyVouch

LEMMA EmptyIntentVouch ==
  ASSUME VouchInv, TypeOK', EmptyIntent PROVE VouchInv'
<1>1. UNCHANGED <<wal, snap, log, w>> /\ job.pc = "empty" /\ job' = [job EXCEPT !.pc = "finish"]
  BY DEF EmptyIntent, worker
<1>2. TypeOK /\ JobPart /\ OwnJob
  BY DEF VouchInv
<1>3. job'.by = job.by /\ job'.mode = job.mode /\ job'.pc = "finish" /\ job.mode # "keep"
  BY <1>1, <1>2, JobStepFields DEF JobPart
<1>4. /\ eng'.gen = eng.gen /\ eng'.snap = eng.snap /\ eng'.wal = eng.wal /\ eng'.pc = eng.pc
      /\ eng'.consumed = eng.consumed /\ eng'.len = eng.len /\ eng'.unvouched = eng.unvouched
  <2>1. eng \in Handles
    BY <1>2 DEF TypeOK
  <2>2. PICK b : b = (eng.unsettled /\ job.by # "own")
    OBVIOUS
  <2>3. eng' = [eng EXCEPT !.unsettled = b]
    BY <2>2 DEF EmptyIntent
  <2> QED BY <2>1, <2>3 DEF Handles
<1>5. JobPart'
  BY <1>1, <1>3 DEF JobPart
<1>6. OwnJob'
  BY <1>1, <1>2, <1>3, <1>4 DEF OwnJob
<1> QED BY <1>1, <1>3, <1>4, <1>5, <1>6, JobOnlyVouch

\* DurableWal::replaced: nothing is vouched for, and no vouch on its way will count.
LEMMA ReplacedFields ==
  ASSUME TypeOK, RemembersPast
  PROVE  /\ Replaced.snap = eng.snap /\ Replaced.wal = eng.wal /\ Replaced.pc = eng.pc
         /\ Replaced.consumed = eng.consumed
         /\ Replaced.gen >= 1 /\ w.vouch.gen <= Replaced.gen
         /\ job.by = "own" => Clean(Replaced, w.vouch)
         /\ job.by # "own" => Replaced.gen = eng.gen /\ Replaced.len = eng.len /\ Replaced.unvouched = eng.unvouched
<1>1. eng \in Handles
  BY DEF TypeOK
<1>2. PICK g \in Nat, v \in Nat : g = eng.gen /\ v = w.vouch.gen /\ v <= g /\ g >= 1
  BY Facts DEF RemembersPast
<1>a. PICK h \in {g, g + 1} : h = IF job.by = "own" THEN eng.gen + 1 ELSE eng.gen
  BY <1>2
<1>b. PICK l \in {0, eng.len} : l = IF job.by = "own" THEN 0 ELSE eng.len
  OBVIOUS
<1>c. PICK u \in {0, eng.unvouched} : u = IF job.by = "own" THEN 0 ELSE eng.unvouched
  OBVIOUS
<1>3. /\ Replaced = [eng EXCEPT !.gen = h, !.len = l, !.unvouched = u]
      /\ h \in Nat
      /\ job.by = "own" => h = g + 1 /\ l = 0 /\ u = 0
      /\ job.by # "own" => h = g /\ l = eng.len /\ u = eng.unvouched
  BY <1>2, <1>a, <1>b, <1>c DEF Replaced
<1>4. /\ Replaced.snap = eng.snap /\ Replaced.wal = eng.wal /\ Replaced.pc = eng.pc
      /\ Replaced.consumed = eng.consumed /\ Replaced.gen = h /\ Replaced.len = l /\ Replaced.unvouched = u
  BY <1>1, <1>3 DEF Handles
<1>5. h >= 1 /\ v <= h /\ (job.by = "own" => v < h)
  BY <1>2, <1>3
<1>6. Replaced.gen >= 1 /\ w.vouch.gen <= Replaced.gen
  BY <1>2, <1>4, <1>5
<1>7. job.by = "own" => Clean(Replaced, w.vouch)
  BY <1>2, <1>3, <1>4, <1>5 DEF Clean
<1> QED BY <1>2, <1>3, <1>4, <1>6, <1>7

\* The WAL is gone or is a new one, which no handle is on.
LEMMA ReplacedVouch ==
  ASSUME VouchInv, TypeOK', UNCHANGED <<snap, log, w>>,
         wal.ino <= snap.id, wal'.ino = 0 \/ wal'.ino = snap.id + 1, wal'.frames = <<>>, wal'.synced = 0,
         eng'.snap = eng.snap, eng'.wal = eng.wal, eng'.pc = eng.pc, eng'.consumed = eng.consumed,
         eng'.gen >= 1, w.vouch.gen <= eng'.gen,
         job.by = "own" => Clean(eng', w.vouch),
         job.by # "own" => eng'.gen = eng.gen /\ eng'.len = eng.len /\ eng'.unvouched = eng.unvouched,
         job'.by = job.by, job'.pc \notin {"snapshot", "floor", "archive"}, job'.mode # "keep", JobPart'
  PROVE  VouchInv'
<1>1. TypeOK /\ FilePart /\ JobPart /\ RemembersPast /\ MovesClean /\ OwnJob /\ VouchesForSynced
  BY DEF VouchInv
<1>a. eng.wal <= wal.ino \/ eng.wal <= snap.id
  BY <1>1 DEF RemembersPast, Past
<1>2. PICK i \in Nat, k \in Nat, e \in Nat :
        /\ i = wal.ino /\ k = snap.id /\ e = eng.wal /\ i <= k /\ e <= k
  BY <1>1, <1>a, Facts
<1>3. snap'.id = k /\ eng'.wal = e /\ (wal'.ino = 0 \/ wal'.ino = k + 1)
  BY <1>2
<1>4. FilePart'
  <2>1. wal'.ino <= snap'.id + 1
    BY <1>2, <1>3
  <2>2. wal'.synced <= Len(wal'.frames)
    BY <1>1, Facts
  <2> QED BY <1>1, <2>1, <2>2 DEF FilePart
<1>5. Past(eng.wal)' /\ (eng'.wal = wal'.ino => wal'.ino = 0)
  BY <1>2, <1>3 DEF Past
<1>6. RemembersPast'
  BY <1>1, <1>5 DEF RemembersPast
<1>7. job.by # "own" /\ (eng.wal = 0 \/ eng.pc # "up") => Clean(eng', w.vouch)
  BY <1>1 DEF MovesClean, Clean
<1>8. MovesClean'
  BY <1>7 DEF MovesClean
<1>9. OwnJob'
  BY <1>1 DEF OwnJob
<1>10. VouchesForSynced'
  <2>1. SUFFICES ASSUME eng'.wal = wal'.ino PROVE VouchesForSynced'
    BY DEF VouchesForSynced
  <2>2. eng'.wal = 0 /\ Clean(eng', w.vouch) /\ eng'.consumed = 0
    BY <1>1, <1>5, <1>7, <2>1 DEF RemembersPast
  <2>3. eng'.len = 0 /\ eng'.unvouched = 0 /\ w'.vouch.gen # eng'.gen
    BY <2>2, FactsNext DEF Clean
  <2>4. Len(wal'.frames) = 0
    BY <1>1, Facts
  <2> QED BY <2>2, <2>3, <2>4 DEF VouchesForSynced
<1> QED BY <1>4, <1>6, <1>8, <1>9, <1>10 DEF VouchInv

LEMMA ArchiveWalVouch ==
  ASSUME VouchInv, TypeOK', ArchiveWal PROVE VouchInv'
<1>1. UNCHANGED <<snap, log, w>> /\ job.pc = "archive"
  BY DEF ArchiveWal, worker
<1>2. TypeOK /\ FilePart /\ JobPart /\ RemembersPast /\ OwnJob
  BY DEF VouchInv
<1>3. job.mode = "archive" /\ wal.ino <= snap.id /\ snap.done = log
  BY <1>1, <1>2 DEF JobPart
<1>4. CASE wal.frames = <<>>
  <2>1. UNCHANGED <<wal, eng>> /\ job' = [job EXCEPT !.pc = "empty"]
    BY <1>4 DEF ArchiveWal
  <2>2. job'.by = job.by /\ job'.mode = "archive" /\ job'.pc = "empty"
    BY <1>2, <1>3, <2>1, JobStepFields
  <2>3. JobPart' /\ OwnJob'
    BY <1>2, <2>1, <2>2, <1>4 DEF JobPart, OwnJob
  <2> QED BY <1>1, <2>1, <2>2, <2>3, JobOnlyVouch
<1>5. CASE wal.frames # <<>>
  <2>1. /\ wal'.ino = 0 /\ wal'.frames = <<>> /\ wal'.synced = 0 /\ eng' = Replaced
        /\ job' = [job EXCEPT !.pc = "replace"]
    BY <1>5 DEF ArchiveWal
  <2>2. job'.by = job.by /\ job'.mode = "archive" /\ job'.pc = "replace"
    BY <1>2, <1>3, <2>1, JobStepFields
  <2>3. JobPart'
    BY <1>1, <1>2, <1>3, <2>1, <2>2, Facts DEF JobPart
  <2> QED BY <1>1, <1>2, <1>3, <2>1, <2>2, <2>3, ReplacedFields, ReplacedVouch
<1> QED BY <1>4, <1>5

LEMMA ReplaceWalVouch ==
  ASSUME VouchInv, TypeOK', ReplaceWal PROVE VouchInv'
<1>1. UNCHANGED <<snap, log, w>> /\ job.pc = "replace" /\ wal'.ino = snap.id + 1 /\ wal'.frames = <<>> /\ wal'.synced = 0
  BY DEF ReplaceWal, worker
<1>2. TypeOK /\ FilePart /\ JobPart /\ RemembersPast /\ MovesClean /\ OwnJob
  BY DEF VouchInv
<1>3. wal.ino <= snap.id /\ job.mode \in {"truncate", "archive"}
  BY <1>1, <1>2, JobStepFields DEF JobPart
<1>4. PICK q \in {"prune", "empty"} : job' = [job EXCEPT !.pc = q] /\ (q = "prune" => job.mode = "truncate")
  BY DEF ReplaceWal
<1>5. job'.by = job.by /\ job'.mode = job.mode /\ job'.pc = q
  BY <1>2, <1>4, JobStepFields
<1>6. JobPart'
  BY <1>1, <1>3, <1>4, <1>5 DEF JobPart
<1>7. CASE job.mode = "truncate"
  <2>1. eng' = Replaced
    BY <1>7 DEF ReplaceWal
  <2> QED BY <1>1, <1>2, <1>3, <1>4, <1>5, <1>6, <2>1, ReplacedFields, ReplacedVouch
<1>8. CASE job.mode = "archive"
  <2>1. eng' = eng /\ wal.ino = 0
    BY <1>1, <1>2, <1>8 DEF ReplaceWal, JobPart
  <2>2. job.by = "own" => Clean(eng', w.vouch)
    BY <1>2, <2>1 DEF MovesClean
  <2>3. eng'.gen >= 1 /\ w.vouch.gen <= eng'.gen
    BY <1>2, <2>1 DEF RemembersPast
  <2> QED BY <1>1, <1>3, <1>4, <1>5, <1>6, <2>1, <2>2, <2>3, ReplacedVouch
<1> QED BY <1>3, <1>7, <1>8

LEMMA FinishSnapshotVouch ==
  ASSUME VouchInv, TypeOK', FinishSnapshot PROVE VouchInv'
<1>1. UNCHANGED <<wal, snap, log, w>> /\ job.pc = "finish" /\ job' = NoJob
  BY DEF FinishSnapshot, worker, disk
<1>2. TypeOK /\ FilePart /\ RemembersPast /\ MovesClean /\ OwnJob /\ VouchesForSynced
  BY DEF VouchInv
<1>3. job'.by = "none" /\ job'.pc = "none" /\ job'.mode = "none"
  BY <1>1 DEF NoJob
<1>4. FilePart' /\ JobPart' /\ OwnJob'
  BY <1>1, <1>2, <1>3 DEF FilePart, JobPart, OwnJob
<1>5. CASE job.by # "own"
  <2>1. eng' = eng
    BY <1>5 DEF FinishSnapshot
  <2>2. RemembersPast' /\ MovesClean' /\ VouchesForSynced'
    BY <1>1, <1>2, <1>3, <2>1 DEF RemembersPast, Past, MovesClean, VouchesForSynced
  <2> QED BY <1>4, <2>2 DEF VouchInv
<1>6. CASE job.by = "own"
  <2>1. PICK n \in Nat : n = Len(wal.frames)
    BY <1>2, Facts
  <2>2. PICK l : /\ eng' = [eng EXCEPT !.consumed = n, !.snap = snap.id, !.wal = wal.ino, !.busy = FALSE, !.len = l]
                 /\ eng.wal = wal.ino => l = eng.len
                 /\ eng.wal # wal.ino => l = n
    BY <1>6, <2>1 DEF FinishSnapshot
  <2>3. eng \in Handles
    BY <1>2 DEF TypeOK
  <2>4. /\ eng'.consumed = n /\ eng'.snap = snap.id /\ eng'.wal = wal.ino /\ eng'.len = l
        /\ eng'.gen = eng.gen /\ eng'.unvouched = eng.unvouched /\ eng'.pc = eng.pc
    BY <2>2, <2>3 DEF Handles
  <2>5. eng.pc = "up" /\ (eng.wal # wal.ino => n = 0 /\ Clean(eng, w.vouch))
    BY <1>2, <1>6, <2>1, Facts DEF OwnJob, MovesClean
  <2>6. wal.ino = 0 => n = 0 /\ Clean(eng, w.vouch)
    BY <1>2, <1>6, <2>1, <2>5, Facts DEF FilePart, MovesClean
  <2>7. RemembersPast'
    <3>1. wal.ino \in Nat /\ snap.id \in Nat /\ wal.ino <= wal.ino /\ snap.id <= snap.id
      <4>1. wal.ino \in Nat /\ snap.id \in Nat
        BY <1>2, Facts
      <4> QED BY ONLY <4>1
    <3>2. Past(eng.wal)'
      BY ONLY <1>1, <2>4, <3>1 DEF Past
    <3>3. eng.gen >= 1 /\ w.vouch.gen <= eng.gen
      BY <1>2 DEF RemembersPast
    <3>4. eng'.wal = 0 => eng'.consumed = 0
      BY ONLY <2>4, <2>6
    <3>5. eng'.snap <= snap'.id /\ eng'.gen >= 1 /\ w'.vouch.gen <= eng'.gen
      BY ONLY <1>1, <2>4, <3>1, <3>3
    <3> QED BY <3>2, <3>4, <3>5 DEF RemembersPast
  <2>8. MovesClean'
    BY <1>1, <1>3, <2>2, <2>4, <2>5, <2>6 DEF MovesClean, Clean
  <2>9. VouchesForSynced'
    <3>1. CASE eng.wal = wal.ino
      BY <1>1, <1>2, <2>1, <2>2, <2>4, <3>1 DEF VouchesForSynced
    <3>2. CASE eng.wal # wal.ino
      <4>1. n = 0 /\ l = 0 /\ eng.unvouched = 0 /\ w.vouch.gen # eng.gen
        BY <1>2, <2>2, <2>5, <3>2, Facts DEF Clean
      <4> QED BY <1>1, <1>2, <2>1, <2>4, <4>1, Facts DEF VouchesForSynced
    <3> QED BY <3>1, <3>2
  <2> QED BY <1>4, <2>7, <2>8, <2>9 DEF VouchInv
<1> QED BY <1>5, <1>6

\* A server that starts again vouches for nothing of the WAL it finds.
LEMMA ServerKilledVouch ==
  ASSUME VouchInv, TypeOK', ServerKilled PROVE VouchInv'
<1>1. UNCHANGED <<wal, snap, log>> /\ eng' = Loaded(1) /\ w' = Idle /\ job' \in {job, NoJob} /\ job'.by # "own"
  BY DEF ServerKilled, disk, NoJob
<1>2. TypeOK /\ FilePart /\ JobPart
  BY DEF VouchInv
<1>3. /\ eng'.gen = 1 /\ eng'.len = 0 /\ eng'.unvouched = Len(wal.frames) /\ eng'.snap = snap.id
      /\ eng'.wal = wal.ino /\ eng'.consumed = Len(wal.frames) /\ eng'.pc = "up"
  BY <1>1 DEF Loaded
<1>4. w'.vouch.gen = 0
  BY <1>1, IdleType DEF NoVouch
<1>5. FilePart' /\ OwnJob'
  BY <1>1, <1>2 DEF FilePart, OwnJob
<1>6. JobPart'
  <2>1. CASE job' = job
    BY <1>1, <1>2, <2>1 DEF JobPart
  <2>2. CASE job' = NoJob
    <3>1. job'.pc = "none" /\ job'.mode = "none"
      BY <2>2 DEF NoJob
    <3> QED BY <3>1 DEF JobPart
  <2> QED BY <1>1, <2>1, <2>2
<1>7. wal.ino = 0 => Len(wal.frames) = 0
  BY <1>2, Facts DEF FilePart
<1>a. PICK i \in Nat, k \in Nat, n \in Nat, y \in Nat :
        i = wal.ino /\ k = snap.id /\ n = Len(wal.frames) /\ y = wal.synced
  BY <1>2, Facts
<1>b. /\ wal'.ino = i /\ snap'.id = k /\ Len(wal'.frames) = n /\ wal'.synced = y
      /\ eng'.wal = i /\ eng'.snap = k /\ eng'.unvouched = n /\ eng'.consumed = n
  BY <1>1, <1>3, <1>a
<1>8. RemembersPast'
  BY <1>3, <1>4, <1>7, <1>a, <1>b DEF RemembersPast, Past
<1>9. MovesClean'
  BY <1>1, <1>3, <1>4, <1>7, <1>a, <1>b DEF MovesClean, Clean
<1>10. VouchesForSynced'
  BY <1>3, <1>4, <1>a, <1>b DEF VouchesForSynced
<1> QED BY <1>5, <1>6, <1>8, <1>9, <1>10 DEF VouchInv

LEMMA PeerKilledVouch ==
  ASSUME VouchInv, TypeOK', PeerKilled PROVE VouchInv'
<1>1. UNCHANGED <<wal, snap, log, eng, w>> /\ job' = NoJob /\ job.by = "peer"
  BY DEF PeerKilled, disk, worker
<1>2. TypeOK /\ FilePart /\ RemembersPast /\ MovesClean /\ VouchesForSynced
  BY DEF VouchInv
<1>3. job'.by = "none" /\ job'.pc = "none" /\ job'.mode = "none"
  BY <1>1 DEF NoJob
<1>4. FilePart' /\ JobPart' /\ OwnJob'
  BY <1>1, <1>2, <1>3 DEF FilePart, JobPart, OwnJob
<1>5. RemembersPast' /\ MovesClean' /\ VouchesForSynced'
  BY <1>1, <1>2, <1>3 DEF RemembersPast, Past, MovesClean, VouchesForSynced
<1> QED BY <1>4, <1>5 DEF VouchInv

LEMMA PowerLossFields ==
  ASSUME TypeOK, PowerLoss
  PROVE  \E n \in wal.synced..Len(wal.frames) :
           /\ n \in Nat
           /\ wal'.ino = wal.ino /\ wal'.frames = SubSeq(wal.frames, 1, n) /\ wal'.synced = n
           /\ log' = SubSeq(log, 1, Cardinality(ToSet(log) \ (ToSet(SubSeq(wal.frames, n + 1, Len(wal.frames))) \ ToSet(snap.done))))
           /\ eng'.gen = 1 /\ eng'.len = 0 /\ eng'.unvouched = n /\ eng'.snap = snap.id
           /\ eng'.wal = wal.ino /\ eng'.consumed = n /\ eng'.pc = "up"
<1>1. PICK n \in wal.synced..Len(wal.frames) :
        /\ wal' = [wal EXCEPT !.frames = SubSeq(wal.frames, 1, n), !.synced = n]
        /\ log' = SubSeq(log, 1, Cardinality(ToSet(log) \ (ToSet(SubSeq(wal.frames, n + 1, Len(wal.frames))) \ ToSet(snap.done))))
        /\ eng' = [Loaded(1) EXCEPT !.unvouched = n, !.consumed = n]
  BY DEF PowerLoss
<1>2. n \in Nat
  BY Facts
<1>3. wal'.ino = wal.ino /\ wal'.frames = SubSeq(wal.frames, 1, n) /\ wal'.synced = n
  BY <1>1 DEF TypeOK, Wals
<1>4. /\ eng'.gen = 1 /\ eng'.len = 0 /\ eng'.unvouched = n /\ eng'.snap = snap.id
      /\ eng'.wal = wal.ino /\ eng'.consumed = n /\ eng'.pc = "up"
  BY <1>1 DEF Loaded
<1> QED BY <1>1, <1>2, <1>3, <1>4

LEMMA PowerLossVouch ==
  ASSUME VouchInv, TypeOK', PowerLoss PROVE VouchInv'
<1>1. UNCHANGED <<snap, job>> /\ job = NoJob /\ w' = Idle
  BY DEF PowerLoss
<1>2. TypeOK /\ FilePart
  BY DEF VouchInv
<1>3. PICK n \in wal.synced..Len(wal.frames) :
           /\ n \in Nat
           /\ wal'.ino = wal.ino /\ wal'.frames = SubSeq(wal.frames, 1, n) /\ wal'.synced = n
           /\ eng'.gen = 1 /\ eng'.len = 0 /\ eng'.unvouched = n /\ eng'.snap = snap.id
           /\ eng'.wal = wal.ino /\ eng'.consumed = n /\ eng'.pc = "up"
  BY <1>2, PowerLossFields
<1>4. Len(wal'.frames) = n
  BY <1>2, <1>3, Facts
<1>5. wal.ino = 0 => n = 0 /\ wal'.frames = <<>>
  BY <1>2, <1>3, Facts DEF FilePart
<1>6. job'.by = "none" /\ job'.pc = "none" /\ job'.mode = "none"
  BY <1>1 DEF NoJob
<1>7. w'.vouch.gen = 0
  BY <1>1, IdleType DEF NoVouch
<1>8. FilePart'
  BY <1>1, <1>2, <1>3, <1>4, <1>5 DEF FilePart
<1>9. JobPart' /\ OwnJob'
  BY <1>6 DEF JobPart, OwnJob
<1>a. PICK i \in Nat, k \in Nat : i = wal.ino /\ k = snap.id
  BY <1>2, Facts
<1>b. wal'.ino = i /\ snap'.id = k /\ eng'.wal = i /\ eng'.snap = k
  BY <1>1, <1>3, <1>a
<1>10. RemembersPast'
  BY <1>3, <1>5, <1>7, <1>a, <1>b DEF RemembersPast, Past
<1>11. MovesClean' /\ VouchesForSynced'
  BY <1>1, <1>3, <1>4, <1>5, <1>6, <1>7 DEF MovesClean, Clean, VouchesForSynced
<1> QED BY <1>8, <1>9, <1>10, <1>11 DEF VouchInv

LEMMA VouchSyncVouch ==
  ASSUME VouchInv, TypeOK', VouchSync PROVE VouchInv'
<1>1. UNCHANGED <<snap, job, eng, log>> /\ eng.unvouched # 0
  BY DEF VouchSync
<1>2. TypeOK /\ FilePart /\ JobPart /\ RemembersPast /\ MovesClean /\ OwnJob /\ VouchesForSynced
  BY DEF VouchInv
<1>3. /\ wal'.ino = wal.ino /\ wal'.frames = wal.frames /\ wal'.synced = Len(wal.frames)
      /\ w'.vouch.gen = eng.gen /\ w'.vouch.len = eng.unvouched
  BY <1>2, VouchSyncFields
<1>4. FilePart' /\ JobPart' /\ OwnJob'
  BY <1>1, <1>2, <1>3, Facts DEF FilePart, JobPart, OwnJob
<1>5. RemembersPast'
  BY <1>1, <1>2, <1>3, Facts DEF RemembersPast, Past
<1>6. MovesClean'
  BY <1>1, <1>2, <1>3 DEF MovesClean, Clean
<1>7. VouchesForSynced'
  BY <1>1, <1>2, <1>3, Facts DEF VouchesForSynced, FilePart
<1> QED BY <1>4, <1>5, <1>6, <1>7 DEF VouchInv

LEMMA TakePositionVouch ==
  ASSUME VouchInv, TypeOK', TakePosition PROVE VouchInv'
<1>1. UNCHANGED <<wal, snap, job, log>>
  BY DEF TakePosition, disk
<1>2. TypeOK /\ FilePart /\ JobPart /\ RemembersPast /\ MovesClean /\ OwnJob /\ VouchesForSynced
  BY DEF VouchInv
<1>3. eng' = Vouched(w.vouch) /\ w'.vouch = NoVouch
  BY <1>2, TakePositionFields
<1>4. /\ eng'.gen = eng.gen /\ eng'.snap = eng.snap /\ eng'.wal = eng.wal /\ eng'.consumed = eng.consumed /\ eng'.pc = eng.pc
      /\ w.vouch.gen # eng.gen => eng' = eng
      /\ eng'.len = eng.len \/ (w.vouch.gen = eng.gen /\ eng'.len = w.vouch.len)
      /\ eng'.unvouched = eng.unvouched \/ eng'.unvouched = 0
  BY <1>2, <1>3, VouchedFields
<1>5. w'.vouch.gen = 0 /\ w'.vouch.len = 0
  BY <1>3 DEF NoVouch
<1>6. FilePart' /\ JobPart' /\ OwnJob'
  BY <1>1, <1>2, <1>4 DEF FilePart, JobPart, OwnJob
<1>7. RemembersPast'
  BY <1>1, <1>2, <1>4, <1>5, Facts DEF RemembersPast, Past
<1>8. MovesClean'
  BY <1>1, <1>2, <1>4, <1>5, Facts DEF MovesClean, Clean, RemembersPast
<1>9. VouchesForSynced'
  BY <1>1, <1>2, <1>4, <1>5, Facts DEF VouchesForSynced
<1> QED BY <1>6, <1>7, <1>8, <1>9 DEF VouchInv

\* The steps of the worker that only look, read or upload.
LEMMA QuietVouch ==
  ASSUME VouchInv, TypeOK', UNCHANGED <<wal, snap, job, log, eng>>, w'.vouch = w.vouch \/ w'.vouch = NoVouch
  PROVE  VouchInv'
<1>1. TypeOK /\ FilePart /\ JobPart /\ RemembersPast /\ MovesClean /\ OwnJob /\ VouchesForSynced
  BY DEF VouchInv
<1>2. w'.vouch = w.vouch \/ (w'.vouch.gen = 0 /\ w'.vouch.len = 0)
  BY DEF NoVouch
<1>3. FilePart' /\ JobPart' /\ OwnJob'
  BY <1>1 DEF FilePart, JobPart, OwnJob
<1>4. RemembersPast'
  BY <1>1, <1>2, Facts DEF RemembersPast, Past
<1>5. MovesClean' /\ VouchesForSynced'
  BY <1>1, <1>2, Facts DEF MovesClean, Clean, VouchesForSynced, RemembersPast
<1> QED BY <1>3, <1>4, <1>5 DEF VouchInv

LEMMA WorkerStepVouch ==
  ASSUME VouchInv, TypeOK', WorkerStep PROVE VouchInv'
<1>0. TypeOK /\ w \in Workers
  BY DEF VouchInv, TypeOK
<1>1. Idle.vouch = NoVouch /\ \A g \in Goals : Look(g).vouch = w.vouch
  BY <1>0, IdleType, LookType
<1>2. CASE StatSnapshot \/ StatWal \/ StatIntent
  BY <1>0, <1>1, <1>2, StatFields, QuietVouch DEF Others, disk
<1>3. CASE Begin \/ Started \/ CaughtUp \/ LookedAgain \/ Decide
  BY <1>0, <1>1, <1>3, StartFields, QuietVouch DEF Others, disk, Goals
<1>4. CASE CatchUp
  <2>1. UNCHANGED <<wal, snap, job, log>> /\ w'.vouch = w.vouch /\ eng.pc = "up" /\ job.by # "own"
    BY <1>0, <1>4, CatchUpFields DEF CatchUp, disk
  <2>2. eng' = eng \/ (IsStale /\ Refresh(FALSE))
    BY <1>0, <1>4, CatchUpFields
  <2> QED BY <2>1, <2>2, QuietVouch, RefreshVouch
<1>5. CASE OpenSnapshot \/ OpenArchives \/ ReadFloor
  BY <1>0, <1>5, OpenFields, QuietVouch DEF Others, disk
<1>6. CASE UploadBase
  BY <1>0, <1>1, <1>6, UploadBaseFields, QuietVouch DEF disk
<1>7. CASE ReadSegment
  BY <1>0, <1>1, <1>7, ReadSegmentFields, QuietVouch DEF Others, disk
<1>8. CASE PutSegment
  BY <1>0, <1>1, <1>8, PutSegmentFields, QuietVouch DEF disk
<1> QED BY <1>2, <1>3, <1>4, <1>5, <1>6, <1>7, <1>8, VouchSyncVouch, TakePositionVouch DEF WorkerStep

LEMMA VouchStep ==
  ASSUME VouchInv, [Next]_vars PROVE VouchInv'
<1>1. TypeOK'
  BY TypeStep DEF VouchInv
<1>2. CASE UNCHANGED vars
  BY <1>1, <1>2, QuietVouch DEF vars, disk
<1>3. CASE SnapshotStep
  BY <1>1, <1>3, WriteSnapshotVouch, WriteFloorVouch, ArchiveWalVouch, ReplaceWalVouch, DeleteArchivesVouch,
     EmptyIntentVouch, FinishSnapshotVouch DEF SnapshotStep
<1>4. CASE Next
  BY <1>1, <1>3, <1>4, HandleStepVouch, OwnCommitVouch, PeerCommitVouch, BeginSnapshotVouch, ServerKilledVouch,
     PeerKilledVouch, PowerLossVouch, WorkerStepVouch DEF Next
<1> QED BY <1>2, <1>4

\* The durable position counts only bytes that a power loss cannot take, however the
\* handle follows a peer, however snapshots of either replace the WAL and whichever
\* WAL an fsync that was begun before it met (durable_wal_position, DurableWal::vouch).
THEOREM PositionIsDurable == Spec => []VouchedIsDurable
<1>1. VouchInv => VouchedIsDurable
  BY DEF VouchInv, VouchesForSynced, VouchedIsDurable
<1>2. Init => VouchInv
  BY VouchInit
<1>3. VouchInv /\ [Next]_vars => VouchInv'
  BY VouchStep
<1> QED BY <1>1, <1>2, <1>3, PTL DEF Spec

-----------------------------------------------------------------------------
(* Sequences of commits.                                                   *)

LEMMA AppendFacts ==
  ASSUME NEW s \in Seq(Nat), NEW e \in Nat
  PROVE  /\ ToSet(Append(s, e)) = ToSet(s) \cup {e}
         /\ \A k \in 1..Len(s) : Append(s, e)[k] = s[k]
         /\ (Grows(s) /\ \A c \in ToSet(s) : c < e) => Grows(Append(s, e))
<1>a. Append(s, e) \in Seq(Nat)
  OBVIOUS
<1>1. PICK t \in Seq(Nat) : t = Append(s, e)
  BY <1>a
<1>2. /\ Len(t) = Len(s) + 1 /\ DOMAIN t = 1..(Len(s) + 1) /\ DOMAIN s = 1..Len(s) /\ Len(s) \in Nat
      /\ \A k \in 1..Len(s) : t[k] = s[k]
      /\ t[Len(s) + 1] = e
  BY <1>1
<1>3. ToSet(t) = ToSet(s) \cup {e}
  <2>1. ASSUME NEW x \in ToSet(t) PROVE x \in ToSet(s) \cup {e}
    <3>1. PICK k \in 1..(Len(s) + 1) : x = t[k]
      BY <1>2 DEF ToSet
    <3> QED BY <1>2, <3>1 DEF ToSet
  <2>2. ASSUME NEW x \in ToSet(s) PROVE x \in ToSet(t)
    <3>1. PICK k \in 1..Len(s) : x = s[k]
      BY <1>2 DEF ToSet
    <3>2. k \in DOMAIN t /\ x = t[k]
      BY <1>2, <3>1
    <3> QED BY <3>2 DEF ToSet
  <2>3. e \in ToSet(t)
    <3>1. Len(s) + 1 \in DOMAIN t
      BY <1>2
    <3> QED BY <1>2, <3>1 DEF ToSet
  <2> QED BY <2>1, <2>2, <2>3
<1>4. ASSUME Grows(s), \A c \in ToSet(s) : c < e PROVE Grows(t)
  <2>1. SUFFICES ASSUME NEW i \in 1..(Len(s) + 1), NEW j \in 1..(Len(s) + 1), i < j PROVE t[i] < t[j]
    BY <1>2 DEF Grows
  <2>a. i \in 1..Len(s)
    BY <1>2, <2>1
  <2>2. i \in 1..Len(s) /\ t[i] = s[i] /\ s[i] \in ToSet(s)
    BY <1>2, <2>a DEF ToSet
  <2>3. CASE j \in 1..Len(s)
    BY <1>2, <1>4, <2>1, <2>2, <2>3 DEF Grows
  <2>4. CASE j = Len(s) + 1
    BY <1>2, <1>4, <2>2, <2>4
  <2> QED BY <1>2, <2>3, <2>4
<1> QED BY <1>1, <1>2, <1>3, <1>4

LEMMA SubSeqFacts ==
  ASSUME NEW s \in Seq(Nat), NEW m \in Nat, NEW n \in Nat, m <= n, n <= Len(s)
  PROVE  /\ SubSeq(s, m + 1, n) \in Seq(Nat) /\ Len(SubSeq(s, m + 1, n)) = n - m
         /\ \A k \in 1..(n - m) : SubSeq(s, m + 1, n)[k] = s[m + k]
         /\ ToSet(SubSeq(s, m + 1, n)) = {s[k] : k \in (m + 1)..n}
<1>1. PICK t : t = SubSeq(s, m + 1, n)
  OBVIOUS
<1>2. t \in Seq(Nat) /\ Len(t) = n - m /\ DOMAIN t = 1..(n - m)
  BY <1>1
<1>3. \A k \in 1..(n - m) : t[k] = s[m + k]
  BY <1>1
<1>4. ToSet(t) = {s[k] : k \in (m + 1)..n}
  <2>1. ASSUME NEW x \in ToSet(t) PROVE x \in {s[k] : k \in (m + 1)..n}
    <3>1. PICK k \in 1..(n - m) : x = t[k]
      BY <1>2 DEF ToSet
    <3>2. x = s[m + k] /\ m + k \in (m + 1)..n
      BY <1>3, <3>1
    <3> QED BY <3>2
  <2>2. ASSUME NEW k \in (m + 1)..n PROVE s[k] \in ToSet(t)
    <3>1. PICK j \in 1..(n - m) : k = m + j
      <4>1. k - m \in 1..(n - m) /\ k = m + (k - m)
        OBVIOUS
      <4> QED BY <4>1
    <3>2. t[j] = s[k] /\ j \in DOMAIN t
      BY <1>2, <1>3, <3>1
    <3> QED BY <3>2 DEF ToSet
  <2> QED BY <2>1, <2>2
<1> QED BY <1>1, <1>2, <1>3, <1>4

LEMMA PrefixFacts ==
  ASSUME NEW s \in Seq(Nat), NEW n \in Nat, n <= Len(s)
  PROVE  /\ SubSeq(s, 1, n) \in Seq(Nat) /\ Len(SubSeq(s, 1, n)) = n
         /\ \A k \in 1..n : SubSeq(s, 1, n)[k] = s[k]
         /\ ToSet(SubSeq(s, 1, n)) = {s[k] : k \in 1..n}
         /\ ToSet(SubSeq(s, 1, n)) \subseteq ToSet(s)
<1>1. PICK z \in Nat : z = 0 /\ z + 1 = 1 /\ n - z = n /\ \A k \in 1..n : z + k = k
  OBVIOUS
<1>2. /\ SubSeq(s, 1, n) \in Seq(Nat) /\ Len(SubSeq(s, 1, n)) = n
      /\ \A k \in 1..n : SubSeq(s, 1, n)[k] = s[k]
  OBVIOUS
<1>3. ToSet(SubSeq(s, 1, n)) = {s[k] : k \in 1..n}
  <2>1. z <= n
    BY <1>1
  <2>2. ToSet(SubSeq(s, z + 1, n)) = {s[k] : k \in (z + 1)..n}
    BY <2>1, SubSeqFacts
  <2> QED BY <1>1, <2>2
<1>4. ToSet(SubSeq(s, 1, n)) \subseteq ToSet(s)
  BY <1>3 DEF ToSet
<1> QED BY <1>2, <1>3, <1>4

LEMMA WholeFacts ==
  ASSUME NEW s \in Seq(Nat)
  PROVE  ToSet(s) = {s[k] : k \in 1..Len(s)} /\ ToSet(<<>>) = {} /\ SubSeq(s, 1, 0) = <<>> /\ Grows(<<>>)
BY DEF ToSet, Grows

\* A sequence that is appended to keeps its parts.
LEMMA SameParts ==
  ASSUME NEW s \in Seq(Nat), NEW t \in Seq(Nat), Len(s) <= Len(t), \A k \in 1..Len(s) : t[k] = s[k],
         NEW m \in Nat, NEW n \in Nat, m <= n, n <= Len(s)
  PROVE  n <= Len(t) /\ SubSeq(t, m + 1, n) = SubSeq(s, m + 1, n) /\ SubSeq(t, 1, n) = SubSeq(s, 1, n)
<1>1. Len(s) \in Nat /\ Len(t) \in Nat /\ n <= Len(t)
  <2>1. Len(s) \in Nat /\ Len(t) \in Nat
    OBVIOUS
  <2> QED BY <2>1
<1>2. PICK a, b : a = SubSeq(s, m + 1, n) /\ b = SubSeq(t, m + 1, n)
  OBVIOUS
<1>3. a \in Seq(Nat) /\ Len(a) = n - m /\ (\A k \in 1..(n - m) : a[k] = s[m + k])
  BY <1>2, SubSeqFacts
<1>4. b \in Seq(Nat) /\ Len(b) = n - m /\ (\A k \in 1..(n - m) : b[k] = t[m + k])
  BY <1>1, <1>2, SubSeqFacts
<1>5. \A k \in 1..(n - m) : m + k \in 1..Len(s)
  BY <1>1
<1>6. \A k \in 1..Len(a) : a[k] = b[k]
  BY <1>3, <1>4, <1>5
<1>7. a = b
  BY <1>3, <1>4, <1>6, SeqEqual
<1>8. PICK c, d : c = SubSeq(s, 1, n) /\ d = SubSeq(t, 1, n)
  OBVIOUS
<1>9. c \in Seq(Nat) /\ Len(c) = n /\ (\A k \in 1..n : c[k] = s[k])
  BY <1>8, PrefixFacts
<1>10. d \in Seq(Nat) /\ Len(d) = n /\ (\A k \in 1..n : d[k] = t[k])
  BY <1>1, <1>8, PrefixFacts
<1>11. \A k \in 1..n : k \in 1..Len(s)
  BY <1>1
<1>12. \A k \in 1..Len(c) : c[k] = d[k]
  BY <1>9, <1>10, <1>11
<1>13. c = d
  BY <1>9, <1>10, <1>12, SeqEqual
<1> QED BY <1>1, <1>2, <1>7, <1>8, <1>13

LEMMA JoinSet ==
  ASSUME NEW a \in Seq(Nat), NEW b \in Seq(Nat)
  PROVE  ToSet(a \o b) = ToSet(a) \cup ToSet(b)
<1>1. PICK d : d = a \o b
  OBVIOUS
<1>2. /\ Len(a) \in Nat /\ Len(b) \in Nat /\ d \in Seq(Nat) /\ Len(d) = Len(a) + Len(b)
      /\ \A k \in 1..Len(a) + Len(b) : d[k] = IF k <= Len(a) THEN a[k] ELSE b[k - Len(a)]
  BY <1>1, ConcatProperties
<1>3. DOMAIN a = 1..Len(a) /\ DOMAIN b = 1..Len(b) /\ DOMAIN d = 1..Len(a) + Len(b)
  BY <1>2
<1>4. ASSUME NEW k \in DOMAIN a PROVE a[k] \in ToSet(d)
  <2>1. k \in DOMAIN d /\ d[k] = a[k]
    BY <1>2, <1>3
  <2> QED BY <2>1 DEF ToSet
<1>5. ASSUME NEW k \in DOMAIN b PROVE b[k] \in ToSet(d)
  <2>a. PICK x \in Nat, y \in Nat : x = Len(a) /\ y = Len(b) /\ k \in 1..y
    BY <1>2, <1>3
  <2>b. x + k \in 1..(x + y) /\ ~(x + k <= x) /\ x + k - x = k
    BY <2>a
  <2>1. PICK j : j = x + k
    OBVIOUS
  <2>c. j \in 1..Len(a) + Len(b) /\ ~(j <= Len(a)) /\ j - Len(a) = k
    BY <2>a, <2>b, <2>1
  <2>2. j \in DOMAIN d /\ d[j] = b[k]
    BY <1>2, <1>3, <2>c
  <2> QED BY <2>2 DEF ToSet
<1>6. ASSUME NEW k \in DOMAIN d PROVE d[k] \in ToSet(a) \cup ToSet(b)
  <2>1. CASE k <= Len(a)
    <3>1. k \in DOMAIN a /\ d[k] = a[k]
      BY <1>2, <1>3, <2>1
    <3> QED BY <3>1 DEF ToSet
  <2>2. CASE ~(k <= Len(a))
    <3>1. k - Len(a) \in DOMAIN b /\ d[k] = b[k - Len(a)]
      BY <1>2, <1>3, <2>2
    <3> QED BY <3>1 DEF ToSet
  <2> QED BY <2>1, <2>2
<1>7. ToSet(d) = ToSet(a) \cup ToSet(b)
  BY <1>4, <1>5, <1>6 DEF ToSet
<1> QED BY <1>1, <1>7

LEMMA LeastIndex ==
  ASSUME NEW S \in SUBSET Nat, S # {}
  PROVE  \E m \in S : \A s \in S : m <= s
<1> DEFINE R == OpToRel(<, Nat)
<1>1. IsWellFoundedOn(R, Nat)
  BY NatLessThanWellFounded
<1>2. PICK m \in S : \A y \in S : ~(<<y, m>> \in R)
  BY <1>1, WFMin
<1>3. \A y \in S : ~(y < m)
  BY <1>2 DEF OpToRel
<1> QED BY <1>3

\* First commits are a prefix.
LEMMA FirstIsPrefix ==
  ASSUME NEW s \in Seq(Nat), Grows(s), NEW S \in SUBSET ToSet(s),
         \A c \in S, d \in ToSet(s) : d < c => d \in S
  PROVE  \E n \in 0..Len(s) : S = ToSet(SubSeq(s, 1, n))
<1>1. Len(s) \in Nat /\ DOMAIN s = 1..Len(s) /\ ToSet(s) = {s[k] : k \in 1..Len(s)}
  BY WholeFacts
<1>2. CASE \A i \in 1..Len(s) : s[i] \in S
  <2>1. ToSet(SubSeq(s, 1, Len(s))) = {s[k] : k \in 1..Len(s)}
    BY <1>1, PrefixFacts
  <2>2. S = {s[k] : k \in 1..Len(s)}
    BY <1>1, <1>2
  <2> QED BY <1>1, <2>1, <2>2
<1>3. CASE \E i \in 1..Len(s) : s[i] \notin S
  <2>a. {i \in 1..Len(s) : s[i] \notin S} \in SUBSET Nat
    OBVIOUS
  <2>1. PICK I \in SUBSET Nat : I = {i \in 1..Len(s) : s[i] \notin S}
    BY <2>a
  <2>2. I # {}
    BY <1>3, <2>1
  <2>3. PICK i \in I : \A j \in I : i <= j
    BY <2>1, <2>2, LeastIndex
  <2>4. PICK n \in Nat : n = i - 1 /\ n <= Len(s) /\ i \in 1..Len(s)
    BY <1>1, <2>1
  <2>5. ToSet(SubSeq(s, 1, n)) = {s[k] : k \in 1..n}
    BY <2>4, PrefixFacts
  <2>6. \A k \in 1..n : s[k] \in S
    BY <1>1, <2>1, <2>3, <2>4
  <2>7. ASSUME NEW c \in S PROVE c \in {s[k] : k \in 1..n}
    <3>1. PICK k \in 1..Len(s) : c = s[k]
      BY <1>1
    <3>2. CASE k < i
      BY <2>4, <3>1, <3>2
    <3>3. CASE k = i
      BY <2>1, <3>1, <3>3
    <3>4. CASE i < k
      <4>1. s[i] < c /\ s[i] \in ToSet(s) /\ s[i] \notin S
        BY <1>1, <2>1, <2>4, <3>1, <3>4 DEF Grows
      <4> QED BY <4>1
    <3> QED BY <2>4, <3>2, <3>3, <3>4
  <2>8. S = ToSet(SubSeq(s, 1, n))
    BY <2>5, <2>6, <2>7
  <2>9. n \in 0..Len(s)
    BY <1>1, <2>4
  <2> QED BY <2>8, <2>9
<1> QED BY <1>2, <1>3

\* A prefix has as many commits as it is long.
LEMMA PrefixCard ==
  ASSUME NEW s \in Seq(Nat), Grows(s), NEW n \in 0..Len(s)
  PROVE  Cardinality(ToSet(SubSeq(s, 1, n))) = n
<1>1. Len(s) \in Nat /\ DOMAIN s = 1..Len(s) /\ n \in Nat /\ n <= Len(s)
  OBVIOUS
<1>2. PICK T : T = {s[k] : k \in 1..n}
  OBVIOUS
<1>3. PICK f : f = [k \in 1..n |-> s[k]]
  OBVIOUS
<1>4. f \in Injection(1..n, T)
  <2>1. f \in [1..n -> T]
    BY <1>2, <1>3
  <2>2. ASSUME NEW a \in 1..n, NEW b \in 1..n, f[a] = f[b] PROVE a = b
    <3>1. s[a] = s[b] /\ s[a] \in Nat
      BY <1>1, <1>3, <2>2
    <3>2. ~(a < b) /\ ~(b < a)
      BY <1>1, <3>1 DEF Grows
    <3> QED BY <3>2
  <2>3. DOMAIN f = 1..n
    BY <1>3
  <2>4. IsInjective(f)
    BY <2>2, <2>3 DEF IsInjective
  <2> QED BY <2>1, <2>4, Zenon DEF Injection
<1>5. f \in Surjection(1..n, T)
  BY <1>2, <1>3 DEF Surjection
<1>6. f \in Bijection(1..n, T) /\ ExistsBijection(1..n, T)
  BY <1>4, <1>5, Zenon DEF Bijection, ExistsBijection
<1>7. IsFiniteSet(1..n) /\ Cardinality(1..n) = n
  <2>1. 1 \in Int /\ n \in Int
    BY <1>1
  <2>2. IsFiniteSet(1..n) /\ Cardinality(1..n) = IF 1 > n THEN 0 ELSE n - 1 + 1
    BY <2>1, FS_Interval
  <2> QED BY <1>1, <2>2
<1>8. Cardinality(T) = n
  BY <1>6, <1>7, FS_Bijection
<1> QED BY <1>1, <1>2, <1>8, PrefixFacts

-----------------------------------------------------------------------------
(* The store and its files.                                                *)

LEMMA StoreFacts ==
  ASSUME TypeOK
  PROVE  /\ log \in Seq(Nat) /\ ToSet(log) \subseteq Nat /\ next \in Nat
         /\ wal.frames \in Seq(Nat) /\ snap.done \in Seq(Nat) /\ DOMAIN wal.frames = 1..Len(wal.frames)
         /\ ToSet(wal.frames) = {wal.frames[k] : k \in 1..Len(wal.frames)}
         /\ ToSet(<<>>) = {} /\ Grows(<<>>)
<1>1. log \in Seq(Nat) /\ wal.frames \in Seq(Nat) /\ snap.done \in Seq(Nat) /\ next \in Nat
  BY Facts
<1>2. ToSet(log) \subseteq Nat
  BY <1>1 DEF ToSet
<1>3. DOMAIN wal.frames = 1..Len(wal.frames)
  BY <1>1
<1> QED BY <1>1, <1>2, <1>3, WholeFacts

\* What is durable is in the store.
LEMMA DurableFacts ==
  ASSUME VouchInv, StorePart
  PROVE  /\ Durable = ToSet(snap.done) \cup {wal.frames[k] : k \in 1..wal.synced}
         /\ Durable \subseteq ToSet(log)
<1>1. TypeOK /\ wal.synced <= Len(wal.frames) /\ wal.synced \in Nat /\ wal.frames \in Seq(Nat)
  BY Facts DEF VouchInv, FilePart
<1>2. /\ ToSet(SubSeq(wal.frames, 1, wal.synced)) = {wal.frames[k] : k \in 1..wal.synced}
      /\ ToSet(SubSeq(wal.frames, 1, wal.synced)) \subseteq ToSet(wal.frames)
  BY <1>1, PrefixFacts
<1> QED BY <1>2 DEF Durable, StorePart

LEMMA DurableNext ==
  ASSUME VouchInv', StorePart'
  PROVE  /\ Durable' = ToSet(snap.done)' \cup {wal'.frames[k] : k \in 1..wal'.synced}
         /\ Durable' \subseteq ToSet(log)'
<1>1. wal'.synced <= Len(wal'.frames) /\ wal'.synced \in Nat /\ wal'.frames \in Seq(Nat)
  BY FactsNext DEF VouchInv, FilePart
<1>2. /\ ToSet(SubSeq(wal'.frames, 1, wal'.synced)) = {wal'.frames[k] : k \in 1..wal'.synced}
      /\ ToSet(SubSeq(wal'.frames, 1, wal'.synced)) \subseteq ToSet(wal'.frames)
  BY <1>1, PrefixFacts
<1> QED BY <1>2 DEF Durable, StorePart

LEMMA GoodKept ==
  ASSUME VouchInv, StorePart, StoreGoesOn, NEW S, Good(S)
  PROVE  Good(S)'
<1>1. S \subseteq Durable /\ Durable \subseteq ToSet(log) /\ \A c \in S, d \in ToSet(log) : d < c => d \in S
  BY DurableFacts DEF Good
<1>2. Durable \subseteq Durable' /\ \A c \in ToSet(log), d \in ToSet(log)' : d < c => d \in ToSet(log)
  BY DEF StoreGoesOn
<1>3. S \subseteq Durable' /\ \A c \in S, d \in ToSet(log)' : d < c => d \in S
  BY <1>1, <1>2
<1> QED BY <1>3 DEF Good

\* A step that leaves the inode of the WAL and its frames, and the snapshot.
LEMMA KeptFilesGoOn ==
  ASSUME TypeOK, snap' = snap, wal'.ino = wal.ino, wal'.frames = wal.frames, wal.synced <= wal'.synced
  PROVE  FilesGoOn
<1>1. snap.id \in Nat /\ wal.ino \in Nat /\ Len(wal.frames) \in Nat
  BY Facts
<1>2. snap.id <= snap'.id /\ Len(wal.frames) <= Len(wal'.frames)
  BY ONLY <1>1, snap' = snap, wal'.frames = wal.frames
<1>3. ASSUME NEW i \in Nat PROVE Past(i) => Past(i)' /\ (i = wal'.ino => i = wal.ino \/ i = 0)
  BY ONLY snap' = snap, wal'.ino = wal.ino DEF Past
<1>4. snap'.done = snap.done /\ \A k \in 1..Len(wal.frames) : wal'.frames[k] = wal.frames[k]
  BY ONLY snap' = snap, wal'.frames = wal.frames
<1> QED BY <1>2, <1>3, <1>4 DEF FilesGoOn

LEMMA SameFilesGoOn ==
  ASSUME TypeOK, UNCHANGED <<wal, snap>>
  PROVE  FilesGoOn
<1>1. wal.synced \in Nat
  BY Facts
<1>2. snap' = snap /\ wal'.ino = wal.ino /\ wal'.frames = wal.frames /\ wal.synced <= wal'.synced
  BY ONLY <1>1, UNCHANGED <<wal, snap>>
<1> QED BY <1>2, KeptFilesGoOn

\* A step that leaves the WAL, the snapshot and the log.
LEMMA SameFiles ==
  ASSUME StorePart, TypeOK, UNCHANGED <<wal, snap, log, next>>
  PROVE  StorePart' /\ FilesGoOn /\ StoreGoesOn
<1>1. StorePart'
  BY DEF StorePart, Grows
<1>2. FilesGoOn
  BY SameFilesGoOn
<1>3. StoreGoesOn
  BY DEF StoreGoesOn, Durable
<1> QED BY <1>1, <1>2, <1>3

LEMMA CommitGoesOn ==
  ASSUME VouchInv, VouchInv', StorePart, NEW p, Commit(p), UNCHANGED snap
  PROVE  StorePart' /\ FilesGoOn /\ StoreGoesOn
<1>1. TypeOK /\ FilePart
  BY DEF VouchInv
<1>2. /\ (wal.ino = 0 => wal'.ino = snap.id + 1) /\ (wal.ino # 0 => wal'.ino = wal.ino)
      /\ wal'.frames = Append(wal.frames, next) /\ Len(wal'.frames) = Len(wal.frames) + 1
      /\ wal'.synced = wal.synced \/ wal'.synced = Len(wal.frames) + 1
  BY <1>1, CommitFields
<1>3. log' = Append(log, next) /\ next' = next + 1
  BY DEF Commit
<1>4. /\ ToSet(wal'.frames) = ToSet(wal.frames) \cup {next} /\ ToSet(log') = ToSet(log) \cup {next}
      /\ \A k \in 1..Len(wal.frames) : wal'.frames[k] = wal.frames[k]
  BY <1>1, <1>2, <1>3, StoreFacts, AppendFacts
<1>5. /\ \A c \in ToSet(log) : c < next /\ c \in Nat
      /\ ToSet(wal.frames) \subseteq ToSet(log) /\ ToSet(snap.done) \subseteq ToSet(log)
      /\ next \in Nat /\ Grows(log) /\ Grows(wal.frames)
  BY <1>1, StoreFacts DEF StorePart
<1>6. Grows(wal'.frames) /\ Grows(log')
  BY <1>1, <1>2, <1>3, <1>5, StoreFacts, AppendFacts
<1>7. StorePart'
  <2>1. \A c \in ToSet(log') : c < next'
    BY <1>3, <1>4, <1>5
  <2>2. ToSet(log') = ToSet(snap'.done) \cup ToSet(wal'.frames)
    BY <1>4 DEF StorePart
  <2>3. \A c \in ToSet(snap'.done), d \in ToSet(log') : d < c => d \in ToSet(snap'.done)
    <3>1. SUFFICES ASSUME NEW c \in ToSet(snap.done), NEW d \in ToSet(log'), d < c PROVE d \in ToSet(snap.done)
      OBVIOUS
    <3>2. d # next
      BY <1>5, <3>1
    <3> QED BY <1>4, <3>1, <3>2 DEF StorePart
  <2> QED BY <1>6, <2>1, <2>2, <2>3 DEF StorePart
<1>8. FilesGoOn
  <2>1. PICK i \in Nat, n \in Nat, y \in Nat, k \in Nat :
          i = wal.ino /\ n = Len(wal.frames) /\ y = wal.synced /\ k = snap.id /\ y <= n
    BY <1>1, Facts DEF FilePart
  <2>2. PICK j \in Nat : wal'.ino = j /\ (i = 0 => j = k + 1) /\ (i # 0 => j = i)
    BY <1>2, <2>1
  <2>3. snap'.id = k
    BY <2>1
  <2>4. wal.synced <= wal'.synced /\ Len(wal.frames) <= Len(wal'.frames)
    BY <1>2, <2>1
  <2>5. ASSUME NEW e \in Nat, Past(e) PROVE Past(e)' /\ (e = wal'.ino => e = wal.ino \/ e = 0)
    <3>1. e <= i \/ (i = 0 /\ e <= k)
      BY <2>1, <2>5 DEF Past
    <3>2. e <= j /\ (e = j => e = i)
      BY <2>1, <2>2, <3>1
    <3> QED BY <2>1, <2>2, <3>2 DEF Past
  <2>6. snap.id <= snap'.id /\ (snap'.id = snap.id => snap'.done = snap.done)
    BY <2>1, <2>3
  <2> QED BY <1>4, <2>4, <2>5, <2>6 DEF FilesGoOn
<1>9. StoreGoesOn
  <2>1. wal.synced \in Nat /\ Len(wal.frames) \in Nat /\ wal.synced <= Len(wal.frames) /\ wal.synced <= wal'.synced
    <3>1. PICK n \in Nat, y \in Nat : n = Len(wal.frames) /\ y = wal.synced /\ y <= n
      BY <1>1, Facts DEF FilePart
    <3>2. wal'.synced = y \/ wal'.synced = n + 1
      BY <1>2, <3>1
    <3>3. y <= wal'.synced
      BY <3>1, <3>2
    <3> QED BY <3>1, <3>3
  <2>2. wal'.synced \in Nat
    BY FactsNext DEF VouchInv
  <2>3. ASSUME NEW x \in Durable PROVE x \in Durable'
    <3>1. x \in ToSet(snap.done) \/ \E k \in 1..wal.synced : x = wal.frames[k]
      BY DurableFacts
    <3>2. CASE x \in ToSet(snap.done)
      BY <1>7, <3>2, DurableNext
    <3>3. ASSUME NEW k \in 1..wal.synced, x = wal.frames[k] PROVE x \in Durable'
      <4>1. k \in 1..Len(wal.frames) /\ k \in 1..wal'.synced
        BY <2>1, <2>2
      <4>2. x = wal'.frames[k]
        BY <1>4, <3>3, <4>1
      <4> QED BY <1>7, <4>1, <4>2, DurableNext
    <3> QED BY <3>1, <3>2, <3>3
  <2>4. \A c \in ToSet(log), d \in ToSet(log') : d < c => d \in ToSet(log)
    BY <1>4, <1>5
  <2> QED BY <2>3, <2>4 DEF StoreGoesOn
<1> QED BY <1>7, <1>8, <1>9

\* The snapshot holds the whole store: the WAL goes, or is empty.
LEMMA CoveredGoesOn ==
  ASSUME VouchInv, VouchInv', StorePart, UNCHANGED <<log, next>>, snap'.done = log,
         snap.id <= snap'.id, snap'.id = snap.id => snap'.done = snap.done,
         \A i \in Nat : Past(i) => Past(i)' /\ (i = wal'.ino => i = wal.ino \/ i = 0),
         wal' = wal \/ (wal'.frames = <<>> /\ wal'.ino # wal.ino)
  PROVE  StorePart' /\ FilesGoOn /\ StoreGoesOn
<1>1. TypeOK /\ FilePart
  BY DEF VouchInv
<1>2. StorePart'
  <2>1. Grows(wal'.frames) /\ ToSet(wal'.frames) \subseteq ToSet(log)
    BY <1>1, StoreFacts DEF StorePart
  <2> QED BY <2>1 DEF StorePart, Grows
<1>3. FilesGoOn
  BY <1>1, Facts DEF FilesGoOn
<1>4. StoreGoesOn
  <2>1. ToSet(log) \subseteq Durable'
    BY <1>2, DurableNext
  <2> QED BY <2>1, DurableFacts DEF StoreGoesOn
<1> QED BY <1>2, <1>3, <1>4

LEMMA WriteSnapshotGoesOn ==
  ASSUME VouchInv, VouchInv', StorePart, WriteSnapshot
  PROVE  StorePart' /\ FilesGoOn /\ StoreGoesOn
<1>1. TypeOK /\ snap.id \in Nat /\ wal.ino \in Nat
  BY Facts DEF VouchInv
<1>2. snap'.id = snap.id + 1 /\ snap'.done = log /\ UNCHANGED <<log, next, wal>>
  BY DEF WriteSnapshot
<1>3. PICK k \in Nat : snap.id = k /\ snap'.id = k + 1
  BY <1>1, <1>2
<1>4. snap.id <= snap'.id /\ snap'.id # snap.id
  BY <1>3
<1>5. ASSUME NEW i \in Nat, Past(i) PROVE Past(i)' /\ (i = wal'.ino => i = wal.ino \/ i = 0)
  <2>1. i <= wal.ino \/ (wal.ino = 0 /\ i <= k + 1)
    BY <1>1, <1>3, <1>5 DEF Past
  <2> QED BY <1>2, <1>3, <2>1 DEF Past
<1> QED BY <1>2, <1>4, <1>5, CoveredGoesOn

LEMMA WalGoneGoesOn ==
  ASSUME VouchInv, VouchInv', StorePart, UNCHANGED <<log, next, snap>>, snap.done = log,
         wal.ino <= snap.id, wal'.frames = <<>>,
         wal'.ino = snap.id + 1 \/ (wal'.ino = 0 /\ wal.ino # 0)
  PROVE  StorePart' /\ FilesGoOn /\ StoreGoesOn
<1>1. TypeOK
  BY DEF VouchInv
<1>2. PICK k \in Nat, j \in Nat : snap.id = k /\ wal.ino = j /\ j <= k
  BY <1>1, Facts
<1>3. snap'.id = k /\ (wal'.ino = k + 1 \/ (wal'.ino = 0 /\ j # 0))
  BY <1>2
<1>4. snap.id <= snap'.id /\ snap'.done = snap.done /\ wal'.ino # wal.ino
  BY <1>2, <1>3
<1>5. ASSUME NEW i \in Nat, Past(i) PROVE Past(i)' /\ (i = wal'.ino => i = wal.ino \/ i = 0)
  <2>1. i <= j \/ (j = 0 /\ i <= k)
    BY <1>2, <1>5 DEF Past
  <2>2. i <= k
    BY <1>2, <2>1
  <2>3. i < wal'.ino \/ (wal'.ino = 0 /\ i <= k)
    BY <1>2, <1>3, <2>2
  <2> QED BY <1>2, <1>3, <2>2, <2>3 DEF Past
<1> QED BY <1>4, <1>5, CoveredGoesOn

LEMMA WalStepGoesOn ==
  ASSUME VouchInv, VouchInv', StorePart, ArchiveWal \/ ReplaceWal
  PROVE  StorePart' /\ FilesGoOn /\ StoreGoesOn
<1>1. TypeOK /\ FilePart /\ JobPart
  BY DEF VouchInv
<1>2. UNCHANGED <<log, next, snap>> /\ snap.done = log /\ wal.ino <= snap.id
  BY <1>1 DEF ArchiveWal, ReplaceWal, JobPart
<1>3. CASE ArchiveWal /\ wal.frames = <<>>
  <2>1. UNCHANGED wal
    BY <1>3 DEF ArchiveWal
  <2> QED BY <1>1, <1>2, <2>1, SameFiles
<1>4. CASE ArchiveWal /\ wal.frames # <<>>
  <2>1. wal'.ino = 0 /\ wal'.frames = <<>> /\ wal.ino # 0
    BY <1>1, <1>4 DEF ArchiveWal, FilePart
  <2> QED BY <1>2, <2>1, WalGoneGoesOn
<1>5. CASE ReplaceWal
  <2>1. wal'.ino = snap.id + 1 /\ wal'.frames = <<>>
    BY <1>5 DEF ReplaceWal
  <2> QED BY <1>2, <2>1, WalGoneGoesOn
<1> QED BY <1>3, <1>4, <1>5

LEMMA VouchSyncGoesOn ==
  ASSUME VouchInv, VouchInv', StorePart, VouchSync
  PROVE  StorePart' /\ FilesGoOn /\ StoreGoesOn
<1>1. TypeOK /\ FilePart /\ UNCHANGED <<log, next, snap>>
  BY DEF VouchInv, VouchSync
<1>2. wal'.ino = wal.ino /\ wal'.frames = wal.frames /\ wal'.synced = Len(wal.frames)
  BY <1>1, VouchSyncFields
<1>3. wal.synced \in Nat /\ Len(wal.frames) \in Nat /\ wal.synced <= Len(wal.frames)
  BY <1>1, Facts DEF FilePart
<1>4. StorePart'
  BY <1>1, <1>2 DEF StorePart, Grows
<1>5. FilesGoOn
  <2>1. snap' = snap /\ wal'.ino = wal.ino /\ wal'.frames = wal.frames /\ wal.synced <= wal'.synced
    BY ONLY <1>1, <1>2, <1>3
  <2> QED BY <1>1, <2>1, KeptFilesGoOn
<1>6. \A k \in 1..wal.synced : k \in 1..wal'.synced
  BY <1>2, <1>3
<1>7. Durable \subseteq Durable'
  BY <1>1, <1>2, <1>4, <1>6, DurableFacts, DurableNext
<1>8. StoreGoesOn
  BY <1>1, <1>7 DEF StoreGoesOn
<1> QED BY <1>4, <1>5, <1>8

\* A power loss takes the last commits of the log, all of them past what is durable.
LEMMA PowerLossGoesOn ==
  ASSUME VouchInv, VouchInv', StorePart, PowerLoss
  PROVE  StorePart' /\ StoreGoesOn
<1>1. TypeOK /\ FilePart /\ UNCHANGED <<snap, next>>
  BY DEF VouchInv, PowerLoss
<1>2. PICK n \in wal.synced..Len(wal.frames) :
        /\ n \in Nat
        /\ wal'.frames = SubSeq(wal.frames, 1, n) /\ wal'.synced = n
        /\ log' = SubSeq(log, 1, Cardinality(ToSet(log) \ (ToSet(SubSeq(wal.frames, n + 1, Len(wal.frames))) \ ToSet(snap.done))))
  BY <1>1, PowerLossFields
<1>3. /\ wal.frames \in Seq(Nat) /\ Len(wal.frames) \in Nat /\ n <= Len(wal.frames) /\ wal.synced <= n /\ wal.synced \in Nat
      /\ DOMAIN wal.frames = 1..Len(wal.frames) /\ ToSet(wal.frames) = {wal.frames[k] : k \in 1..Len(wal.frames)}
      /\ log \in Seq(Nat) /\ Len(log) \in Nat /\ DOMAIN log = 1..Len(log) /\ ToSet(log) \subseteq Nat
  <2>1. wal.frames \in Seq(Nat) /\ Len(wal.frames) \in Nat /\ wal.synced \in Nat /\ log \in Seq(Nat)
    BY <1>1, Facts
  <2>2. n <= Len(wal.frames) /\ wal.synced <= n
    BY <1>2, <2>1
  <2>3. /\ DOMAIN wal.frames = 1..Len(wal.frames) /\ ToSet(wal.frames) = {wal.frames[k] : k \in 1..Len(wal.frames)}
        /\ ToSet(log) \subseteq Nat
    BY <1>1, StoreFacts
  <2>4. Len(log) \in Nat /\ DOMAIN log = 1..Len(log)
    BY <2>1
  <2> QED BY <2>1, <2>2, <2>3, <2>4
<1>4. PICK H, T : H = {wal.frames[k] : k \in 1..n} /\ T = {wal.frames[k] : k \in (n + 1)..Len(wal.frames)}
  OBVIOUS
<1>5. ToSet(SubSeq(wal.frames, n + 1, Len(wal.frames))) = T
  <2>1. PICK l \in Nat : l = Len(wal.frames) /\ n <= l /\ l <= Len(wal.frames)
    BY <1>3
  <2>2. PICK s \in Seq(Nat) : s = wal.frames /\ l <= Len(s)
    BY <1>3, <2>1
  <2>3. ToSet(SubSeq(s, n + 1, l)) = {s[k] : k \in (n + 1)..l}
    BY ONLY <1>2, <2>1, <2>2, SubSeqFacts
  <2> QED BY <1>4, <2>1, <2>2, <2>3
<1>6. /\ ToSet(wal'.frames) = H /\ Len(wal'.frames) = n /\ wal'.frames \in Seq(Nat)
      /\ \A k \in 1..n : wal'.frames[k] = wal.frames[k]
  BY <1>2, <1>3, <1>4, PrefixFacts
<1>7. ToSet(wal.frames) = H \cup T /\ H \cap T = {}
  <2>1. \A k \in 1..Len(wal.frames) : k \in 1..n \/ k \in (n + 1)..Len(wal.frames)
    BY <1>2, <1>3
  <2>2. \A k \in 1..n : k \in 1..Len(wal.frames)
    BY <1>2, <1>3
  <2>3. \A k \in (n + 1)..Len(wal.frames) : k \in 1..Len(wal.frames)
    BY <1>2, <1>3
  <2>4. ASSUME NEW a \in 1..n, NEW b \in (n + 1)..Len(wal.frames) PROVE wal.frames[a] # wal.frames[b]
    <3>1. a < b /\ a \in DOMAIN wal.frames /\ b \in DOMAIN wal.frames
      BY <1>2, <1>3
    <3>2. wal.frames[a] < wal.frames[b] /\ wal.frames[a] \in Nat
      BY <1>3, <3>1 DEF StorePart, Grows
    <3> QED BY <3>2
  <2> QED BY <1>3, <1>4, <2>1, <2>2, <2>3, <2>4
<1>8. PICK K : K = ToSet(log) \ (T \ ToSet(snap.done))
  OBVIOUS
<1>9. K = ToSet(snap.done) \cup H /\ K \subseteq ToSet(log)
  BY <1>7, <1>8 DEF StorePart
<1>10. \A c \in K, d \in ToSet(log) : d < c => d \in K
  <2>1. SUFFICES ASSUME NEW c \in K, NEW d \in ToSet(log), d < c PROVE d \in K
    OBVIOUS
  <2>2. CASE c \in ToSet(snap.done)
    BY <1>9, <2>1, <2>2 DEF StorePart
  <2>3. CASE c \in H /\ d \in T
    <3>1. PICK a \in 1..n : c = wal.frames[a]
      BY <1>4, <2>3
    <3>2. PICK b \in (n + 1)..Len(wal.frames) : d = wal.frames[b]
      BY <1>4, <2>3
    <3>3. a < b /\ a \in DOMAIN wal.frames /\ b \in DOMAIN wal.frames
      BY <1>2, <1>3
    <3>4. c < d /\ c \in Nat /\ d \in Nat
      BY <1>3, <3>1, <3>2, <3>3 DEF StorePart, Grows
    <3> QED BY <2>1, <3>4
  <2>4. d \in ToSet(snap.done) \/ d \in H \/ d \in T
    BY <1>7 DEF StorePart
  <2> QED BY <1>9, <2>2, <2>3, <2>4
<1>11. PICK m \in 0..Len(log) : K = ToSet(SubSeq(log, 1, m))
  BY <1>3, <1>9, <1>10, FirstIsPrefix DEF StorePart
<1>12. Cardinality(K) = m
  BY <1>3, <1>11, PrefixCard DEF StorePart
<1>13. log' = SubSeq(log, 1, m)
  BY <1>2, <1>5, <1>8, <1>12
<1>14. ToSet(log') = K /\ Len(log') = m /\ DOMAIN log' = 1..m /\ \A k \in 1..m : log'[k] = log[k]
  BY <1>3, <1>11, <1>13, PrefixFacts
<1>15. Grows(log')
  <2>1. \A k \in 1..m : k \in DOMAIN log
    BY <1>3, <1>11
  <2> QED BY <1>14, <2>1 DEF StorePart, Grows
<1>16. Grows(wal'.frames)
  <2>1. DOMAIN wal'.frames = 1..n /\ \A k \in 1..n : k \in DOMAIN wal.frames
    BY <1>2, <1>3, <1>6
  <2> QED BY <1>6, <2>1 DEF StorePart, Grows
<1>17. StorePart'
  <2>1. snap'.done = snap.done /\ next' = next
    BY <1>1
  <2>2. ToSet(log') = ToSet(snap'.done) \cup ToSet(wal'.frames)
    BY <1>6, <1>9, <1>14, <2>1
  <2>3. \A c \in ToSet(log') : c < next'
    BY <1>9, <1>14, <2>1 DEF StorePart
  <2>4. \A c \in ToSet(snap'.done), d \in ToSet(log') : d < c => d \in ToSet(snap'.done)
    BY <1>9, <1>14, <2>1 DEF StorePart
  <2> QED BY <1>15, <1>16, <2>2, <2>3, <2>4 DEF StorePart
<1>18. Durable \subseteq Durable'
  <2>1. ASSUME NEW k \in 1..wal.synced PROVE k \in 1..n /\ wal.frames[k] = wal'.frames[k]
    <3>1. k \in 1..n
      BY <1>2, <1>3
    <3> QED BY <1>6, <3>1
  <2>2. wal'.synced = n /\ snap'.done = snap.done
    BY <1>1, <1>2
  <2>3. \A k \in 1..wal.synced : wal.frames[k] \in {wal'.frames[j] : j \in 1..wal'.synced}
    BY <2>1, <2>2
  <2> QED BY <1>17, <2>2, <2>3, DurableFacts, DurableNext
<1>19. StoreGoesOn
  BY <1>9, <1>14, <1>18 DEF StoreGoesOn
<1> QED BY <1>17, <1>19

-----------------------------------------------------------------------------
(* The worker's knowledge while the files go on.                           *)

LEMMA WorkerFacts ==
  ASSUME TypeOK
  PROVE  /\ w.pos.key \in Keys /\ w.pos.len \in Nat /\ w.key \in Keys /\ cur.key \in Keys /\ cur.cursor \in Nat
         /\ w.pos.key.wal \in Nat /\ w.pos.key.snap \in Nat /\ w.pos.key.gen \in Nat
         /\ cur.key.wal \in Nat /\ cur.key.snap \in Nat /\ cur.key.gen \in Nat
         /\ w.opened.snap \in Nat /\ w.opened.done \in Seq(Nat) /\ w.opened.arch \in Nat /\ w.opened.floor \in Nat
         /\ w.read \in Seq(Nat) /\ Len(w.read) \in Nat
         /\ w.disk.snap \in Nat /\ w.disk.wal \in Nat /\ w.eye.snap \in Nat /\ w.eye.wal \in Nat
         /\ gens \in Seq(Points) /\ Len(gens) \in Nat /\ DOMAIN gens = 1..Len(gens)
<1>1. w.pos \in Positions /\ w.key \in Keys /\ w.opened \in Opens /\ w.read \in Seq(Nat) /\ w.disk \in Looks /\ w.eye \in Looks
  BY DEF TypeOK, Workers
<1>2. cur.key \in Keys /\ cur.cursor \in Nat /\ gens \in Seq(Points)
  BY DEF TypeOK
<1>3. w.pos.key \in Keys /\ w.pos.len \in Nat
  BY <1>1 DEF Positions
<1>4. /\ w.pos.key.wal \in Nat /\ w.pos.key.snap \in Nat /\ w.pos.key.gen \in Nat
      /\ cur.key.wal \in Nat /\ cur.key.snap \in Nat /\ cur.key.gen \in Nat
  BY <1>2, <1>3 DEF Keys
<1>5. /\ w.opened.snap \in Nat /\ w.opened.done \in Seq(Nat) /\ w.opened.arch \in Nat /\ w.opened.floor \in Nat
  BY <1>1 DEF Opens
<1>6. w.disk.snap \in Nat /\ w.disk.wal \in Nat /\ w.eye.snap \in Nat /\ w.eye.wal \in Nat
  BY <1>1 DEF Looks
<1>7. Len(w.read) \in Nat /\ Len(gens) \in Nat /\ DOMAIN gens = 1..Len(gens)
  BY <1>1, <1>2
<1> QED BY <1>1, <1>2, <1>3, <1>4, <1>5, <1>6, <1>7

LEMMA PosGoesOn ==
  ASSUME RestoreInv, VouchInv', FilesGoOn, w'.pos = w.pos, w'.goal = w.goal,
         w'.pc = w.pc \/ w'.pc = "catching"
  PROVE  PosPart'
<1>1. PosPart /\ TypeOK
  BY DEF RestoreInv, VouchInv
<1>2. w.pos.key.wal \in Nat /\ w.pos.key.snap \in Nat /\ w.pos.len \in Nat
  BY <1>1, WorkerFacts
<1>3. PICK i \in Nat, l \in Nat : i = w.pos.key.wal /\ l = w.pos.len /\ Past(i) /\ (i = wal.ino => l <= wal.synced) /\ (i = 0 => l = 0)
  BY <1>1, <1>2 DEF PosPart
<1>4. Past(i)' /\ (i = wal'.ino => i = wal.ino \/ i = 0)
  BY <1>3 DEF FilesGoOn
<1>5. wal.synced \in Nat /\ wal'.synced \in Nat /\ snap.id \in Nat /\ snap'.id \in Nat
  BY <1>1, Facts, FactsNext DEF VouchInv
<1>6. i = wal'.ino => l <= wal'.synced
  BY <1>3, <1>4, <1>5 DEF FilesGoOn
<1>7. w.pos.key.snap <= snap'.id
  BY <1>1, <1>2, <1>5 DEF PosPart, FilesGoOn
<1>8. Past(w.pos.key.wal)'
  BY <1>3, <1>4
<1> QED BY <1>1, <1>3, <1>6, <1>7, <1>8 DEF PosPart

LEMMA OpenedGoesOn ==
  ASSUME RestoreInv, VouchInv', FilesGoOn, StoreGoesOn, w'.opened = w.opened, w'.goal = w.goal, w'.key = w.key,
         w'.disk = w.disk, w'.pc = w.pc \/ w'.pc = "catching"
  PROVE  OpenedPart'
<1>1. OpenedPart /\ TypeOK /\ VouchInv /\ StorePart
  BY DEF RestoreInv, VouchInv
<1>2. w.opened.snap \in Nat /\ snap.id \in Nat /\ snap'.id \in Nat
  BY <1>1, WorkerFacts, Facts, FactsNext DEF VouchInv
<1>3. w.opened.snap <= snap'.id /\ (w.opened.snap = snap'.id => w.opened.done = snap'.done)
  BY <1>1, <1>2 DEF OpenedPart, FilesGoOn
<1>4. Good(ToSet(w.opened.done))
  BY <1>1 DEF OpenedPart
<1>5. PICK S : S = ToSet(w.opened.done)
  OBVIOUS
<1>6. Good(S)'
  BY <1>1, <1>4, <1>5, GoodKept
<1>7. Good(ToSet(w.opened.done))'
  BY <1>5, <1>6 DEF Good
<1>8. w'.pc \in {"open_snap", "open_arch", "open_floor"} \/ w'.goal = "base" => w'.key.snap = w'.disk.snap
  BY <1>1 DEF OpenedPart
<1> QED BY <1>3, <1>7, <1>8 DEF OpenedPart

LEMMA CurGoesOn ==
  ASSUME RestoreInv, VouchInv', FilesGoOn, UNCHANGED <<cur, gens>>
  PROVE  CurPart'
<1>1. CurPart /\ TypeOK /\ FilePart
  BY DEF RestoreInv, VouchInv
<1>2. PICK i \in Nat, s \in Nat, c \in Nat : i = cur.key.wal /\ s = cur.key.snap /\ c = cur.cursor
  BY <1>1, WorkerFacts
<1>3. snap.id \in Nat /\ snap'.id \in Nat /\ Len(wal.frames) \in Nat /\ Len(wal'.frames) \in Nat
      /\ wal.frames \in Seq(Nat) /\ wal'.frames \in Seq(Nat)
  BY <1>1, Facts, FactsNext DEF VouchInv
<1>4. Past(i) /\ s <= snap.id
  BY <1>1, <1>2 DEF CurPart
<1>5. Past(i)' /\ (i = wal'.ino => i = wal.ino \/ i = 0) /\ s <= snap'.id
      /\ (s = snap'.id => s = snap.id /\ snap'.done = snap.done)
  BY <1>2, <1>3, <1>4 DEF FilesGoOn
<1>6. ASSUME cur.key.gen # 0 PROVE (Len(gens) > 0 /\ (i = 0 => c = 0 /\ Newest.segs = <<>>)) /\ (s = snap'.id => Newest.base = snap'.done)
  BY <1>1, <1>2, <1>5, <1>6 DEF CurPart
<1>7. ASSUME cur.key.gen # 0, s = snap'.id, i = wal'.ino
      PROVE  c <= Len(wal'.frames) /\ Newest.segs = SubSeq(wal'.frames, 1, c)
  <2>1. CASE i = 0
    <3>1. c = 0 /\ Newest.segs = <<>>
      BY <1>6, <1>7, <2>1
    <3>2. SubSeq(wal'.frames, 1, 0) = <<>>
      BY <1>3, WholeFacts
    <3> QED BY <1>2, <1>3, <3>1, <3>2
  <2>2. CASE i # 0
    <3>1. i = wal.ino /\ s = snap.id /\ wal'.ino = wal.ino
      BY <1>5, <1>7, <2>2
    <3>2. c <= Len(wal.frames) /\ Newest.segs = SubSeq(wal.frames, 1, c)
      BY <1>1, <1>2, <1>7, <3>1 DEF CurPart
    <3>3. Len(wal.frames) <= Len(wal'.frames) /\ \A k \in 1..Len(wal.frames) : wal'.frames[k] = wal.frames[k]
      BY <3>1 DEF FilesGoOn
    <3>4. PICK f \in Seq(Nat), g \in Seq(Nat) : f = wal.frames /\ g = wal'.frames
      BY <1>3
    <3>5. c <= Len(f) /\ Len(f) <= Len(g) /\ \A k \in 1..Len(f) : g[k] = f[k]
      BY <3>2, <3>3, <3>4
    <3>6. c <= Len(g) /\ SubSeq(g, 1, c) = SubSeq(f, 1, c)
      BY ONLY <1>2, <3>4, <3>5, SameParts
    <3> QED BY <3>2, <3>4, <3>6
  <2> QED BY <2>1, <2>2
<1>8. Past(cur.key.wal)'
  BY <1>2, <1>5
<1>9. Newest' = Newest
  BY DEF Newest
<1> QED BY <1>2, <1>5, <1>6, <1>7, <1>8, <1>9 DEF CurPart

LEMMA MovedGoesOn ==
  ASSUME RestoreInv, VouchInv', FilesGoOn, UNCHANGED cur, w.goal = "after", Moved,
         w'.eye = w.eye, w'.pc = w.pc \/ (w.pc = "catch_up" /\ w'.pc = "catching")
  PROVE  Moved'
<1>1. ReadPart /\ CurPart /\ TypeOK
  BY DEF RestoreInv, VouchInv
<1>2. PICK i \in Nat, s \in Nat : i = cur.key.wal /\ s = cur.key.snap /\ i # 0 /\ Past(i) /\ s <= snap.id
  BY <1>1, WorkerFacts DEF ReadPart, CurPart
<1>3. snap.id \in Nat /\ snap'.id \in Nat
  BY <1>1, Facts, FactsNext DEF VouchInv
<1>4. (i = wal'.ino => i = wal.ino) /\ (s = snap'.id => s = snap.id)
  BY <1>2, <1>3 DEF FilesGoOn
<1> QED BY <1>2, <1>4 DEF Moved

LEMMA ReadGoesOn ==
  ASSUME RestoreInv, VouchInv', FilesGoOn, StoreGoesOn, UNCHANGED <<cur, gens>>,
         w'.goal = w.goal, w'.disk = w.disk, w'.eye = w.eye, w'.read = w.read,
         w'.pc = w.pc \/ (w.pc = "catch_up" /\ w'.pc = "catching")
  PROVE  ReadPart'
<1>1. ReadPart /\ CurPart /\ TypeOK /\ VouchInv /\ StorePart
  BY DEF RestoreInv, VouchInv
<1>2. SUFFICES ASSUME w.goal = "after" PROVE (GoesWith \/ Moved)'
  BY <1>1 DEF ReadPart
<1>3. PICK i \in Nat, s \in Nat, c \in Nat, l \in Nat :
        i = cur.key.wal /\ s = cur.key.snap /\ c = cur.cursor /\ l = Len(w.read) /\ i # 0 /\ Past(i) /\ s <= snap.id
  BY <1>1, <1>2, WorkerFacts DEF ReadPart, CurPart
<1>4. snap.id \in Nat /\ snap'.id \in Nat /\ Len(wal.frames) \in Nat /\ Len(wal'.frames) \in Nat
      /\ wal.frames \in Seq(Nat) /\ wal'.frames \in Seq(Nat)
  BY <1>1, Facts, FactsNext DEF VouchInv
<1>5. (i = wal'.ino => i = wal.ino) /\ (s = snap'.id => s = snap.id)
  BY <1>3, <1>4 DEF FilesGoOn
<1>6. CASE Moved
  BY <1>2, <1>6, MovedGoesOn
<1>7. CASE GoesWith
  <2>1. PICK S : S = Restored(Newest) \cup ToSet(w.read)
    OBVIOUS
  <2>2. Good(S)'
    BY <1>1, <1>7, <2>1, GoodKept DEF GoesWith
  <2>3. Good(Restored(Newest) \cup ToSet(w.read))'
    BY <2>1, <2>2 DEF Good, Newest, Restored
  <2>4. ASSUME s = snap'.id, i = wal'.ino
        PROVE  c + l <= Len(wal'.frames) /\ w.read = SubSeq(wal'.frames, c + 1, c + l)
    <3>1. s = snap.id /\ i = wal.ino /\ wal'.ino = wal.ino
      BY <1>5, <2>4
    <3>2. c + l <= Len(wal.frames) /\ w.read = SubSeq(wal.frames, c + 1, c + l)
      BY <1>3, <1>7, <3>1 DEF GoesWith
    <3>3. Len(wal.frames) <= Len(wal'.frames) /\ \A k \in 1..Len(wal.frames) : wal'.frames[k] = wal.frames[k]
      BY <3>1 DEF FilesGoOn
    <3>4. PICK n \in Nat : n = c + l /\ c <= n
      BY <1>3
    <3>5. PICK f \in Seq(Nat), g \in Seq(Nat) : f = wal.frames /\ g = wal'.frames
      BY <1>4
    <3>6. n <= Len(f) /\ Len(f) <= Len(g) /\ \A k \in 1..Len(f) : g[k] = f[k]
      BY <3>2, <3>3, <3>4, <3>5
    <3>7. n <= Len(g) /\ SubSeq(g, c + 1, n) = SubSeq(f, c + 1, n)
      <4>1. c \in Nat /\ n \in Nat /\ c <= n /\ f \in Seq(Nat) /\ g \in Seq(Nat)
        BY <1>3, <3>4, <3>5
      <4> QED BY ONLY <3>6, <4>1, SameParts
    <3> QED BY <3>2, <3>4, <3>5, <3>7
  <2>5. GoesWith'
    BY <1>3, <2>3, <2>4 DEF GoesWith
  <2> QED BY <2>5
<1> QED BY <1>1, <1>2, <1>6, <1>7 DEF ReadPart

LEMMA GensGoOn ==
  ASSUME RestoreInv, StoreGoesOn, UNCHANGED gens
  PROVE  GensPart'
<1>1. VouchInv /\ StorePart /\ GensPart
  BY DEF RestoreInv
<1>2. SUFFICES ASSUME NEW i \in DOMAIN gens PROVE Good(Restored(gens[i]))'
  BY DEF GensPart
<1>3. PICK S : S = Restored(gens[i]) /\ Good(S)
  BY <1>1 DEF GensPart
<1>4. Good(S)'
  BY <1>1, <1>3, GoodKept
<1> QED BY <1>3, <1>4 DEF Good, Restored

\* A step of the store: the worker's state is as it was.
LEMMA StoreStepRestore ==
  ASSUME RestoreInv, VouchInv', StorePart', FilesGoOn, StoreGoesOn, UNCHANGED <<cur, gens>>,
         w'.pos = w.pos, w'.goal = w.goal, w'.opened = w.opened, w'.key = w.key,
         w'.disk = w.disk, w'.eye = w.eye, w'.read = w.read,
         w'.pc = w.pc \/ (w.pc = "catch_up" /\ w'.pc = "catching")
  PROVE  RestoreInv'
BY PosGoesOn, OpenedGoesOn, CurGoesOn, ReadGoesOn, GensGoOn DEF RestoreInv

\* A crash: the worker starts with nothing.
LEMMA CrashRestore ==
  ASSUME RestoreInv, VouchInv', StorePart', StoreGoesOn, w' = Idle, cur' = NoCur, UNCHANGED gens
  PROVE  RestoreInv'
<1>1. GensPart'
  BY GensGoOn
<1>2. snap'.id \in Nat /\ wal'.ino \in Nat /\ wal'.synced \in Nat /\ FilePart'
  BY FactsNext DEF VouchInv
<1>3. /\ w'.pc = "idle" /\ w'.goal = "idle" /\ w'.pos.key.wal = 0 /\ w'.pos.key.snap = 0 /\ w'.pos.len = 0
      /\ w'.opened.snap = 0 /\ w'.opened.done = <<>>
      /\ cur'.key.wal = 0 /\ cur'.key.snap = 0 /\ cur'.key.gen = 0
  BY IdleType DEF NoPos, NoKey, NoCur
<1>4. PosPart'
  BY <1>2, <1>3 DEF PosPart, Past
<1>5. OpenedPart'
  <2>1. ToSet(<<>>) = {}
    BY DEF ToSet
  <2>2. Good(ToSet(w.opened.done))'
    BY <1>3, <2>1 DEF Good
  <2> QED BY <1>2, <1>3, <2>2 DEF OpenedPart, FilePart
<1>6. CurPart'
  BY <1>2, <1>3 DEF CurPart, Past
<1>7. ReadPart'
  BY <1>3 DEF ReadPart
<1> QED BY <1>1, <1>4, <1>5, <1>6, <1>7 DEF RestoreInv

-----------------------------------------------------------------------------
(* The worker's own steps.                                                 *)

LEMMA EmptyOpened ==
  ASSUME VouchInv' PROVE
  /\ 0 <= snap'.id /\ (0 = snap'.id => <<>> = snap'.done) /\ Good(ToSet(<<>>))' /\ Past(0)' /\ 0 <= wal'.synced
<1>1. snap'.id \in Nat /\ wal'.ino \in Nat /\ wal'.synced \in Nat /\ FilePart'
  BY FactsNext DEF VouchInv
<1>2. ToSet(<<>>) = {}
  BY DEF ToSet
<1>3. Good(ToSet(<<>>))'
  BY <1>2 DEF Good
<1>4. Past(0)'
  BY <1>1 DEF Past
<1> QED BY <1>1, <1>3, <1>4 DEF FilePart

\* What a step that leaves the store keeps.
LEMMA SameStore ==
  ASSUME RestoreInv, UNCHANGED <<wal, snap, log, next>>
  PROVE  /\ StorePart' /\ \A S : Good(S) => Good(S)'
         /\ Durable' = Durable
         /\ UNCHANGED gens => GensPart'
         /\ UNCHANGED <<cur, gens>> => CurPart'
<1>1. VouchInv /\ StorePart /\ GensPart /\ TypeOK /\ CurPart
  BY DEF RestoreInv, VouchInv
<1>2. StorePart' /\ StoreGoesOn
  BY <1>1, SameFiles
<1>3. Durable' = Durable
  BY DEF Durable
<1>4. \A S : Good(S) => Good(S)'
  BY <1>3 DEF Good
<1>5. UNCHANGED gens => GensPart'
  BY <1>2, GensGoOn
<1>6. UNCHANGED <<cur, gens>> => CurPart'
  BY <1>1 DEF CurPart, Past, Newest
<1> QED BY <1>2, <1>3, <1>4, <1>5, <1>6

\* The step ends: the worker is idle.
LEMMA IdleRestore ==
  ASSUME RestoreInv, VouchInv', UNCHANGED <<wal, snap, log, next, cur, gens>>, w' = Idle
  PROVE  RestoreInv'
<1>1. StorePart' /\ GensPart' /\ CurPart'
  BY SameStore
<1>2. /\ w'.pc = "idle" /\ w'.goal = "idle" /\ w'.pos.key.wal = 0 /\ w'.pos.key.snap = 0 /\ w'.pos.len = 0
      /\ w'.opened.snap = 0 /\ w'.opened.done = <<>>
  BY IdleType DEF NoPos, NoKey
<1>3. Past(0)' /\ 0 <= snap'.id /\ 0 <= wal'.synced
  BY EmptyOpened
<1>4. PosPart'
  BY <1>2, <1>3 DEF PosPart, Past
<1>5. Good(ToSet(w.opened.done))'
  <2>1. Good(ToSet(<<>>))'
    BY EmptyOpened
  <2> QED BY <1>2, <2>1 DEF Good
<1>6. OpenedPart'
  BY <1>2, <1>5, EmptyOpened DEF OpenedPart
<1>7. ReadPart'
  BY <1>2 DEF ReadPart
<1> QED BY <1>1, <1>4, <1>6, <1>7 DEF RestoreInv

\* The parts, for a step of the worker that says which of its fields change.
LEMMA PosStep ==
  ASSUME RestoreInv, VouchInv', UNCHANGED <<wal, snap>>, w'.pos = w.pos \/ w'.pos = NoPos,
         w'.pc \in {"start", "decide", "base", "before", "after"} => w'.pos = w.pos /\ w.pc \in {"start", "decide", "base", "before", "after"},
         w'.pc \in {"start", "base", "after"} => w'.goal = w'.pc
  PROVE  PosPart'
<1>1. PosPart
  BY DEF RestoreInv
<1>2. CASE w'.pos = w.pos
  BY <1>1, <1>2 DEF PosPart, Past
<1>3. CASE w'.pos = NoPos
  <2>1. w'.pos.key.wal = 0 /\ w'.pos.key.snap = 0 /\ w'.pos.len = 0
    BY <1>3 DEF NoPos, NoKey
  <2>2. Past(0)' /\ 0 <= snap'.id /\ 0 <= wal'.synced
    BY EmptyOpened
  <2>3. w'.pc \in {"start", "decide", "base", "before", "after"} => w'.pos.key.gen >= 1
    BY <1>1 DEF PosPart
  <2> QED BY <2>1, <2>2, <2>3 DEF PosPart, Past
<1> QED BY <1>2, <1>3

LEMMA OpenedStep ==
  ASSUME RestoreInv, VouchInv', UNCHANGED <<wal, snap, log, next>>,
         w'.opened.snap = w.opened.snap, w'.opened.done = w.opened.done,
         w'.pc \in {"open_snap", "open_arch", "open_floor"} \/ w'.goal = "base" => w'.key.snap = w'.disk.snap
  PROVE  OpenedPart'
<1>1. OpenedPart /\ Durable' = Durable
  BY SameStore DEF RestoreInv
<1>2. Good(ToSet(w.opened.done))'
  BY <1>1 DEF OpenedPart, Good
<1> QED BY <1>1, <1>2 DEF OpenedPart

LEMMA ReadStep ==
  ASSUME RestoreInv, VouchInv', UNCHANGED <<wal, snap, log, next, cur, gens>>,
         w'.goal = "after" => w.goal = "after" /\ w'.disk.snap = w.disk.snap /\ w'.disk.wal = w.disk.wal /\ w'.read = w.read,
         w'.goal = "after" /\ Moved => Moved'
  PROVE  ReadPart'
<1>1. ReadPart /\ Durable' = Durable
  BY SameStore DEF RestoreInv
<1>2. SUFFICES ASSUME w'.goal = "after", GoesWith PROVE GoesWith'
  BY <1>1 DEF ReadPart
<1>3. w'.read = w.read /\ Newest' = Newest
  BY <1>2 DEF Newest
<1>4. Good(Restored(Newest) \cup ToSet(w.read))'
  BY <1>1, <1>2, <1>3 DEF GoesWith, Good, Restored
<1> QED BY <1>2, <1>3, <1>4 DEF GoesWith

LEMMA StatRestore ==
  ASSUME RestoreInv, VouchInv', StatSnapshot \/ StatWal \/ StatIntent
  PROVE  RestoreInv'
<1>1. TypeOK /\ PosPart /\ OpenedPart
  BY DEF RestoreInv, VouchInv
<1>2. UNCHANGED <<wal, snap, log, next, cur, gens>>
  BY <1>1, StatFields DEF Others, disk
<1>3. CASE w' = Idle
  BY <1>2, <1>3, IdleRestore
<1>4. CASE /\ w'.goal = w.goal /\ w'.disk = w.disk /\ w'.pos = w.pos /\ w'.vouch = w.vouch
           /\ w'.key = w.key /\ w'.read = w.read /\ w'.opened = w.opened
           /\ w.pc = "stat_snap" => w'.pc = "stat_wal" /\ w'.eye.snap = snap.id
           /\ w.pc = "stat_wal" => /\ w'.pc = "stat_intent" /\ w'.eye.snap = w.eye.snap /\ w'.eye.wal = wal.ino
           /\ w.pc = "stat_intent" => /\ w'.pc \in {"caught", "position"}
                                      /\ w'.eye.snap = w.eye.snap /\ w'.eye.wal = w.eye.wal
           /\ w.pc \in {"stat_snap", "stat_wal", "stat_intent"}
  <2>1. w'.pc \in {"stat_wal", "stat_intent", "caught", "position"}
    BY <1>4
  <2>2. PosPart'
    BY <1>2, <1>4, <2>1, PosStep
  <2>3. OpenedPart'
    BY <1>1, <1>2, <1>4, <2>1, OpenedStep DEF OpenedPart
  <2>4. Moved => Moved'
    BY <1>2, <1>4, <2>1 DEF Moved
  <2>5. ReadPart'
    BY <1>2, <1>4, <2>4, ReadStep
  <2> QED BY <1>2, <2>2, <2>3, <2>5, SameStore DEF RestoreInv
<1> QED BY <1>1, <1>3, <1>4, StatFields

LEMMA TakePositionRestore ==
  ASSUME RestoreInv, VouchInv', TakePosition
  PROVE  RestoreInv'
<1>1. TypeOK /\ PosPart /\ OpenedPart
  BY DEF RestoreInv, VouchInv
<1>2. UNCHANGED <<wal, snap, log, next, cur, gens>>
  BY DEF TakePosition, disk
<1>3. /\ w.pc = "position" /\ w'.pc = w.goal /\ w'.goal = w.goal /\ w'.disk = w.disk /\ w'.eye = w.eye
      /\ w'.key = w.key /\ w'.read = w.read /\ w'.opened = w.opened
      /\ w'.pos.len = eng'.len /\ w'.pos.key.gen = eng'.gen
      /\ w'.pos.key.snap = eng'.snap /\ w'.pos.key.wal = eng'.wal
      /\ w.goal \in Goals
  BY <1>1, TakePositionFields DEF TypeOK, Workers
<1>4. RemembersPast' /\ MovesClean' /\ VouchesForSynced'
  BY DEF VouchInv
<1>5. PosPart'
  <2>1. Past(w.pos.key.wal)'
    BY <1>3, <1>4 DEF RemembersPast, Past
  <2>2. w'.pos.key.wal = 0 => w'.pos.len = 0
    BY <1>3, <1>4 DEF MovesClean, Clean
  <2>3. w'.pos.key.wal = wal'.ino => w'.pos.len <= wal'.synced
    BY <1>3, <1>4 DEF VouchesForSynced
  <2>4. w'.pos.key.snap <= snap'.id /\ w'.pos.key.gen >= 1
    BY <1>3, <1>4 DEF RemembersPast
  <2> QED BY <1>3, <2>1, <2>2, <2>3, <2>4 DEF PosPart
<1>6. OpenedPart'
  BY <1>1, <1>2, <1>3, OpenedStep DEF OpenedPart, Goals
<1>7. Moved => Moved'
  BY <1>2, <1>3 DEF Moved
<1>8. ReadPart'
  BY <1>2, <1>3, <1>7, ReadStep
<1> QED BY <1>2, <1>5, <1>6, <1>8, SameStore DEF RestoreInv

LEMMA LookRestore ==
  ASSUME RestoreInv, VouchInv', UNCHANGED <<wal, snap, log, next, cur, gens>>,
         NEW g \in {"start", "caught", "before"}, w' = Look(g)
  PROVE  RestoreInv'
<1>1. TypeOK /\ w \in Workers /\ g \in Goals
  BY DEF RestoreInv, VouchInv, TypeOK, Goals
<1>2. w'.pc = "stat_snap" /\ w'.goal = g /\ w'.pos = NoPos /\ w'.opened = w.opened
  BY <1>1, LookType
<1>3. PosPart' /\ OpenedPart' /\ ReadPart'
  BY <1>2, PosStep, OpenedStep, ReadStep
<1> QED BY <1>3, SameStore DEF RestoreInv

LEMMA StartRestore ==
  ASSUME RestoreInv, VouchInv', Begin \/ Started \/ CaughtUp \/ LookedAgain \/ Decide
  PROVE  RestoreInv'
<1>1. TypeOK /\ PosPart /\ OpenedPart
  BY DEF RestoreInv, VouchInv
<1>2. UNCHANGED <<wal, snap, log, next, cur, gens>>
  BY <1>1, StartFields DEF Others, disk
<1>3. CASE w' = Idle
  BY <1>2, <1>3, IdleRestore
<1>4. CASE w' = Look("start") \/ w' = Look("caught") \/ w' = Look("before")
  BY <1>2, <1>4, LookRestore
<1>5. CASE /\ w.pc = "start" /\ w'.pc \in {"catch_up", "decide"} /\ w'.eye = w.eye
           /\ w'.goal = w.goal /\ w'.pos = w.pos /\ w'.opened = w.opened
  <2>1. w'.goal = "start"
    BY <1>1, <1>5 DEF PosPart
  <2>2. PosPart' /\ OpenedPart' /\ ReadPart'
    BY <1>2, <1>5, <2>1, PosStep, OpenedStep, ReadStep
  <2> QED BY <1>2, <2>2, SameStore DEF RestoreInv
<1>6. CASE /\ w.pc = "caught" /\ w'.pc = "position" /\ w'.goal = "decide"
           /\ w'.pos = w.pos /\ w'.opened = w.opened
  <2>1. PosPart' /\ OpenedPart' /\ ReadPart'
    BY <1>2, <1>6, PosStep, OpenedStep, ReadStep
  <2> QED BY <1>2, <2>1, SameStore DEF RestoreInv
<1>7. CASE /\ w.pc = "decide" /\ w'.pc = "open_snap" /\ w'.key = w.pos.key /\ w.pos.key.snap = w.disk.snap
           /\ w'.goal = w.goal /\ w'.disk = w.disk /\ w'.eye = w.eye /\ w'.pos = w.pos
           /\ w'.read = w.read /\ w'.opened = w.opened
  <2>1. Moved => Moved'
    BY <1>2, <1>7 DEF Moved
  <2>2. w'.key.snap = w'.disk.snap
    BY <1>7
  <2>3. PosPart' /\ OpenedPart' /\ ReadPart'
    BY <1>2, <1>7, <2>1, <2>2, PosStep, OpenedStep, ReadStep
  <2> QED BY <1>2, <2>3, SameStore DEF RestoreInv
<1> QED BY <1>1, <1>3, <1>4, <1>5, <1>6, <1>7, StartFields

LEMMA OpenRestore ==
  ASSUME RestoreInv, VouchInv', OpenSnapshot \/ OpenArchives \/ ReadFloor
  PROVE  RestoreInv'
<1>1. TypeOK /\ PosPart /\ OpenedPart /\ StorePart
  BY DEF RestoreInv, VouchInv
<1>2. UNCHANGED <<wal, snap, log, next, cur, gens>> /\ w'.disk = w.disk /\ w'.key = w.key /\ w'.read = w.read
  BY <1>1, OpenFields DEF Others, disk
<1>3. CASE /\ w.pc = "open_snap" /\ w'.pc = "open_arch"
           /\ w'.goal = w.goal /\ w'.pos = w.pos /\ w'.eye = w.eye
           /\ w'.opened.snap = snap.id /\ w'.opened.done = snap.done
  <2>1. Durable' = Durable
    BY <1>2, SameStore
  <2>2. Good(ToSet(w.opened.done))'
    BY <1>1, <1>2, <1>3, <2>1 DEF Good, Durable, StorePart
  <2>3. snap.id \in Nat /\ w'.opened.snap = snap'.id /\ w'.opened.done = snap'.done
    BY <1>1, <1>2, <1>3, Facts
  <2>4. OpenedPart'
    BY <1>1, <1>2, <1>3, <2>2, <2>3 DEF OpenedPart
  <2>5. Moved => Moved'
    BY <1>2, <1>3 DEF Moved
  <2>6. PosPart' /\ ReadPart'
    BY <1>2, <1>3, <2>5, PosStep, ReadStep
  <2> QED BY <1>2, <2>4, <2>6, SameStore DEF RestoreInv
<1>4. CASE /\ w.pc = "open_arch" /\ w'.pc = "open_floor"
           /\ w'.goal = w.goal /\ w'.pos = w.pos /\ w'.eye = w.eye
           /\ w'.opened.snap = w.opened.snap /\ w'.opened.done = w.opened.done
  <2>1. Moved => Moved'
    BY <1>2, <1>4 DEF Moved
  <2>2. w'.key.snap = w'.disk.snap
    BY <1>1, <1>2, <1>4 DEF OpenedPart
  <2>3. PosPart' /\ OpenedPart' /\ ReadPart'
    BY <1>2, <1>4, <2>1, <2>2, PosStep, OpenedStep, ReadStep
  <2> QED BY <1>2, <2>3, SameStore DEF RestoreInv
<1>5. CASE /\ w.pc = "open_floor" /\ w'.pc = "stat_snap" /\ w'.goal = "base" /\ w'.pos = NoPos
           /\ w'.opened.snap = w.opened.snap /\ w'.opened.done = w.opened.done
  <2>1. w'.key.snap = w'.disk.snap
    BY <1>1, <1>2, <1>5 DEF OpenedPart
  <2>2. PosPart' /\ OpenedPart' /\ ReadPart'
    BY <1>2, <1>5, <2>1, PosStep, OpenedStep, ReadStep
  <2> QED BY <1>2, <2>2, SameStore DEF RestoreInv
<1> QED BY <1>1, <1>3, <1>4, <1>5, OpenFields

\* A new generation starts with the snapshot of its key.
LEMMA UploadBaseRestore ==
  ASSUME RestoreInv, VouchInv', UploadBase
  PROVE  RestoreInv'
<1>1. TypeOK /\ PosPart /\ OpenedPart /\ StorePart /\ GensPart
  BY DEF RestoreInv, VouchInv
<1>2. UNCHANGED <<wal, snap, log, next>> /\ w.pc = "base"
  BY <1>1, UploadBaseFields DEF disk
<1>3. CASE w' = Idle /\ UNCHANGED <<cur, gens>>
  BY <1>2, <1>3, IdleRestore
<1>4. CASE /\ w.opened.snap = w.disk.snap /\ w.pos.key = w.key
           /\ w'.pc = "stat_snap" /\ w'.goal = "before" /\ w'.pos = NoPos /\ w'.opened = Idle.opened
           /\ cur'.key = w.pos.key /\ cur'.cursor = 0
           /\ Len(gens') = Len(gens) + 1
           /\ \A i \in 1..Len(gens) : gens'[i] = gens[i]
           /\ gens'[Len(gens')].base = w.opened.done /\ gens'[Len(gens')].segs = <<>>
  <2>1. w.goal = "base" /\ w.key.snap = w.disk.snap /\ w.pos.key.gen >= 1 /\ w.pos.key.gen \in Nat
    BY <1>1, <1>2, WorkerFacts DEF PosPart, OpenedPart
  <2>2. /\ Past(w.pos.key.wal) /\ w.pos.key.snap <= snap.id /\ w.pos.key.snap = w.opened.snap
        /\ w.opened.snap = snap.id => w.opened.done = snap.done
    BY <1>1, <1>4, <2>1 DEF PosPart, OpenedPart
  <2>3. Len(gens) \in Nat /\ gens' \in Seq(Points) /\ DOMAIN gens = 1..Len(gens)
    BY <1>1, WorkerFacts, UploadBaseFields
  <2>4. PICK n \in Nat : n = Len(gens)
    BY <2>3
  <2>5. Len(gens') = n + 1 /\ DOMAIN gens' = 1..(n + 1) /\ n + 1 > 0
    BY <1>4, <2>3, <2>4
  <2>6. Newest'.base = w.opened.done /\ Newest'.segs = <<>>
    BY <1>4 DEF Newest
  <2>7. CurPart'
    <3>1. Past(cur.key.wal)'
      BY <1>2, <1>4, <2>2 DEF Past
    <3>2. cur'.key.snap <= snap'.id /\ (cur'.key.snap = snap'.id => Newest'.base = snap'.done)
      BY <1>2, <1>4, <2>2, <2>6
    <3>3. 0 <= Len(wal'.frames) /\ SubSeq(wal'.frames, 1, 0) = <<>>
      BY <1>1, <1>2, Facts, WholeFacts
    <3> QED BY <1>4, <2>5, <2>6, <3>1, <3>2, <3>3 DEF CurPart
  <2>8. GensPart'
    <3>1. Durable' = Durable
      BY <1>2, SameStore
    <3>2. SUFFICES ASSUME NEW i \in 1..(n + 1) PROVE Good(Restored(gens[i]))'
      BY <2>5 DEF GensPart
    <3>3. CASE i \in 1..n
      <4>1. gens'[i] = gens[i] /\ Good(Restored(gens[i]))
        BY <1>1, <1>4, <2>3, <2>4, <3>3 DEF GensPart
      <4> QED BY <1>2, <3>1, <4>1 DEF Good, Restored
    <3>4. CASE i = n + 1
      <4>1. gens'[i].base = w.opened.done /\ gens'[i].segs = <<>>
        BY <1>4, <2>5, <3>4
      <4>2. ToSet(<<>>) = {}
        BY <1>1, StoreFacts
      <4>3. Good(ToSet(w.opened.done))
        BY <1>1 DEF OpenedPart
      <4>4. Restored(gens[i])' = ToSet(w.opened.done)
        BY <4>1, <4>2 DEF Restored
      <4> QED BY <1>2, <3>1, <4>3, <4>4 DEF Good
    <3> QED BY <2>4, <3>3, <3>4
  <2>9. PosPart'
    BY <1>2, <1>4, PosStep
  <2>10. OpenedPart'
    <3>1. w'.opened.snap = 0 /\ w'.opened.done = <<>>
      BY <1>4, IdleType
    <3>2. Good(ToSet(<<>>))'
      BY EmptyOpened
    <3>3. Good(ToSet(w.opened.done))'
      BY <3>1, <3>2 DEF Good
    <3> QED BY <1>4, <3>1, <3>3, EmptyOpened DEF OpenedPart
  <2>11. ReadPart'
    BY <1>4 DEF ReadPart
  <2> QED BY <1>2, <2>7, <2>8, <2>9, <2>10, <2>11, SameStore DEF RestoreInv
<1> QED BY <1>1, <1>3, <1>4, UploadBaseFields

\* What is below a durable position of the WAL, with its snapshot, is good.
LEMMA DurablePrefixGood ==
  ASSUME VouchInv, StorePart, NEW n \in Nat, n <= wal.synced
  PROVE  Good(ToSet(snap.done) \cup ToSet(SubSeq(wal.frames, 1, n)))
<1>1. TypeOK /\ wal.frames \in Seq(Nat) /\ Len(wal.frames) \in Nat /\ wal.synced \in Nat /\ n <= Len(wal.frames)
  BY Facts DEF VouchInv, FilePart
<1>2. ToSet(SubSeq(wal.frames, 1, n)) = {wal.frames[k] : k \in 1..n}
  BY <1>1, PrefixFacts
<1>3. PICK H : H = {wal.frames[k] : k \in 1..n}
  OBVIOUS
<1>4. \A k \in 1..n : k \in 1..wal.synced /\ k \in 1..Len(wal.frames)
  BY <1>1
<1>5. H \subseteq Durable /\ ToSet(snap.done) \subseteq Durable
  BY <1>3, <1>4, DurableFacts
<1>6. ASSUME NEW c \in ToSet(snap.done) \cup H, NEW d \in ToSet(log), d < c PROVE d \in ToSet(snap.done) \cup H
  <2>1. CASE c \in ToSet(snap.done) \/ d \in ToSet(snap.done)
    BY <1>6, <2>1 DEF StorePart
  <2>2. CASE c \in H /\ d \in ToSet(wal.frames)
    <3>1. PICK a \in 1..n : c = wal.frames[a]
      BY <1>3, <2>2
    <3>2. PICK b \in 1..Len(wal.frames) : d = wal.frames[b]
      BY <1>1, <2>2, StoreFacts
    <3>3. a \in DOMAIN wal.frames /\ b \in DOMAIN wal.frames /\ c \in Nat /\ d \in Nat
      BY <1>1, <1>4, <3>1, <3>2
    <3>4. ~(a < b) /\ a # b
      BY <1>6, <3>1, <3>2, <3>3 DEF StorePart, Grows
    <3>5. b \in 1..n
      BY <1>1, <3>4
    <3> QED BY <1>3, <3>2, <3>5
  <2> QED BY <1>6, <2>1, <2>2 DEF StorePart
<1> QED BY <1>2, <1>3, <1>5, <1>6 DEF Good

\* Two parts of a sequence, one after the other.
LEMMA PartsJoin ==
  ASSUME NEW s \in Seq(Nat), NEW m \in Nat, NEW n \in Nat, m <= n, n <= Len(s)
  PROVE  /\ SubSeq(s, 1, m) \o SubSeq(s, m + 1, n) = SubSeq(s, 1, n)
         /\ ToSet(SubSeq(s, 1, m)) \cup ToSet(SubSeq(s, m + 1, n)) = ToSet(SubSeq(s, 1, n))
<1>0. Len(s) \in Nat /\ m <= Len(s)
  <2>1. Len(s) \in Nat
    OBVIOUS
  <2> QED BY <2>1
<1>1. PICK a, b, c : a = SubSeq(s, 1, m) /\ b = SubSeq(s, m + 1, n) /\ c = SubSeq(s, 1, n)
  OBVIOUS
<1>2. a \in Seq(Nat) /\ Len(a) = m /\ (\A k \in 1..m : a[k] = s[k]) /\ ToSet(a) = {s[k] : k \in 1..m}
  BY <1>0, <1>1, PrefixFacts
<1>3. b \in Seq(Nat) /\ Len(b) = n - m /\ (\A k \in 1..(n - m) : b[k] = s[m + k]) /\ ToSet(b) = {s[k] : k \in (m + 1)..n}
  BY <1>0, <1>1, SubSeqFacts
<1>4. c \in Seq(Nat) /\ Len(c) = n /\ (\A k \in 1..n : c[k] = s[k]) /\ ToSet(c) = {s[k] : k \in 1..n}
  BY <1>0, <1>1, PrefixFacts
<1>5. PICK d : d = a \o b
  OBVIOUS
<1>6. d \in Seq(Nat) /\ Len(d) = Len(a) + Len(b) /\ \A k \in 1..Len(a) + Len(b) : d[k] = IF k <= Len(a) THEN a[k] ELSE b[k - Len(a)]
  BY <1>2, <1>3, <1>5, ConcatProperties
<1>7. Len(d) = n
  BY <1>2, <1>3, <1>6
<1>8. ASSUME NEW k \in 1..n PROVE d[k] = c[k]
  <2>1. CASE k <= m
    <3>1. k \in 1..m /\ k \in 1..Len(a) + Len(b) /\ k <= Len(a)
      BY <1>2, <1>3, <2>1
    <3>2. d[k] = a[k]
      BY <1>6, <3>1
    <3> QED BY <1>2, <1>4, <3>1, <3>2
  <2>2. CASE ~(k <= m)
    <3>1. PICK j \in 1..(n - m) : j = k - m /\ m + j = k
      BY <2>2
    <3>2. d[k] = b[j]
      <4>1. Len(a) + Len(b) = n
        BY ONLY <1>2, <1>3, m \in Nat, n \in Nat
      <4>2. k \in 1..Len(a) + Len(b) /\ ~(k <= Len(a)) /\ k - Len(a) = j
        BY ONLY <1>2, <1>8, <2>2, <3>1, <4>1
      <4>3. d[k] = IF k <= Len(a) THEN a[k] ELSE b[k - Len(a)]
        BY ONLY <1>6, <4>2
      <4> QED BY ONLY <4>2, <4>3
    <3> QED BY <1>3, <1>4, <3>1, <3>2
  <2> QED BY <2>1, <2>2
<1>9. d = c
  BY <1>4, <1>6, <1>7, <1>8, SeqEqual
<1>10. \A k \in 1..n : k \in 1..m \/ k \in (m + 1)..n
  OBVIOUS
<1>11. (\A k \in 1..m : k \in 1..n) /\ (\A k \in (m + 1)..n : k \in 1..n)
  OBVIOUS
<1>12. ToSet(a) \cup ToSet(b) = ToSet(c)
  BY <1>2, <1>3, <1>4, <1>10, <1>11
<1> QED BY <1>1, <1>5, <1>9, <1>12

\* A read of the frames above the cursor goes on from the generation if the files
\* are still the key's; if they are not, the next look sees it.
LEMMA ReadSegmentRestore ==
  ASSUME RestoreInv, VouchInv', ReadSegment
  PROVE  RestoreInv'
<1>1. TypeOK /\ VouchInv /\ PosPart /\ OpenedPart /\ StorePart /\ CurPart
  BY DEF RestoreInv, VouchInv
<1>2. UNCHANGED <<wal, snap, log, next, cur, gens>> /\ w.pc = "before"
  BY <1>1, ReadSegmentFields DEF Others, disk
<1>3. CASE w' = Idle
  BY <1>2, <1>3, IdleRestore
<1>4. CASE /\ w.eye.snap = cur.key.snap /\ w.eye.wal = cur.key.wal
           /\ w.pos.key = cur.key /\ w.pos.len > cur.cursor
           /\ w'.pc = "stat_snap" /\ w'.goal = "after" /\ w'.pos = NoPos
           /\ w'.disk = w.eye /\ w'.opened = w.opened
           /\ w'.read = SubSeq(wal.frames, cur.cursor + 1,
                               IF w.pos.len < Len(wal.frames) THEN w.pos.len ELSE Len(wal.frames))
  <2>1. PosPart' /\ OpenedPart'
    BY <1>2, <1>4, PosStep, OpenedStep
  <2>2. PICK c \in Nat, l \in Nat : c = cur.cursor /\ l = w.pos.len /\ c < l
    BY <1>1, <1>4, WorkerFacts
  <2>3. cur.key.gen # 0 /\ cur.key.wal # 0
    <3>1. w.pos.key.gen >= 1 /\ (w.pos.key.wal = 0 => l = 0)
      BY <1>1, <1>2, <2>2 DEF PosPart
    <3>2. cur.key.gen \in Nat /\ w.pos.key = cur.key
      BY <1>1, <1>4, WorkerFacts
    <3> QED BY <2>2, <3>1, <3>2
  <2>4. w'.disk.snap = cur'.key.snap /\ w'.disk.wal = cur'.key.wal
    BY <1>2, <1>4
  <2>5. CASE snap.id # cur.key.snap \/ wal.ino # cur.key.wal
    <3>1. Moved'
      BY <1>2, <1>4, <2>5 DEF Moved
    <3>2. ReadPart'
      BY <1>2, <2>3, <2>4, <3>1 DEF ReadPart
    <3> QED BY <1>2, <2>1, <3>2, SameStore DEF RestoreInv
  <2>6. CASE snap.id = cur.key.snap /\ wal.ino = cur.key.wal
    <3>1. PICK f \in Seq(Nat) : f = wal.frames /\ Len(f) \in Nat
      BY <1>1, Facts
    <3>2. l <= wal.synced /\ l <= Len(f)
      <4>1. l <= wal.synced /\ wal.synced <= Len(f) /\ wal.synced \in Nat
        BY <1>1, <1>4, <2>2, <2>6, <3>1, Facts DEF PosPart, VouchInv, FilePart
      <4> QED BY <2>2, <3>1, <4>1
    <3>3. w'.read = SubSeq(f, c + 1, l)
      <4>1. PICK m \in {l, Len(f)} : m = IF l < Len(f) THEN l ELSE Len(f)
        BY <2>2, <3>1
      <4>2. m = l
        BY <2>2, <3>1, <3>2, <4>1
      <4>3. w'.read = SubSeq(f, c + 1, m)
        BY <1>4, <2>2, <3>1, <4>1
      <4> QED BY <4>2, <4>3
    <3>4. c <= l /\ c \in Nat /\ l \in Nat
      BY <2>2
    <3>5. Len(w'.read) = l - c
      BY <3>1, <3>2, <3>3, <3>4, SubSeqFacts
    <3>6. Newest.base = snap.done /\ Newest.segs = SubSeq(f, 1, c)
      BY <1>1, <2>2, <2>3, <2>6, <3>1 DEF CurPart
    <3>7. ToSet(SubSeq(f, 1, c)) \cup ToSet(SubSeq(f, c + 1, l)) = ToSet(SubSeq(f, 1, l))
      BY ONLY f \in Seq(Nat), <3>2, <3>4, PartsJoin
    <3>8. Restored(Newest) \cup ToSet(w'.read) = ToSet(snap.done) \cup ToSet(SubSeq(f, 1, l))
      BY <3>3, <3>6, <3>7 DEF Restored
    <3>9. PICK S : S = ToSet(snap.done) \cup ToSet(SubSeq(f, 1, l)) /\ Good(S)
      BY <1>1, <2>2, <3>1, <3>2, DurablePrefixGood
    <3>10. Good(S)'
      BY <1>2, <3>9, SameStore
    <3>11. Newest' = Newest
      BY <1>2 DEF Newest
    <3>12. Good(Restored(Newest) \cup ToSet(w.read))'
      BY <3>8, <3>9, <3>10, <3>11 DEF Good, Restored
    <3>13. c + Len(w'.read) = l
      BY <3>4, <3>5
    <3>14. GoesWith'
      BY <1>2, <2>2, <3>1, <3>2, <3>3, <3>12, <3>13 DEF GoesWith
    <3>15. ReadPart'
      BY <1>2, <2>3, <2>4, <3>14 DEF ReadPart
    <3> QED BY <1>2, <2>1, <3>15, SameStore DEF RestoreInv
  <2> QED BY <2>5, <2>6
<1> QED BY <1>1, <1>3, <1>4, ReadSegmentFields

LEMMA PutSegmentRestore ==
  ASSUME RestoreInv, VouchInv', PutSegment
  PROVE  RestoreInv'
<1>1. TypeOK /\ VouchInv /\ PosPart /\ OpenedPart /\ StorePart /\ CurPart /\ ReadPart /\ GensPart
  BY DEF RestoreInv, VouchInv
<1>2. UNCHANGED <<wal, snap, log, next>> /\ w.pc = "after"
  BY <1>1, PutSegmentFields DEF disk
<1>3. CASE w' = Idle /\ UNCHANGED <<cur, gens>>
  BY <1>2, <1>3, IdleRestore
<1>4. CASE /\ w.eye.snap = w.disk.snap /\ w.eye.wal = w.disk.wal
           /\ w'.pc = "stat_snap" /\ w'.goal = "before" /\ w'.pos = NoPos /\ w'.opened = w.opened
           /\ cur'.key = cur.key /\ cur'.cursor = cur.cursor + Len(w.read)
           /\ Len(gens') = Len(gens)
           /\ \A i \in 1..Len(gens) : i # Len(gens) => gens'[i] = gens[i]
           /\ Len(gens) > 0 => /\ gens'[Len(gens)].base = gens[Len(gens)].base
                               /\ gens'[Len(gens)].segs = gens[Len(gens)].segs \o w.read
  <2>1. w.goal = "after" /\ w.disk.snap = cur.key.snap /\ w.disk.wal = cur.key.wal /\ cur.key.gen # 0 /\ cur.key.wal # 0
    BY <1>1, <1>2 DEF PosPart, ReadPart
  <2>2. ~Moved
    BY <1>2, <1>4, <2>1 DEF Moved
  <2>3. GoesWith
    BY <1>1, <2>1, <2>2 DEF ReadPart
  <2>4. Len(gens) > 0 /\ Len(gens) \in Nat /\ DOMAIN gens = 1..Len(gens) /\ gens' \in Seq(Points)
    BY <1>1, <2>1, WorkerFacts, PutSegmentFields DEF CurPart
  <2>5. Newest'.base = Newest.base /\ Newest'.segs = Newest.segs \o w.read
    BY <1>4, <2>4 DEF Newest
  <2>6. Newest \in Points
    BY <2>4, <1>1, WorkerFacts DEF Newest
  <2>7. Newest.segs \in Seq(Nat) /\ w.read \in Seq(Nat)
    BY <1>1, <2>6, WorkerFacts DEF Points
  <2>8. ToSet(Newest.segs \o w.read) = ToSet(Newest.segs) \cup ToSet(w.read)
    <3>1. PICK a \in Seq(Nat), b \in Seq(Nat) : a = Newest.segs /\ b = w.read
      BY <2>7
    <3>2. ToSet(a \o b) = ToSet(a) \cup ToSet(b)
      BY JoinSet
    <3> QED BY <3>1, <3>2
  <2>9. Restored(Newest)' = Restored(Newest) \cup ToSet(w.read)
    BY <2>5, <2>8 DEF Restored
  <2>10. Durable' = Durable
    BY <1>2, SameStore
  <2>11. GensPart'
    <3>1. DOMAIN gens' = 1..Len(gens)
      BY <1>4, <2>4
    <3>2. SUFFICES ASSUME NEW i \in 1..Len(gens) PROVE Good(Restored(gens[i]))'
      BY <3>1 DEF GensPart
    <3>3. CASE i # Len(gens)
      <4>1. gens'[i] = gens[i] /\ Good(Restored(gens[i]))
        BY <1>1, <1>4, <2>4, <3>3 DEF GensPart
      <4> QED BY <1>2, <2>10, <4>1 DEF Good, Restored
    <3>4. CASE i = Len(gens)
      <4>1. gens'[i] = Newest'
        BY <1>4, <3>4 DEF Newest
      <4>2. PICK S : S = Restored(Newest) \cup ToSet(w.read) /\ Good(S)
        BY <2>3 DEF GoesWith
      <4>3. Restored(gens[i])' = S
        BY <2>9, <4>1, <4>2 DEF Restored
      <4> QED BY <1>2, <2>10, <4>2, <4>3 DEF Good
    <3> QED BY <3>3, <3>4
  <2>12. CurPart'
    <3>1. PICK c \in Nat, l \in Nat : c = cur.cursor /\ l = Len(w.read)
      BY <1>1, WorkerFacts
    <3>2. PICK f \in Seq(Nat) : f = wal.frames /\ Len(f) \in Nat
      BY <1>1, Facts
    <3>3. PICK n \in Nat : n = c + l /\ c <= n
      BY <3>1
    <3>4. cur'.cursor = n /\ wal'.frames = f
      BY <1>2, <1>4, <3>1, <3>2, <3>3
    <3>5. ASSUME cur.key.snap = snap.id, cur.key.wal = wal.ino
          PROVE  n <= Len(f) /\ Newest'.segs = SubSeq(f, 1, n)
      <4>1. n <= Len(f) /\ w.read = SubSeq(f, c + 1, n)
        BY <2>3, <3>1, <3>2, <3>3, <3>5 DEF GoesWith
      <4>2. Newest.segs = SubSeq(f, 1, c)
        BY <1>1, <2>1, <3>1, <3>2, <3>5 DEF CurPart
      <4>3. SubSeq(f, 1, c) \o SubSeq(f, c + 1, n) = SubSeq(f, 1, n)
        BY <3>1, <3>2, <3>3, <4>1, PartsJoin
      <4> QED BY <2>5, <4>1, <4>2, <4>3
    <3>6. Past(cur.key.wal)' /\ cur'.key.snap <= snap'.id
      BY <1>1, <1>2, <1>4 DEF CurPart, Past
    <3>7. cur'.key.snap = snap'.id => Newest'.base = snap'.done
      BY <1>1, <1>2, <1>4, <2>1, <2>5 DEF CurPart
    <3>8. Len(gens') > 0
      BY <1>4, <2>4
    <3> QED BY <1>2, <1>4, <2>1, <3>4, <3>5, <3>6, <3>7, <3>8 DEF CurPart
  <2>13. PosPart' /\ OpenedPart'
    BY <1>2, <1>4, PosStep, OpenedStep
  <2>14. ReadPart'
    BY <1>4 DEF ReadPart
  <2> QED BY <1>2, <2>11, <2>12, <2>13, <2>14, SameStore DEF RestoreInv
<1> QED BY <1>1, <1>3, <1>4, PutSegmentFields

LEMMA RestoreInit ==
  ASSUME Init PROVE RestoreInv
<1>1. VouchInv /\ TypeOK
  BY VouchInit, TypeInit
<1>2. /\ w.pc = "idle" /\ w.goal = "idle" /\ w.pos.key.wal = 0 /\ w.pos.key.snap = 0 /\ w.pos.len = 0
      /\ w.opened.snap = 0 /\ w.opened.done = <<>>
      /\ cur.key.wal = 0 /\ cur.key.snap = 0 /\ cur.key.gen = 0
  BY IdleType DEF Init, NoPos, NoKey, NoCur
<1>3. /\ log = <<>> /\ gens = <<>> /\ wal.ino = 1 /\ wal.frames = <<>> /\ wal.synced = 0
      /\ snap.id = 0 /\ snap.done = <<>>
  BY DEF Init
<1>4. ToSet(<<>>) = {} /\ Grows(<<>>)
  BY <1>1, StoreFacts
<1>5. StorePart
  BY <1>3, <1>4 DEF StorePart
<1>6. PosPart /\ CurPart /\ ReadPart
  BY <1>2, <1>3 DEF PosPart, CurPart, ReadPart, Past
<1>7. OpenedPart
  BY <1>2, <1>3, <1>4 DEF OpenedPart, Good
<1>8. GensPart
  BY <1>3 DEF GensPart
<1> QED BY <1>1, <1>5, <1>6, <1>7, <1>8 DEF RestoreInv

LEMMA WorkerStepRestore ==
  ASSUME RestoreInv, VouchInv', WorkerStep PROVE RestoreInv'
<1>1. TypeOK /\ VouchInv /\ StorePart
  BY DEF RestoreInv, VouchInv
<1>2. CASE VouchSync
  <2>1. StorePart' /\ FilesGoOn /\ StoreGoesOn
    BY <1>1, <1>2, VouchSyncGoesOn
  <2>2. UNCHANGED <<cur, gens>>
    BY <1>2 DEF VouchSync
  <2> QED BY <1>1, <1>2, <2>1, <2>2, VouchSyncFields, StoreStepRestore
<1>3. CASE CatchUp
  <2>1. UNCHANGED <<wal, snap, log, next, cur, gens>>
    BY <1>3 DEF CatchUp, disk
  <2>2. StorePart' /\ FilesGoOn /\ StoreGoesOn
    BY <1>1, <2>1, SameFiles
  <2> QED BY <1>1, <1>3, <2>1, <2>2, CatchUpFields, StoreStepRestore
<1> QED BY <1>2, <1>3, StatRestore, TakePositionRestore, StartRestore, OpenRestore, UploadBaseRestore,
        ReadSegmentRestore, PutSegmentRestore DEF WorkerStep

LEMMA RestoreStep ==
  ASSUME RestoreInv, [Next]_vars PROVE RestoreInv'
<1>1. TypeOK /\ VouchInv /\ StorePart
  BY DEF RestoreInv, VouchInv
<1>2. VouchInv'
  BY <1>1, VouchStep
<1>3. CASE /\ UNCHANGED <<wal, snap, log, next, w, cur, gens>>
  <2>1. StorePart' /\ FilesGoOn /\ StoreGoesOn
    BY <1>1, <1>3, SameFiles
  <2> QED BY <1>2, <1>3, <2>1, StoreStepRestore
<1>4. CASE \E p \in world.policies : OwnCommit(p) \/ PeerCommit(p)
  <2>1. PICK p : Commit(p) /\ UNCHANGED <<snap, w, cur, gens>>
    BY <1>4 DEF OwnCommit, PeerCommit, worker
  <2>2. StorePart' /\ FilesGoOn /\ StoreGoesOn
    BY <1>1, <1>2, <2>1, CommitGoesOn
  <2> QED BY <1>2, <2>1, <2>2, StoreStepRestore
<1>5. CASE WriteSnapshot
  <2>1. StorePart' /\ FilesGoOn /\ StoreGoesOn
    BY <1>1, <1>2, <1>5, WriteSnapshotGoesOn
  <2> QED BY <1>2, <1>5, <2>1, StoreStepRestore DEF WriteSnapshot, worker
<1>6. CASE ArchiveWal \/ ReplaceWal
  <2>1. StorePart' /\ FilesGoOn /\ StoreGoesOn
    BY <1>1, <1>2, <1>6, WalStepGoesOn
  <2> QED BY <1>2, <1>6, <2>1, StoreStepRestore DEF ArchiveWal, ReplaceWal, worker
<1>7. CASE ServerKilled
  <2>1. StorePart' /\ StoreGoesOn
    BY <1>1, <1>7, SameFiles DEF ServerKilled, disk
  <2> QED BY <1>2, <1>7, <2>1, CrashRestore DEF ServerKilled
<1>8. CASE PowerLoss
  <2>1. StorePart' /\ StoreGoesOn
    BY <1>1, <1>2, <1>8, PowerLossGoesOn
  <2> QED BY <1>2, <1>8, <2>1, CrashRestore DEF PowerLoss
<1>9. CASE \/ UNCHANGED vars \/ ReadRefreshes \/ WriteRefreshes \/ LoadWal \/ LoadIdent
           \/ WriteFloor \/ DeleteArchives \/ EmptyIntent \/ FinishSnapshot \/ PeerKilled
  <2>1. UNCHANGED <<wal, snap, log, next, w, cur, gens>>
    BY <1>9 DEF vars, disk, worker, ReadRefreshes, WriteRefreshes, LoadWal, LoadIdent, WriteFloor, DeleteArchives,
                EmptyIntent, FinishSnapshot, PeerKilled
  <2> QED BY <1>3, <2>1
<1>10. CASE \E by \in world.snappers, mode \in Modes : BeginSnapshot(by, mode)
  <2>1. UNCHANGED <<wal, snap, log, next, w, cur, gens>>
    BY <1>10 DEF BeginSnapshot, worker
  <2> QED BY <1>3, <2>1
<1>11. CASE WorkerStep
  BY <1>2, <1>11, WorkerStepRestore
<1> QED BY <1>4, <1>5, <1>6, <1>7, <1>8, <1>9, <1>10, <1>11 DEF Next, SnapshotStep

\* Every restore point of the bucket is a prefix of the store, after any crashes: the
\* snapshot and the segments uploaded belong together although the worker takes no
\* lock (upload_base, ship_segments, DiskState::unchanged_until).
THEOREM BackupsArePrefixes == Spec => []RestoresPrefix
<1>1. RestoreInv => RestoresPrefix
  <2>1. SUFFICES ASSUME RestoreInv, NEW i \in DOMAIN gens
                 PROVE  \E n \in 0..Len(log) : Restored(gens[i]) = ToSet(SubSeq(log, 1, n))
    BY DEF RestoresPrefix
  <2>2. VouchInv /\ TypeOK /\ StorePart /\ GensPart
    BY <2>1 DEF RestoreInv, VouchInv
  <2>3. Good(Restored(gens[i])) /\ Durable \subseteq ToSet(log)
    BY <2>2, DurableFacts DEF GensPart
  <2>4. PICK S \in SUBSET ToSet(log) : S = Restored(gens[i]) /\ \A c \in S, d \in ToSet(log) : d < c => d \in S
    BY <2>3 DEF Good
  <2>5. log \in Seq(Nat) /\ Grows(log)
    BY <2>2, StoreFacts DEF StorePart
  <2>6. \E n \in 0..Len(log) : S = ToSet(SubSeq(log, 1, n))
    BY <2>4, <2>5, FirstIsPrefix
  <2> QED BY <2>4, <2>6
<1>2. Init => RestoreInv
  BY RestoreInit
<1>3. RestoreInv /\ [Next]_vars => RestoreInv'
  BY RestoreStep
<1> QED BY <1>1, <1>2, <1>3, PTL DEF Spec

-----------------------------------------------------------------------------
(* The numbers of the commits.                                             *)

LEMMA NumFacts ==
  ASSUME TypeOK
  PROVE  /\ floor \in Nat /\ arch \in Nat /\ Len(log) \in Nat /\ Len(wal.frames) \in Nat /\ Len(snap.done) \in Nat
         /\ snap.id \in Nat /\ intent \in Intents
         /\ job.pc \in {"none", "snapshot", "floor", "archive", "replace", "prune", "empty", "finish"}
         /\ log \in Seq(Nat) /\ wal.frames \in Seq(Nat)
<1>1. log \in Seq(Nat) /\ wal.frames \in Seq(Nat) /\ snap.done \in Seq(Nat) /\ floor \in Nat /\ arch \in Nat /\ snap.id \in Nat
  BY Facts
<1>2. Len(log) \in Nat /\ Len(wal.frames) \in Nat /\ Len(snap.done) \in Nat
  BY <1>1
<1>3. job \in Jobs /\ intent \in Intents
  BY DEF TypeOK
<1>4. job.pc \in {"none", "snapshot", "floor", "archive", "replace", "prune", "empty", "finish"}
  BY <1>3, JobFacts
<1> QED BY <1>1, <1>2, <1>3, <1>4

\* The log, the WAL and the snapshot are as they were.
LEMMA SameNum ==
  ASSUME RestoreInv, NumPart, UNCHANGED <<log, snap, floor, arch>>, wal'.frames = wal.frames,
         Calm => Calm', Steady', Steady,
         job'.pc \in {"floor", "archive", "replace", "prune", "empty"} => intent' # NoIntent,
         job'.pc = "snapshot" /\ job'.mode # "keep" => intent' # NoIntent
  PROVE  NumPart' /\ NumbersGoOn
<1>1. TypeOK
  BY DEF RestoreInv, VouchInv
<1>2. NumPart'
  BY DEF NumPart
<1>3. NumbersGoOn
  BY <1>1, NumFacts DEF NumbersGoOn
<1> QED BY <1>2, <1>3

LEMMA UnchangedNum ==
  ASSUME RestoreInv, NumPart, UNCHANGED <<log, snap, floor, arch, intent, job>>, wal'.frames = wal.frames
  PROVE  NumPart' /\ NumbersGoOn
<1>1. TypeOK
  BY DEF RestoreInv, VouchInv
<1>2. (Calm <=> Calm') /\ (Steady <=> Steady')
  BY DEF Calm, Steady
<1>3. NumPart'
  BY <1>2 DEF NumPart
<1>4. NumbersGoOn
  BY <1>1, <1>2, NumFacts DEF NumbersGoOn
<1> QED BY <1>3, <1>4

LEMMA CommitNum ==
  ASSUME RestoreInv, NumPart, NEW p, Commit(p), UNCHANGED <<snap, floor, arch, job>>
  PROVE  NumPart' /\ NumbersGoOn
<1>1. TypeOK
  BY DEF RestoreInv, VouchInv
<1>2. job'.pc = "none" /\ job.pc = "none" /\ Steady /\ Steady' /\ Calm /\ Calm'
  BY <1>1, CommitFields DEF Steady, Calm
<1>3. PICK f \in Seq(Nat), l \in Seq(Nat), e \in Nat : f = wal.frames /\ l = log /\ e = next
  BY <1>1, Facts
<1>4. wal'.frames = Append(f, e) /\ log' = Append(l, e)
  BY <1>1, <1>3, CommitFields DEF Commit
<1>5. PICK n \in Nat, m \in Nat, b \in Nat : n = Len(f) /\ m = Len(l) /\ b = floor + arch
  BY <1>1, <1>3, NumFacts
<1>6. m = b + n /\ (\A k \in 1..n : f[k] = l[b + k]) /\ b <= Len(snap.done)
  BY <1>2, <1>3, <1>5 DEF NumPart
<1>7. PICK g, h : g = Append(f, e) /\ h = Append(l, e)
  OBVIOUS
<1>8. /\ Len(g) = n + 1 /\ (\A k \in 1..n : g[k] = f[k]) /\ g[n + 1] = e
      /\ Len(h) = m + 1 /\ (\A k \in 1..m : h[k] = l[k]) /\ h[m + 1] = e
  BY <1>3, <1>5, <1>7
<1>9. ASSUME NEW k \in 1..(n + 1) PROVE g[k] = h[b + k]
  <2>1. CASE k \in 1..n
    <3>1. b + k \in 1..m
      BY <1>6, <2>1
    <3> QED BY <1>6, <1>8, <2>1, <3>1
  <2>2. CASE k = n + 1
    <3>1. b + k = m + 1
      BY <1>6, <2>2
    <3> QED BY <1>8, <2>2, <3>1
  <2> QED BY <2>1, <2>2
<1>10. Len(h) = b + Len(g)
  BY <1>6, <1>8
<1>11. wal'.frames = g /\ log' = h /\ floor' + arch' = b /\ snap'.done = snap.done
  BY <1>4, <1>5, <1>7
<1>12. NumPart'
  BY <1>2, <1>6, <1>8, <1>9, <1>10, <1>11 DEF NumPart
<1>13. Len(log) <= Len(log') /\ \A k \in 1..Len(log) : log'[k] = log[k]
  <2>1. Len(log) = m /\ Len(log') = m + 1
    BY <1>3, <1>5, <1>8, <1>11
  <2>2. \A k \in 1..m : log'[k] = log[k]
    BY <1>3, <1>8, <1>11
  <2>3. m <= m + 1
    BY <1>5
  <2> QED BY <2>1, <2>2, <2>3
<1>14. NumbersGoOn
  BY <1>1, <1>2, <1>13, NumFacts DEF NumbersGoOn
<1> QED BY <1>12, <1>14

LEMMA BeginSnapshotNum ==
  ASSUME RestoreInv, NumPart, NEW by \in world.snappers, NEW mode \in Modes, BeginSnapshot(by, mode)
  PROVE  NumPart' /\ NumbersGoOn
<1>1. TypeOK
  BY DEF RestoreInv, VouchInv
<1>2. UNCHANGED <<log, snap, wal, floor, arch>> /\ job = NoJob /\ job'.pc = "snapshot" /\ job'.mode = mode
  BY DEF BeginSnapshot
<1>3. job.pc = "none"
  BY <1>2 DEF NoJob
<1>4. mode # "keep" => intent' # NoIntent
  <2>1. PICK k \in Nat : k = snap.id + 1 /\ k # 0
    BY <1>1, NumFacts
  <2>2. mode # "keep" => intent'.snap = k
    BY <2>1 DEF BeginSnapshot
  <2> QED BY <2>1, <2>2 DEF NoIntent
<1>5. Calm /\ Calm' /\ Steady /\ Steady'
  BY <1>2, <1>3 DEF Calm, Steady
<1> QED BY <1>2, <1>4, <1>5, SameNum

LEMMA WriteSnapshotNum ==
  ASSUME RestoreInv, NumPart, WriteSnapshot
  PROVE  NumPart' /\ NumbersGoOn
<1>1. TypeOK
  BY DEF RestoreInv, VouchInv
<1>2. UNCHANGED <<log, wal, floor, arch, intent>> /\ job.pc = "snapshot" /\ snap'.id = snap.id + 1 /\ snap'.done = log
  BY DEF WriteSnapshot
<1>3. /\ job'.by = job.by /\ job'.mode = job.mode /\ job.mode \in {"truncate", "archive", "keep"}
      /\ job.mode = "keep" => job'.pc = "finish"
      /\ job.mode = "archive" => job'.pc = "archive"
      /\ job.mode = "truncate" => job'.pc = "floor"
  <2>1. PICK q : q = CASE job.mode = "keep" -> "finish"
                       [] job.mode = "archive" -> "archive"
                       [] job.mode = "truncate" -> "floor"
    OBVIOUS
  <2>2. job' = [job EXCEPT !.pc = q]
    BY <2>1 DEF WriteSnapshot
  <2>3. job.mode \in {"truncate", "archive", "keep"}
    BY <1>1, <1>2, JobStepFields
  <2>4. /\ job.mode = "keep" => q = "finish"
        /\ job.mode = "archive" => q = "archive"
        /\ job.mode = "truncate" => q = "floor"
    BY <2>1
  <2> QED BY <1>1, <2>2, <2>3, <2>4, JobStepFields
<1>4. Steady /\ Steady'
  BY <1>2, <1>3 DEF Steady
<1>5. PICK k \in Nat : k = snap.id /\ snap'.id = k + 1
  BY <1>1, <1>2, NumFacts
<1>6. snap.id <= snap'.id /\ snap'.id # snap.id /\ snap'.id # 0
  BY <1>5
<1>7. floor + arch <= Len(log)
  <2>1. PICK b \in Nat, n \in Nat : b = floor + arch /\ n = Len(wal.frames)
    BY <1>1, NumFacts
  <2>2. Len(log) = b + n
    BY <1>4, <2>1 DEF NumPart
  <2> QED BY <2>1, <2>2
<1>8. NumPart'
  BY <1>2, <1>3, <1>4, <1>6, <1>7 DEF NumPart
<1>9. NumbersGoOn
  BY <1>1, <1>2, <1>6, NumFacts DEF NumbersGoOn
<1> QED BY <1>8, <1>9

\* The floor and the archives, while the snapshot covers the WAL.
LEMMA CoveredNum ==
  ASSUME RestoreInv, NumPart, WriteFloor \/ ArchiveWal \/ ReplaceWal \/ DeleteArchives
  PROVE  NumPart' /\ NumbersGoOn
<1>1. TypeOK /\ JobPart /\ FilePart
  BY DEF RestoreInv, VouchInv
<1>2. PICK a \in Nat, b \in Nat, n \in Nat, m \in Nat : a = arch /\ b = floor /\ n = Len(wal.frames) /\ m = Len(log)
  BY <1>1, NumFacts
<1>3. UNCHANGED <<log, snap>> /\ job.pc \in {"floor", "archive", "replace", "prune"} /\ intent' = intent /\ intent # NoIntent
  BY DEF WriteFloor, ArchiveWal, ReplaceWal, DeleteArchives, NumPart
<1>4. ~Calm
  BY <1>3 DEF Calm
<1>5. NumbersGoOn
  BY <1>1, <1>3, <1>4, NumFacts DEF NumbersGoOn
<1>6. snap.id # 0
  BY <1>4 DEF NumPart
<1>7. CASE WriteFloor
  <2>1. job.pc = "floor" /\ floor' = floor + arch + Len(wal.frames) /\ job' = [job EXCEPT !.pc = "replace"]
    BY <1>7 DEF WriteFloor
  <2>2. job'.pc = "replace" /\ job'.mode = "truncate" /\ Steady /\ ~Steady' /\ snap.done = log
    BY <1>1, <2>1, JobStepFields DEF JobPart, Steady
  <2>3. floor' = Len(log)
    BY <1>2, <2>1, <2>2 DEF NumPart
  <2> QED BY <1>3, <1>5, <1>6, <2>2, <2>3 DEF NumPart
<1>8. CASE ArchiveWal /\ wal.frames = <<>>
  <2>1. job.pc = "archive" /\ UNCHANGED <<wal, arch, floor>> /\ job' = [job EXCEPT !.pc = "empty"]
    BY <1>8 DEF ArchiveWal
  <2>2. job'.pc = "empty" /\ Steady /\ Steady'
    BY <1>1, <2>1, JobStepFields DEF Steady
  <2> QED BY <1>3, <1>4, <2>1, <2>2, SameNum
<1>9. CASE ArchiveWal /\ wal.frames # <<>>
  <2>1. job.pc = "archive" /\ floor' = floor /\ arch' = arch + Len(wal.frames) /\ wal'.frames = <<>>
        /\ job' = [job EXCEPT !.pc = "replace"]
    BY <1>9 DEF ArchiveWal
  <2>2. job'.pc = "replace" /\ job'.mode = "archive" /\ Steady /\ Steady' /\ snap.done = log
    BY <1>1, <2>1, JobStepFields DEF JobPart, Steady
  <2>3. m = b + a + n
    BY <1>2, <2>2 DEF NumPart
  <2>4. floor' + arch' = m /\ Len(wal'.frames) = 0
    BY <1>1, <1>2, <2>1, <2>3, Facts
  <2>5. Len(log') = floor' + arch' + Len(wal'.frames) /\ floor' + arch' <= Len(snap'.done)
    BY <1>2, <1>3, <2>2, <2>4
  <2>6. \A k \in 1..Len(wal'.frames) : wal'.frames[k] = log'[floor' + arch' + k]
    BY <2>4
  <2> QED BY <1>3, <1>5, <1>6, <2>2, <2>5, <2>6 DEF NumPart
<1>10. CASE ReplaceWal
  <2>1. /\ job.pc = "replace" /\ UNCHANGED <<arch, floor>> /\ wal'.frames = <<>>
        /\ job.mode = "truncate" => job' = [job EXCEPT !.pc = "prune"]
        /\ job.mode # "truncate" => job' = [job EXCEPT !.pc = "empty"]
    BY <1>10 DEF ReplaceWal
  <2>2. CASE job.mode = "truncate"
    <3>1. job'.pc = "prune" /\ ~Steady /\ ~Steady'
      BY <1>1, <2>1, <2>2, JobStepFields DEF Steady
    <3> QED BY <1>3, <1>5, <1>6, <2>1, <3>1 DEF NumPart
  <2>3. CASE job.mode # "truncate"
    <3>1. job'.pc = "empty" /\ Steady /\ Steady' /\ job.mode = "archive"
      BY <1>1, <2>1, <2>3, JobStepFields DEF Steady, JobPart
    <3>2. wal.frames = <<>>
      BY <1>1, <2>1, <3>1 DEF JobPart, FilePart
    <3> QED BY <1>3, <1>4, <2>1, <3>1, <3>2, SameNum
  <2> QED BY <2>2, <2>3
<1>11. CASE DeleteArchives
  <2>1. job.pc = "prune" /\ UNCHANGED <<wal, floor>> /\ arch' = 0 /\ job' = [job EXCEPT !.pc = "empty"]
    BY <1>11 DEF DeleteArchives
  <2>2. job'.pc = "empty" /\ ~Steady /\ Steady' /\ wal.frames = <<>>
    BY <1>1, <2>1, JobStepFields DEF JobPart, Steady
  <2>3. floor = Len(log) /\ snap.done = log
    BY <2>2 DEF NumPart
  <2>4. floor' + arch' = m /\ Len(wal'.frames) = 0
    BY <1>1, <1>2, <2>1, <2>2, <2>3, Facts
  <2>5. Len(log') = floor' + arch' + Len(wal'.frames) /\ floor' + arch' <= Len(snap'.done)
    BY <1>2, <1>3, <2>3, <2>4
  <2>6. \A k \in 1..Len(wal'.frames) : wal'.frames[k] = log'[floor' + arch' + k]
    BY <2>4
  <2> QED BY <1>3, <1>5, <1>6, <2>2, <2>5, <2>6 DEF NumPart
<1> QED BY <1>5, <1>7, <1>8, <1>9, <1>10, <1>11

LEMMA EndNum ==
  ASSUME RestoreInv, NumPart, EmptyIntent \/ FinishSnapshot
  PROVE  NumPart' /\ NumbersGoOn
<1>1. TypeOK
  BY DEF RestoreInv, VouchInv
<1>2. UNCHANGED <<log, snap, wal, floor, arch>>
  BY DEF EmptyIntent, FinishSnapshot, disk
<1>3. CASE EmptyIntent
  <2>1. job.pc = "empty" /\ job' = [job EXCEPT !.pc = "finish"]
    BY <1>3 DEF EmptyIntent
  <2>2. job'.pc = "finish" /\ Steady /\ Steady' /\ Calm'
    BY <1>1, <2>1, JobStepFields DEF Steady, Calm
  <2> QED BY <1>2, <2>2, SameNum
<1>4. CASE FinishSnapshot
  <2>1. job.pc = "finish" /\ job' = NoJob
    BY <1>4 DEF FinishSnapshot
  <2>2. job'.pc = "none" /\ Steady /\ Steady' /\ Calm'
    BY <2>1 DEF Steady, Calm, NoJob
  <2> QED BY <1>2, <2>2, SameNum
<1> QED BY <1>3, <1>4

LEMMA PointKept ==
  ASSUME TypeOK, TypeOK', NumbersGoOn, NEW g, NumberedPoint(g)
  PROVE  NumberedPoint(g)'
<1>1. Len(log) \in Nat /\ Len(log') \in Nat
  BY NumFacts DEF TypeOK
<1>2. Len(log) <= Len(log') /\ \A k \in 1..Len(log) : log'[k] = log[k]
  BY DEF NumbersGoOn
<1>3. \A k \in 1..Len(log) : k \in 1..Len(log')
  BY <1>1, <1>2
<1> QED BY <1>2, <1>3 DEF NumberedPoint

\* A step of the store.
LEMMA StoreStepNum ==
  ASSUME RestoreInv, Numbered, VouchInv', NumPart', NumbersGoOn, FilesGoOn, UNCHANGED <<cur, gens>>,
         w'.goal = w.goal, w'.opened = w.opened, w'.disk = w.disk, w'.eye = w.eye, w'.read = w.read,
         w'.pc = w.pc \/ (w.pc = "catch_up" /\ w'.pc = "catching")
  PROVE  Numbered'
<1>1. TypeOK /\ TypeOK' /\ NumPart /\ CalmPart /\ OpenNum /\ CurNum /\ CurPart
  BY DEF RestoreInv, VouchInv, Numbered
<1>2. PICK a \in Nat, b \in Nat, d \in Nat, e \in Nat, c \in Nat :
        a = snap.id /\ b = snap'.id /\ d = w.disk.snap /\ e = w.eye.snap /\ c = cur.key.snap
  BY <1>1, Facts, FactsNext, WorkerFacts
<1>3. d <= a /\ e <= a /\ c <= a /\ a <= b
  BY <1>1, <1>2 DEF CalmPart, CurPart, NumbersGoOn
<1>4. d <= b /\ e <= b /\ (d = b => d = a /\ a = b) /\ (e = b => e = a /\ a = b) /\ (c = b => c = a /\ a = b)
  BY <1>3
<1>5. Calm /\ a = b => Calm' /\ floor' = floor /\ arch' = arch
  BY <1>2 DEF NumbersGoOn
<1>6. CalmPart'
  <2>1. w'.disk.snap <= snap'.id /\ w'.eye.snap <= snap'.id
    BY <1>2, <1>4
  <2>2. snap'.id = w'.disk.snap /\ ~w'.disk.intent => Calm'
    BY <1>1, <1>2, <1>4, <1>5 DEF CalmPart
  <2>3. w'.pc \notin {"stat_wal", "stat_intent"} /\ snap'.id = w'.eye.snap /\ ~w'.eye.intent => Calm'
    BY <1>1, <1>2, <1>4, <1>5 DEF CalmPart
  <2> QED BY <2>1, <2>2, <2>3 DEF CalmPart
<1>7. Unmoved' => Unmoved /\ floor' = floor /\ arch' = arch
  BY <1>1, <1>2, <1>4, <1>5 DEF Unmoved, CalmPart
<1>8. snap.id # w.disk.snap => snap'.id # w'.disk.snap
  BY <1>2, <1>4
<1>9. OpenNum'
  <2>1. w'.pc \in {"decide", "open_snap", "open_arch", "open_floor"} => w'.goal # "base"
    BY <1>1 DEF OpenNum
  <2>2. w'.pc = "open_floor" /\ Unmoved' => w'.opened.arch = arch'
    BY <1>1, <1>7 DEF OpenNum
  <2>3. w'.pc # "stat_snap" => w.pc # "stat_snap"
    OBVIOUS
  <2> QED BY <1>1, <1>7, <1>8, <2>1, <2>2, <2>3 DEF OpenNum
<1>10. Newest' = Newest
  BY DEF Newest
<1>11. ReadIsNumbered => ReadIsNumbered'
  <2>1. Len(log) \in Nat /\ Len(log') \in Nat
    BY <1>1, NumFacts DEF TypeOK
  <2>2. Len(log) <= Len(log') /\ \A k \in 1..Len(log) : log'[k] = log[k]
    BY DEF NumbersGoOn
  <2>3. \A k \in 1..Len(log) : k \in 1..Len(log')
    BY <2>1, <2>2
  <2> QED BY <1>10, <2>2, <2>3 DEF ReadIsNumbered
<1>12. w.goal = "after" /\ Moved => Moved'
  BY MovedGoesOn
<1>13. CurNum'
  BY <1>1, <1>2, <1>4, <1>5, <1>10, <1>11, <1>12 DEF CurNum
<1>14. \A i \in 1..Len(gens') : NumberedPoint(gens[i])'
  <2>1. SUFFICES ASSUME NEW i \in 1..Len(gens) PROVE NumberedPoint(gens[i])'
    OBVIOUS
  <2>2. PICK g : g = gens[i] /\ NumberedPoint(g)
    BY DEF Numbered
  <2>3. NumberedPoint(g)'
    BY <1>1, <2>2, PointKept
  <2> QED BY <2>2, <2>3 DEF NumberedPoint
<1> QED BY <1>6, <1>9, <1>13, <1>14 DEF Numbered

\* A step of the worker that leaves what it uploaded.
LEMMA WorkerNum ==
  ASSUME RestoreInv, Numbered, VouchInv', UNCHANGED <<wal, snap, log, floor, arch, intent, job, cur, gens>>,
         CalmPart', OpenNum', w'.goal = "after" => (ReadIsNumbered \/ Moved)'
  PROVE  Numbered'
<1>1. TypeOK /\ TypeOK' /\ NumPart /\ CurNum
  BY DEF RestoreInv, VouchInv, Numbered
<1>2. NumPart' /\ NumbersGoOn
  BY <1>1, UnchangedNum
<1>3. Newest' = Newest /\ (Calm => Calm')
  BY DEF Newest, Calm
<1>4. CurNum'
  BY <1>1, <1>3 DEF CurNum
<1>5. \A i \in 1..Len(gens') : NumberedPoint(gens[i])'
  BY DEF Numbered, NumberedPoint
<1> QED BY <1>2, <1>4, <1>5 DEF Numbered

\* The snapshot of identity 0 is there before any snapshot ran.
LEMMA NoLookCalm ==
  ASSUME RestoreInv, NumPart PROVE 0 <= snap.id /\ (snap.id = 0 => Calm) /\ NoLook.snap = 0 /\ NoLook.intent = FALSE
<1>1. TypeOK
  BY DEF RestoreInv, VouchInv
<1> QED BY <1>1, NumFacts DEF NumPart, NoLook

LEMMA CalmStep ==
  ASSUME RestoreInv, Numbered, UNCHANGED <<snap, job>>,
         w'.disk = w.disk \/ w'.disk = NoLook \/ (w'.disk = w.eye /\ w.pc \notin {"stat_wal", "stat_intent"}),
         w'.eye = NoLook \/ (w'.eye = w.eye /\ w.pc \notin {"stat_wal", "stat_intent"})
  PROVE  CalmPart'
<1>1. CalmPart /\ NumPart
  BY DEF Numbered
<1>2. 0 <= snap.id /\ (snap.id = 0 => Calm) /\ NoLook.snap = 0 /\ NoLook.intent = FALSE
  BY <1>1, NoLookCalm
<1>3. Calm => Calm'
  BY DEF Calm
<1>4. w'.disk.snap <= snap'.id /\ (snap'.id = w'.disk.snap /\ ~w'.disk.intent => Calm')
  BY <1>1, <1>2, <1>3 DEF CalmPart
<1>5. w'.eye.snap <= snap'.id /\ (snap'.id = w'.eye.snap /\ ~w'.eye.intent => Calm')
  BY <1>1, <1>2, <1>3 DEF CalmPart
<1> QED BY <1>4, <1>5 DEF CalmPart

LEMMA IdleNum ==
  ASSUME RestoreInv, Numbered, VouchInv', UNCHANGED <<wal, snap, log, floor, arch, intent, job, cur, gens>>, w' = Idle
  PROVE  Numbered'
<1>1. w'.pc = "idle" /\ w'.goal = "idle" /\ w'.disk = NoLook /\ w'.eye = NoLook
  BY IdleType
<1>2. CalmPart'
  BY <1>1, CalmStep
<1>3. OpenNum'
  BY <1>1 DEF OpenNum
<1> QED BY <1>1, <1>2, <1>3, WorkerNum

LEMMA StatNum ==
  ASSUME RestoreInv, Numbered, VouchInv', StatSnapshot \/ StatWal \/ StatIntent
  PROVE  Numbered'
<1>1. TypeOK /\ NumPart /\ CalmPart /\ OpenNum /\ CurNum
  BY DEF RestoreInv, VouchInv, Numbered
<1>2. UNCHANGED <<wal, snap, log, floor, arch, intent, job, cur, gens>>
  BY <1>1, StatFields DEF Others, disk
<1>3. CASE w' = Idle
  BY <1>2, <1>3, IdleNum
<1>4. CASE /\ w'.goal = w.goal /\ w'.disk = w.disk /\ w'.read = w.read /\ w'.opened = w.opened
           /\ w.pc = "stat_snap" => w'.pc = "stat_wal" /\ w'.eye.snap = snap.id
           /\ w.pc = "stat_wal" => /\ w'.pc = "stat_intent" /\ w'.eye.snap = w.eye.snap /\ w'.eye.wal = wal.ino
           /\ w.pc = "stat_intent" => /\ w'.pc \in {"caught", "position"}
                                      /\ w'.eye.snap = w.eye.snap /\ w'.eye.wal = w.eye.wal
                                      /\ w'.eye.intent = (intent # NoIntent)
           /\ w.pc \in {"stat_snap", "stat_wal", "stat_intent"}
  <2>1. w'.pc \in {"stat_wal", "stat_intent", "caught", "position"}
    BY <1>4
  <2>2. intent = NoIntent => Calm
    BY <1>1, NumFacts DEF NumPart, Calm
  <2>3. (Calm => Calm') /\ snap.id \in Nat
    BY <1>1, <1>2, NumFacts DEF Calm
  <2>4. w'.eye.snap <= snap'.id
    BY <1>1, <1>2, <1>4, <2>3 DEF CalmPart
  <2>5. w'.pc \notin {"stat_wal", "stat_intent"} /\ ~w'.eye.intent => Calm'
    BY <1>4, <2>2, <2>3
  <2>6. CalmPart'
    BY <1>1, <1>2, <1>4, <2>3, <2>4, <2>5 DEF CalmPart
  <2>7. Unmoved' <=> Unmoved
    BY <1>2, <1>4 DEF Unmoved
  <2>8. snap.id # w.disk.snap /\ (w.pc # "stat_snap" => w.eye.snap # w.disk.snap) =>
          snap'.id # w'.disk.snap /\ (w'.pc # "stat_snap" => w'.eye.snap # w'.disk.snap)
    BY <1>2, <1>4
  <2>9. OpenNum'
    BY <1>1, <1>2, <1>4, <2>1, <2>7, <2>8 DEF OpenNum
  <2>10. Moved => Moved'
    BY <1>2, <1>4, <2>1 DEF Moved
  <2>11. ReadIsNumbered => ReadIsNumbered'
    BY <1>2, <1>4 DEF ReadIsNumbered, Newest
  <2>12. w'.goal = "after" => (ReadIsNumbered \/ Moved)'
    BY <1>1, <1>4, <2>10, <2>11 DEF CurNum
  <2> QED BY <1>2, <2>6, <2>9, <2>12, WorkerNum
<1> QED BY <1>1, <1>3, <1>4, StatFields

LEMMA TakePositionNum ==
  ASSUME RestoreInv, Numbered, VouchInv', TakePosition
  PROVE  Numbered'
<1>1. TypeOK /\ NumPart /\ CalmPart /\ OpenNum /\ CurNum
  BY DEF RestoreInv, VouchInv, Numbered
<1>2. UNCHANGED <<wal, snap, log, floor, arch, intent, job, cur, gens>>
  BY DEF TakePosition, disk
<1>3. /\ w.pc = "position" /\ w'.pc = w.goal /\ w'.goal = w.goal /\ w'.disk = w.disk /\ w'.eye = w.eye
      /\ w'.read = w.read /\ w'.opened = w.opened /\ w.goal \in Goals
  BY <1>1, TakePositionFields DEF TypeOK, Workers
<1>4. CalmPart'
  BY <1>2, <1>3, CalmStep
<1>5. Unmoved' <=> Unmoved
  BY <1>2, <1>3 DEF Unmoved
<1>6. OpenNum'
  BY <1>1, <1>2, <1>3, <1>5 DEF OpenNum, Goals
<1>7. Moved => Moved'
  BY <1>2, <1>3 DEF Moved
<1>8. ReadIsNumbered => ReadIsNumbered'
  BY <1>2, <1>3 DEF ReadIsNumbered, Newest
<1>9. w'.goal = "after" => (ReadIsNumbered \/ Moved)'
  BY <1>1, <1>3, <1>7, <1>8 DEF CurNum
<1> QED BY <1>2, <1>4, <1>6, <1>9, WorkerNum

LEMMA StartNum ==
  ASSUME RestoreInv, Numbered, VouchInv', Begin \/ Started \/ CaughtUp \/ LookedAgain \/ Decide
  PROVE  Numbered'
<1>1. TypeOK /\ PosPart /\ NumPart /\ CalmPart /\ OpenNum /\ CurNum
  BY DEF RestoreInv, VouchInv, Numbered
<1>2. UNCHANGED <<wal, snap, log, floor, arch, intent, job, cur, gens>>
  BY <1>1, StartFields DEF Others, disk
<1>3. CASE w' = Idle
  BY <1>2, <1>3, IdleNum
<1>4. CASE \E g \in {"start", "caught", "before"} : w' = Look(g)
  <2>1. PICK g \in {"start", "caught", "before"} : w' = Look(g)
    BY <1>4
  <2>2. w \in Workers /\ g \in Goals
    BY <1>1 DEF TypeOK, Goals
  <2>3. w'.pc = "stat_snap" /\ w'.goal = g /\ w'.disk = w.disk /\ w'.eye = NoLook
    BY <2>1, <2>2, LookType
  <2>4. CalmPart'
    BY <1>2, <2>3, CalmStep
  <2>5. OpenNum'
    BY <2>3 DEF OpenNum
  <2> QED BY <1>2, <2>1, <2>3, <2>4, <2>5, WorkerNum
<1>5. CASE /\ w.pc = "start" /\ w'.pc \in {"catch_up", "decide"} /\ w'.disk = w.eye /\ w'.eye = w.eye
           /\ w'.goal = w.goal
  <2>1. w'.goal = "start"
    BY <1>1, <1>5 DEF PosPart
  <2>2. CalmPart'
    BY <1>2, <1>5, CalmStep
  <2>3. OpenNum'
    BY <1>5, <2>1 DEF OpenNum
  <2> QED BY <1>2, <2>1, <2>2, <2>3, WorkerNum
<1>6. CASE w.pc = "caught" /\ w'.pc = "position" /\ w'.goal = "decide" /\ w'.disk = w.eye /\ w'.eye = w.eye
  <2>1. CalmPart'
    BY <1>2, <1>6, CalmStep
  <2>2. OpenNum'
    BY <1>6 DEF OpenNum
  <2> QED BY <1>2, <1>6, <2>1, <2>2, WorkerNum
<1>7. CASE /\ w.pc = "decide" /\ w'.pc = "open_snap"
           /\ w'.goal = w.goal /\ w'.disk = w.disk /\ w'.eye = w.eye /\ w'.read = w.read
  <2>1. CalmPart'
    BY <1>2, <1>7, CalmStep
  <2>2. OpenNum'
    BY <1>1, <1>7 DEF OpenNum
  <2>3. Moved => Moved'
    BY <1>2, <1>7 DEF Moved
  <2>4. ReadIsNumbered => ReadIsNumbered'
    BY <1>2, <1>7 DEF ReadIsNumbered, Newest
  <2>5. w'.goal = "after" => (ReadIsNumbered \/ Moved)'
    BY <1>1, <1>7, <2>3, <2>4 DEF CurNum
  <2> QED BY <1>2, <2>1, <2>2, <2>5, WorkerNum
<1> QED BY <1>1, <1>3, <1>4, <1>5, <1>6, <1>7, StartFields

LEMMA OpenFilesNum ==
  ASSUME RestoreInv, Numbered, VouchInv', OpenSnapshot \/ OpenArchives \/ ReadFloor
  PROVE  Numbered'
<1>1. TypeOK /\ OpenedPart /\ NumPart /\ CalmPart /\ OpenNum /\ CurNum
  BY DEF RestoreInv, VouchInv, Numbered
<1>2. /\ UNCHANGED <<wal, snap, log, floor, arch, intent, job, cur, gens>>
      /\ w'.disk = w.disk /\ w'.read = w.read
  BY <1>1, OpenFields DEF Others, disk
<1>3. Unmoved' <=> Unmoved
  BY <1>2 DEF Unmoved
<1>4. ReadIsNumbered => ReadIsNumbered'
  BY <1>2 DEF ReadIsNumbered, Newest
<1>5. CASE /\ w.pc = "open_snap" /\ w'.pc = "open_arch" /\ w'.goal = w.goal /\ w'.eye = w.eye
  <2>1. CalmPart'
    BY <1>2, <1>5, CalmStep
  <2>2. OpenNum'
    BY <1>1, <1>5 DEF OpenNum
  <2>3. w'.goal = "after" => (ReadIsNumbered \/ Moved)'
    BY <1>1, <1>2, <1>4, <1>5 DEF CurNum, Moved
  <2> QED BY <1>2, <2>1, <2>2, <2>3, WorkerNum
<1>6. CASE /\ w.pc = "open_arch" /\ w'.pc = "open_floor" /\ w'.goal = w.goal /\ w'.eye = w.eye
           /\ w'.opened.arch = arch
  <2>1. CalmPart'
    BY <1>2, <1>6, CalmStep
  <2>2. OpenNum'
    BY <1>1, <1>2, <1>6 DEF OpenNum
  <2>3. w'.goal = "after" => (ReadIsNumbered \/ Moved)'
    BY <1>1, <1>2, <1>4, <1>6 DEF CurNum, Moved
  <2> QED BY <1>2, <2>1, <2>2, <2>3, WorkerNum
<1>7. CASE /\ w.pc = "open_floor" /\ w'.pc = "stat_snap" /\ w'.goal = "base" /\ w'.eye = NoLook
           /\ w'.opened.snap = w.opened.snap /\ w'.opened.done = w.opened.done
           /\ w'.opened.arch = w.opened.arch /\ w'.opened.floor = floor
  <2>1. CalmPart'
    BY <1>2, <1>7, CalmStep
  <2>2. ASSUME Unmoved
        PROVE  /\ w'.opened.arch = arch /\ w'.opened.floor = floor
               /\ w.opened.snap = w.disk.snap => floor + arch <= Len(w.opened.done)
    <3>1. Calm /\ w.opened.arch = arch
      BY <1>1, <1>7, <2>2 DEF CalmPart, OpenNum, Unmoved
    <3>2. Steady
      BY <3>1 DEF Calm, Steady
    <3>3. w.opened.snap = w.disk.snap => w.opened.done = snap.done
      BY <1>1, <2>2 DEF OpenedPart, Unmoved
    <3> QED BY <1>1, <1>7, <3>1, <3>2, <3>3 DEF NumPart
  <2>3. OpenNum'
    BY <1>2, <1>3, <1>7, <2>2 DEF OpenNum, Unmoved
  <2> QED BY <1>2, <1>7, <2>1, <2>3, WorkerNum
<1> QED BY <1>1, <1>5, <1>6, <1>7, OpenFields

\* The generation begins with the numbers of the files it is made of.
LEMMA UploadBaseNum ==
  ASSUME RestoreInv, Numbered, VouchInv', UploadBase
  PROVE  Numbered'
<1>1. TypeOK /\ TypeOK' /\ PosPart /\ OpenedPart /\ NumPart /\ CalmPart /\ OpenNum
  BY DEF RestoreInv, VouchInv, Numbered
<1>2. UNCHANGED <<wal, snap, log, floor, arch, intent, job>> /\ w.pc = "base"
  BY <1>1, UploadBaseFields DEF disk
<1>3. CASE w' = Idle /\ UNCHANGED <<cur, gens>>
  BY <1>2, <1>3, IdleNum
<1>4. CASE /\ w.eye.snap = w.disk.snap /\ ~w.disk.intent /\ w.opened.snap = w.disk.snap /\ w.pos.key = w.key
           /\ w'.pc = "stat_snap" /\ w'.goal = "before" /\ w'.eye = NoLook /\ w'.disk = w.disk
           /\ cur'.key = w.pos.key /\ cur'.cursor = 0
           /\ Len(gens') = Len(gens) + 1
           /\ \A i \in 1..Len(gens) : gens'[i] = gens[i]
           /\ gens'[Len(gens')].base = w.opened.done /\ gens'[Len(gens')].segs = <<>>
           /\ gens'[Len(gens')].count = w.opened.floor + w.opened.arch
  <2>1. w.goal = "base" /\ w.key.snap = w.disk.snap
    BY <1>1, <1>2 DEF PosPart, OpenedPart
  <2>2. /\ w.opened.floor + w.opened.arch <= Len(w.opened.done)
        /\ Unmoved => w.opened.arch = arch /\ w.opened.floor = floor
    BY <1>1, <1>2, <1>4, <2>1 DEF OpenNum
  <2>3. PICK n \in Nat : n = Len(gens) /\ Len(gens') = n + 1
    BY <1>1, <1>4, WorkerFacts
  <2>4. /\ Newest'.base = w.opened.done /\ Newest'.segs = <<>> /\ gens'[n + 1] = Newest'
        /\ Newest'.count = w.opened.floor + w.opened.arch
    BY <1>4, <2>3 DEF Newest
  <2>5. Len(<<>>) = 0
    BY <1>1, Facts
  <2>6. NumPart' /\ NumbersGoOn
    BY <1>1, <1>2, UnchangedNum
  <2>7. CalmPart'
    BY <1>2, <1>4, CalmStep
  <2>8. OpenNum'
    BY <1>4 DEF OpenNum
  <2>9. cur'.key.snap = snap'.id => Calm' /\ Newest'.count = floor' + arch'
    <3>1. SUFFICES ASSUME cur'.key.snap = snap'.id PROVE Calm' /\ Newest'.count = floor' + arch'
      OBVIOUS
    <3>2. Unmoved
      BY <1>2, <1>4, <2>1, <3>1 DEF Unmoved
    <3>3. Calm
      BY <1>1, <3>2 DEF CalmPart, Unmoved
    <3> QED BY <1>2, <2>2, <2>4, <3>2, <3>3 DEF Calm
  <2>10. CurNum'
    BY <1>4, <2>4, <2>5, <2>9 DEF CurNum
  <2>11. \A i \in 1..Len(gens') : NumberedPoint(gens[i])'
    <3>1. SUFFICES ASSUME NEW i \in 1..(n + 1) PROVE NumberedPoint(gens[i])'
      BY <2>3
    <3>2. CASE i \in 1..n
      <4>1. gens'[i] = gens[i] /\ NumberedPoint(gens[i])
        BY <1>4, <2>3, <3>2 DEF Numbered
      <4> QED BY <1>2, <4>1 DEF NumberedPoint
    <3>3. CASE i = n + 1
      BY <2>2, <2>4, <2>5, <3>3 DEF NumberedPoint
    <3> QED BY <3>2, <3>3
  <2> QED BY <2>6, <2>7, <2>8, <2>10, <2>11 DEF Numbered
<1> QED BY <1>1, <1>3, <1>4, UploadBaseFields

LEMMA ReadSegmentNum ==
  ASSUME RestoreInv, Numbered, VouchInv', ReadSegment
  PROVE  Numbered'
<1>1. TypeOK /\ VouchInv /\ PosPart /\ CurPart /\ NumPart /\ CalmPart /\ CurNum
  BY DEF RestoreInv, VouchInv, Numbered
<1>2. UNCHANGED <<wal, snap, log, floor, arch, intent, job, cur, gens>> /\ w.pc = "before"
  BY <1>1, ReadSegmentFields DEF Others, disk
<1>3. CASE w' = Idle
  BY <1>2, <1>3, IdleNum
<1>4. CASE /\ w.eye.snap = cur.key.snap /\ w.eye.wal = cur.key.wal
           /\ w.pos.key = cur.key /\ w.pos.len > cur.cursor
           /\ w'.pc = "stat_snap" /\ w'.goal = "after" /\ w'.eye = NoLook /\ w'.disk = w.eye
           /\ w'.read = SubSeq(wal.frames, cur.cursor + 1,
                               IF w.pos.len < Len(wal.frames) THEN w.pos.len ELSE Len(wal.frames))
  <2>1. CalmPart'
    BY <1>2, <1>4, CalmStep
  <2>2. OpenNum'
    BY <1>4 DEF OpenNum
  <2>3. CASE snap.id # cur.key.snap \/ wal.ino # cur.key.wal
    <3>1. Moved'
      BY <1>2, <1>4, <2>3 DEF Moved
    <3> QED BY <1>2, <2>1, <2>2, <3>1, WorkerNum
  <2>4. CASE snap.id = cur.key.snap /\ wal.ino = cur.key.wal
    <3>1. PICK c \in Nat, l \in Nat : c = cur.cursor /\ l = w.pos.len /\ c < l
      BY <1>1, <1>4, WorkerFacts
    <3>2. cur.key.gen # 0
      <4>1. w.pos.key.gen >= 1 /\ cur.key.gen \in Nat /\ w.pos.key = cur.key
        BY <1>1, <1>2, <1>4, WorkerFacts DEF PosPart
      <4> QED BY <4>1
    <3>3. Calm /\ Newest.count = floor + arch
      BY <1>1, <2>4, <3>2 DEF CurNum
    <3>4. PICK b \in Nat : b = floor + arch
      BY <1>1, NumFacts
    <3>5. PICK f \in Seq(Nat) : f = wal.frames /\ Len(f) \in Nat
      BY <1>1, Facts
    <3>6. /\ Len(log) = b + Len(f)
          /\ \A k \in 1..Len(f) : f[k] = log[b + k]
      BY <1>1, <3>3, <3>4, <3>5 DEF NumPart, Calm, Steady
    <3>7. l <= Len(f)
      <4>1. l <= wal.synced /\ wal.synced <= Len(f) /\ wal.synced \in Nat
        BY <1>1, <1>4, <2>4, <3>1, <3>5, Facts DEF PosPart, VouchInv, FilePart
      <4> QED BY <3>1, <3>5, <4>1
    <3>8. w'.read = SubSeq(f, c + 1, l)
      <4>1. PICK m \in {l, Len(f)} : m = IF l < Len(f) THEN l ELSE Len(f)
        BY <3>1, <3>5
      <4>2. m = l
        BY <3>1, <3>5, <3>7, <4>1
      <4>3. w'.read = SubSeq(f, c + 1, m)
        BY <1>4, <3>1, <3>5, <4>1
      <4> QED BY <4>2, <4>3
    <3>9. c <= l
      BY <3>1
    <3>10. PICK r : r = SubSeq(f, c + 1, l) /\ Len(r) = l - c /\ \A k \in 1..(l - c) : r[k] = f[c + k]
      <4>1. /\ Len(SubSeq(f, c + 1, l)) = l - c
            /\ \A k \in 1..(l - c) : SubSeq(f, c + 1, l)[k] = f[c + k]
        BY ONLY f \in Seq(Nat), c \in Nat, l \in Nat, <3>7, <3>9, SubSeqFacts
      <4>2. PICK r : r = SubSeq(f, c + 1, l)
        OBVIOUS
      <4> QED BY <4>1, <4>2
    <3>11. ASSUME NEW k \in 1..(l - c) PROVE b + c + k \in 1..(b + Len(f)) /\ r[k] = log[b + c + k]
      <4>0. c + k \in Nat /\ c + k \in 1..Len(f) /\ b + (c + k) = b + c + k
        <5>1. PICK n \in Nat : n = Len(f)
          BY ONLY <3>5
        <5>2. k \in 1..(l - c) /\ l <= n /\ c \in Nat /\ l \in Nat /\ b \in Nat
          BY <3>7, <5>1
        <5>3. c + k \in Nat /\ c + k \in 1..n /\ b + (c + k) = b + c + k
          BY ONLY <5>1, <5>2, n \in Nat
        <5> QED BY ONLY <5>1, <5>3
      <4>1. PICK j \in Nat : j = c + k /\ j \in 1..Len(f) /\ b + j = b + c + k
        BY <4>0
      <4>2. b + j \in 1..(b + Len(f))
        BY <3>4, <3>5, <4>1
      <4>3. r[k] = f[j] /\ f[j] = log[b + j]
        BY <3>6, <3>10, <4>1
      <4> QED BY <4>1, <4>2, <4>3
    <3>12. Newest'.count = b /\ cur'.cursor = c /\ w'.read = r /\ log' = log
      BY <1>2, <3>1, <3>3, <3>4, <3>8, <3>10 DEF Newest
    <3>13. ReadIsNumbered'
      BY <3>6, <3>10, <3>11, <3>12 DEF ReadIsNumbered
    <3> QED BY <1>2, <2>1, <2>2, <3>13, WorkerNum
  <2> QED BY <2>3, <2>4
<1> QED BY <1>1, <1>3, <1>4, ReadSegmentFields

LEMMA PutSegmentNum ==
  ASSUME RestoreInv, Numbered, VouchInv', PutSegment
  PROVE  Numbered'
<1>1. TypeOK /\ TypeOK' /\ PosPart /\ CurPart /\ ReadPart /\ NumPart /\ CalmPart /\ OpenNum /\ CurNum
  BY DEF RestoreInv, VouchInv, Numbered
<1>2. UNCHANGED <<wal, snap, log, floor, arch, intent, job>> /\ w.pc = "after"
  BY <1>1, PutSegmentFields DEF disk
<1>3. CASE w' = Idle /\ UNCHANGED <<cur, gens>>
  BY <1>2, <1>3, IdleNum
<1>4. CASE /\ w.eye.snap = w.disk.snap /\ w.eye.wal = w.disk.wal
           /\ w'.pc = "stat_snap" /\ w'.goal = "before" /\ w'.eye = NoLook /\ w'.disk = w.disk
           /\ cur'.key = cur.key /\ cur'.cursor = cur.cursor + Len(w.read)
           /\ Len(gens') = Len(gens)
           /\ \A i \in 1..Len(gens) : i # Len(gens) => gens'[i] = gens[i]
           /\ Len(gens) > 0 => /\ gens'[Len(gens)].base = gens[Len(gens)].base
                               /\ gens'[Len(gens)].segs = gens[Len(gens)].segs \o w.read
                               /\ gens'[Len(gens)].count = gens[Len(gens)].count
  <2>1. w.goal = "after" /\ w.disk.snap = cur.key.snap /\ w.disk.wal = cur.key.wal /\ cur.key.gen # 0
    BY <1>1, <1>2 DEF PosPart, ReadPart
  <2>2. ~Moved
    BY <1>2, <1>4, <2>1 DEF Moved
  <2>3. ReadIsNumbered /\ Len(Newest.segs) = cur.cursor
    BY <1>1, <2>1, <2>2 DEF CurNum
  <2>4. Len(gens) > 0 /\ Len(gens) \in Nat /\ DOMAIN gens = 1..Len(gens)
    BY <1>1, <2>1, WorkerFacts DEF CurPart
  <2>5. /\ Newest'.base = Newest.base /\ Newest'.segs = Newest.segs \o w.read /\ Newest'.count = Newest.count
        /\ gens'[Len(gens)] = Newest'
    BY <1>4, <2>4 DEF Newest
  <2>6. Newest \in Points /\ NumberedPoint(Newest)
    <3>1. PICK n \in Nat : n = Len(gens) /\ n \in 1..Len(gens)
      <4>1. PICK n \in Nat : n = Len(gens) /\ n > 0
        BY ONLY <2>4
      <4>2. n \in 1..n
        BY ONLY n \in Nat, <4>1
      <4> QED BY ONLY <4>1, <4>2
    <3>2. gens \in Seq(Points) /\ \A i \in 1..Len(gens) : NumberedPoint(gens[i])
      BY <1>1, WorkerFacts DEF Numbered
    <3>3. gens[n] \in Points /\ NumberedPoint(gens[n])
      BY ONLY <3>1, <3>2
    <3> QED BY <3>1, <3>3 DEF Newest
  <2>7. PICK a \in Seq(Nat), r \in Seq(Nat), b \in Nat : a = Newest.segs /\ r = w.read /\ b = Newest.count
    BY <1>1, <2>6, WorkerFacts DEF Points
  <2>8. PICK d : d = a \o r
    OBVIOUS
  <2>9. Len(d) = Len(a) + Len(r) /\ \A k \in 1..Len(a) + Len(r) : d[k] = IF k <= Len(a) THEN a[k] ELSE r[k - Len(a)]
    BY <2>7, <2>8, ConcatProperties
  <2>10. PICK n \in Nat, m \in Nat : n = Len(a) /\ m = Len(r)
    BY <2>7
  <2>11. cur.cursor = n
    BY <2>3, <2>7, <2>10
  <2>12. \A k \in 1..n : b + k \in 1..Len(log) /\ a[k] = log[b + k]
    BY <2>6, <2>7, <2>10 DEF NumberedPoint
  <2>13. \A k \in 1..m : b + n + k \in 1..Len(log) /\ r[k] = log[b + n + k]
    BY <2>3, <2>7, <2>10, <2>11 DEF ReadIsNumbered
  <2>14. ASSUME NEW k \in 1..(n + m) PROVE b + k \in 1..Len(log) /\ d[k] = log[b + k]
    <3>1. CASE k <= n
      <4>1. k \in 1..n /\ d[k] = a[k]
        BY <2>9, <2>10, <3>1
      <4> QED BY <2>12, <4>1
    <3>2. CASE ~(k <= n)
      <4>1. n \in Nat /\ m \in Nat /\ b \in Nat
        BY <2>7, <2>10
      <4>2. k \in 1..(n + m)
        BY <2>14
      <4>3. k - n \in 1..m /\ b + n + (k - n) = b + k
        BY ONLY <3>2, <4>1, <4>2
      <4>4. PICK j \in 1..m : j = k - n /\ b + n + j = b + k
        BY <4>3
      <4>5. d[k] = r[j]
        BY <2>9, <2>10, <3>2, <4>4
      <4> QED BY <2>13, <4>4, <4>5
    <3> QED BY <3>1, <3>2
  <2>15. Len(d) = n + m /\ cur'.cursor = n + m /\ Newest'.segs = d /\ Newest'.count = b
    BY <1>4, <2>5, <2>7, <2>8, <2>9, <2>10, <2>11
  <2>16. NumPart' /\ NumbersGoOn
    BY <1>1, <1>2, UnchangedNum
  <2>17. CalmPart'
    BY <1>2, <1>4, CalmStep
  <2>18. OpenNum'
    BY <1>4 DEF OpenNum
  <2>19. Calm => Calm'
    BY <1>2 DEF Calm
  <2>20. CurNum'
    BY <1>1, <1>2, <1>4, <2>1, <2>5, <2>15, <2>19 DEF CurNum
  <2>21. \A i \in 1..Len(gens') : NumberedPoint(gens[i])'
    <3>1. SUFFICES ASSUME NEW i \in 1..Len(gens) PROVE NumberedPoint(gens[i])'
      BY <1>4
    <3>2. CASE i # Len(gens)
      <4>1. gens'[i] = gens[i] /\ NumberedPoint(gens[i])
        BY <1>4, <3>2 DEF Numbered
      <4> QED BY <1>2, <4>1 DEF NumberedPoint
    <3>3. CASE i = Len(gens)
      <4>1. Newest.count <= Len(Newest.base)
        BY <2>6 DEF NumberedPoint
      <4>2. gens'[i].count = b /\ gens'[i].segs = d /\ gens'[i].base = Newest.base
        BY <2>5, <2>15, <3>3
      <4>3. \A k \in 1..Len(d) : b + k \in 1..Len(log) /\ d[k] = log[b + k]
        BY <2>14, <2>15
      <4> QED BY <1>2, <2>7, <4>1, <4>2, <4>3 DEF NumberedPoint
    <3> QED BY <3>2, <3>3
  <2> QED BY <2>16, <2>17, <2>18, <2>20, <2>21 DEF Numbered
<1> QED BY <1>1, <1>3, <1>4, PutSegmentFields

LEMMA NumInit ==
  ASSUME Init PROVE NumInv
<1>1. RestoreInv
  BY RestoreInit
<1>2. /\ w.pc = "idle" /\ w.goal = "idle" /\ w.disk = NoLook /\ w.eye = NoLook /\ cur.key.gen = 0
      /\ log = <<>> /\ gens = <<>> /\ wal.frames = <<>> /\ snap.id = 0 /\ snap.done = <<>> /\ floor = 0 /\ arch = 0
      /\ job.pc = "none"
  BY IdleType DEF Init, NoKey, NoCur, NoJob
<1>3. Len(<<>>) = 0 /\ NoLook.snap = 0
  BY DEF NoLook
<1>4. Calm /\ Steady
  BY <1>2 DEF Calm, Steady
<1>5. NumPart
  BY <1>2, <1>3, <1>4 DEF NumPart
<1>6. CalmPart /\ OpenNum /\ CurNum
  BY <1>2, <1>3, <1>4 DEF CalmPart, OpenNum, CurNum
<1>7. \A i \in 1..Len(gens) : NumberedPoint(gens[i])
  BY <1>2, <1>3
<1> QED BY <1>1, <1>5, <1>6, <1>7 DEF NumInv, Numbered

LEMMA WorkerStepNum ==
  ASSUME RestoreInv, Numbered, VouchInv', WorkerStep PROVE Numbered'
<1>1. TypeOK /\ VouchInv /\ StorePart /\ NumPart
  BY DEF RestoreInv, VouchInv, Numbered
<1>2. CASE VouchSync
  <2>1. FilesGoOn
    BY <1>1, <1>2, VouchSyncGoesOn
  <2>2. UNCHANGED <<log, snap, floor, arch, intent, job, cur, gens>>
    BY <1>2 DEF VouchSync
  <2>3. wal'.frames = wal.frames
    BY <1>1, <1>2, VouchSyncFields
  <2>4. NumPart' /\ NumbersGoOn
    BY <1>1, <2>2, <2>3, UnchangedNum
  <2> QED BY <1>1, <1>2, <2>1, <2>2, <2>4, VouchSyncFields, StoreStepNum
<1>3. CASE CatchUp
  <2>1. UNCHANGED <<wal, snap, log, next, floor, arch, intent, job, cur, gens>>
    BY <1>3 DEF CatchUp, disk
  <2>2. FilesGoOn
    BY <1>1, <2>1, SameFiles
  <2>3. NumPart' /\ NumbersGoOn
    BY <1>1, <2>1, UnchangedNum
  <2> QED BY <1>1, <1>3, <2>1, <2>2, <2>3, CatchUpFields, StoreStepNum
<1> QED BY <1>2, <1>3, StatNum, TakePositionNum, StartNum, OpenFilesNum, UploadBaseNum,
        ReadSegmentNum, PutSegmentNum DEF WorkerStep

\* A step of the store that no crash is part of.
LEMMA CalmStoreNum ==
  ASSUME RestoreInv, Numbered, VouchInv', NumPart' /\ NumbersGoOn, FilesGoOn, UNCHANGED <<w, cur, gens>>
  PROVE  Numbered'
BY StoreStepNum

LEMMA NumStep ==
  ASSUME NumInv, [Next]_vars PROVE NumInv'
<1>1. RestoreInv /\ TypeOK /\ VouchInv /\ StorePart /\ crashes \in Nat
  BY DEF NumInv, RestoreInv, VouchInv, TypeOK
<1>2. RestoreInv' /\ VouchInv'
  BY <1>1, RestoreStep DEF RestoreInv
<1>3. SUFFICES ASSUME crashes' = 0 PROVE Numbered'
  BY <1>2 DEF NumInv
<1>4. crashes' # crashes + 1
  BY <1>1, <1>3
<1>5. ~ServerKilled /\ ~PeerKilled /\ ~PowerLoss
  BY <1>4 DEF ServerKilled, PeerKilled, PowerLoss
<1>6. CASE WorkerStep
  <2>1. crashes' = crashes
    BY <1>6 DEF WorkerStep, Begin, StatSnapshot, StatWal, StatIntent, VouchSync, TakePosition, Started, CatchUp,
                CaughtUp, LookedAgain, Decide, OpenSnapshot, OpenArchives, ReadFloor, UploadBase, ReadSegment,
                PutSegment, Others
  <2> QED BY <1>1, <1>2, <1>3, <1>6, <2>1, WorkerStepNum DEF NumInv
<1>7. CASE \E p \in world.policies : OwnCommit(p) \/ PeerCommit(p)
  <2>1. PICK p : Commit(p) /\ UNCHANGED <<snap, floor, arch, job, w, cur, gens, crashes>>
    BY <1>7 DEF OwnCommit, PeerCommit, worker
  <2>2. Numbered /\ NumPart
    BY <1>3, <2>1 DEF NumInv, Numbered
  <2>3. FilesGoOn
    BY <1>1, <1>2, <2>1, CommitGoesOn
  <2>4. NumPart' /\ NumbersGoOn
    BY <1>1, <2>1, <2>2, CommitNum
  <2> QED BY <1>1, <1>2, <2>1, <2>2, <2>3, <2>4, CalmStoreNum
<1>8. CASE WriteSnapshot
  <2>1. UNCHANGED <<w, cur, gens, crashes>>
    BY <1>8 DEF WriteSnapshot, worker
  <2>2. Numbered /\ NumPart
    BY <1>3, <2>1 DEF NumInv, Numbered
  <2>3. FilesGoOn
    BY <1>1, <1>2, <1>8, WriteSnapshotGoesOn
  <2>4. NumPart' /\ NumbersGoOn
    BY <1>1, <1>8, <2>2, WriteSnapshotNum
  <2> QED BY <1>1, <1>2, <2>1, <2>2, <2>3, <2>4, CalmStoreNum
<1>9. CASE WriteFloor \/ ArchiveWal \/ ReplaceWal \/ DeleteArchives
  <2>1. UNCHANGED <<w, cur, gens, crashes>>
    BY <1>9 DEF WriteFloor, ArchiveWal, ReplaceWal, DeleteArchives, worker
  <2>2. Numbered /\ NumPart
    BY <1>3, <2>1 DEF NumInv, Numbered
  <2>3. WriteFloor \/ DeleteArchives => UNCHANGED <<wal, snap, log, next>>
    BY DEF WriteFloor, DeleteArchives
  <2>4. FilesGoOn
    BY <1>1, <1>2, <1>9, <2>3, WalStepGoesOn, SameFiles
  <2>5. NumPart' /\ NumbersGoOn
    BY <1>1, <1>9, <2>2, CoveredNum
  <2> QED BY <1>1, <1>2, <2>1, <2>2, <2>4, <2>5, CalmStoreNum
<1>10. CASE EmptyIntent \/ FinishSnapshot
  <2>1. UNCHANGED <<wal, snap, log, next, w, cur, gens, crashes>>
    BY <1>10 DEF EmptyIntent, FinishSnapshot, worker, disk
  <2>2. Numbered /\ NumPart
    BY <1>3, <2>1 DEF NumInv, Numbered
  <2>3. FilesGoOn
    BY <1>1, <2>1, SameFiles
  <2>4. NumPart' /\ NumbersGoOn
    BY <1>1, <1>10, <2>2, EndNum
  <2> QED BY <1>1, <1>2, <2>1, <2>2, <2>3, <2>4, CalmStoreNum
<1>11. CASE UNCHANGED vars \/ ReadRefreshes \/ WriteRefreshes \/ LoadWal \/ LoadIdent
  <2>1. UNCHANGED <<wal, snap, log, next, floor, arch, intent, job, w, cur, gens, crashes>>
    BY <1>11 DEF vars, disk, worker, ReadRefreshes, WriteRefreshes, LoadWal, LoadIdent
  <2>2. Numbered /\ NumPart
    BY <1>3, <2>1 DEF NumInv, Numbered
  <2>3. FilesGoOn
    BY <1>1, <2>1, SameFiles
  <2>4. NumPart' /\ NumbersGoOn
    BY <1>1, <2>1, <2>2, UnchangedNum
  <2> QED BY <1>1, <1>2, <2>1, <2>2, <2>3, <2>4, CalmStoreNum
<1>12. CASE \E by \in world.snappers, mode \in Modes : BeginSnapshot(by, mode)
  <2>1. PICK by \in world.snappers, mode \in Modes : BeginSnapshot(by, mode)
    BY <1>12
  <2>2. UNCHANGED <<wal, snap, log, next, w, cur, gens, crashes>>
    BY <2>1 DEF BeginSnapshot, worker
  <2>3. Numbered /\ NumPart
    BY <1>3, <2>2 DEF NumInv, Numbered
  <2>4. FilesGoOn
    BY <1>1, <2>2, SameFiles
  <2>5. NumPart' /\ NumbersGoOn
    BY <1>1, <2>1, <2>3, BeginSnapshotNum
  <2> QED BY <1>1, <1>2, <2>2, <2>3, <2>4, <2>5, CalmStoreNum
<1> QED BY <1>5, <1>6, <1>7, <1>8, <1>9, <1>10, <1>11, <1>12 DEF Next, SnapshotStep

\* A backup made of files that no lock keeps still numbers its commits as the store
\* does, whatever snapshots run while it opens and reads them: the floor and the
\* archives a generation carries end where its segments begin (upload_base,
\* write_manifest).
THEOREM BackupsKeepNumbers == Spec => []NumbersItsCommits
<1>1. NumInv => NumbersItsCommits
  <2>1. SUFFICES ASSUME NumInv, crashes = 0, NEW i \in DOMAIN gens
                 PROVE  LET g == gens[i] IN
                        /\ g.count <= Len(g.base)
                        /\ \A k \in DOMAIN g.segs :
                             g.count + k \in DOMAIN log /\ g.segs[k] = log[g.count + k]
    BY DEF NumbersItsCommits
  <2>2. TypeOK
    BY <2>1 DEF NumInv, RestoreInv, VouchInv
  <2>3. DOMAIN gens = 1..Len(gens) /\ gens \in Seq(Points) /\ log \in Seq(Nat)
    BY <2>2, WorkerFacts, NumFacts
  <2>4. PICK g \in Points : g = gens[i] /\ NumberedPoint(g)
    BY <2>1, <2>3 DEF NumInv, Numbered
  <2>5. g.segs \in Seq(Nat)
    BY DEF Points
  <2>6. DOMAIN g.segs = 1..Len(g.segs) /\ DOMAIN log = 1..Len(log)
    BY <2>3, <2>5
  <2> QED BY <2>4, <2>6 DEF NumberedPoint
<1>2. Init => NumInv
  BY NumInit
<1>3. NumInv /\ [Next]_vars => NumInv'
  BY NumStep
<1> QED BY <1>1, <1>2, <1>3, PTL DEF Spec
=============================================================================
