------------------------------ MODULE History ------------------------------
(***************************************************************************)
(* The history a store can still answer for: WAL archives, the live WAL,   *)
(* the horizon floor below which commits were discarded, and the genesis   *)
(* marker that says nothing was.  A commit is asked for by its number, the *)
(* position of its frame in the archives and the live WAL counted from the *)
(* floor.                                                                  *)
(*                                                                         *)
(* snapshot_with replaces the WAL in several file operations, and a kill   *)
(* can fall between any two of them.  A snapshot and the intent that names *)
(* it are one action here: module Store has what happens between the two.  *)
(* Frames are whole and durable.                                           *)
(***************************************************************************)
EXTENDS Naturals, Sequences, FiniteSets, SequencesExt

CONSTANTS
  Worlds,      \* the deployments, one of which a behaviour is in:
               \*   modes, the snapshots taken: "keep", "truncate", "archive"
               \*   faults, whether a step can fail and the handle go on
               \*   commits, a bound on the commits
  Declared,    \* whether the store has a declaration, which baselines repeat
  Retention,   \* wal_archive_retention, 0 for unlimited
  NoSnap,      \* no snapshot.bin
  MaxSnaps     \* bound on the snapshots begun

ASSUME HistoryAssumption ==
  /\ Worlds \subseteq [modes : SUBSET {"keep", "truncate", "archive"},
                       faults : BOOLEAN, commits : Nat]
  /\ Declared \in BOOLEAN
  /\ {Retention, MaxSnaps} \subseteq Nat

VARIABLES
  \* files
  wal,       \* wal.bin: frames [decl, id], id the last commit up to here
  arch,      \* the archives: frames by the archive's number
  floor,     \* wal.floor
  genesis,   \* whether the genesis marker exists
  snap,      \* snapshot.bin: the commits it holds, wal_truncated
  intent,    \* snapshot.intent: <<>>, or the WAL the snapshot held
  \* the handle
  pc, mode,
  hfloor,    \* wal_horizon_floor
  chain,     \* archive_genesis_chain
  preserved, \* snapshot_preserved_history
  surplus,   \* the archives a sweep has still to delete
  world,     \* the deployment this is; it never changes
  \* history variables
  count,     \* the commits made
  taken,     \* the snapshots begun
  issued     \* every number a frame was ever known by

files  == <<wal, arch, floor, genesis, snap, intent>>
handle == <<pc, mode, hfloor, chain, preserved, surplus>>
ghost  == <<world, count, taken, issued>>
vars   == <<files, handle, ghost>>

Decl(n)  == [decl |-> TRUE,  id |-> n]
Write(n) == [decl |-> FALSE, id |-> n]

\* What a WAL is replaced with: the declarations and nothing else.
Baseline == IF Declared THEN <<Decl(count)>> ELSE <<>>

\* Frames as bytes: two declarations are the same bytes.
Bytes(w) == [i \in 1..Len(w) |-> IF w[i].decl THEN 0 ELSE w[i].id]

Writes(s) == {s[i].id : i \in {j \in 1..Len(s) : ~s[j].decl}}

\* The frames of a set of archives, oldest first.
ArchiveFrames(a) ==
  LET names == SetToSortSeq(DOMAIN a, LAMBDA m, n : m < n)
  IN  FoldLeft(LAMBDA acc, n : acc \o a[n], <<>>, names)

Without(a, ns) == [n \in DOMAIN a \ ns |-> a[n]]

\* all_frames.
AllFrames == ArchiveFrames(arch) \o wal

\* wal_total_commits, which reads the floor on the disk.
WalTotalCommits == floor + Len(AllFrames)

\* The numbers a history read answers for, and the frames it finds there.  It
\* too reads the floor with the frames.
Numbered == {<<floor + i - 1, AllFrames[i]>> : i \in 1..Len(AllFrames)}

Init ==
  /\ wal = (IF Declared THEN <<Decl(0)>> ELSE <<>>)
  /\ arch = [n \in {} |-> <<>>] /\ floor = 0 /\ genesis = FALSE
  /\ snap = NoSnap /\ intent = <<>>
  /\ pc = "idle" /\ mode = "keep" /\ hfloor = 0 /\ chain = FALSE /\ preserved = TRUE
  /\ surplus = {}
  /\ world \in Worlds /\ count = 0 /\ taken = 0 /\ issued = {}

-----------------------------------------------------------------------------
\* Mutant of SnapshotIsWalEnd: an interrupted snapshot goes unnoticed.
SnapshotIsNeverWalEnd == FALSE

\* The intent stands: the snapshot is the state at the end of the live WAL,
\* not before it.
SnapshotIsWalEnd == intent # <<>> /\ IsPrefix(intent[1], Bytes(wal))

\* An intent that no longer stands is dropped before anything is appended.
Commit ==
  /\ pc = "idle" /\ count < world.commits
  /\ intent' = IF SnapshotIsWalEnd THEN intent ELSE <<>>
  /\ count' = count + 1
  /\ wal' = Append(wal, Write(count + 1))
  /\ issued' = issued \cup Numbered
  /\ UNCHANGED <<arch, floor, genesis, snap, handle, world, taken>>

\* The genesis marker goes in before anything is replaced.
BeginSnapshot(m) ==
  /\ pc = "idle" /\ taken < MaxSnaps
  /\ mode' = m /\ taken' = taken + 1
  /\ IF m = "archive" /\ (snap = NoSnap \/ preserved) /\ ~chain /\ DOMAIN arch = {}
     THEN genesis' = TRUE /\ chain' = TRUE
     ELSE UNCHANGED <<genesis, chain>>
  /\ pc' = "begun" /\ issued' = issued \cup Numbered
  /\ UNCHANGED <<wal, arch, floor, snap, intent, hfloor, preserved, surplus, world, count>>

\* An image that leaves its WAL in place has no intent.
WriteSnapshot ==
  /\ pc = "begun"
  /\ snap' = [done |-> 1..count, truncated |-> mode # "keep"]
  /\ intent' = IF mode = "keep" THEN <<>> ELSE <<Bytes(wal)>>
  /\ pc' = IF mode = "keep" THEN "idle" ELSE "snapped"
  /\ UNCHANGED <<wal, arch, floor, genesis, mode, hfloor, chain, preserved, surplus, ghost>>

-----------------------------------------------------------------------------
(* archive_wal.                                                            *)

Latest == IF DOMAIN arch = {} THEN hfloor ELSE Max(DOMAIN arch)

\* The number of the last frame in it, counted from the archive before it.
ArchiveName == Latest + Len(wal)

\* Mutant of NothingToArchive: the WAL is compared by its length.
NothingLonger == wal = <<>> \/ (Len(wal) = Len(Baseline) /\ DOMAIN arch # {})

NothingToArchive ==
  wal = <<>> \/ (Bytes(wal) = Bytes(Baseline) /\ DOMAIN arch # {})

ArchiveWal ==
  /\ pc = "snapped" /\ mode = "archive" /\ ~NothingToArchive
  /\ IF ArchiveName \in DOMAIN arch THEN pc' = "idle" /\ UNCHANGED <<arch, wal>>
     ELSE /\ arch' = [n \in DOMAIN arch \cup {ArchiveName} |->
                        IF n = ArchiveName THEN wal ELSE arch[n]]
          /\ wal' = <<>> /\ pc' = "renamed"
  /\ UNCHANGED <<floor, genesis, snap, intent, mode, hfloor, chain, preserved, surplus, ghost>>

\* The replacement goes in at once.  A WAL that is the replacement stays.
PutBaseline ==
  /\ pc = "renamed" \/ (pc = "snapped" /\ mode = "archive" /\ NothingToArchive)
  /\ wal' = IF pc = "snapped" /\ Bytes(wal) = Bytes(Baseline) THEN wal ELSE Baseline
  /\ pc' = "sweep"
  /\ UNCHANGED <<arch, floor, genesis, snap, intent, mode, hfloor, chain, preserved, surplus, ghost>>

\* The archives a sweep deletes: all but the newest Retention.
Surplus ==
  IF Retention = 0 THEN {}
  ELSE {n \in DOMAIN arch : Cardinality({m \in DOMAIN arch : m > n}) >= Retention}

Pruned == Len(ArchiveFrames([n \in Surplus |-> arch[n]]))

\* The floor is raised before any archive is deleted.
RaiseFloor ==
  /\ pc = "sweep" /\ Surplus # {}
  /\ hfloor' = hfloor + Pruned /\ floor' = hfloor'
  /\ surplus' = Surplus /\ pc' = "unmark"
  /\ UNCHANGED <<wal, arch, genesis, snap, intent, mode, chain, preserved, ghost>>

\* The floor's write fails when the handle's own floor is already raised.
RaiseFloorFails ==
  /\ world.faults
  /\ pc = "sweep" /\ Surplus # {}
  /\ hfloor' = hfloor + Pruned /\ pc' = "idle"
  /\ UNCHANGED <<files, mode, chain, preserved, surplus, ghost>>

NothingToSweep ==
  /\ pc = "sweep" /\ Surplus = {}
  /\ pc' = "settle"
  /\ UNCHANGED <<files, mode, hfloor, chain, preserved, surplus, ghost>>

DeleteGenesis ==
  /\ pc = "unmark"
  /\ genesis' = (genesis /\ ~chain) /\ chain' = FALSE
  /\ pc' = "delete"
  /\ UNCHANGED <<wal, arch, floor, snap, intent, mode, hfloor, preserved, surplus, ghost>>

\* One archive at a time, oldest first.
DeleteArchive ==
  /\ pc = "delete"
  /\ IF surplus = {} THEN pc' = "settle" /\ UNCHANGED <<arch, surplus>>
     ELSE /\ arch' = Without(arch, {Min(surplus)})
          /\ surplus' = surplus \ {Min(surplus)}
          /\ pc' = "delete"
  /\ UNCHANGED <<wal, floor, genesis, snap, intent, mode, hfloor, chain, preserved, ghost>>

-----------------------------------------------------------------------------
(* keep_wal = false.                                                       *)

\* The marker is no longer true, and goes before the floor moves.
CutGenesis ==
  /\ pc = "snapped" /\ mode = "truncate"
  /\ genesis' = (genesis /\ ~chain) /\ chain' = FALSE
  /\ preserved' = FALSE
  /\ pc' = "cut"
  /\ UNCHANGED <<wal, arch, floor, snap, intent, mode, hfloor, surplus, ghost>>

\* Mutant of CutFloor: the discarded frames do not keep their numbers.
CutNothing ==
  /\ pc = "cut"
  /\ pc' = "floored"
  /\ UNCHANGED <<files, mode, hfloor, chain, preserved, surplus, ghost>>

\* The discarded frames keep their numbers.
CutFloor ==
  /\ pc = "cut"
  /\ IF WalTotalCommits > hfloor
     THEN floor' = WalTotalCommits /\ hfloor' = WalTotalCommits
     ELSE UNCHANGED <<floor, hfloor>>
  /\ pc' = "floored"
  /\ UNCHANGED <<wal, arch, genesis, snap, intent, mode, chain, preserved, surplus, ghost>>

TruncateWal ==
  /\ pc = "floored"
  /\ wal' = Baseline
  /\ surplus' = {n \in DOMAIN arch : n <= hfloor}
  /\ pc' = "delete"
  /\ UNCHANGED <<arch, floor, genesis, snap, intent, mode, hfloor, chain, preserved, ghost>>

EmptyIntent ==
  /\ pc = "settle"
  /\ intent' = <<>> /\ pc' = "idle"
  /\ UNCHANGED <<wal, arch, floor, genesis, snap, mode, hfloor, chain, preserved, surplus, ghost>>

-----------------------------------------------------------------------------
\* A step of the snapshot fails; the caller gets the error, the handle goes on.
StepFails ==
  /\ world.faults /\ pc \notin {"idle", "down"}
  /\ pc' = "idle" /\ surplus' = {}
  /\ UNCHANGED <<files, mode, hfloor, chain, preserved, ghost>>

Kill ==
  /\ pc # "down"
  /\ pc' = "down" /\ surplus' = {} /\ mode' = "keep"
  /\ UNCHANGED <<files, hfloor, chain, preserved, world, count, taken>>
  /\ issued' = IF pc = "idle" THEN issued \cup Numbered ELSE issued

\* cleanup_orphaned_archives.
Orphaned(a, f) == IF f = 0 THEN {} ELSE {n \in DOMAIN a : n <= f}

\* The part of load_from_disk that reads the history.
Open ==
  /\ pc = "down"
  /\ arch' = Without(arch, Orphaned(arch, floor))
  /\ hfloor' = floor /\ chain' = genesis /\ preserved' = (snap = NoSnap)
  /\ pc' = "idle"
  /\ UNCHANGED <<wal, floor, genesis, snap, intent, mode, surplus, ghost>>

-----------------------------------------------------------------------------
Next ==
  \/ Commit \/ \E m \in world.modes : BeginSnapshot(m)
  \/ WriteSnapshot
  \/ ArchiveWal \/ PutBaseline \/ RaiseFloor \/ RaiseFloorFails \/ NothingToSweep
  \/ DeleteGenesis \/ DeleteArchive
  \/ CutGenesis \/ CutFloor \/ TruncateWal \/ EmptyIntent
  \/ StepFails \/ Kill \/ Open

Spec == Init /\ [][Next]_vars

-----------------------------------------------------------------------------
(* open_at.                                                                *)

Refused == [refused |-> TRUE, done |-> {}]
State(s) == [refused |-> FALSE, done |-> s]

\* Mutant of BaseIsGone: only the floor says that the base is gone.
BaseIsGoneByFloor(a) == floor > 0

\* The live WAL does not begin with the store's first commit.
BaseIsGone(a) == floor > 0 \/ ArchiveFrames(a) # <<>>

OpenAt(commit) ==
  LET kept  == Without(arch, Orphaned(arch, floor))
      old   == ArchiveFrames(kept)
      local == commit - floor
  IN  IF commit < floor \/ local >= Len(old) + Len(wal) THEN Refused
      ELSE IF local < Len(old)
      THEN IF floor > 0 \/ ~genesis THEN Refused
           ELSE State(Writes(SubSeq(old, 1, local + 1)))
      ELSE LET live == Writes(SubSeq(wal, 1, local - Len(old) + 1))
           IN  IF snap # NoSnap /\ snap.truncated /\ ~SnapshotIsWalEnd
               THEN State(snap.done \cup live)
               ELSE IF snap # NoSnap /\ BaseIsGone(kept) THEN Refused
               ELSE State(live)

\* The frame that open_at takes the number for.
FrameAt(commit) ==
  LET all == ArchiveFrames(Without(arch, Orphaned(arch, floor))) \o wal
  IN  all[commit - floor + 1]

-----------------------------------------------------------------------------
(* Properties.                                                             *)

Frame == [decl : BOOLEAN, id : Nat]

\* Types of the files and of the handle.
TypeOK ==
  /\ wal \in Seq(Frame)
  /\ DOMAIN arch \subseteq Nat /\ \A n \in DOMAIN arch : arch[n] \in Seq(Frame) \ {<<>>}
  /\ floor \in Nat /\ hfloor \in Nat
  /\ {genesis, chain, preserved} \subseteq BOOLEAN
  /\ snap = NoSnap \/ snap \in [done : SUBSET Nat, truncated : BOOLEAN]
  /\ intent \in Seq(Seq(Nat)) /\ surplus \subseteq DOMAIN arch

\* A number names one commit for ever: whatever is archived, pruned or
\* truncated, and wherever a kill falls, a number that a caller was given
\* later finds the same frame or is refused.
NumbersAlwaysKept ==
  pc = "idle" =>
    \A old \in issued, new \in Numbered : old[1] = new[1] => old[2] = new[2]

\* The same of a handle none of whose snapshots failed half-way.
NumbersKept == ~world.faults => NumbersAlwaysKept

\* Asking for a commit is refused or answered with exactly the graph after
\* that commit: no older write is missing and no later one shows, at any
\* moment of a snapshot and after any kill.
AsOfIsExact ==
  \A n \in 0..(WalTotalCommits - 1) :
    OpenAt(n).refused \/ OpenAt(n).done = 1..FrameAt(n).id

\* The frames an open would keep are the newest ones, without a hole, and while
\* the floor on the disk is 0 they are all of them: only what the floor accounts
\* for was ever discarded, whichever step of a snapshot was the last one taken.
HistoryIsWhole ==
  LET kept == Writes(ArchiveFrames(Without(arch, Orphaned(arch, floor))) \o wal) IN
  /\ kept \subseteq 1..count
  /\ \A n \in kept : n..count \subseteq kept
  /\ floor = 0 => kept = 1..count
=============================================================================
