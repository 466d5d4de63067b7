----------------------------- MODULE Processes -----------------------------
(***************************************************************************)
(* Several processes over one store: many readers, one writer at a time.   *)
(*                                                                         *)
(* A shared handle (SharedDb) takes the advisory LOCK for each write: it   *)
(* refreshes, and commits or snapshots before it lets the lock go.  An     *)
(* owner (GraphDb::open) holds the lock from its open to its drop.  A read *)
(* through a shared or a read-only handle takes no lock: it looks at the   *)
(* files' metadata, and when they moved it applies the WAL's tail from its *)
(* cursor or, when the files were replaced, loads them again.  Nothing a   *)
(* reader does is atomic with what a writer does, so each look at a file   *)
(* and each write to one is an action.                                     *)
(*                                                                         *)
(* A graph is the set of commits applied to it: how a crash of one process *)
(* leaves its own files is the business of module Store.  A frame is its   *)
(* commit's number, and every frame has length 1.                          *)
(***************************************************************************)
EXTENDS Naturals, Sequences, FiniteSets

CONSTANTS
  Proc,        \* processes, each with one handle on the store
  NoProc,      \* nobody holds the lock
  Worlds,      \* the deployments, one of which a behaviour is in:
               \*   modes, the kinds of handles: "shared", "owner", "reader"
               \*   faults, what happens besides commits: "kill", "torn", "open", "sync"
               \*   snaps, a bound on the snapshots taken
  MaxCommits   \* bound on the commits attempted

ASSUME ProcessesAssumption ==
  /\ NoProc \notin Proc
  /\ Worlds \subseteq [modes  : SUBSET {"shared", "owner", "reader"},
                      faults : SUBSET {"kill", "torn", "open", "sync"},
                      snaps  : Nat]
  /\ MaxCommits \in Nat

VARIABLES
  world,   \* the deployment this is; it never changes
  wal,     \* wal.bin: commit numbers, and Torn for bytes that are no frame
  ino,     \* the inode of wal.bin
  snap,    \* snapshot.bin: its identity and the commits it holds
  lock,    \* who holds LOCK
  h,       \* the handle of each process
  next,    \* the next commit's number
  acked,   \* the commits whose callers were told they are durable
  dropped  \* history: the commits that snapshots of handles with a hole left out

vars == <<world, wal, ino, snap, lock, h, next, acked, dropped>>

Torn == 0

\* A handle that is open, current and idle on an empty store.
Fresh ==
  [pc       |-> "idle",
   mode     |-> "shared",
   mem      |-> {},      \* the commits applied
   consumed |-> 0,       \* wal_consumed, the cursor
   loaded   |-> 0,       \* history: the snapshot its last load read
   snapId   |-> 0,       \* snapshot_ident
   walId    |-> 0,       \* wal_ident
   writing  |-> FALSE,   \* in a write scope
   opening  |-> FALSE,   \* loading for an open, not for a reload
   degraded |-> FALSE,
   keep     |-> <<>>,    \* the whole frames an open found
   file     |-> 0,       \* the inode an append opened
   pre      |-> 0,       \* the WAL's length before the group
   must     |-> {}]      \* the commits acknowledged before this read began

Down == [Fresh EXCEPT !.pc = "down"]

\* An empty store, over which some shared handles may be open.
Init ==
  /\ world \in Worlds
  /\ wal = <<>> /\ ino = 0 /\ snap = [id |-> 0, done |-> {}] /\ lock = NoProc
  /\ h \in [Proc -> {Down} \cup {x \in {Fresh} : x.mode \in world.modes}]
  /\ next = 1 /\ acked = {} /\ dropped = {}

-----------------------------------------------------------------------------
\* decode_all from a cursor: the whole frames before the first torn bytes.  A
\* cursor past torn bytes is inside a frame, where no checksum is right.
TailFrom(w, c) ==
  IF \E i \in 1..Len(w) : i <= c /\ w[i] = Torn THEN <<>>
  ELSE LET n == CHOOSE n \in 0..Len(w) :
                  /\ \A i \in 1..n : i > c => w[i] # Torn
                  /\ n < Len(w) => w[n+1] = Torn
       IN  SubSeq(w, c + 1, n)

Frames(s) == {s[i] : i \in 1..Len(s)}

\* What an open would rebuild now.
StoreState == snap.done \cup Frames(TailFrom(wal, 0))

\* Mutant of Stale: the snapshot alone is looked at.
StaleBySnapshot(x) == snap.id # x.snapId

\* DiskMark::is_stale_on.
Stale(x) == Len(wal) # x.consumed \/ snap.id # x.snapId

\* The last load read the snapshot before, and its identity after, a peer replaced it:
\* the graph may have a hole where the frames of the WAL in between were.
Straddles(x) == x.loaded # x.snapId

\* Process p goes on from `from` with its handle as `new`.
Step(p, from, new) ==
  /\ h[p].pc = from /\ h' = [h EXCEPT ![p] = new]
  /\ UNCHANGED world

-----------------------------------------------------------------------------
(* Reading: SharedDb::read.                                                *)

Read(p) ==
  /\ Step(p, "idle", [h[p] EXCEPT !.must = acked,
                                  !.pc = IF Stale(h[p]) THEN "look" ELSE "served"])
  /\ UNCHANGED <<wal, ino, snap, lock, next, acked, dropped>>

Return(p) ==
  /\ Step(p, "served", [h[p] EXCEPT !.must = {}, !.pc = "idle"])
  /\ UNCHANGED <<wal, ino, snap, lock, next, acked, dropped>>

-----------------------------------------------------------------------------
(* refresh_checking.                                                       *)

Refreshed(x) == [x EXCEPT !.pc = IF x.writing THEN "ready" ELSE "served"]

\* Mutant of WalReplaced: a replaced WAL is known by its length alone.
WalReplacedUnseen(x) == FALSE

\* The WAL's identity is looked at before an append, and by a reader only if
\* the WAL grew.
WalReplaced(x) == (x.writing \/ Len(wal) > x.consumed) /\ ino # x.walId

\* The look at the snapshot's metadata, and then at the WAL's: replaced files
\* are loaded again, a longer WAL has its tail applied.
LookAtSnapshot(p) ==
  /\ Step(p, "look", [h[p] EXCEPT !.pc = IF snap.id # h[p].snapId THEN "loadSnap" ELSE "lookWal"])
  /\ UNCHANGED <<wal, ino, snap, lock, next, acked, dropped>>

LookAtWal(p) ==
  LET x == h[p] IN
  /\ Step(p, "lookWal",
       IF Len(wal) < x.consumed \/ WalReplaced(x) THEN [x EXCEPT !.pc = "loadSnap"]
       ELSE IF Len(wal) = x.consumed THEN Refreshed(x) ELSE [x EXCEPT !.pc = "tail"])
  /\ UNCHANGED <<wal, ino, snap, lock, next, acked, dropped>>

\* Mutant of ReadTail: the cursor moves to the end of the file.
ReadTailToEnd(p) ==
  LET tail == TailFrom(wal, h[p].consumed) IN
  /\ Step(p, "tail", Refreshed([h[p] EXCEPT !.mem = @ \cup Frames(tail), !.consumed = Len(wal)]))
  /\ UNCHANGED <<wal, ino, snap, lock, next, acked, dropped>>

\* The file is opened again by its name.  The cursor moves by what decoded.
ReadTail(p) ==
  LET tail == TailFrom(wal, h[p].consumed) IN
  /\ Step(p, "tail", Refreshed([h[p] EXCEPT !.mem = @ \cup Frames(tail),
                                            !.consumed = @ + Len(tail)]))
  /\ UNCHANGED <<wal, ino, snap, lock, next, acked, dropped>>

-----------------------------------------------------------------------------
(* load_from_disk: the snapshot, the WAL, and at the end the identity of   *)
(* the snapshot.  A write scope and an owner's open load with the lock     *)
(* held; a read, SharedDb::open and a read-only open load without it.      *)

LoadSnapshot(p) ==
  /\ Step(p, "loadSnap", [h[p] EXCEPT !.mem = snap.done, !.loaded = snap.id, !.pc = "loadWal"])
  /\ UNCHANGED <<wal, ino, snap, lock, next, acked, dropped>>

\* Only an open that may write repairs a torn tail.
LoadWal(p) ==
  LET whole == TailFrom(wal, 0) IN
  /\ Step(p, "loadWal",
       [h[p] EXCEPT !.mem = @ \cup Frames(whole), !.consumed = Len(whole),
                    !.walId = ino, !.keep = whole,
                    !.pc = IF h[p].opening /\ h[p].mode # "reader" /\ Len(whole) < Len(wal)
                           THEN "repair" ELSE "loadIdent"])
  /\ UNCHANGED <<wal, ino, snap, lock, next, acked, dropped>>

\* write_atomic of the whole frames that were read.
RepairWal(p) ==
  /\ Step(p, "repair", [h[p] EXCEPT !.walId = ino + 1, !.pc = "loadIdent"])
  /\ wal' = h[p].keep /\ ino' = ino + 1
  /\ UNCHANGED <<snap, lock, next, acked, dropped>>

LoadIdent(p) ==
  LET x == [h[p] EXCEPT !.snapId = snap.id, !.keep = <<>>, !.opening = FALSE] IN
  /\ Step(p, "loadIdent", IF h[p].opening /\ ~x.writing THEN [x EXCEPT !.pc = "idle"]
                          ELSE Refreshed(x))
  /\ UNCHANGED <<wal, ino, snap, lock, next, acked, dropped>>

-----------------------------------------------------------------------------
(* Writing: the write scope of SharedDb::write and of the drain thread,    *)
(* and an owner, which is in a write scope all its life.                   *)

\* Mutant of EnterWriteScope: the lock is taken and nothing refreshed.
EnterWithoutRefresh(p) ==
  /\ h[p].mode = "shared" /\ ~h[p].degraded
  /\ lock = NoProc /\ lock' = p
  /\ Step(p, "idle", [h[p] EXCEPT !.writing = TRUE, !.pc = "ready"])
  /\ UNCHANGED <<wal, ino, snap, next, acked, dropped>>

\* The lock, and then the refresh that enter_write_scope makes under it.
EnterWriteScope(p) ==
  /\ h[p].mode = "shared" /\ ~h[p].degraded
  /\ lock = NoProc /\ lock' = p
  /\ Step(p, "idle", [h[p] EXCEPT !.writing = TRUE, !.pc = "look"])
  /\ UNCHANGED <<wal, ino, snap, next, acked, dropped>>

\* end_write_lock: an owner keeps the lock.
Left(x) ==
  IF x.mode = "owner" THEN [x EXCEPT !.pre = 0, !.file = 0, !.pc = "ready"]
  ELSE [x EXCEPT !.pre = 0, !.file = 0, !.writing = FALSE, !.pc = "idle"]
Unlocked(p) == IF h[p].mode = "owner" THEN p ELSE NoProc

\* The scope is left with nothing written.
LeaveWriteScope(p) ==
  /\ h[p].mode = "shared"
  /\ Step(p, "ready", Left(h[p]))
  /\ lock' = NoProc
  /\ UNCHANGED <<wal, ino, snap, next, acked, dropped>>

\* An append is not atomic to another process: it first sees part of a frame.
BeginAppend(p) ==
  /\ next <= MaxCommits
  /\ Step(p, "ready", [h[p] EXCEPT !.pre = Len(wal), !.file = ino, !.pc = "appending"])
  /\ wal' = Append(wal, Torn)
  /\ next' = next + 1
  /\ UNCHANGED <<ino, snap, lock, acked, dropped>>

\* The rest of the frame goes to the file the append opened.
EndAppend(p) ==
  /\ Step(p, "appending", [h[p] EXCEPT !.mem = @ \cup {next - 1}, !.consumed = @ + 1, !.pc = "appended"])
  /\ wal' = IF ino = h[p].file THEN [wal EXCEPT ![Len(wal)] = next - 1] ELSE wal
  /\ UNCHANGED <<ino, snap, lock, next, acked, dropped>>

\* The group's fsync; only then is the lock let go and the caller told.
Fsync(p) ==
  /\ Step(p, "appended", Left(h[p]))
  /\ acked' = acked \cup {next - 1}
  /\ lock' = Unlocked(p)
  /\ UNCHANGED <<wal, ino, snap, next, dropped>>

\* The group's fsync fails: the WAL is cut back to where the group began, or, the
\* cut's own error being ignored, stays as it is.
FsyncFails(p) ==
  /\ "sync" \in world.faults /\ h[p].mode = "shared"
  /\ Step(p, "appended", [Left(h[p]) EXCEPT !.degraded = TRUE, !.consumed = h[p].pre])
  /\ wal' \in {wal, SubSeq(wal, 1, h[p].pre)}
  /\ lock' = NoProc
  /\ UNCHANGED <<ino, snap, next, acked, dropped>>

\* A snapshot that replaces its WAL, in two writes.
WriteSnapshot(p) ==
  /\ snap.id < world.snaps
  /\ Step(p, "ready", [h[p] EXCEPT !.pc = "snapped"])
  /\ snap' = [id |-> snap.id + 1, done |-> h[p].mem]
  /\ dropped' = IF Straddles(h[p]) THEN dropped \cup (StoreState \ h[p].mem) ELSE dropped
  /\ UNCHANGED <<wal, ino, lock, next, acked>>

ReplaceWal(p) ==
  /\ Step(p, "snapped", [Left(h[p]) EXCEPT !.consumed = 0, !.walId = ino + 1, !.snapId = snap.id,
                                          !.loaded = snap.id])
  /\ wal' = <<>> /\ ino' = ino + 1
  /\ lock' = Unlocked(p)
  /\ UNCHANGED <<snap, next, acked, dropped>>

-----------------------------------------------------------------------------
(* Processes that die and come back.  The system lets go of a dead         *)
(* process's lock.                                                         *)

Kill(p) ==
  /\ "kill" \in world.faults
  /\ h[p].pc # "down"
  /\ h[p].pc = "appending" => "torn" \in world.faults
  /\ h' = [h EXCEPT ![p] = Down]
  /\ lock' = IF lock = p THEN NoProc ELSE lock
  /\ UNCHANGED <<world, wal, ino, snap, next, acked, dropped>>

\* A handle is dropped between two operations.
Close(p) ==
  /\ h[p].pc = "idle" \/ (h[p].mode = "owner" /\ h[p].pc = "ready")
  /\ h' = [h EXCEPT ![p] = Down]
  /\ lock' = IF lock = p THEN NoProc ELSE lock
  /\ UNCHANGED <<world, wal, ino, snap, next, acked, dropped>>

Loading(m) == [Fresh EXCEPT !.mode = m, !.opening = TRUE, !.writing = (m = "owner"),
                            !.pc = "loadSnap"]

\* GraphDb::open: the lock is taken before anything is read.
OpenOwner(p) ==
  /\ "owner" \in world.modes /\ lock = NoProc
  /\ Step(p, "down", Loading("owner"))
  /\ lock' = p
  /\ UNCHANGED <<wal, ino, snap, next, acked, dropped>>

\* A read-only open, and SharedDb::open: no lock is taken.
OpenUnlocked(p, m) ==
  /\ m \in world.modes
  /\ m = "shared" => "open" \in world.faults
  /\ Step(p, "down", Loading(m))
  /\ UNCHANGED <<wal, ino, snap, lock, next, acked, dropped>>

-----------------------------------------------------------------------------
Next ==
  \E p \in Proc :
    \/ Read(p) \/ Return(p)
    \/ LookAtSnapshot(p) \/ LookAtWal(p) \/ ReadTail(p)
    \/ LoadSnapshot(p) \/ LoadWal(p) \/ RepairWal(p) \/ LoadIdent(p)
    \/ EnterWriteScope(p) \/ LeaveWriteScope(p)
    \/ BeginAppend(p) \/ EndAppend(p) \/ Fsync(p) \/ FsyncFails(p)
    \/ WriteSnapshot(p) \/ ReplaceWal(p)
    \/ Kill(p) \/ Close(p)
    \/ OpenOwner(p) \/ \E m \in {"shared", "reader"} : OpenUnlocked(p, m)

Spec == Init /\ [][Next]_vars

-----------------------------------------------------------------------------
(* Properties.                                                             *)

Handle ==
  [pc : {"idle", "look", "lookWal", "tail", "loadSnap", "loadWal", "repair", "loadIdent", "served",
         "ready", "appending", "appended", "snapped", "down"},
   mem : SUBSET Nat, consumed : Nat, loaded : Nat, snapId : Nat, walId : Nat, writing : BOOLEAN,
   mode : {"shared", "owner", "reader"}, opening : BOOLEAN, degraded : BOOLEAN,
   keep : Seq(Nat), file : Nat, pre : Nat, must : SUBSET Nat]

\* Types of the files and of the handles.
TypeOK ==
  /\ world \in Worlds
  /\ wal \in Seq(Nat) /\ ino \in Nat
  /\ snap \in [id : Nat, done : SUBSET Nat]
  /\ lock \in Proc \cup {NoProc}
  /\ h \in [Proc -> Handle]
  /\ next \in Nat /\ acked \in SUBSET Nat /\ dropped \in SUBSET Nat

\* Nobody replaces the snapshot or cuts the WAL back.
OnlyGrows == world.snaps = 0 /\ world.faults \subseteq {"kill"}

\* A read that started after a peer's commit was acknowledged sees it.
ReadIsAlwaysCurrent == \A p \in Proc : h[p].pc = "served" => h[p].must \subseteq h[p].mem

\* The same while the WAL only grows: whatever a reader sees of a frame that is
\* being appended, and wherever a writer dies.
ReadIsCurrent == OnlyGrows => ReadIsAlwaysCurrent

\* The WAL is only appended to, and replaced with the lock held: no failed fsync cuts a
\* group off it, nobody repairs it without the lock, and no torn bytes are left in it
\* where there are shared handles, which append without looking.
Safe ==
  /\ "open" \notin world.faults /\ "sync" \notin world.faults
  /\ "shared" \in world.modes => "torn" \notin world.faults

\* A write lands on top of every commit other processes have made: when a
\* write scope is about to append or to snapshot, its handle's graph is the
\* one the files hold, and the WAL on disk ends where its cursor is.
WriteIsAlwaysOnTop ==
  \A p \in Proc : h[p].pc = "ready" =>
    /\ h[p].mem = StoreState
    /\ h[p].consumed = Len(wal) /\ h[p].walId = ino

\* The same where the WAL is only appended to and replaced under the lock, however
\* often writers snapshot and wherever they die: the cursor is always at the WAL's end,
\* and the graph is the files' unless a peer's snapshot fell inside the handle's last
\* load, which its refresh under the lock cannot tell.
WriteIsOnTop ==
  Safe => \A p \in Proc : h[p].pc = "ready" =>
    /\ h[p].consumed = Len(wal) /\ h[p].walId = ino
    /\ ~Straddles(h[p]) => h[p].mem = StoreState

\* A commit acknowledged as durable is in the files, whichever process
\* appends, snapshots, repairs or dies afterwards.
AckedAlwaysSurvives == acked \subseteq StoreState

\* The same but for what a snapshot of a handle with such a hole leaves out: there is
\* no other way to lose an acknowledged commit.
AckedSurvives == acked \subseteq StoreState \cup dropped

\* While the WAL only grows, a handle between two reads holds every commit
\* before the last one it holds: none was skipped over.
HandleIsPrefix ==
  OnlyGrows =>
    \A p \in Proc : h[p].pc \in {"idle", "served", "ready"} =>
      \A c \in h[p].mem : \A d \in StoreState : d < c => d \in h[p].mem
=============================================================================
