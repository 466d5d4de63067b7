------------------------------ MODULE Readers ------------------------------
(***************************************************************************)
(* SharedDb::reader: capturing a snapshot to read from, without waiting    *)
(* for the writers of this process, while a peer process writes too.       *)
(*                                                                         *)
(* Every write guard on the handle publishes the state it leaves, with the *)
(* WAL length and snapshot identity it goes with, before it lets the lock  *)
(* go.  A capture serves the published state while a guard is held, or     *)
(* when a look at the files finds them as published; else it tries the     *)
(* read lock, and follows the peer when the handle is behind.  Captures    *)
(* share their looks through DiskProbe.                                    *)
(*                                                                         *)
(* A state is the set of its commits.  What a capture does to follow the   *)
(* peer is under no process lock: each look at a file and each read of one *)
(* is an action, as in module Processes, and so is each of the two writes  *)
(* of a peer's snapshot.  A frame is appended whole, and the peer's own    *)
(* handle is current when it writes (module Processes has when it is not). *)
(***************************************************************************)
EXTENDS Integers, Sequences, FiniteSets, SequencesExt

CONSTANTS
  Captures,    \* the threads that call reader(), any number of times
  Worlds       \* what may happen: a group's fsync failing; how many commits, snapshots and captures

ASSUME ReadersAssumption ==
  /\ Worlds \subseteq [faults : SUBSET {"fsync"}, commits : Nat, snaps : Nat, reads : Nat]
  /\ {"none", "writer"} \cap Captures = {}

VARIABLES
  disk,      \* the snapshot's commits and identity, the WAL's frames and inode
  xlock,     \* the process lock: "free", "us" or "peer"
  handle,    \* this process's state, and what it was read from
  slot,      \* Published: the snapshot and its mark
  writing,   \* Published::writing
  guard,     \* the RwLock's write guard: who holds it and how far its release is
  writer,    \* this process's writer: one at a time, by the WAL mutex
  peer,      \* the peer's commit in flight
  probe,     \* DiskProbe
  cap,       \* the captures
  returned,  \* commits whose writer was told so, by process
  captured,  \* commits in some capture that returned
  used       \* commit numbers, snapshots and captures used, and the world they are used in

vars == <<disk, xlock, handle, slot, writing, guard, writer, peer, probe, cap, returned,
          captured, used>>

Free == [owner |-> "none", at |-> "free"]
Idle == [at |-> "idle", no |-> 0, pre |-> 0, direct |-> FALSE]
Mark(h) == [len |-> h.len, snap |-> h.snap]
Disk == [len |-> Len(disk.wal), snap |-> disk.snap]

\* What the files hold, and what they hold after the first n frames of the WAL.
Store == disk.base \cup ToSet(disk.wal)
After(n) == {disk.wal[i] : i \in n + 1 .. Len(disk.wal)}

Fresh == [mem   |-> {},      \* the commits applied
          len   |-> 0,       \* wal_consumed
          snap  |-> 0,       \* snapshot_ident
          ino   |-> 0,       \* wal_ident
          whole |-> TRUE]    \* history: no step of a peer's snapshot fell inside the refresh
                             \* that last read the files

\* The handle as the process lock lets it be read, at one moment.
Loaded == [mem |-> Store, len |-> Len(disk.wal), snap |-> disk.snap, ino |-> disk.ino, whole |-> TRUE]

Init ==
  /\ disk = [base |-> {}, wal |-> <<>>, snap |-> 0, ino |-> 0]
  /\ handle = Fresh
  /\ slot = [mem |-> {}, mark |-> Mark(Fresh), whole |-> TRUE]
  /\ xlock = "free" /\ writing = FALSE /\ guard = Free
  /\ writer = Idle /\ peer = 0
  /\ probe = [started |-> 0, finished |-> 0, running |-> FALSE, seen |-> Mark(Fresh)]
  /\ cap = [c \in Captures |-> [at |-> "idle"]]
  /\ returned = [us |-> {}, peer |-> {}] /\ captured = {}
  /\ \E w \in Worlds : used = [commits |-> 0, snaps |-> 0, reads |-> 0, world |-> w]

-----------------------------------------------------------------------------
(* The write guard: taken, `writing` set, the body, publish, clear, unlock. *)

TakeGuard(who) == guard.at = "free" /\ guard' = [owner |-> who, at |-> "taken"]

SetWriting ==
  /\ guard.at = "taken"
  /\ writing' = TRUE /\ guard' = [guard EXCEPT !.at = "body"]
  /\ UNCHANGED <<disk, xlock, handle, slot, writer, peer, probe, cap, returned, captured, used>>

InGuard(who) == guard = [owner |-> who, at |-> "body"]
EndBody == guard' = [guard EXCEPT !.at = "drop"]

\* Mutant of Publish: the guard is let go without publishing.
PublishNever ==
  /\ guard.at = "drop"
  /\ guard' = [guard EXCEPT !.at = "published"]
  /\ UNCHANGED <<disk, xlock, handle, slot, writing, writer, peer, probe, cap, returned,
                 captured, used>>

\* Published::set
Publish ==
  /\ guard.at = "drop"
  /\ slot' = [mem |-> handle.mem, mark |-> Mark(handle), whole |-> handle.whole]
  /\ guard' = [guard EXCEPT !.at = "published"]
  /\ UNCHANGED <<disk, xlock, handle, writing, writer, peer, probe, cap, returned, captured, used>>

ClearWriting ==
  /\ guard.at = "published"
  /\ writing' = FALSE /\ guard' = [guard EXCEPT !.at = "cleared"]
  /\ UNCHANGED <<disk, xlock, handle, slot, writer, peer, probe, cap, returned, captured, used>>

Unlock ==
  /\ guard.at = "cleared"
  /\ guard' = Free
  /\ UNCHANGED <<disk, xlock, handle, slot, writing, writer, peer, probe, cap, returned,
                 captured, used>>

-----------------------------------------------------------------------------
(* The writer: a direct write under one guard, or a group of the drain thread, which opens *)
(* its scope, applies and ends under guards of their own.                                  *)

Writer(at) == writer' = [writer EXCEPT !.at = at]

\* the process lock, then the guard
WriteLock ==
  /\ writer.at = "idle" /\ xlock = "free" /\ used.commits < used.world.commits
  /\ xlock' = "us"
  /\ \E direct \in BOOLEAN : writer' = [Idle EXCEPT !.at = "enter", !.direct = direct]
  /\ UNCHANGED <<disk, handle, slot, writing, guard, peer, probe, cap, returned, captured, used>>

WriteGuard ==
  /\ writer.at \in {"enter", "scoped", "failed", "synced"} /\ TakeGuard("writer")
  /\ UNCHANGED <<disk, xlock, handle, slot, writing, writer, peer, probe, cap, returned,
                 captured, used>>

\* enter_write_scope: on top of what the peer committed.  With the process lock held
\* nobody changes the files meanwhile.
EnterScope ==
  /\ writer.at = "enter" /\ InGuard("writer")
  /\ handle' = IF handle.snap # disk.snap \/ handle.len > Len(disk.wal) \/ handle.ino # disk.ino
               THEN Loaded
               ELSE [handle EXCEPT !.mem = @ \cup After(handle.len), !.len = Len(disk.wal)]
  /\ IF writer.direct THEN Writer("apply") /\ UNCHANGED guard ELSE Writer("scoped") /\ EndBody
  /\ UNCHANGED <<disk, xlock, slot, writing, peer, probe, cap, returned, captured, used>>

\* the commit: appended and applied.  A direct writer then fsyncs and lets the process lock
\* go before the guard; a group's fsync comes after its guard.
Apply ==
  /\ writer.at \in {"scoped", "apply"} /\ InGuard("writer")
  /\ LET no == used.commits + 1
     IN /\ disk' = [disk EXCEPT !.wal = Append(@, no)]
        /\ handle' = [handle EXCEPT !.mem = @ \cup {no}, !.len = @ + 1]
        /\ used' = [used EXCEPT !.commits = no]
        /\ writer' = [writer EXCEPT !.at = IF writer.direct THEN "written" ELSE "sync",
                                    !.no = no, !.pre = Len(disk.wal)]
  /\ xlock' = IF writer.direct THEN "free" ELSE xlock
  /\ EndBody
  /\ UNCHANGED <<slot, writing, peer, probe, cap, returned, captured>>

\* the group's fsync, with no guard held; when it fails the WAL is cut back, or, the cut's
\* own error being ignored, stays as it is
Fsync ==
  /\ writer.at = "sync" /\ guard.owner # "writer"
  /\ \/ Writer("synced") /\ UNCHANGED disk
     \/ /\ "fsync" \in used.world.faults /\ Writer("failed")
        /\ disk' \in {disk, [disk EXCEPT !.wal = SubSeq(@, 1, writer.pre)]}
  /\ UNCHANGED <<xlock, handle, slot, writing, guard, peer, probe, cap, returned, captured, used>>

\* the failure's guard puts the cursor back and leaves the state; the others' guard (the
\* events, and the end of the process lock) changes nothing that is captured
EndScope ==
  /\ writer.at \in {"failed", "synced"} /\ InGuard("writer")
  /\ handle' = [handle EXCEPT !.len = IF writer.at = "failed" THEN writer.pre ELSE @]
  /\ Writer(IF writer.at = "failed" THEN "degraded" ELSE "written")
  /\ xlock' = "free" /\ EndBody
  /\ UNCHANGED <<disk, slot, writing, peer, probe, cap, returned, captured, used>>

\* the caller is told, after the guard is gone; a degraded handle takes no further write
WriteReturns ==
  /\ writer.at = "written" /\ guard.owner # "writer"
  /\ returned' = [returned EXCEPT !.us = @ \cup {writer.no}]
  /\ writer' = Idle
  /\ UNCHANGED <<disk, xlock, handle, slot, writing, guard, peer, probe, cap, captured, used>>

-----------------------------------------------------------------------------
(* The peer process. *)

PeerCommits ==
  /\ xlock = "free" /\ used.commits < used.world.commits
  /\ LET no == used.commits + 1
     IN /\ disk' = [disk EXCEPT !.wal = Append(@, no)]
        /\ used' = [used EXCEPT !.commits = no]
        /\ peer' = no
  /\ xlock' = "peer"
  /\ UNCHANGED <<handle, slot, writing, guard, writer, probe, cap, returned, captured>>

PeerReturns ==
  /\ xlock = "peer" /\ peer # 0
  /\ xlock' = "free" /\ peer' = 0
  /\ returned' = [returned EXCEPT !.peer = @ \cup {peer}]
  /\ UNCHANGED <<disk, handle, slot, writing, guard, writer, probe, cap, captured, used>>

\* a peer's snapshot, in two writes: the snapshot, and the WAL it leaves empty
Snapshotting == xlock = "peer" /\ peer = 0

\* captures that have begun to read the files
Reading == {c \in Captures : cap[c].at \in {"lookWal", "lookIno", "tail", "loadSnap", "loadWal", "loadIdent"}}
Overtaken == [handle EXCEPT !.whole = @ /\ Reading = {}]

PeerSnapshots ==
  /\ xlock = "free" /\ used.snaps < used.world.snaps
  /\ xlock' = "peer"
  /\ disk' = [disk EXCEPT !.base = Store, !.snap = @ + 1]
  /\ handle' = Overtaken
  /\ used' = [used EXCEPT !.snaps = @ + 1]
  /\ UNCHANGED <<slot, writing, guard, writer, peer, probe, cap, returned, captured>>

PeerReplacesWal ==
  /\ Snapshotting
  /\ xlock' = "free"
  /\ disk' = [disk EXCEPT !.wal = <<>>, !.ino = @ + 1]
  /\ handle' = Overtaken
  /\ UNCHANGED <<slot, writing, guard, writer, peer, probe, cap, returned, captured, used>>

-----------------------------------------------------------------------------
(* Captures. *)

At(c, at) == cap' = [cap EXCEPT ![c].at = at]

\* the capture ends with this state, the handle's or a published one; `met` when it was
\* served because a guard was held
Serve(c, x, met) ==
  /\ cap' = [cap EXCEPT ![c] = [at |-> "served", got |-> x.mem, whole |-> x.whole, met |-> met,
                                us |-> cap[c].us, peer |-> cap[c].peer, seen |-> cap[c].seen]]
  /\ captured' = IF x.whole THEN captured \cup x.mem ELSE captured

\* reader(), up to Published::current's copy of the slot: what had returned by then is what
\* the capture owes its caller
Start(c) ==
  /\ cap[c].at \in {"idle", "served"} /\ used.reads < used.world.reads
  /\ used' = [used EXCEPT !.reads = @ + 1]
  /\ cap' = [cap EXCEPT ![c] = [at |-> "flag", us |-> returned.us, peer |-> returned.peer,
                                seen |-> captured, slot |-> slot]]
  /\ UNCHANGED <<disk, xlock, handle, slot, writing, guard, writer, peer, probe, returned, captured>>

WithAfter(s, after) == [at |-> "observe", us |-> s.us, peer |-> s.peer, seen |-> s.seen,
                        slot |-> s.slot, after |-> after, number |-> 0, len |-> 0, again |-> FALSE]

\* Mutant of CheckWriting: any look will do, one that began before the capture too.
CheckWritingAnyLook(c) ==
  /\ cap[c].at = "flag"
  /\ IF writing THEN Serve(c, cap[c].slot, TRUE)
     ELSE /\ cap' = [cap EXCEPT ![c] = WithAfter(@, probe.started - 1)]
          /\ UNCHANGED captured
  /\ UNCHANGED <<disk, xlock, handle, slot, writing, guard, writer, peer, probe, returned, used>>

\* while a guard is held the published state is served unseen; else observe(): looks
\* numbered after the last one started will do
CheckWriting(c) ==
  /\ cap[c].at = "flag"
  /\ IF writing THEN Serve(c, cap[c].slot, TRUE)
     ELSE /\ cap' = [cap EXCEPT ![c] = WithAfter(@, probe.started)]
          /\ UNCHANGED captured
  /\ UNCHANGED <<disk, xlock, handle, slot, writing, guard, writer, peer, probe, returned, used>>

\* is_stale_at, for what a look saw
Compare(c, seen) ==
  IF cap[c].slot.mark = seen THEN Serve(c, cap[c].slot, FALSE)
  ELSE At(c, "try") /\ UNCHANGED captured

\* a look that another capture made, started late enough
ShareLook(c) ==
  /\ cap[c].at = "observe" /\ probe.finished > cap[c].after
  /\ Compare(c, probe.seen)
  /\ UNCHANGED <<disk, xlock, handle, slot, writing, guard, writer, peer, probe, returned, used>>

\* a look of its own.  DiskState::read takes the WAL's length, then the snapshot's identity.
StartLook(c) ==
  /\ cap[c].at = "observe" /\ probe.finished <= cap[c].after /\ ~probe.running
  /\ probe' = [probe EXCEPT !.running = TRUE, !.started = @ + 1]
  /\ cap' = [cap EXCEPT ![c].at = "look", ![c].number = probe.started + 1, ![c].len = Len(disk.wal)]
  /\ UNCHANGED <<disk, xlock, handle, slot, writing, guard, writer, peer, returned, captured, used>>

\* Mutant of LookAtSnapshot: the look is over, and nobody may start another.
LookAtSnapshotStuck(c) ==
  LET seen == [len |-> cap[c].len, snap |-> disk.snap]
  IN /\ cap[c].at = "look"
     /\ probe' = [probe EXCEPT !.finished = cap[c].number, !.seen = seen]
     /\ Compare(c, seen)
     /\ UNCHANGED <<disk, xlock, handle, slot, writing, guard, writer, peer, returned, used>>

LookAtSnapshot(c) ==
  LET seen == [len |-> cap[c].len, snap |-> disk.snap]
  IN /\ cap[c].at = "look"
     /\ probe' = [probe EXCEPT !.running = FALSE, !.finished = cap[c].number, !.seen = seen]
     /\ Compare(c, seen)
     /\ UNCHANGED <<disk, xlock, handle, slot, writing, guard, writer, peer, returned, used>>

\* is_stale, under the read lock: with the handle still, its two looks answer as one look
\* at one of the two moments would
Stale == Mark(handle) # Disk

\* try_read: the published state when a guard is held; the handle's when it is current;
\* else the peer is followed first
TryRead(c) ==
  /\ cap[c].at = "try"
  /\ \/ guard.at # "free" /\ Serve(c, slot, TRUE)
     \/ guard.at = "free" /\ ~Stale /\ Serve(c, handle, FALSE)
     \/ guard.at = "free" /\ Stale /\ At(c, "refresh") /\ UNCHANGED captured
  /\ UNCHANGED <<disk, xlock, handle, slot, writing, guard, writer, peer, probe, returned, used>>

\* refresh_if_stale, which read() calls once more
Done(c) == cap' = [cap EXCEPT ![c].at = IF cap[c].again THEN "read" ELSE "refresh", ![c].again = TRUE]

RefreshIfStale(c) ==
  /\ cap[c].at = "refresh" /\ guard.at = "free"
  /\ IF Stale THEN At(c, "lock") ELSE Done(c)
  /\ UNCHANGED <<disk, xlock, handle, slot, writing, guard, writer, peer, probe, returned,
                 captured, used>>

RefreshLock(c) ==
  /\ cap[c].at = "lock" /\ TakeGuard(c) /\ At(c, "refreshing")
  /\ UNCHANGED <<disk, xlock, handle, slot, writing, writer, peer, probe, returned, captured, used>>

-----------------------------------------------------------------------------
(* refresh_checking under a capture's guard: the looks at the snapshot and at the WAL, and *)
(* then the WAL's tail, or a reload of the snapshot, the WAL and the snapshot's identity.  *)

\* Capture c, in its guard, goes on from `from`; the files are only read.
Follow(c, from) ==
  /\ cap[c].at = from /\ InGuard(c)
  /\ UNCHANGED <<disk, xlock, slot, writing, writer, peer, probe, returned, captured, used>>

RefreshLook(c) ==
  /\ Follow(c, "refreshing")
  /\ At(c, IF handle.snap # disk.snap THEN "loadSnap" ELSE "lookWal")
  /\ UNCHANGED <<handle, guard>>

RefreshLookAtWal(c) ==
  /\ Follow(c, "lookWal")
  /\ LET len == Len(disk.wal)
     IN \/ len = handle.len /\ Done(c) /\ EndBody
        \/ len < handle.len /\ At(c, "loadSnap") /\ UNCHANGED guard
        \/ len > handle.len /\ At(c, "lookIno") /\ UNCHANGED guard
  /\ UNCHANGED handle

\* the WAL's identity, only if it grew
RefreshLookAtInode(c) ==
  /\ Follow(c, "lookIno")
  /\ At(c, IF handle.ino # disk.ino THEN "loadSnap" ELSE "tail")
  /\ UNCHANGED <<handle, guard>>

\* the file is opened again by its name
RefreshTail(c) ==
  /\ Follow(c, "tail")
  /\ handle' = [handle EXCEPT !.mem = @ \cup After(handle.len),
                              !.len = IF Len(disk.wal) > @ THEN Len(disk.wal) ELSE @]
  /\ Done(c) /\ EndBody

ReloadSnapshot(c) ==
  /\ Follow(c, "loadSnap")
  /\ handle' = [handle EXCEPT !.mem = disk.base, !.whole = ~Snapshotting]
  /\ At(c, "loadWal") /\ UNCHANGED guard

ReloadWal(c) ==
  /\ Follow(c, "loadWal")
  /\ handle' = [handle EXCEPT !.mem = @ \cup ToSet(disk.wal), !.len = Len(disk.wal), !.ino = disk.ino]
  /\ At(c, "loadIdent") /\ UNCHANGED guard

ReloadIdent(c) ==
  /\ Follow(c, "loadIdent")
  /\ handle' = [handle EXCEPT !.snap = disk.snap]
  /\ Done(c) /\ EndBody

ReadHandle(c) ==
  /\ cap[c].at = "read" /\ guard.at = "free"
  /\ Serve(c, handle, FALSE)
  /\ UNCHANGED <<disk, xlock, handle, slot, writing, guard, writer, peer, probe, returned, used>>

Guards == SetWriting \/ Publish \/ ClearWriting \/ Unlock
Writes == WriteLock \/ WriteGuard \/ EnterScope \/ Apply \/ Fsync \/ EndScope \/ WriteReturns
Capture(c) ==
  \/ CheckWriting(c) \/ ShareLook(c) \/ StartLook(c) \/ LookAtSnapshot(c)
  \/ TryRead(c) \/ RefreshIfStale(c) \/ RefreshLock(c) \/ ReadHandle(c)
  \/ RefreshLook(c) \/ RefreshLookAtWal(c) \/ RefreshLookAtInode(c) \/ RefreshTail(c)
  \/ ReloadSnapshot(c) \/ ReloadWal(c) \/ ReloadIdent(c)

Next ==
  \/ Guards \/ Writes
  \/ PeerCommits \/ PeerReturns \/ PeerSnapshots \/ PeerReplacesWal
  \/ \E c \in Captures : Start(c) \/ Capture(c)

Spec == Init /\ [][Next]_vars

\* Threads run.  The peer is another process: nothing is assumed of it.
FairSpec ==
  Spec /\ WF_vars(Guards) /\ WF_vars(Writes) /\ \A c \in Captures : WF_vars(Capture(c))

-----------------------------------------------------------------------------
(* Properties. *)

Served == {c \in Captures : cap[c].at = "served"}

\* A capture has every write that had returned to a caller in this process when the
\* capture began, whatever guard is held and whoever took the look it acted on.
OwnWritesSeen == \A c \in Served : cap[c].us \subseteq cap[c].got

\* No group's fsync has failed: the handle is not degraded.
Healthy == writer.at \notin {"failed", "degraded"}

\* A capture has everything that any capture of a whole state that had returned when it
\* began has: two reads one after the other go back in time only from a state that a peer's
\* snapshot tore in its refresh, or once a group's fsync has failed.
CapturesAdvance == Healthy => \A c \in Served : cap[c].seen \subseteq cap[c].got

\* A capture that met no write guard has every commit the peer had returned when it began,
\* unless a step of a peer's snapshot fell inside the refresh that read its state, and until a
\* group's fsync fails.
PeersFollowed == Healthy =>
  \A c \in Served : ~cap[c].met /\ cap[c].whole => cap[c].peer \subseteq cap[c].got

\* The same although a peer snapshots in a refresh.
PeersFollowedThroughSnapshots == \A c \in Served : ~cap[c].met => cap[c].peer \subseteq cap[c].got

\* The same of every capture.
PeersAlwaysFollowed == \A c \in Served : cap[c].peer \subseteq cap[c].got

\* Every capture is a state the store was in: a commit that the store lost, its group's
\* fsync having failed, is the last commit of any capture that has it.
CapturesAreStates ==
  \A c \in Served : \A n \in cap[c].got \ Store : \A m \in cap[c].got : m <= n

\* Every capture returns: nobody waits for ever for a look, a guard or the peer.
CapturesReturn == \A c \in Captures : cap[c].at = "flag" ~> cap[c].at = "served"

=============================================================================
