--------------------------- MODULE ReadersProofs ---------------------------
(***************************************************************************)
(* Proofs about Readers, for any number of captures, commits and snapshots *)
(* and in every world: what a capture owes its caller is in it.            *)
(***************************************************************************)
EXTENDS Readers, SequenceTheorems, TLAPS

-----------------------------------------------------------------------------
(* Types.                                                                  *)

Commits == SUBSET Nat
Files   == [base : Commits, wal : Seq(Nat), snap : Nat, ino : Nat]
Handles == [mem : Commits, len : Nat, snap : Nat, ino : Nat, whole : BOOLEAN]
Marks   == [len : Nat, snap : Nat]
Slots   == [mem : Commits, mark : Marks, whole : BOOLEAN]
Probes  == [started : Nat, finished : Nat, running : BOOLEAN, seen : Marks]

Holding == {"flag", "observe", "look"}
Loads   == {"loadSnap", "loadWal", "loadIdent"}
Reads   == {"lookWal", "lookIno", "tail"} \cup Loads
Seeks   == {"observe", "look", "try", "refresh", "lock", "refreshing", "read"} \cup Reads

IdleCap   == [at : {"idle"}]
FlagCap   == [at : {"flag"}, us : Commits, peer : Commits, seen : Commits, slot : Slots]
SeekCap   == [at : Seeks, us : Commits, peer : Commits, seen : Commits, slot : Slots,
              after : Nat, number : Nat, len : Nat, again : BOOLEAN]
ServedCap == [at : {"served"}, got : Commits, whole : BOOLEAN, met : BOOLEAN,
              us : Commits, peer : Commits, seen : Commits]
Caps      == IdleCap \cup FlagCap \cup SeekCap \cup ServedCap

\* The types of the variables.
TypeOK ==
  /\ disk \in Files /\ xlock \in {"free", "us", "peer"}
  /\ handle \in Handles /\ slot \in Slots
  /\ guard \in [owner : {"none", "writer"} \cup Captures,
                at : {"free", "taken", "body", "drop", "published", "cleared"}]
  /\ writer \in [at : {"idle", "enter", "scoped", "apply", "sync", "synced", "failed", "degraded",
                       "written"},
                 no : Nat, pre : Nat, direct : BOOLEAN]
  /\ peer \in Nat /\ probe \in Probes
  /\ cap \in [Captures -> Caps]
  /\ returned \in [us : Commits, peer : Commits] /\ captured \in Commits
  /\ used \in [commits : Nat, snaps : Nat, reads : Nat, world : Worlds]

-----------------------------------------------------------------------------
(* The inductive invariant, in any world.                                  *)

InScope == {"enter", "scoped", "apply", "sync", "synced", "failed"}
OnTop   == {"scoped", "apply", "sync", "synced"}

\* A writer between its lock and its end has the process lock; a peer that has it commits, or
\* snapshots what the WAL holds.
Locked ==
  /\ writer.at \in InScope <=> xlock = "us"
  /\ xlock # "peer" => peer = 0
  /\ Snapshotting => ToSet(disk.wal) \subseteq disk.base

\* Outside the body and the end of a guard the handle is what is published.
SlotIsHandle ==
  guard.at \notin {"body", "drop"} =>
    slot.mem = handle.mem /\ slot.mark = Mark(handle) /\ slot.whole = handle.whole

\* The handle is where the files are, but for frames that the WAL has grown by, or a group
\* that was cut off it.
SamePlace == handle.snap = disk.snap /\ handle.ino = disk.ino
InPlace == SamePlace /\ (handle.len <= Len(disk.wal) \/ writer.at = "failed")

\* A group works at the WAL's end, and its commit is the last.
GroupIsLast ==
  /\ writer.at \in OnTop => SamePlace /\ handle.len = Len(disk.wal)
  /\ writer.at = "failed" => SamePlace /\ writer.pre <= Len(disk.wal)
  /\ writer.at = "sync" => /\ Len(disk.wal) = writer.pre + 1 /\ disk.wal[writer.pre + 1] = writer.no
                           /\ writer.no \notin returned.us

\* Commits that a reload finds again: in the snapshot, or the handle has no reason to reload.
Anchored(M) == M \subseteq disk.base \/ InPlace
Kept(M) == M \subseteq Store /\ Anchored(M)

\* What this process acknowledged, or is about to.
Mine == returned.us \cup {n \in {writer.no} : writer.at \in {"sync", "synced", "written"}}

\* It is in the files, the handle and the slot.
OwnKept ==
  /\ Mine \subseteq 0..used.commits
  /\ Kept(Mine)
  /\ returned.us \subseteq slot.mem
  /\ writer.at = "written" /\ guard # [owner |-> "writer", at |-> "drop"] => writer.no \in slot.mem
  /\ Mine \subseteq handle.mem \/ (writer.at = "failed" /\ \E c \in Captures : cap[c].at = "loadWal")

\* A capture that follows the peer has the guard, and what it reloads has this process's
\* commits; what this process owes a capture is in the slot it copied and in what it was served.
CaptureOwn(c, x) ==
  /\ x.at = "refreshing" => guard.owner = c /\ guard.at \in {"taken", "body"}
  /\ x.at \in Reads => guard = [owner |-> c, at |-> "body"]
  /\ x.at \in Loads => writer.at \notin OnTop /\ (Mine \subseteq disk.base \/ writer.at = "failed")
  /\ x.at = "loadWal" => Mine \subseteq handle.mem \/ (writer.at = "failed" /\ disk.base \subseteq handle.mem)
  /\ x.at # "idle" => /\ x.us \subseteq returned.us
                      /\ x.at \in Holding => x.us \subseteq x.slot.mem
                      /\ x.at = "served" => x.us \subseteq x.got

OwnInv ==
  /\ TypeOK /\ Locked /\ SlotIsHandle /\ GroupIsLast /\ OwnKept
  /\ \A c \in Captures : CaptureOwn(c, cap[c])

-----------------------------------------------------------------------------
(* The invariant while no group's fsync has failed.                        *)

\* A whole state whose snapshot is still the one on disk misses only the WAL's tail.
Follows(mem, mark, whole) ==
  whole /\ mark.snap = disk.snap =>
    ~Snapshotting /\ mark.len <= Len(disk.wal) /\ Store \subseteq mem \cup After(mark.len)

\* The commits of whole states that were captured, or may yet be without a look at the handle.
Shown ==
  {n \in Nat : \/ n \in captured
               \/ slot.whole /\ n \in slot.mem
               \/ \E c \in Captures : cap[c].at \in Holding /\ cap[c].slot.whole /\ n \in cap[c].slot.mem}

PeerKept ==
  /\ returned.peer \subseteq Store /\ (xlock = "peer" /\ peer # 0 => peer \in Store)
  /\ Kept(Shown) /\ Shown \subseteq slot.mem /\ Shown \subseteq handle.mem
  /\ slot.mark.snap <= disk.snap /\ Follows(slot.mem, slot.mark, slot.whole)
  /\ handle.snap <= disk.snap
  /\ handle.whole => handle.mem \subseteq Store
  /\ (\A c \in Captures : cap[c].at \notin {"loadWal", "loadIdent"}) =>
       /\ handle.whole => Anchored(handle.mem)
       /\ Follows(handle.mem, Mark(handle), handle.whole)

\* What a capture holds, has read or was served.
CapturePeer(x) ==
  x.at # "idle" =>
    /\ x.seen \subseteq captured /\ x.peer \subseteq returned.peer
    /\ x.at \in Holding => /\ x.seen \subseteq x.slot.mem /\ x.slot.mark.snap <= disk.snap
                           /\ Follows(x.slot.mem, x.slot.mark, x.slot.whole)
    /\ x.at \in Loads => Shown \subseteq disk.base
    /\ x.at \in {"lookWal", "lookIno", "tail"} /\ handle.whole => handle.snap = disk.snap
    /\ x.at = "tail" /\ handle.whole => handle.ino = disk.ino
    /\ x.at = "loadWal" /\ handle.whole => ~Snapshotting /\ handle.mem = disk.base
    /\ x.at = "loadIdent" /\ handle.whole =>
         /\ ~Snapshotting /\ handle.ino = disk.ino /\ handle.len <= Len(disk.wal)
         /\ Store \subseteq handle.mem \cup After(handle.len)
    /\ x.at \in {"read", "loadIdent"} /\ handle.whole =>
         x.peer \subseteq handle.mem \/ \E c \in Captures : cap[c].at = "loadWal"
    /\ x.at = "served" => x.seen \subseteq x.got /\ (~x.met /\ x.whole => x.peer \subseteq x.got)

\* A capture whose slot is whole and as a look saw the files has what the peer acknowledged.
Vouches(x, seen) == x.slot.whole /\ x.slot.mark = seen => x.peer \subseteq x.slot.mem

\* Looks are numbered in the order they start.
LooksNumbered ==
  /\ probe.finished <= probe.started
  /\ \A c \in Captures :
       cap[c].at \in {"observe", "look"} =>
         /\ cap[c].after <= probe.started
         /\ cap[c].at = "look" => cap[c].after < cap[c].number /\ cap[c].number <= probe.started

\* A look that began after the capture vouches for its slot, finished or not.
LooksVouch ==
  \A c \in Captures : cap[c].at \in {"observe", "look"} =>
    /\ cap[c].after < probe.finished => Vouches(cap[c], probe.seen)
    /\ \A d \in Captures : cap[d].at = "look" /\ cap[c].after < cap[d].number =>
         Vouches(cap[c], [len |-> cap[d].len, snap |-> disk.snap])

PeerGood == PeerKept /\ LooksVouch /\ \A c \in Captures : CapturePeer(cap[c])
PeerInv == LooksNumbered /\ (Healthy => PeerGood)

-----------------------------------------------------------------------------
(* The WAL.                                                                *)

LEMMA WalIs ==
  ASSUME NEW s \in Seq(Nat)
  PROVE  /\ Len(s) \in Nat /\ ToSet(s) = {s[i] : i \in 1..Len(s)} /\ ToSet(s) \in Commits
         /\ \A i \in 1..Len(s) : s[i] \in Nat
<1>1. DOMAIN s = 1..Len(s) /\ Len(s) \in Nat /\ \A i \in 1..Len(s) : s[i] \in Nat
  BY LenProperties, ElementOfSeq
<1>2. ToSet(s) = {s[i] : i \in 1..Len(s)}
  BY <1>1 DEF ToSet
<1> QED BY <1>1, <1>2 DEF Commits

\* The WAL and one more frame.
LEMMA WalAppended ==
  ASSUME NEW s \in Seq(Nat), NEW x \in Nat, NEW t, t = Append(s, x)
  PROVE  /\ t \in Seq(Nat) /\ Len(t) = Len(s) + 1 /\ Len(s) \in Nat
         /\ t[Len(s) + 1] = x /\ \A i \in 1..Len(s) : t[i] = s[i]
         /\ ToSet(t) = ToSet(s) \cup {x}
<1>1. /\ t \in Seq(Nat) /\ Len(t) = Len(s) + 1 /\ Len(s) \in Nat
      /\ t[Len(s) + 1] = x /\ \A i \in 1..Len(s) : t[i] = s[i]
  BY AppendProperties, LenProperties
<1>2. /\ Len(s) + 1 \in 1..Len(t)
      /\ \A i \in 1..Len(t) : i \in 1..Len(s) \/ i = Len(s) + 1
      /\ \A i \in 1..Len(s) : i \in 1..Len(t)
  BY <1>1
<1>3. ToSet(t) = {t[i] : i \in 1..Len(t)} /\ ToSet(s) = {s[i] : i \in 1..Len(s)}
  BY <1>1, WalIs
<1>4. ToSet(t) = ToSet(s) \cup {x}
  BY <1>1, <1>2, <1>3
<1> QED BY <1>1, <1>4

\* The WAL without its last frame.
LEMMA WalCut ==
  ASSUME NEW s \in Seq(Nat), NEW n \in Nat, Len(s) = n + 1, NEW t, t = SubSeq(s, 1, n)
  PROVE  t \in Seq(Nat) /\ Len(t) = n /\ ToSet(s) \subseteq ToSet(t) \cup {s[n + 1]}
<1>1. \A i \in 1..n : s[i] \in Nat
  BY ElementOfSeq
<1>2. t \in Seq(Nat) /\ Len(t) = n /\ \A i \in 1..n : t[i] = s[i]
  BY <1>1, SubSeqProperties
<1>3. ToSet(t) = {t[i] : i \in 1..Len(t)} /\ ToSet(s) = {s[i] : i \in 1..Len(s)}
  BY <1>2, WalIs
<1>4. \A i \in 1..Len(s) : i \in 1..n \/ i = n + 1
  OBVIOUS
<1> QED BY <1>2, <1>3, <1>4

\* What the files hold, and hold after a frame.
LEMMA FilesHold ==
  ASSUME disk \in Files
  PROVE  /\ Len(disk.wal) \in Nat /\ disk.wal \in Seq(Nat) /\ disk.base \in Commits
         /\ Store \in Commits /\ ToSet(disk.wal) \subseteq Store /\ disk.base \subseteq Store
         /\ \A n \in Nat : /\ After(n) \in Commits /\ After(n) \subseteq Store
                           /\ n >= Len(disk.wal) => After(n) = {}
<1>1. PICK s : s = disk.wal
  OBVIOUS
<1>2. s \in Seq(Nat) /\ disk.base \in Commits
  BY <1>1 DEF Files
<1>3. /\ Len(s) \in Nat /\ ToSet(s) = {s[i] : i \in 1..Len(s)} /\ ToSet(s) \in Commits
  BY <1>2, WalIs
<1>4. Store = disk.base \cup ToSet(s)
  BY <1>1 DEF Store
<1>5. ASSUME NEW n \in Nat
      PROVE  After(n) \subseteq ToSet(s) /\ (n >= Len(s) => After(n) = {})
  <2>1. After(n) = {s[i] : i \in n + 1 .. Len(s)}
    BY <1>1 DEF After
  <2>2. \A i \in n + 1 .. Len(s) : i \in 1..Len(s)
    BY <1>3, <1>5
  <2>3. n >= Len(s) => n + 1 .. Len(s) = {}
    BY <1>3, <1>5
  <2> QED BY <1>3, <2>1, <2>2, <2>3
<1> QED BY <1>1, <1>2, <1>3, <1>4, <1>5 DEF Commits

-----------------------------------------------------------------------------
(* Captures.                                                               *)

\* Where a capture is tells what it carries.
LEMMA CapIs ==
  ASSUME NEW x \in Caps
  PROVE  /\ x.at = "flag" => x \in FlagCap
         /\ x.at \in Seeks => x \in SeekCap
         /\ x.at = "served" => x \in ServedCap
         /\ x.at \in Holding => x.slot \in Slots
BY DEF Caps, IdleCap, FlagCap, SeekCap, ServedCap, Seeks, Reads, Loads, Holding

\* A capture that ends.
LEMMA ServedIs ==
  ASSUME NEW c \in Captures, cap[c] \in FlagCap \cup SeekCap, captured \in Commits,
         NEW s, s.mem \in Commits, s.whole \in BOOLEAN, NEW met \in BOOLEAN, Serve(c, s, met)
  PROVE  \E x \in ServedCap :
           /\ cap' = [cap EXCEPT ![c] = x] /\ x.at = "served"
           /\ x.got = s.mem /\ x.whole = s.whole /\ x.met = met
           /\ x.us = cap[c].us /\ x.peer = cap[c].peer /\ x.seen = cap[c].seen
           /\ captured' = (IF s.whole THEN captured \cup s.mem ELSE captured) /\ captured' \in Commits
<1>1. cap[c].us \in Commits /\ cap[c].peer \in Commits /\ cap[c].seen \in Commits
  BY DEF FlagCap, SeekCap
<1>2. PICK x : x = [at |-> "served", got |-> s.mem, whole |-> s.whole, met |-> met, us |-> cap[c].us,
                    peer |-> cap[c].peer, seen |-> cap[c].seen]
  OBVIOUS
<1>3. x \in ServedCap
  BY <1>1, <1>2 DEF ServedCap
<1>4. cap' = [cap EXCEPT ![c] = x] /\ captured' = (IF s.whole THEN captured \cup s.mem ELSE captured)
  BY <1>2 DEF Serve
<1>5. captured' \in Commits
  BY <1>4 DEF Commits
<1> QED BY <1>2, <1>3, <1>4, <1>5

\* A capture that goes on as x.
Goes(c, x) ==
  /\ x \in SeekCap /\ cap' = [cap EXCEPT ![c] = x]
  /\ x.us = cap[c].us /\ x.peer = cap[c].peer /\ x.seen = cap[c].seen

LEMMA MovedIs ==
  ASSUME NEW c \in Captures, cap[c] \in SeekCap, NEW at \in Seeks, At(c, at)
  PROVE  \E x : Goes(c, x) /\ x.at = at
<1>1. PICK x : x = [cap[c] EXCEPT !.at = at]
  OBVIOUS
<1>2. /\ x \in SeekCap /\ x.at = at
      /\ x.us = cap[c].us /\ x.peer = cap[c].peer /\ x.seen = cap[c].seen
  BY <1>1 DEF SeekCap
<1>3. cap' = [cap EXCEPT ![c] = x]
  BY <1>1 DEF At
<1> QED BY <1>2, <1>3 DEF Goes

LEMMA DoneIs ==
  ASSUME NEW c \in Captures, cap \in [Captures -> Caps], cap[c] \in SeekCap, Done(c)
  PROVE  \E x : Goes(c, x) /\ x.at \in {"read", "refresh"}
<1>1. PICK at \in {"read", "refresh"} : at = IF cap[c].again THEN "read" ELSE "refresh"
  OBVIOUS
<1>2. PICK x : x = [cap[c] EXCEPT !.at = at, !.again = TRUE]
  OBVIOUS
<1>3. /\ x \in SeekCap /\ x.at = at
      /\ x.us = cap[c].us /\ x.peer = cap[c].peer /\ x.seen = cap[c].seen
  BY <1>2 DEF SeekCap, Seeks
<1>4. cap' = [cap EXCEPT ![c] = x]
  BY <1>1, <1>2 DEF Done
<1> QED BY <1>3, <1>4 DEF Goes

-----------------------------------------------------------------------------
(* What this process acknowledged is in every capture.                     *)

LEMMA OwnInit == ReadersAssumption /\ Init => OwnInv
<1> SUFFICES ASSUME ReadersAssumption, Init
             PROVE  OwnInv
  OBVIOUS
<1>1. PICK w \in Worlds : used = [commits |-> 0, snaps |-> 0, reads |-> 0, world |-> w]
  BY DEF Init
<1>2. TypeOK
  <2>1. disk \in Files /\ handle \in Handles /\ slot \in Slots /\ xlock \in {"free", "us", "peer"}
    BY DEF Init, Files, Handles, Slots, Marks, Commits, Fresh, Mark
  <2>2. cap \in [Captures -> Caps]
    BY DEF Init, Caps, IdleCap
  <2>3. used \in [commits : Nat, snaps : Nat, reads : Nat, world : Worlds]
    BY <1>1
  <2>4. guard \in [owner : {"none", "writer"} \cup Captures,
                   at : {"free", "taken", "body", "drop", "published", "cleared"}]
    BY DEF Init, Free
  <2>5. /\ writer \in [at : {"idle", "enter", "scoped", "apply", "sync", "synced", "failed",
                             "degraded", "written"},
                       no : Nat, pre : Nat, direct : BOOLEAN]
        /\ peer \in Nat
    BY DEF Init, Idle
  <2>6. /\ probe \in Probes /\ returned \in [us : Commits, peer : Commits] /\ captured \in Commits
    BY DEF Init, Probes, Marks, Mark, Fresh, Commits
  <2> QED BY <2>1, <2>2, <2>3, <2>4, <2>5, <2>6 DEF TypeOK
<1>3. Locked /\ SlotIsHandle /\ GroupIsLast
  BY DEF Init, Idle, Free, Fresh, Mark, Locked, InScope, OnTop, Snapshotting, SlotIsHandle, GroupIsLast
<1>4. Mine = {}
  BY DEF Init, Idle, Mine
<1>5. OwnKept
  BY <1>4 DEF Init, Idle, OwnKept, Kept, Anchored
<1>6. \A c \in Captures : CaptureOwn(c, cap[c])
  BY DEF Init, CaptureOwn, Reads, Loads
<1> QED BY <1>2, <1>3, <1>5, <1>6 DEF OwnInv

\* A step of the write guard.
LEMMA OwnGuards ==
  ASSUME OwnInv, Guards
  PROVE  OwnInv'
<1> USE DEF OwnInv
<1>1. CASE SetWriting
  <2>1. TypeOK'
    BY <1>1 DEF SetWriting, TypeOK
  <2>2. Locked' /\ GroupIsLast' /\ Mine' = Mine /\ Kept(Mine)'
    BY <1>1 DEF SetWriting, Locked, Snapshotting, GroupIsLast, SamePlace, Mine, OwnKept, Kept, Store,
                Anchored, InPlace
  <2>3. guard'.at = "body" /\ guard'.owner = guard.owner /\ guard.at = "taken"
    BY <1>1 DEF SetWriting, TypeOK
  <2>4. SlotIsHandle' /\ OwnKept'
    BY <1>1, <2>2, <2>3 DEF SetWriting, SlotIsHandle, Mark, OwnKept
  <2>5. \A c \in Captures : CaptureOwn(c, cap[c])'
    BY <1>1, <2>1, <2>2, <2>3 DEF SetWriting, CaptureOwn
  <2> QED BY <2>1, <2>2, <2>4, <2>5
<1>2. CASE Publish
  <2>1. TypeOK'
    BY <1>2 DEF Publish, TypeOK, Slots, Handles, Marks, Mark
  <2>2. Locked' /\ GroupIsLast' /\ Mine' = Mine /\ Kept(Mine)'
    BY <1>2 DEF Publish, Locked, Snapshotting, GroupIsLast, SamePlace, Mine, OwnKept, Kept, Store,
                Anchored, InPlace
  <2>3. guard'.at = "published" /\ guard'.owner = guard.owner /\ guard.at = "drop"
    BY <1>2 DEF Publish, TypeOK
  <2>4. \A c \in Captures : cap[c].at # "refreshing" /\ cap[c].at \notin Reads
    BY <2>3 DEF CaptureOwn
  <2>5. \A c \in Captures : cap[c].at # "loadWal"
    BY <2>4 DEF Reads, Loads
  <2>6. Mine \subseteq handle.mem
    BY <2>5 DEF OwnKept
  <2>7. SlotIsHandle' /\ OwnKept'
    BY <1>2, <2>2, <2>3, <2>6 DEF Publish, SlotIsHandle, Mark, OwnKept, Mine
  <2>8. \A c \in Captures : CaptureOwn(c, cap[c])'
    BY <1>2, <2>2, <2>4 DEF Publish, CaptureOwn, Reads, Loads
  <2> QED BY <2>1, <2>2, <2>7, <2>8
<1>3. CASE ClearWriting \/ Unlock
  <2>1. TypeOK'
    BY <1>3 DEF ClearWriting, Unlock, TypeOK, Free
  <2>2. UNCHANGED <<disk, xlock, handle, slot, writer, peer, cap, returned, captured, used>>
    BY <1>3 DEF ClearWriting, Unlock
  <2>3. Locked' /\ GroupIsLast' /\ Mine' = Mine /\ Kept(Mine)'
    BY <2>2 DEF Locked, Snapshotting, GroupIsLast, SamePlace, Mine, OwnKept, Kept, Store,
                Anchored, InPlace
  <2>4. guard'.at \in {"cleared", "free"} /\ guard.at \in {"published", "cleared"}
    BY <1>3 DEF ClearWriting, Unlock, TypeOK, Free
  <2>5. \A c \in Captures : cap[c].at # "refreshing" /\ cap[c].at \notin Reads
    BY <2>4 DEF CaptureOwn
  <2>6. SlotIsHandle' /\ OwnKept'
    BY <2>2, <2>3, <2>4 DEF SlotIsHandle, Mark, OwnKept
  <2>7. \A c \in Captures : CaptureOwn(c, cap[c])'
    BY <2>2, <2>3, <2>5 DEF CaptureOwn, Reads, Loads
  <2> QED BY <2>1, <2>3, <2>6, <2>7
<1> QED BY <1>1, <1>2, <1>3 DEF Guards

\* The writer takes the process lock, and a guard.
LEMMA OwnLocks ==
  ASSUME OwnInv, WriteLock \/ WriteGuard
  PROVE  OwnInv'
<1> USE DEF OwnInv
<1>1. CASE WriteLock
  <2>1. PICK direct \in BOOLEAN : writer' = [Idle EXCEPT !.at = "enter", !.direct = direct]
    BY <1>1 DEF WriteLock
  <2>2. writer' = [at |-> "enter", no |-> 0, pre |-> 0, direct |-> direct]
    BY <2>1 DEF Idle
  <2>3. TypeOK'
    BY <1>1, <2>2 DEF WriteLock, TypeOK
  <2>4. Mine' = Mine /\ writer.at = "idle" /\ writer'.at = "enter"
    BY <1>1, <2>2 DEF WriteLock, Mine
  <2>5. Locked' /\ SlotIsHandle' /\ GroupIsLast'
    BY <1>1, <2>4 DEF WriteLock, Locked, InScope, Snapshotting, SlotIsHandle, Mark, GroupIsLast, OnTop
  <2>6. OwnKept'
    BY <1>1, <2>4 DEF WriteLock, OwnKept, Kept, Store, Anchored, InPlace, SamePlace
  <2>7. \A c \in Captures : CaptureOwn(c, cap[c])'
    BY <1>1, <2>4 DEF WriteLock, CaptureOwn, OnTop
  <2> QED BY <2>3, <2>5, <2>6, <2>7
<1>2. CASE WriteGuard
  <2>1. TypeOK'
    BY <1>2 DEF WriteGuard, TakeGuard, TypeOK
  <2>2. UNCHANGED <<disk, xlock, handle, slot, writer, peer, cap, returned, captured, used>>
    BY <1>2 DEF WriteGuard
  <2>3. Locked' /\ GroupIsLast' /\ Mine' = Mine /\ Kept(Mine)'
    BY <2>2 DEF Locked, Snapshotting, GroupIsLast, SamePlace, Mine, OwnKept, Kept, Store,
                Anchored, InPlace
  <2>4. guard' = [owner |-> "writer", at |-> "taken"] /\ guard.at = "free"
    BY <1>2 DEF WriteGuard, TakeGuard
  <2>5. \A c \in Captures : cap[c].at # "refreshing" /\ cap[c].at \notin Reads
    BY <2>4 DEF CaptureOwn
  <2>6. guard # [owner |-> "writer", at |-> "drop"]
    BY <2>4
  <2>7. SlotIsHandle' /\ OwnKept'
    BY <2>2, <2>3, <2>4, <2>6 DEF SlotIsHandle, Mark, OwnKept
  <2>8. \A c \in Captures : CaptureOwn(c, cap[c])'
    BY <2>2, <2>3, <2>5 DEF CaptureOwn, Reads, Loads
  <2> QED BY <2>1, <2>3, <2>7, <2>8
<1> QED BY <1>1, <1>2

\* While the writer has the guard no capture follows the peer.
LEMMA WriterAlone ==
  ASSUME OwnInv, ReadersAssumption, guard.owner = "writer"
  PROVE  \A c \in Captures : /\ cap[c].at # "refreshing" /\ cap[c].at \notin Reads
                             /\ cap[c].at \notin Loads /\ cap[c].at # "loadWal"
BY DEF OwnInv, CaptureOwn, ReadersAssumption, Reads, Loads

\* What a write scope begins with: the handle is what the files are, and keeps what it had of them.
LEMMA Entered ==
  ASSUME OwnInv, EnterScope
  PROVE  /\ handle' \in Handles /\ handle'.snap = disk.snap /\ handle'.ino = disk.ino
         /\ handle'.len = Len(disk.wal)
         /\ Store \cap handle.mem \subseteq handle'.mem
         /\ handle'.whole => handle' = Loaded \/ (handle.whole /\ InPlace /\ handle'.mem = handle.mem \cup After(handle.len))
         /\ handle' = Loaded \/ handle.mem \subseteq handle'.mem
<1>1. disk \in Files /\ handle \in Handles
  BY DEF OwnInv, TypeOK
<1>2. Len(disk.wal) \in Nat /\ Store \in Commits /\ After(handle.len) \in Commits
  BY <1>1, FilesHold DEF Handles
<1>3. CASE handle.snap # disk.snap \/ handle.len > Len(disk.wal) \/ handle.ino # disk.ino
  <2>1. handle' = Loaded
    BY <1>3 DEF EnterScope
  <2> QED BY <1>1, <1>2, <2>1 DEF Loaded, Handles, Files
<1>4. CASE ~(handle.snap # disk.snap \/ handle.len > Len(disk.wal) \/ handle.ino # disk.ino)
  <2>1. handle' = [handle EXCEPT !.mem = handle.mem \cup After(handle.len), !.len = Len(disk.wal)]
    BY <1>4 DEF EnterScope
  <2>2. PICK m : m = handle.mem \cup After(handle.len)
    OBVIOUS
  <2>3. m \in Commits
    BY <1>1, <1>2, <2>2 DEF Handles, Commits
  <2>4. handle' \in Handles /\ handle'.mem = m /\ handle'.len = Len(disk.wal) /\ handle'.snap = handle.snap
        /\ handle'.ino = handle.ino /\ handle'.whole = handle.whole
    BY <1>1, <1>2, <2>1, <2>2, <2>3 DEF Handles
  <2>5. InPlace
    BY <1>1, <1>2, <1>4 DEF InPlace, SamePlace, Handles
  <2> QED BY <1>4, <2>2, <2>4, <2>5
<1> QED BY <1>3, <1>4

LEMMA OwnEnters ==
  ASSUME OwnInv, ReadersAssumption, EnterScope
  PROVE  OwnInv'
<1> USE DEF OwnInv
<1>1. /\ writer.at = "enter" /\ guard = [owner |-> "writer", at |-> "body"]
      /\ UNCHANGED <<disk, xlock, slot, writing, peer, probe, cap, returned, captured, used>>
  BY DEF EnterScope, InGuard
<1>2. /\ writer' \in [at : {"scoped", "apply"}, no : Nat, pre : Nat, direct : BOOLEAN]
      /\ writer'.at \in {"scoped", "apply"}
      /\ guard'.owner = "writer" /\ guard'.at \in {"body", "drop"}
      /\ guard' \in [owner : {"none", "writer"} \cup Captures,
                     at : {"free", "taken", "body", "drop", "published", "cleared"}]
  BY <1>1 DEF EnterScope, Writer, EndBody, TypeOK
<1>3. /\ handle' \in Handles /\ handle'.snap = disk.snap /\ handle'.ino = disk.ino
      /\ handle'.len = Len(disk.wal) /\ Store \cap handle.mem \subseteq handle'.mem
  BY Entered
<1>4. TypeOK'
  BY <1>1, <1>2, <1>3 DEF TypeOK
<1>5. xlock = "us" /\ writer'.at \notin {"sync", "synced", "written", "failed"}
  BY <1>1, <1>2 DEF Locked, InScope
<1>6. Locked' /\ SlotIsHandle' /\ GroupIsLast'
  BY <1>1, <1>2, <1>3, <1>5 DEF Locked, InScope, OnTop, Snapshotting, SlotIsHandle, GroupIsLast, SamePlace
<1>7. Mine = returned.us /\ Mine' = returned.us
  BY <1>1, <1>5 DEF Mine
<1>8. Len(disk.wal) \in Nat
  BY FilesHold DEF TypeOK
<1>9. InPlace'
  BY <1>1, <1>3, <1>8 DEF InPlace, SamePlace
<1>10. Mine \subseteq handle.mem /\ Mine \subseteq Store
  BY <1>1 DEF OwnKept, Kept
<1>11. OwnKept'
  BY <1>1, <1>3, <1>5, <1>7, <1>9, <1>10 DEF OwnKept, Kept, Anchored, Store
<1>12. \A c \in Captures : cap[c].at # "refreshing" /\ cap[c].at \notin Reads /\ cap[c].at \notin Loads /\ cap[c].at # "loadWal"
  BY <1>1, WriterAlone
<1>13. \A c \in Captures : CaptureOwn(c, cap[c])'
  BY <1>1, <1>12 DEF CaptureOwn
<1> QED BY <1>4, <1>6, <1>11, <1>13

\* A commit of this process: the files, the handle and the writer after it.
LEMMA Applied ==
  ASSUME OwnInv, Apply
  PROVE  \E no \in Nat :
           /\ no = used.commits + 1 /\ disk' \in Files /\ disk'.wal = Append(disk.wal, no)
           /\ disk'.base = disk.base /\ disk'.snap = disk.snap /\ disk'.ino = disk.ino
           /\ Len(disk'.wal) = Len(disk.wal) + 1 /\ disk'.wal[Len(disk.wal) + 1] = no
           /\ Len(disk.wal) \in Nat /\ Store' = Store \cup {no}
           /\ handle' \in Handles /\ handle'.mem = handle.mem \cup {no} /\ handle'.len = handle.len + 1
           /\ handle'.snap = handle.snap /\ handle'.ino = handle.ino /\ handle'.whole = handle.whole
           /\ used' = [used EXCEPT !.commits = no] /\ used'.commits = no
           /\ writer'.at \in {"written", "sync"} /\ writer'.no = no /\ writer'.pre = Len(disk.wal)
           /\ writer' \in [at : {"idle", "enter", "scoped", "apply", "sync", "synced", "failed",
                                 "degraded", "written"},
                           no : Nat, pre : Nat, direct : BOOLEAN]
           /\ xlock' = IF writer'.at = "sync" THEN "us" ELSE "free"
           /\ guard = [owner |-> "writer", at |-> "body"] /\ guard' = [owner |-> "writer", at |-> "drop"]
           /\ writer.at \in {"scoped", "apply"} /\ xlock = "us"
<1>1. PICK no : no = used.commits + 1
  OBVIOUS
<1>2. no \in Nat
  BY <1>1 DEF OwnInv, TypeOK
<1>3. /\ disk' = [disk EXCEPT !.wal = Append(disk.wal, no)]
      /\ handle' = [handle EXCEPT !.mem = handle.mem \cup {no}, !.len = handle.len + 1]
      /\ used' = [used EXCEPT !.commits = no]
      /\ writer' = [writer EXCEPT !.at = IF writer.direct THEN "written" ELSE "sync",
                                  !.no = no, !.pre = Len(disk.wal)]
      /\ xlock' = (IF writer.direct THEN "free" ELSE xlock)
      /\ guard = [owner |-> "writer", at |-> "body"] /\ guard' = [guard EXCEPT !.at = "drop"]
      /\ writer.at \in {"scoped", "apply"}
  BY <1>1 DEF Apply, EndBody, InGuard
<1>4. disk \in Files /\ handle \in Handles
  BY DEF OwnInv, TypeOK
<1>5. PICK t : t = Append(disk.wal, no)
  OBVIOUS
<1>6. disk.wal \in Seq(Nat)
  BY <1>4 DEF Files
<1>7. /\ t \in Seq(Nat) /\ Len(t) = Len(disk.wal) + 1 /\ Len(disk.wal) \in Nat
      /\ t[Len(disk.wal) + 1] = no /\ ToSet(t) = ToSet(disk.wal) \cup {no}
  BY <1>2, <1>5, <1>6, WalAppended
<1>8. /\ disk' \in Files /\ disk'.wal = t
      /\ disk'.base = disk.base /\ disk'.snap = disk.snap /\ disk'.ino = disk.ino
  BY <1>3, <1>4, <1>5, <1>7 DEF Files
<1>9. Store' = Store \cup {no}
  BY <1>7, <1>8 DEF Store
<1>10. /\ handle' \in Handles /\ handle'.mem = handle.mem \cup {no} /\ handle'.len = handle.len + 1
       /\ handle'.snap = handle.snap /\ handle'.ino = handle.ino /\ handle'.whole = handle.whole
  <2>1. handle.mem \cup {no} \in Commits /\ handle.len + 1 \in Nat
    BY <1>2, <1>4 DEF Handles, Commits
  <2> QED BY <1>3, <1>4, <2>1 DEF Handles
<1>11. /\ writer'.at \in {"written", "sync"} /\ writer'.no = no /\ writer'.pre = Len(disk.wal)
       /\ writer' \in [at : {"idle", "enter", "scoped", "apply", "sync", "synced", "failed",
                             "degraded", "written"},
                       no : Nat, pre : Nat, direct : BOOLEAN]
       /\ writer'.at = "sync" <=> ~writer.direct
  BY <1>2, <1>3, <1>7 DEF OwnInv, TypeOK
<1>12. xlock = "us" /\ xlock' = IF writer'.at = "sync" THEN "us" ELSE "free"
  BY <1>3, <1>11 DEF OwnInv, Locked, InScope
<1>13. guard' = [owner |-> "writer", at |-> "drop"]
  BY <1>3
<1>14. used'.commits = no
  BY <1>3 DEF OwnInv, TypeOK
<1> QED BY <1>1, <1>2, <1>3, <1>5, <1>7, <1>8, <1>9, <1>10, <1>11, <1>12, <1>13, <1>14

LEMMA OwnApplies ==
  ASSUME OwnInv, ReadersAssumption, Apply
  PROVE  OwnInv'
<1> USE DEF OwnInv
<1>1. PICK no \in Nat :
        /\ no = used.commits + 1 /\ disk' \in Files
        /\ disk'.base = disk.base /\ disk'.snap = disk.snap /\ disk'.ino = disk.ino
        /\ Len(disk'.wal) = Len(disk.wal) + 1 /\ disk'.wal[Len(disk.wal) + 1] = no
        /\ Len(disk.wal) \in Nat /\ Store' = Store \cup {no}
        /\ handle' \in Handles /\ handle'.mem = handle.mem \cup {no} /\ handle'.len = handle.len + 1
        /\ handle'.snap = handle.snap /\ handle'.ino = handle.ino
        /\ used' = [used EXCEPT !.commits = no] /\ used'.commits = no
        /\ writer'.at \in {"written", "sync"} /\ writer'.no = no /\ writer'.pre = Len(disk.wal)
        /\ writer' \in [at : {"idle", "enter", "scoped", "apply", "sync", "synced", "failed",
                              "degraded", "written"},
                        no : Nat, pre : Nat, direct : BOOLEAN]
        /\ xlock' = IF writer'.at = "sync" THEN "us" ELSE "free"
        /\ guard = [owner |-> "writer", at |-> "body"] /\ guard' = [owner |-> "writer", at |-> "drop"]
        /\ writer.at \in {"scoped", "apply"} /\ xlock = "us"
  BY Applied
<1>2. UNCHANGED <<slot, writing, peer, probe, cap, returned, captured>>
  BY DEF Apply
<1>3. TypeOK'
  BY <1>1, <1>2 DEF TypeOK
<1>4. Mine = returned.us /\ Mine' = returned.us \cup {no}
  BY <1>1, <1>2 DEF Mine
<1>5. used.commits \in Nat /\ Mine \subseteq 0..used.commits
  BY DEF TypeOK, OwnKept
<1>6. no \notin returned.us /\ Mine' \subseteq 0..used'.commits
  BY <1>1, <1>4, <1>5
<1>7. SamePlace /\ handle.len = Len(disk.wal)
  BY <1>1 DEF GroupIsLast, OnTop
<1>8. SamePlace' /\ handle'.len = Len(disk'.wal)
  BY <1>1, <1>7 DEF SamePlace
<1>9. InPlace'
  BY <1>1, <1>8 DEF InPlace
<1>10. peer = 0
  BY <1>1 DEF Locked
<1>11. Locked' /\ SlotIsHandle'
  BY <1>1, <1>2, <1>10 DEF Locked, InScope, Snapshotting, SlotIsHandle
<1>12. GroupIsLast'
  BY <1>1, <1>2, <1>6, <1>8 DEF GroupIsLast, OnTop
<1>13. Mine \subseteq handle.mem /\ Mine \subseteq Store
  BY <1>1 DEF OwnKept, Kept
<1>14. Kept(Mine)' /\ Mine' \subseteq handle'.mem
  BY <1>1, <1>4, <1>9, <1>13 DEF Kept, Anchored
<1>15. OwnKept'
  BY <1>1, <1>2, <1>6, <1>14 DEF OwnKept
<1>16. \A c \in Captures : cap[c].at # "refreshing" /\ cap[c].at \notin Reads /\ cap[c].at \notin Loads /\ cap[c].at # "loadWal"
  BY <1>1, WriterAlone
<1>17. \A c \in Captures : CaptureOwn(c, cap[c])'
  BY <1>2, <1>16 DEF CaptureOwn
<1> QED BY <1>3, <1>11, <1>12, <1>15, <1>17

\* A group's fsync, which can fail: the commit it loses was nobody's yet.
LEMMA OwnFsyncs ==
  ASSUME OwnInv, Fsync
  PROVE  OwnInv'
<1> USE DEF OwnInv
<1>1. /\ writer.at = "sync" /\ guard.owner # "writer" /\ xlock = "us"
      /\ UNCHANGED <<xlock, handle, slot, writing, guard, peer, probe, cap, returned, captured, used>>
  BY DEF Fsync, Locked, InScope
<1>2. disk \in Files /\ Len(disk.wal) \in Nat
  BY FilesHold DEF TypeOK
<1>3. SamePlace /\ handle.len = Len(disk.wal) /\ Len(disk.wal) = writer.pre + 1
      /\ disk.wal[writer.pre + 1] = writer.no /\ writer.no \notin returned.us /\ writer.pre \in Nat
  BY <1>1 DEF GroupIsLast, OnTop, TypeOK
<1>4. \A c \in Captures : cap[c].at \notin Loads /\ cap[c].at # "loadWal"
  BY <1>1 DEF CaptureOwn, OnTop, Loads
<1>5. Mine = returned.us \cup {writer.no}
  BY <1>1 DEF Mine
<1>6. Mine \subseteq handle.mem /\ Mine \subseteq Store
  BY <1>4 DEF OwnKept, Kept
<1>7. CASE Writer("synced") /\ UNCHANGED disk
  <2>1. writer'.at = "synced" /\ writer'.no = writer.no /\ writer'.pre = writer.pre
    BY <1>7 DEF Writer, TypeOK
  <2>2. TypeOK'
    BY <1>1, <1>7 DEF Writer, TypeOK
  <2>3. Mine' = Mine
    BY <1>1, <1>5, <2>1 DEF Mine
  <2>4. Locked' /\ SlotIsHandle' /\ GroupIsLast'
    BY <1>1, <1>3, <1>7, <2>1 DEF Locked, InScope, OnTop, Snapshotting, SlotIsHandle, Mark, GroupIsLast, SamePlace
  <2>5. OwnKept'
    BY <1>1, <1>2, <1>3, <1>6, <1>7, <2>1, <2>3 DEF OwnKept, Kept, Anchored, InPlace, SamePlace, Store
  <2>6. \A c \in Captures : CaptureOwn(c, cap[c])'
    BY <1>1, <1>4 DEF CaptureOwn
  <2> QED BY <2>2, <2>4, <2>5, <2>6
<1>8. CASE Writer("failed") /\ disk' \in {disk, [disk EXCEPT !.wal = SubSeq(disk.wal, 1, writer.pre)]}
  <2>1. writer'.at = "failed" /\ writer'.no = writer.no /\ writer'.pre = writer.pre
    BY <1>8 DEF Writer, TypeOK
  <2>2. PICK t : t = SubSeq(disk.wal, 1, writer.pre)
    OBVIOUS
  <2>3. disk.wal \in Seq(Nat)
    BY <1>2 DEF Files
  <2>4. t \in Seq(Nat) /\ Len(t) = writer.pre /\ ToSet(disk.wal) \subseteq ToSet(t) \cup {writer.no}
    BY <1>3, <2>2, <2>3, WalCut
  <2>5. /\ disk' \in Files /\ disk'.base = disk.base /\ disk'.snap = disk.snap /\ disk'.ino = disk.ino
        /\ disk'.wal \in {disk.wal, t}
    BY <1>2, <1>8, <2>2, <2>4 DEF Files
  <2>6. writer.pre <= Len(disk'.wal) /\ Store \subseteq Store' \cup {writer.no}
    BY <1>2, <1>3, <2>4, <2>5 DEF Store
  <2>7. TypeOK'
    BY <1>1, <1>8, <2>5 DEF Writer, TypeOK
  <2>8. Mine' = returned.us
    BY <1>1, <2>1 DEF Mine
  <2>9. Mine' \subseteq Store' /\ Mine' \subseteq handle'.mem
    BY <1>1, <1>3, <1>5, <1>6, <2>6, <2>8
  <2>10. Locked' /\ SlotIsHandle' /\ GroupIsLast'
    BY <1>1, <1>3, <2>1, <2>5, <2>6 DEF Locked, InScope, OnTop, Snapshotting, SlotIsHandle, Mark, GroupIsLast, SamePlace
  <2>11. OwnKept'
    BY <1>1, <1>3, <1>5, <2>1, <2>5, <2>8, <2>9 DEF OwnKept, Kept, Anchored, InPlace, SamePlace
  <2>12. \A c \in Captures : CaptureOwn(c, cap[c])'
    BY <1>1, <1>4 DEF CaptureOwn
  <2> QED BY <2>7, <2>10, <2>11, <2>12
<1> QED BY <1>7, <1>8 DEF Fsync

\* The end of a group, and the answer to the caller.
LEMMA OwnEnds ==
  ASSUME OwnInv, ReadersAssumption, EndScope \/ WriteReturns
  PROVE  OwnInv'
<1> USE DEF OwnInv
<1>1. disk \in Files /\ Len(disk.wal) \in Nat /\ handle \in Handles
  BY FilesHold DEF TypeOK
<1>2. CASE EndScope
  <2>1. /\ writer.at \in {"failed", "synced"} /\ guard = [owner |-> "writer", at |-> "body"]
        /\ handle' = [handle EXCEPT !.len = IF writer.at = "failed" THEN writer.pre ELSE handle.len]
        /\ writer' = [writer EXCEPT !.at = IF writer.at = "failed" THEN "degraded" ELSE "written"]
        /\ xlock' = "free" /\ guard' = [guard EXCEPT !.at = "drop"]
        /\ UNCHANGED <<disk, slot, writing, peer, probe, cap, returned, captured, used>>
    BY <1>2 DEF EndScope, InGuard, Writer, EndBody
  <2>2. /\ writer'.at = (IF writer.at = "failed" THEN "degraded" ELSE "written")
        /\ writer'.no = writer.no
        /\ writer' \in [at : {"idle", "enter", "scoped", "apply", "sync", "synced", "failed",
                              "degraded", "written"},
                        no : Nat, pre : Nat, direct : BOOLEAN]
    BY <2>1 DEF TypeOK
  <2>3. guard' = [owner |-> "writer", at |-> "drop"]
    BY <2>1
  <2>4. /\ handle' \in Handles /\ handle'.mem = handle.mem /\ handle'.snap = handle.snap
        /\ handle'.ino = handle.ino /\ handle'.len = IF writer.at = "failed" THEN writer.pre ELSE handle.len
    BY <1>1, <2>1 DEF Handles, TypeOK
  <2>5. TypeOK'
    BY <2>1, <2>2, <2>3, <2>4 DEF TypeOK
  <2>6. SamePlace /\ handle'.len <= Len(disk.wal)
    BY <1>1, <2>1, <2>4 DEF GroupIsLast, OnTop
  <2>7. InPlace'
    BY <2>1, <2>4, <2>6 DEF InPlace, SamePlace
  <2>8. Mine' = Mine
    BY <2>1, <2>2 DEF Mine
  <2>9. xlock = "us" /\ peer = 0
    BY <2>1 DEF Locked, InScope
  <2>10. Locked' /\ SlotIsHandle' /\ GroupIsLast'
    BY <2>1, <2>2, <2>3, <2>9 DEF Locked, InScope, OnTop, Snapshotting, SlotIsHandle, GroupIsLast
  <2>11. \A c \in Captures : cap[c].at # "refreshing" /\ cap[c].at \notin Reads /\ cap[c].at \notin Loads /\ cap[c].at # "loadWal"
    BY <2>1, WriterAlone
  <2>12. Mine \subseteq handle.mem /\ Mine \subseteq Store
    BY <2>11 DEF OwnKept, Kept
  <2>13. OwnKept'
    BY <2>1, <2>3, <2>4, <2>7, <2>8, <2>12 DEF OwnKept, Kept, Anchored, Store
  <2>14. \A c \in Captures : CaptureOwn(c, cap[c])'
    BY <2>1, <2>11 DEF CaptureOwn
  <2> QED BY <2>5, <2>10, <2>13, <2>14
<1>3. CASE WriteReturns
  <2>1. /\ writer.at = "written" /\ guard.owner # "writer"
        /\ returned' = [returned EXCEPT !.us = returned.us \cup {writer.no}]
        /\ writer' = [at |-> "idle", no |-> 0, pre |-> 0, direct |-> FALSE]
        /\ UNCHANGED <<disk, xlock, handle, slot, writing, guard, peer, probe, cap, captured, used>>
    BY <1>3 DEF WriteReturns, Idle
  <2>2. returned'.us = returned.us \cup {writer.no} /\ returned' \in [us : Commits, peer : Commits]
    BY <2>1 DEF TypeOK, Commits
  <2>3. TypeOK'
    BY <2>1, <2>2 DEF TypeOK
  <2>4. Mine' = Mine /\ Mine = returned'.us
    BY <2>1, <2>2 DEF Mine
  <2>5. Locked' /\ SlotIsHandle' /\ GroupIsLast'
    BY <2>1 DEF Locked, InScope, OnTop, Snapshotting, SlotIsHandle, GroupIsLast, Mark
  <2>6. guard # [owner |-> "writer", at |-> "drop"]
    BY <2>1
  <2>7. returned'.us \subseteq slot'.mem
    BY <2>1, <2>2, <2>6 DEF OwnKept
  <2>8. OwnKept'
    BY <2>1, <2>4, <2>7 DEF OwnKept, Kept, Anchored, InPlace, SamePlace, Store
  <2>9. \A c \in Captures : CaptureOwn(c, cap[c])'
    BY <2>1, <2>2, <2>4 DEF CaptureOwn, OnTop
  <2> QED BY <2>3, <2>5, <2>8, <2>9
<1> QED BY <1>2, <1>3

\* A peer's snapshot tears only what is being read, and that is not published.
LEMMA OvertakenIs ==
  ASSUME OwnInv, handle' = Overtaken
  PROVE  /\ handle' \in Handles /\ handle'.mem = handle.mem /\ handle'.len = handle.len
         /\ handle'.snap = handle.snap /\ handle'.ino = handle.ino
         /\ handle'.whole => handle.whole /\ \A c \in Captures : cap[c].at \notin Reads
         /\ guard.at # "body" => handle' = handle
<1>1. handle \in Handles
  BY DEF OwnInv, TypeOK
<1>2. PICK w \in BOOLEAN : w = (handle.whole /\ Reading = {})
  OBVIOUS
<1>3. handle' = [handle EXCEPT !.whole = w]
  BY <1>2 DEF Overtaken
<1>4. Reading = {c \in Captures : cap[c].at \in Reads}
  BY DEF Reading, Reads, Loads
<1>5. guard.at # "body" => Reading = {}
  BY <1>4 DEF OwnInv, CaptureOwn
<1>6. guard.at # "body" => handle' = handle
  BY <1>1, <1>2, <1>3, <1>5 DEF Handles
<1> QED BY <1>1, <1>2, <1>3, <1>4, <1>6 DEF Handles

\* A peer's step.
LEMMA OwnPeer ==
  ASSUME OwnInv, PeerCommits \/ PeerReturns \/ PeerSnapshots \/ PeerReplacesWal
  PROVE  OwnInv'
<1> USE DEF OwnInv
<1>1. disk \in Files /\ Len(disk.wal) \in Nat /\ handle \in Handles /\ disk.wal \in Seq(Nat)
      /\ Store \in Commits /\ disk.base \subseteq Store /\ disk.base \in Commits
      /\ ToSet(disk.wal) \subseteq Store
  BY FilesHold DEF TypeOK
<1>2. CASE PeerCommits
  <2>1. PICK no : no = used.commits + 1
    OBVIOUS
  <2>2. no \in Nat /\ used.commits \in Nat
    BY <2>1 DEF TypeOK
  <2>3. PICK t : t = Append(disk.wal, no)
    OBVIOUS
  <2>4. /\ xlock = "free" /\ disk' = [disk EXCEPT !.wal = t]
        /\ used' = [used EXCEPT !.commits = no] /\ peer' = no /\ xlock' = "peer"
        /\ UNCHANGED <<handle, slot, writing, guard, writer, probe, cap, returned, captured>>
    BY <1>2, <2>1, <2>3 DEF PeerCommits
  <2>5. t \in Seq(Nat) /\ Len(t) = Len(disk.wal) + 1 /\ ToSet(t) = ToSet(disk.wal) \cup {no}
    BY <1>1, <2>2, <2>3, WalAppended
  <2>6. /\ disk' \in Files /\ disk'.wal = t /\ disk'.base = disk.base /\ disk'.snap = disk.snap
        /\ disk'.ino = disk.ino
    BY <1>1, <2>4, <2>5 DEF Files
  <2>7. Store \subseteq Store' /\ Len(disk.wal) <= Len(disk'.wal)
    BY <1>1, <2>5, <2>6 DEF Store
  <2>8. TypeOK' /\ used'.commits = no
    BY <2>2, <2>4, <2>6 DEF TypeOK
  <2>9. Mine' = Mine /\ writer.at \notin InScope
    BY <2>4 DEF Mine, Locked
  <2>10. Locked' /\ SlotIsHandle' /\ GroupIsLast'
    BY <2>1, <2>2, <2>4, <2>9 DEF Locked, Snapshotting, SlotIsHandle, Mark, GroupIsLast, InScope, OnTop
  <2>11. InPlace => InPlace'
    <3>1. handle.len \in Nat
      BY <1>1 DEF Handles
    <3> QED BY <1>1, <2>4, <2>5, <2>6, <3>1 DEF InPlace, SamePlace
  <2>12. Mine' \subseteq 0..used'.commits
    BY <2>1, <2>2, <2>8, <2>9 DEF OwnKept
  <2>13. OwnKept'
    BY <2>4, <2>6, <2>7, <2>9, <2>11, <2>12 DEF OwnKept, Kept, Anchored
  <2>14. \A c \in Captures : CaptureOwn(c, cap[c])'
    BY <2>4, <2>6, <2>9 DEF CaptureOwn
  <2> QED BY <2>8, <2>10, <2>13, <2>14
<1>3. CASE PeerReturns
  <2>1. /\ xlock = "peer" /\ peer # 0 /\ xlock' = "free" /\ peer' = 0
        /\ returned' = [returned EXCEPT !.peer = returned.peer \cup {peer}]
        /\ UNCHANGED <<disk, handle, slot, writing, guard, writer, probe, cap, captured, used>>
    BY <1>3 DEF PeerReturns
  <2>2. returned'.us = returned.us /\ returned' \in [us : Commits, peer : Commits]
    BY <2>1 DEF TypeOK, Commits
  <2>3. TypeOK'
    BY <2>1, <2>2 DEF TypeOK
  <2>4. Mine' = Mine /\ writer.at \notin InScope
    BY <2>1, <2>2 DEF Mine, Locked
  <2>5. Locked' /\ SlotIsHandle' /\ GroupIsLast'
    BY <2>1, <2>4 DEF Locked, Snapshotting, SlotIsHandle, Mark, GroupIsLast, InScope, OnTop
  <2>6. OwnKept'
    BY <2>1, <2>2, <2>4 DEF OwnKept, Kept, Anchored, InPlace, SamePlace, Store
  <2>7. \A c \in Captures : CaptureOwn(c, cap[c])'
    BY <2>1, <2>2, <2>4 DEF CaptureOwn
  <2> QED BY <2>3, <2>5, <2>6, <2>7
<1>4. CASE PeerSnapshots
  <2>1. /\ xlock = "free" /\ xlock' = "peer" /\ disk' = [disk EXCEPT !.base = Store, !.snap = disk.snap + 1]
        /\ handle' = Overtaken /\ used' = [used EXCEPT !.snaps = used.snaps + 1]
        /\ UNCHANGED <<slot, writing, guard, writer, peer, probe, cap, returned, captured>>
    BY <1>4 DEF PeerSnapshots
  <2>2. /\ handle' \in Handles /\ handle'.mem = handle.mem
        /\ guard.at # "body" => handle' = handle
    BY <2>1, OvertakenIs
  <2>3. disk' \in Files /\ disk'.base = Store /\ disk'.wal = disk.wal
    <3>1. PICK n, b : n = disk.snap + 1 /\ b = Store
      OBVIOUS
    <3>2. n \in Nat /\ b \in Commits /\ disk' = [disk EXCEPT !.base = b, !.snap = n]
      BY <1>1, <2>1, <3>1 DEF Files
    <3> QED BY <1>1, <3>1, <3>2 DEF Files
  <2>4. Store' = Store
    BY <1>1, <2>3 DEF Store
  <2>5. used' \in [commits : Nat, snaps : Nat, reads : Nat, world : Worlds] /\ used'.commits = used.commits
    BY <2>1 DEF TypeOK
  <2>6. TypeOK'
    BY <2>1, <2>2, <2>3, <2>5 DEF TypeOK
  <2>7. Mine' = Mine /\ writer.at \notin InScope
    BY <2>1 DEF Mine, Locked
  <2>8. Locked' /\ SlotIsHandle' /\ GroupIsLast'
    BY <1>1, <2>1, <2>2, <2>3, <2>7 DEF Locked, Snapshotting, SlotIsHandle, Mark, GroupIsLast, InScope, OnTop
  <2>9. OwnKept'
    BY <2>1, <2>2, <2>3, <2>4, <2>5, <2>7 DEF OwnKept, Kept, Anchored
  <2>10. writer.at # "failed" /\ Mine \subseteq Store
    BY <2>7 DEF InScope, OwnKept, Kept
  <2>11. \A c \in Captures : CaptureOwn(c, cap[c])'
    BY <2>1, <2>2, <2>3, <2>7, <2>10 DEF CaptureOwn
  <2> QED BY <2>6, <2>8, <2>9, <2>11
<1>5. CASE PeerReplacesWal
  <2>1. /\ xlock = "peer" /\ peer = 0 /\ xlock' = "free"
        /\ disk' = [disk EXCEPT !.wal = <<>>, !.ino = disk.ino + 1] /\ handle' = Overtaken
        /\ UNCHANGED <<slot, writing, guard, writer, peer, probe, cap, returned, captured, used>>
    BY <1>5 DEF PeerReplacesWal, Snapshotting
  <2>2. /\ handle' \in Handles /\ handle'.mem = handle.mem
        /\ guard.at # "body" => handle' = handle
    BY <2>1, OvertakenIs
  <2>3. disk' \in Files /\ disk'.base = disk.base
    <3>1. PICK n : n = disk.ino + 1
      OBVIOUS
    <3>2. n \in Nat /\ disk' = [disk EXCEPT !.wal = <<>>, !.ino = n]
      BY <1>1, <2>1, <3>1 DEF Files
    <3>3. <<>> \in Seq(Nat)
      OBVIOUS
    <3> QED BY <1>1, <3>2, <3>3 DEF Files
  <2>4. Store = disk.base /\ Store \subseteq Store'
    BY <1>1, <2>1, <2>3 DEF Store, Locked, Snapshotting
  <2>5. TypeOK'
    BY <2>1, <2>2, <2>3 DEF TypeOK
  <2>6. Mine' = Mine /\ writer.at \notin InScope
    BY <2>1 DEF Mine, Locked
  <2>7. Locked' /\ SlotIsHandle' /\ GroupIsLast'
    BY <2>1, <2>2, <2>6 DEF Locked, Snapshotting, SlotIsHandle, Mark, GroupIsLast, InScope, OnTop
  <2>8. OwnKept'
    BY <2>1, <2>2, <2>3, <2>4, <2>6 DEF OwnKept, Kept, Anchored
  <2>9. \A c \in Captures : CaptureOwn(c, cap[c])'
    BY <2>1, <2>2, <2>3, <2>6 DEF CaptureOwn
  <2> QED BY <2>5, <2>7, <2>8, <2>9
<1> QED BY <1>2, <1>3, <1>4, <1>5

\* A capture's step that leaves the handle and its guard alone.
LEMMA OwnCaptures ==
  ASSUME OwnInv, NEW c \in Captures, NEW x \in Caps, cap' = [cap EXCEPT ![c] = x],
         cap[c].at # "loadWal", x.at \notin Reads, x.at # "refreshing",
         x.at # "idle" => /\ x.us \subseteq returned.us
                          /\ x.at \in Holding => x.us \subseteq x.slot.mem
                          /\ x.at = "served" => x.us \subseteq x.got,
         captured' \in Commits, probe' \in Probes,
         used' \in [commits : Nat, snaps : Nat, reads : Nat, world : Worlds], used'.commits = used.commits,
         UNCHANGED <<disk, xlock, handle, slot, guard, writer, peer, returned>>
  PROVE  OwnInv'
<1> USE DEF OwnInv
<1>1. cap' \in [Captures -> Caps] /\ \A e \in Captures : cap'[e] = IF e = c THEN x ELSE cap[e]
  BY DEF TypeOK
<1>2. TypeOK'
  BY <1>1 DEF TypeOK
<1>3. Mine' = Mine /\ Locked' /\ SlotIsHandle' /\ GroupIsLast'
  BY DEF Mine, Locked, Snapshotting, SlotIsHandle, GroupIsLast, Mark, SamePlace
<1>4. (\E e \in Captures : cap[e].at = "loadWal") => \E e \in Captures : cap'[e].at = "loadWal"
  BY <1>1
<1>5. OwnKept'
  BY <1>3, <1>4 DEF OwnKept, Kept, Anchored, InPlace, SamePlace, Store
<1>6. x.at \notin Loads /\ x.at # "loadWal"
  BY DEF Reads, Loads
<1>7. \A e \in Captures : CaptureOwn(e, cap[e])'
  <2> SUFFICES ASSUME NEW e \in Captures
               PROVE  CaptureOwn(e, cap[e])'
    OBVIOUS
  <2>1. CASE e = c
    BY <1>1, <1>3, <1>6, <2>1 DEF CaptureOwn
  <2>2. CASE e # c
    <3>1. cap'[e] = cap[e] /\ CaptureOwn(e, cap[e])
      BY <1>1, <2>2
    <3> QED BY <1>3, <3>1 DEF CaptureOwn
  <2> QED BY <2>1, <2>2
<1> QED BY <1>2, <1>3, <1>5, <1>7

\* A capture that ends with a state which has what this process owes it.
LEMMA OwnServed ==
  ASSUME OwnInv, NEW c \in Captures, cap[c] \in FlagCap \cup SeekCap, cap[c].at \notin Reads,
         NEW s, s.mem \in Commits, s.whole \in BOOLEAN, NEW met \in BOOLEAN, Serve(c, s, met),
         cap[c].us \subseteq s.mem, probe' \in Probes,
         UNCHANGED <<disk, xlock, handle, slot, guard, writer, peer, returned, used>>
  PROVE  OwnInv'
<1>1. captured \in Commits
  BY DEF OwnInv, TypeOK
<1>2. PICK x \in ServedCap :
        /\ cap' = [cap EXCEPT ![c] = x] /\ x.at = "served" /\ x.got = s.mem
        /\ x.us = cap[c].us /\ captured' \in Commits
  BY <1>1, ServedIs
<1>3. cap[c].at # "idle" /\ CaptureOwn(c, cap[c])
  BY DEF FlagCap, SeekCap, Seeks, Reads, Loads, OwnInv
<1>4. x \in Caps /\ x.us \subseteq returned.us /\ x.us \subseteq x.got
  BY <1>2, <1>3 DEF Caps, CaptureOwn
<1>5. cap[c].at # "loadWal" /\ x.at \notin Reads /\ x.at \notin Holding
  BY <1>2 DEF Reads, Loads, Holding
<1>6. used' \in [commits : Nat, snaps : Nat, reads : Nat, world : Worlds]
  BY DEF OwnInv, TypeOK
<1> QED BY <1>2, <1>4, <1>5, <1>6, OwnCaptures

\* A capture that goes on, with no state yet.
LEMMA OwnGoes ==
  ASSUME OwnInv, NEW c \in Captures, cap[c] \in SeekCap, cap[c].at \notin Reads, NEW x, Goes(c, x),
         x.at \in {"try", "refresh", "lock", "read"}, UNCHANGED captured, probe' \in Probes,
         UNCHANGED <<disk, xlock, handle, slot, guard, writer, peer, returned, used>>
  PROVE  OwnInv'
<1>1. cap[c].at # "idle" /\ CaptureOwn(c, cap[c])
  BY DEF SeekCap, Seeks, Reads, Loads, OwnInv
<1>2. x \in Caps /\ x.us \subseteq returned.us /\ cap' = [cap EXCEPT ![c] = x]
  BY <1>1 DEF Goes, Caps, CaptureOwn
<1>3. cap[c].at # "loadWal" /\ x.at \notin Reads /\ x.at \notin Holding /\ x.at # "served"
      /\ x.at # "refreshing"
  BY DEF Reads, Loads, Holding
<1>4. /\ used' \in [commits : Nat, snaps : Nat, reads : Nat, world : Worlds] /\ captured' \in Commits
  BY DEF OwnInv, TypeOK
<1> QED BY <1>2, <1>3, <1>4, OwnCaptures

LEMMA OwnCompares ==
  ASSUME OwnInv, NEW c \in Captures, cap[c].at \in {"observe", "look"}, NEW seen, Compare(c, seen),
         probe' \in Probes,
         UNCHANGED <<disk, xlock, handle, slot, guard, writer, peer, returned, used>>
  PROVE  OwnInv'
<1>1. cap[c] \in Caps
  BY DEF OwnInv, TypeOK
<1>2. cap[c].at \in Seeks /\ cap[c].at \in Holding /\ cap[c].at \notin Reads
  BY DEF Seeks, Holding, Reads, Loads
<1>3. cap[c] \in SeekCap /\ cap[c].slot \in Slots
  BY <1>1, <1>2, CapIs
<1>4. CASE cap[c].slot.mark = seen
  <2>1. \E met \in BOOLEAN : Serve(c, cap[c].slot, met)
    BY <1>4 DEF Compare
  <2>2. cap[c].us \subseteq cap[c].slot.mem
    BY <1>2 DEF OwnInv, CaptureOwn, Holding
  <2>3. cap[c].slot.mem \in Commits /\ cap[c].slot.whole \in BOOLEAN
    BY <1>3 DEF Slots
  <2> QED BY <1>2, <1>3, <2>1, <2>2, <2>3, OwnServed
<1>5. CASE cap[c].slot.mark # seen
  <2>1. At(c, "try") /\ UNCHANGED captured
    BY <1>5 DEF Compare
  <2>2. "try" \in Seeks
    BY DEF Seeks
  <2>3. \E x : Goes(c, x) /\ x.at = "try"
    BY <1>3, <2>1, <2>2, MovedIs
  <2> QED BY <1>2, <1>3, <2>1, <2>3, OwnGoes
<1> QED BY <1>4, <1>5

\* What a capture is when it begins, when it has to look, and when it looks.
LEMMA StartIs ==
  ASSUME OwnInv, NEW c \in Captures, Start(c)
  PROVE  \E x \in FlagCap :
           /\ cap' = [cap EXCEPT ![c] = x] /\ x.at = "flag" /\ x.us = returned.us
           /\ x.peer = returned.peer /\ x.seen = captured /\ x.slot = slot
           /\ used' \in [commits : Nat, snaps : Nat, reads : Nat, world : Worlds]
           /\ used'.commits = used.commits
<1>1. PICK x : x = [at |-> "flag", us |-> returned.us, peer |-> returned.peer, seen |-> captured,
                    slot |-> slot]
  OBVIOUS
<1>2. x \in FlagCap
  BY <1>1 DEF FlagCap, OwnInv, TypeOK
<1>3. cap' = [cap EXCEPT ![c] = x] /\ used' = [used EXCEPT !.reads = used.reads + 1]
  BY <1>1 DEF Start
<1>4. used' \in [commits : Nat, snaps : Nat, reads : Nat, world : Worlds] /\ used'.commits = used.commits
  BY <1>3 DEF OwnInv, TypeOK
<1> QED BY <1>1, <1>2, <1>3, <1>4

LEMMA ObserveIs ==
  ASSUME OwnInv, NEW c \in Captures, CheckWriting(c), ~writing
  PROVE  \E x : Goes(c, x) /\ x.at = "observe" /\ x.slot = cap[c].slot /\ x.after = probe.started
<1>1. cap[c].at = "flag" /\ cap' = [cap EXCEPT ![c] = WithAfter(cap[c], probe.started)]
  BY DEF CheckWriting
<1>2. cap[c] \in FlagCap /\ probe.started \in Nat
  BY <1>1, CapIs DEF OwnInv, TypeOK, Probes
<1>3. PICK x : x = WithAfter(cap[c], probe.started)
  OBVIOUS
<1>4. x \in SeekCap /\ x.at = "observe" /\ x.slot = cap[c].slot /\ x.after = probe.started
      /\ x.us = cap[c].us /\ x.peer = cap[c].peer /\ x.seen = cap[c].seen
  BY <1>2, <1>3 DEF WithAfter, SeekCap, FlagCap, Seeks
<1> QED BY <1>1, <1>3, <1>4 DEF Goes

LEMMA LookIs ==
  ASSUME OwnInv, NEW c \in Captures, StartLook(c)
  PROVE  \E x : /\ Goes(c, x) /\ x.at = "look" /\ x.slot = cap[c].slot /\ x.after = cap[c].after
                /\ x.number = probe.started + 1 /\ x.len = Len(disk.wal)
                /\ probe' \in Probes /\ probe'.started = probe.started + 1
                /\ probe'.finished = probe.finished /\ probe'.seen = probe.seen
<1>1. /\ cap[c].at = "observe"
      /\ probe' = [probe EXCEPT !.running = TRUE, !.started = probe.started + 1]
      /\ cap' = [cap EXCEPT ![c].at = "look", ![c].number = probe.started + 1, ![c].len = Len(disk.wal)]
  BY DEF StartLook
<1>2. /\ cap[c] \in Caps /\ cap[c].at \in Seeks /\ probe \in Probes /\ cap \in [Captures -> Caps]
  BY <1>1 DEF Seeks, OwnInv, TypeOK
<1>3. cap[c] \in SeekCap /\ Len(disk.wal) \in Nat
  BY <1>2, CapIs, FilesHold DEF OwnInv, TypeOK
<1>4. PICK n \in Nat, l \in Nat : n = probe.started + 1 /\ l = Len(disk.wal)
  BY <1>2, <1>3 DEF Probes
<1>5. PICK x : x = [cap[c] EXCEPT !.at = "look", !.number = n, !.len = l]
  OBVIOUS
<1>6. /\ x \in SeekCap /\ x.at = "look" /\ x.slot = cap[c].slot /\ x.after = cap[c].after
      /\ x.number = n /\ x.len = l /\ x.us = cap[c].us /\ x.peer = cap[c].peer /\ x.seen = cap[c].seen
  BY <1>3, <1>5 DEF SeekCap, Seeks
<1>7. cap' = [cap EXCEPT ![c] = x]
  BY <1>1, <1>2, <1>3, <1>4, <1>5 DEF SeekCap
<1>8. probe' = [probe EXCEPT !.running = TRUE, !.started = n]
  BY <1>1, <1>4
<1>9. /\ probe' \in Probes /\ probe'.started = n /\ probe'.finished = probe.finished
      /\ probe'.seen = probe.seen
  BY <1>2, <1>8 DEF Probes
<1> QED BY <1>4, <1>6, <1>7, <1>9 DEF Goes

LEMMA LookEnds ==
  ASSUME OwnInv, NEW c \in Captures, LookAtSnapshot(c)
  PROVE  LET seen == [len |-> cap[c].len, snap |-> disk.snap]
         IN /\ Compare(c, seen) /\ probe' \in Probes /\ probe'.started = probe.started
            /\ probe'.finished = cap[c].number /\ probe'.seen = seen /\ cap[c].at = "look"
<1>1. PICK seen : seen = [len |-> cap[c].len, snap |-> disk.snap]
  OBVIOUS
<1>2. /\ cap[c].at = "look" /\ Compare(c, seen)
      /\ probe' = [probe EXCEPT !.running = FALSE, !.finished = cap[c].number, !.seen = seen]
  BY <1>1 DEF LookAtSnapshot
<1>3. cap[c] \in Caps /\ cap[c].at \in Seeks /\ probe \in Probes /\ disk.snap \in Nat
  BY <1>2 DEF Seeks, OwnInv, TypeOK, Files
<1>4. cap[c] \in SeekCap
  BY <1>3, CapIs
<1>5. seen \in Marks /\ cap[c].number \in Nat
  BY <1>1, <1>3, <1>4 DEF SeekCap, Marks
<1>6. /\ probe' \in Probes /\ probe'.started = probe.started
      /\ probe'.finished = cap[c].number /\ probe'.seen = seen
  BY <1>2, <1>3, <1>5 DEF Probes
<1> QED BY <1>1, <1>2, <1>6

\* A capture begins, and looks.
LEMMA OwnLooks ==
  ASSUME OwnInv, NEW c \in Captures,
         Start(c) \/ CheckWriting(c) \/ ShareLook(c) \/ StartLook(c) \/ LookAtSnapshot(c)
  PROVE  OwnInv'
<1>1. /\ cap[c] \in Caps /\ captured \in Commits /\ probe \in Probes /\ CaptureOwn(c, cap[c])
      /\ used \in [commits : Nat, snaps : Nat, reads : Nat, world : Worlds]
  BY DEF OwnInv, TypeOK
<1>2. CASE Start(c)
  <2>1. PICK x \in FlagCap :
          /\ cap' = [cap EXCEPT ![c] = x] /\ x.at = "flag" /\ x.us = returned.us /\ x.slot = slot
          /\ used' \in [commits : Nat, snaps : Nat, reads : Nat, world : Worlds]
          /\ used'.commits = used.commits
    BY <1>2, StartIs
  <2>2. /\ cap[c].at # "loadWal"
        /\ UNCHANGED <<disk, xlock, handle, slot, guard, writer, peer, probe, returned, captured>>
    BY <1>2 DEF Start
  <2>3. x \in Caps /\ x.us \subseteq x.slot.mem /\ x.us \subseteq returned.us
    BY <2>1 DEF Caps, OwnInv, OwnKept
  <2>4. x.at \notin Reads
    BY <2>1 DEF Reads, Loads
  <2> QED BY <1>1, <2>1, <2>2, <2>3, <2>4, OwnCaptures
<1>3. CASE CheckWriting(c)
  <2>1. /\ cap[c].at = "flag"
        /\ UNCHANGED <<disk, xlock, handle, slot, guard, writer, peer, probe, returned, used>>
    BY <1>3 DEF CheckWriting
  <2>2. cap[c] \in FlagCap /\ cap[c].us \subseteq cap[c].slot.mem /\ cap[c].us \subseteq returned.us
        /\ cap[c].at \notin Reads /\ cap[c].at # "loadWal"
    BY <1>1, <2>1, CapIs DEF CaptureOwn, Holding, Reads, Loads
  <2>3. cap[c].slot.mem \in Commits /\ cap[c].slot.whole \in BOOLEAN
    BY <2>2 DEF FlagCap, Slots
  <2>4. CASE writing
    <3>1. \E met \in BOOLEAN : Serve(c, cap[c].slot, met)
      BY <1>3, <2>4 DEF CheckWriting
    <3> QED BY <1>1, <2>1, <2>2, <2>3, <3>1, OwnServed
  <2>5. CASE ~writing
    <3>1. PICK x : Goes(c, x) /\ x.at = "observe" /\ x.slot = cap[c].slot
      BY <1>3, <2>5, ObserveIs
    <3>2. captured' = captured
      BY <1>3, <2>5 DEF CheckWriting
    <3>3. x \in Caps /\ cap' = [cap EXCEPT ![c] = x] /\ x.us = cap[c].us
      BY <3>1 DEF Goes, Caps
    <3>4. x.at \notin Reads
      BY <3>1 DEF Reads, Loads
    <3> QED BY <1>1, <2>1, <2>2, <3>1, <3>2, <3>3, <3>4, OwnCaptures
  <2> QED BY <2>4, <2>5
<1>4. CASE ShareLook(c)
  <2>1. /\ cap[c].at = "observe" /\ Compare(c, probe.seen)
        /\ UNCHANGED <<disk, xlock, handle, slot, guard, writer, peer, probe, returned, used>>
    BY <1>4 DEF ShareLook
  <2> QED BY <1>1, <2>1, OwnCompares
<1>5. CASE StartLook(c)
  <2>1. PICK x : Goes(c, x) /\ x.at = "look" /\ x.slot = cap[c].slot /\ probe' \in Probes
    BY <1>5, LookIs
  <2>2. /\ cap[c].at = "observe"
        /\ UNCHANGED <<disk, xlock, handle, slot, guard, writer, peer, returned, captured, used>>
    BY <1>5 DEF StartLook
  <2>3. x \in Caps /\ cap' = [cap EXCEPT ![c] = x] /\ x.us = cap[c].us
    BY <2>1 DEF Goes, Caps
  <2>4. cap[c].us \subseteq cap[c].slot.mem /\ cap[c].us \subseteq returned.us
    BY <1>1, <2>2 DEF CaptureOwn, Holding
  <2>5. x.at \notin Reads
    BY <2>1 DEF Reads, Loads
  <2> QED BY <1>1, <2>1, <2>2, <2>3, <2>4, <2>5, OwnCaptures
<1>6. CASE LookAtSnapshot(c)
  <2>1. PICK seen : seen = [len |-> cap[c].len, snap |-> disk.snap]
    OBVIOUS
  <2>2. cap[c].at = "look" /\ Compare(c, seen) /\ probe' \in Probes
    BY <1>6, <2>1, LookEnds
  <2>3. UNCHANGED <<disk, xlock, handle, slot, guard, writer, peer, returned, used>>
    BY <1>6 DEF LookAtSnapshot
  <2> QED BY <2>2, <2>3, OwnCompares
<1> QED BY <1>2, <1>3, <1>4, <1>5, <1>6

\* A capture that finds no guard held.
LEMMA GuardFree ==
  ASSUME OwnInv, guard.at = "free"
  PROVE  /\ \A c \in Captures : /\ cap[c].at # "refreshing" /\ cap[c].at \notin Reads
                                /\ cap[c].at \notin Loads /\ cap[c].at \notin {"loadWal", "loadIdent"}
         /\ slot.mem = handle.mem /\ slot.mark = Mark(handle) /\ slot.whole = handle.whole
         /\ Mine \subseteq handle.mem
<1>1. \A c \in Captures : cap[c].at # "refreshing" /\ cap[c].at \notin Reads
  BY DEF OwnInv, CaptureOwn
<1>2. \A c \in Captures : cap[c].at \notin Loads /\ cap[c].at \notin {"loadWal", "loadIdent"}
  BY <1>1 DEF Reads, Loads
<1> QED BY <1>1, <1>2 DEF OwnInv, SlotIsHandle, OwnKept

\* A capture reads the handle, or finds that it must follow the peer.
LEMMA OwnTries ==
  ASSUME OwnInv, NEW c \in Captures, TryRead(c) \/ RefreshIfStale(c) \/ ReadHandle(c)
  PROVE  OwnInv'
<1>1. /\ cap \in [Captures -> Caps] /\ cap[c] \in Caps /\ probe' \in Probes /\ CaptureOwn(c, cap[c])
      /\ UNCHANGED <<disk, xlock, handle, slot, guard, writer, peer, probe, returned, used>>
  BY DEF OwnInv, TypeOK, TryRead, RefreshIfStale, ReadHandle
<1>2. cap[c].at \in {"try", "refresh", "read"}
  BY DEF TryRead, RefreshIfStale, ReadHandle
<1>3. cap[c].at \in Seeks /\ cap[c].at \notin Reads
  BY <1>2 DEF Seeks, Reads, Loads
<1>4. cap[c] \in SeekCap /\ cap[c].us \subseteq returned.us
  BY <1>1, <1>2, <1>3, CapIs DEF CaptureOwn
<1>5. returned.us \subseteq slot.mem /\ returned.us \subseteq Mine
  BY DEF OwnInv, OwnKept, Mine
<1>6. /\ slot.mem \in Commits /\ slot.whole \in BOOLEAN /\ handle.mem \in Commits /\ handle.whole \in BOOLEAN
  BY DEF OwnInv, TypeOK, Slots, Handles
<1>7. CASE TryRead(c)
  <2>1. CASE guard.at # "free"
    <3>1. \E met \in BOOLEAN : Serve(c, slot, met)
      BY <1>7, <2>1 DEF TryRead
    <3>2. cap[c].us \subseteq slot.mem
      BY <1>4, <1>5
    <3> QED BY <1>1, <1>3, <1>4, <1>6, <3>1, <3>2, OwnServed
  <2>2. CASE guard.at = "free" /\ ~Stale
    <3>1. \E met \in BOOLEAN : Serve(c, handle, met)
      BY <1>7, <2>2 DEF TryRead
    <3>2. cap[c].us \subseteq handle.mem
      BY <1>4, <1>5, <2>2, GuardFree
    <3> QED BY <1>1, <1>3, <1>4, <1>6, <3>1, <3>2, OwnServed
  <2>3. CASE guard.at = "free" /\ Stale
    <3>1. At(c, "refresh") /\ UNCHANGED captured
      BY <1>7, <2>3 DEF TryRead
    <3>2. "refresh" \in Seeks
      BY DEF Seeks
    <3>3. \E x : Goes(c, x) /\ x.at = "refresh"
      BY <1>4, <3>1, <3>2, MovedIs
    <3> QED BY <1>1, <1>3, <1>4, <3>1, <3>3, OwnGoes
  <2> QED BY <2>1, <2>2, <2>3
<1>8. CASE RefreshIfStale(c)
  <2>1. UNCHANGED captured
    BY <1>8 DEF RefreshIfStale
  <2>2. CASE Stale
    <3>1. At(c, "lock")
      BY <1>8, <2>2 DEF RefreshIfStale
    <3>2. "lock" \in Seeks
      BY DEF Seeks
    <3>3. \E x : Goes(c, x) /\ x.at = "lock"
      BY <1>4, <3>1, <3>2, MovedIs
    <3> QED BY <1>1, <1>3, <1>4, <2>1, <3>3, OwnGoes
  <2>3. CASE ~Stale
    <3>1. Done(c)
      BY <1>8, <2>3 DEF RefreshIfStale
    <3>2. \E x : Goes(c, x) /\ x.at \in {"read", "refresh"}
      BY <1>1, <1>4, <3>1, DoneIs
    <3> QED BY <1>1, <1>3, <1>4, <2>1, <3>2, OwnGoes
  <2> QED BY <2>2, <2>3
<1>9. CASE ReadHandle(c)
  <2>1. (\E met \in BOOLEAN : Serve(c, handle, met)) /\ guard.at = "free"
    BY <1>9 DEF ReadHandle
  <2>2. cap[c].us \subseteq handle.mem
    BY <1>4, <1>5, <2>1, GuardFree
  <2> QED BY <1>1, <1>3, <1>4, <1>6, <2>1, <2>2, OwnServed
<1> QED BY <1>7, <1>8, <1>9

\* A capture takes a guard to follow the peer.
LEMMA OwnRefreshLock ==
  ASSUME OwnInv, NEW c \in Captures, RefreshLock(c)
  PROVE  OwnInv'
<1> USE DEF OwnInv
<1>1. /\ cap[c].at = "lock" /\ guard.at = "free" /\ guard' = [owner |-> c, at |-> "taken"]
      /\ At(c, "refreshing")
      /\ UNCHANGED <<disk, xlock, handle, slot, writing, writer, peer, probe, returned, captured, used>>
  BY DEF RefreshLock, TakeGuard
<1>2. cap \in [Captures -> Caps] /\ cap[c] \in Caps /\ cap[c].at \in Seeks /\ "refreshing" \in Seeks
  BY <1>1 DEF TypeOK, Seeks
<1>3. cap[c] \in SeekCap
  BY <1>2, CapIs
<1>4. PICK x : Goes(c, x) /\ x.at = "refreshing"
  BY <1>1, <1>2, <1>3, MovedIs
<1>5. cap' \in [Captures -> Caps] /\ \A e \in Captures : cap'[e] = IF e = c THEN x ELSE cap[e]
  BY <1>2, <1>4 DEF Goes, Caps
<1>6. TypeOK'
  BY <1>1, <1>5 DEF TypeOK
<1>7. Mine' = Mine /\ Locked' /\ SlotIsHandle' /\ GroupIsLast'
  BY <1>1 DEF Mine, Locked, Snapshotting, SlotIsHandle, GroupIsLast, Mark, SamePlace
<1>8. Mine \subseteq handle.mem /\ guard # [owner |-> "writer", at |-> "drop"]
      /\ \A e \in Captures : cap[e].at # "refreshing" /\ cap[e].at \notin Reads /\ cap[e].at \notin Loads
                            /\ cap[e].at # "loadWal"
  BY <1>1, GuardFree
<1>9. OwnKept'
  BY <1>1, <1>7, <1>8 DEF OwnKept, Kept, Anchored, InPlace, SamePlace, Store
<1>10. \A e \in Captures : CaptureOwn(e, cap[e])'
  <2> SUFFICES ASSUME NEW e \in Captures
               PROVE  CaptureOwn(e, cap[e])'
    OBVIOUS
  <2>1. CASE e = c
    <3>1. cap'[e] = x /\ x.us \subseteq returned.us /\ x.at = "refreshing"
      BY <1>1, <1>4, <1>5, <2>1 DEF CaptureOwn, Goes
    <3> QED BY <1>1, <2>1, <3>1 DEF CaptureOwn, Reads, Loads, Holding
  <2>2. CASE e # c
    <3>1. cap'[e] = cap[e] /\ CaptureOwn(e, cap[e])
      BY <1>5, <2>2
    <3> QED BY <1>1, <1>7, <1>8, <3>1 DEF CaptureOwn
  <2> QED BY <2>1, <2>2
<1> QED BY <1>6, <1>7, <1>9, <1>10

Follower(c) ==
  \/ RefreshLook(c) \/ RefreshLookAtWal(c) \/ RefreshLookAtInode(c) \/ RefreshTail(c)
  \/ ReloadSnapshot(c) \/ ReloadWal(c) \/ ReloadIdent(c)

\* The steps of a capture that follows the peer: what it finds, and what it is then.
Finds(c, x) ==
  \/ /\ cap[c].at = "refreshing" /\ handle' = handle
     /\ \/ x.at = "loadSnap" /\ handle.snap # disk.snap
        \/ x.at = "lookWal" /\ handle.snap = disk.snap
  \/ /\ cap[c].at = "lookWal" /\ handle' = handle
     /\ \/ x.at \in {"read", "refresh"} /\ handle.len = Len(disk.wal)
        \/ x.at = "loadSnap" /\ Len(disk.wal) < handle.len
        \/ x.at = "lookIno" /\ Len(disk.wal) > handle.len
  \/ /\ cap[c].at = "lookIno" /\ handle' = handle
     /\ \/ x.at = "loadSnap" /\ handle.ino # disk.ino
        \/ x.at = "tail" /\ handle.ino = disk.ino
  \/ /\ cap[c].at = "tail" /\ x.at \in {"read", "refresh"}
     /\ handle'.mem = handle.mem \cup After(handle.len)
     /\ handle'.len = (IF Len(disk.wal) > handle.len THEN Len(disk.wal) ELSE handle.len)
     /\ handle'.snap = handle.snap /\ handle'.ino = handle.ino /\ handle'.whole = handle.whole
  \/ /\ cap[c].at = "loadSnap" /\ x.at = "loadWal"
     /\ handle'.mem = disk.base /\ handle'.whole = ~Snapshotting
     /\ handle'.len = handle.len /\ handle'.snap = handle.snap /\ handle'.ino = handle.ino
  \/ /\ cap[c].at = "loadWal" /\ x.at = "loadIdent"
     /\ handle'.mem = handle.mem \cup ToSet(disk.wal) /\ handle'.whole = handle.whole
     /\ handle'.len = Len(disk.wal) /\ handle'.snap = handle.snap /\ handle'.ino = disk.ino
  \/ /\ cap[c].at = "loadIdent" /\ x.at \in {"read", "refresh"}
     /\ handle'.mem = handle.mem /\ handle'.whole = handle.whole
     /\ handle'.len = handle.len /\ handle'.snap = disk.snap /\ handle'.ino = handle.ino

LEMMA FollowerIs ==
  ASSUME OwnInv, NEW c \in Captures, Follower(c)
  PROVE  \E x : /\ Goes(c, x) /\ Finds(c, x) /\ handle' \in Handles
                /\ guard = [owner |-> c, at |-> "body"]
                /\ IF x.at \in {"read", "refresh"} THEN guard' = [owner |-> c, at |-> "drop"]
                   ELSE guard' = guard
                /\ UNCHANGED <<disk, xlock, slot, writing, writer, peer, probe, returned, captured, used>>
<1>1. /\ guard = [owner |-> c, at |-> "body"] /\ cap[c].at \in Reads \cup {"refreshing"}
      /\ UNCHANGED <<disk, xlock, slot, writing, writer, peer, probe, returned, captured, used>>
  BY DEF Follower, RefreshLook, RefreshLookAtWal, RefreshLookAtInode, RefreshTail, ReloadSnapshot,
         ReloadWal, ReloadIdent, Follow, InGuard, Reads, Loads
<1>2. cap \in [Captures -> Caps] /\ cap[c] \in Caps /\ handle \in Handles /\ disk \in Files
  BY DEF OwnInv, TypeOK
<1>3. cap[c].at \in Seeks
  BY <1>1 DEF Seeks
<1>4. cap[c] \in SeekCap
  BY <1>2, <1>3, CapIs
<1>5. /\ Len(disk.wal) \in Nat /\ disk.base \in Commits /\ ToSet(disk.wal) \in Commits
      /\ After(handle.len) \in Commits /\ handle.len \in Nat /\ disk.ino \in Nat /\ disk.snap \in Nat
  BY <1>2, FilesHold, WalIs DEF Files, Handles
<1>6. EndBody => guard' = [owner |-> c, at |-> "drop"]
  BY <1>1 DEF EndBody
<1>7. ASSUME NEW at \in {"loadSnap", "lookWal", "lookIno", "tail", "loadWal", "loadIdent"}, At(c, at)
      PROVE  \E x : Goes(c, x) /\ x.at = at /\ x.at \notin {"read", "refresh"}
  BY <1>4, <1>7, MovedIs DEF Seeks, Reads, Loads
<1>8. Done(c) => \E x : Goes(c, x) /\ x.at \in {"read", "refresh"}
  BY <1>2, <1>4, DoneIs
<1>9. CASE RefreshLook(c)
  <2>1. /\ cap[c].at = "refreshing" /\ handle' = handle /\ guard' = guard
        /\ At(c, IF handle.snap # disk.snap THEN "loadSnap" ELSE "lookWal")
    BY <1>9 DEF RefreshLook, Follow
  <2>2. CASE handle.snap # disk.snap
    <3>1. At(c, "loadSnap")
      BY <2>1, <2>2
    <3>2. PICK x : Goes(c, x) /\ x.at = "loadSnap" /\ x.at \notin {"read", "refresh"}
      BY <1>7, <3>1
    <3> QED BY <1>1, <1>2, <2>1, <2>2, <3>2 DEF Finds
  <2>3. CASE handle.snap = disk.snap
    <3>1. At(c, "lookWal")
      BY <2>1, <2>3
    <3>2. PICK x : Goes(c, x) /\ x.at = "lookWal" /\ x.at \notin {"read", "refresh"}
      BY <1>7, <3>1
    <3> QED BY <1>1, <1>2, <2>1, <2>3, <3>2 DEF Finds
  <2> QED BY <2>2, <2>3
<1>10. CASE RefreshLookAtWal(c)
  <2>1. cap[c].at = "lookWal" /\ handle' = handle
    BY <1>10 DEF RefreshLookAtWal, Follow
  <2>2. CASE Len(disk.wal) = handle.len /\ Done(c) /\ EndBody
    <3>1. PICK x : Goes(c, x) /\ x.at \in {"read", "refresh"}
      BY <1>8, <2>2
    <3> QED BY <1>1, <1>2, <1>6, <2>1, <2>2, <3>1 DEF Finds
  <2>3. CASE Len(disk.wal) < handle.len /\ At(c, "loadSnap") /\ UNCHANGED guard
    <3>1. PICK x : Goes(c, x) /\ x.at = "loadSnap" /\ x.at \notin {"read", "refresh"}
      BY <1>7, <2>3
    <3> QED BY <1>1, <1>2, <2>1, <2>3, <3>1 DEF Finds
  <2>4. CASE Len(disk.wal) > handle.len /\ At(c, "lookIno") /\ UNCHANGED guard
    <3>1. PICK x : Goes(c, x) /\ x.at = "lookIno" /\ x.at \notin {"read", "refresh"}
      BY <1>7, <2>4
    <3> QED BY <1>1, <1>2, <2>1, <2>4, <3>1 DEF Finds
  <2> QED BY <1>10, <2>2, <2>3, <2>4 DEF RefreshLookAtWal
<1>11. CASE RefreshLookAtInode(c)
  <2>1. /\ cap[c].at = "lookIno" /\ handle' = handle /\ guard' = guard
        /\ At(c, IF handle.ino # disk.ino THEN "loadSnap" ELSE "tail")
    BY <1>11 DEF RefreshLookAtInode, Follow
  <2>2. CASE handle.ino # disk.ino
    <3>1. At(c, "loadSnap")
      BY <2>1, <2>2
    <3>2. PICK x : Goes(c, x) /\ x.at = "loadSnap" /\ x.at \notin {"read", "refresh"}
      BY <1>7, <3>1
    <3> QED BY <1>1, <1>2, <2>1, <2>2, <3>2 DEF Finds
  <2>3. CASE handle.ino = disk.ino
    <3>1. At(c, "tail")
      BY <2>1, <2>3
    <3>2. PICK x : Goes(c, x) /\ x.at = "tail" /\ x.at \notin {"read", "refresh"}
      BY <1>7, <3>1
    <3> QED BY <1>1, <1>2, <2>1, <2>3, <3>2 DEF Finds
  <2> QED BY <2>2, <2>3
<1>12. CASE RefreshTail(c)
  <2>1. PICK m, l : /\ m = handle.mem \cup After(handle.len)
                    /\ l = IF Len(disk.wal) > handle.len THEN Len(disk.wal) ELSE handle.len
    OBVIOUS
  <2>2. m \in Commits /\ l \in Nat
    BY <1>2, <1>5, <2>1 DEF Handles, Commits
  <2>3. cap[c].at = "tail" /\ handle' = [handle EXCEPT !.mem = m, !.len = l] /\ Done(c) /\ EndBody
    BY <1>12, <2>1 DEF RefreshTail, Follow
  <2>4. /\ handle' \in Handles /\ handle'.mem = m /\ handle'.len = l
        /\ handle'.snap = handle.snap /\ handle'.ino = handle.ino /\ handle'.whole = handle.whole
    BY <1>2, <2>2, <2>3 DEF Handles
  <2>5. PICK x : Goes(c, x) /\ x.at \in {"read", "refresh"}
    BY <1>8, <2>3
  <2>6. Finds(c, x)
    BY <2>1, <2>3, <2>4, <2>5 DEF Finds
  <2> QED BY <1>1, <1>6, <2>3, <2>4, <2>5, <2>6
<1>13. CASE ReloadSnapshot(c)
  <2>1. PICK w \in BOOLEAN : w = ~Snapshotting
    OBVIOUS
  <2>2. cap[c].at = "loadSnap" /\ handle' = [handle EXCEPT !.mem = disk.base, !.whole = w]
        /\ At(c, "loadWal") /\ guard' = guard
    BY <1>13, <2>1 DEF ReloadSnapshot, Follow
  <2>3. /\ handle' \in Handles /\ handle'.mem = disk.base /\ handle'.len = handle.len
        /\ handle'.snap = handle.snap /\ handle'.ino = handle.ino /\ handle'.whole = w
    BY <1>2, <1>5, <2>2 DEF Handles
  <2>4. PICK x : Goes(c, x) /\ x.at = "loadWal" /\ x.at \notin {"read", "refresh"}
    BY <1>7, <2>2
  <2>5. Finds(c, x)
    BY <2>1, <2>2, <2>3, <2>4 DEF Finds
  <2> QED BY <1>1, <2>2, <2>3, <2>4, <2>5
<1>14. CASE ReloadWal(c)
  <2>1. PICK m : m = handle.mem \cup ToSet(disk.wal)
    OBVIOUS
  <2>2. m \in Commits
    BY <1>2, <1>5, <2>1 DEF Handles, Commits
  <2>3. /\ cap[c].at = "loadWal"
        /\ handle' = [handle EXCEPT !.mem = m, !.len = Len(disk.wal), !.ino = disk.ino]
        /\ At(c, "loadIdent") /\ guard' = guard
    BY <1>14, <2>1 DEF ReloadWal, Follow
  <2>4. /\ handle' \in Handles /\ handle'.mem = m /\ handle'.len = Len(disk.wal)
        /\ handle'.snap = handle.snap /\ handle'.ino = disk.ino /\ handle'.whole = handle.whole
    BY <1>2, <1>5, <2>2, <2>3 DEF Handles
  <2>5. PICK x : Goes(c, x) /\ x.at = "loadIdent" /\ x.at \notin {"read", "refresh"}
    BY <1>7, <2>3
  <2>6. Finds(c, x)
    BY <2>1, <2>3, <2>4, <2>5 DEF Finds
  <2> QED BY <1>1, <2>3, <2>4, <2>5, <2>6
<1>15. CASE ReloadIdent(c)
  <2>1. cap[c].at = "loadIdent" /\ handle' = [handle EXCEPT !.snap = disk.snap] /\ Done(c) /\ EndBody
    BY <1>15 DEF ReloadIdent, Follow
  <2>2. /\ handle' \in Handles /\ handle'.mem = handle.mem /\ handle'.len = handle.len
        /\ handle'.snap = disk.snap /\ handle'.ino = handle.ino /\ handle'.whole = handle.whole
    BY <1>2, <1>5, <2>1 DEF Handles
  <2>3. PICK x : Goes(c, x) /\ x.at \in {"read", "refresh"}
    BY <1>8, <2>1
  <2>4. Finds(c, x)
    BY <2>1, <2>2, <2>3 DEF Finds
  <2> QED BY <1>1, <1>6, <2>1, <2>2, <2>3, <2>4
<1> QED BY <1>9, <1>10, <1>11, <1>12, <1>13, <1>14, <1>15 DEF Follower

\* A capture that follows the peer leaves the handle with what this process acknowledged.
LEMMA OwnFollows ==
  ASSUME OwnInv, NEW c \in Captures, Follower(c)
  PROVE  OwnInv'
<1> USE DEF OwnInv
<1>1. PICK x : /\ Goes(c, x) /\ Finds(c, x) /\ handle' \in Handles
               /\ guard = [owner |-> c, at |-> "body"]
               /\ IF x.at \in {"read", "refresh"} THEN guard' = [owner |-> c, at |-> "drop"]
                  ELSE guard' = guard
               /\ UNCHANGED <<disk, xlock, slot, writing, writer, peer, probe, returned, captured, used>>
  BY FollowerIs
<1>2. cap' \in [Captures -> Caps] /\ \A e \in Captures : cap'[e] = IF e = c THEN x ELSE cap[e]
  BY <1>1 DEF TypeOK, Goes, Caps
<1>3. /\ guard' \in [owner : {"none", "writer"} \cup Captures,
                     at : {"free", "taken", "body", "drop", "published", "cleared"}]
      /\ guard'.owner = c /\ guard'.at \in {"body", "drop"}
      /\ x.at \notin {"read", "refresh"} => guard' = [owner |-> c, at |-> "body"]
  BY <1>1
<1>4. TypeOK'
  BY <1>1, <1>2, <1>3 DEF TypeOK
<1>5. Mine' = Mine /\ Locked' /\ SlotIsHandle'
  BY <1>1, <1>3 DEF Mine, Locked, Snapshotting, SlotIsHandle
<1>6. \A e \in Captures : e # c => cap[e].at # "refreshing" /\ cap[e].at \notin Reads
                                   /\ cap[e].at \notin Loads /\ cap[e].at # "loadWal"
  BY <1>1 DEF CaptureOwn, Reads, Loads
<1>7. /\ disk \in Files /\ Len(disk.wal) \in Nat /\ handle \in Handles /\ handle.len \in Nat
      /\ disk.base \subseteq Store
  BY FilesHold DEF TypeOK, Handles
<1>8. CaptureOwn(c, cap[c]) /\ cap[c].at # "idle" /\ cap[c].us = x.us
  BY <1>1 DEF Finds, Goes
<1>9. writer.at \in OnTop => SamePlace /\ handle.len = Len(disk.wal) /\ cap[c].at \notin Loads
  BY <1>8 DEF GroupIsLast, CaptureOwn
<1>10. cap[c].at \notin Loads => SamePlace' = SamePlace
  BY <1>1 DEF Finds, SamePlace, Loads
<1>11. SamePlace /\ (handle.len <= Len(disk.wal) \/ writer.at = "failed") =>
         SamePlace' /\ (handle'.len <= Len(disk.wal) \/ writer.at = "failed")
  BY <1>1, <1>7 DEF Finds, SamePlace
<1>12. GroupIsLast'
  <2>1. writer.at \in OnTop => SamePlace' /\ handle'.len = Len(disk.wal)
    BY <1>1, <1>7, <1>9, <1>10 DEF Finds, Loads
  <2>2. writer.at = "failed" => SamePlace'
    BY <1>11 DEF GroupIsLast
  <2> QED BY <1>1, <2>1, <2>2 DEF GroupIsLast
<1>13. InPlace => InPlace'
  BY <1>1, <1>11 DEF InPlace
<1>14. Mine \subseteq Store /\ (Mine \subseteq disk.base \/ InPlace)
  BY DEF OwnKept, Kept, Anchored
<1>15. Kept(Mine)'
  BY <1>1, <1>5, <1>13, <1>14 DEF Kept, Anchored, Store
<1>16. cap[c].at # "loadWal" => Mine \subseteq handle.mem
  BY <1>6 DEF OwnKept
<1>17. x.at \in Loads => writer.at \notin OnTop /\ (Mine \subseteq disk.base \/ writer.at = "failed")
  <2>1. CASE cap[c].at \in Loads
    BY <1>8, <2>1 DEF CaptureOwn
  <2>2. CASE cap[c].at \notin Loads
    <3>1. x.at \in Loads => \/ handle.snap # disk.snap \/ handle.ino # disk.ino
                            \/ Len(disk.wal) < handle.len
      BY <1>1, <2>2 DEF Finds, Loads
    <3> QED BY <1>7, <1>9, <1>14, <3>1 DEF InPlace, SamePlace
  <2> QED BY <2>1, <2>2
<1>18. x.at = "loadWal" => handle'.mem = disk.base
  BY <1>1 DEF Finds
<1>19. Mine \subseteq handle'.mem \/ (writer.at = "failed" /\ x.at = "loadWal")
  <2>1. CASE cap[c].at = "loadWal"
    <3>1. handle'.mem = handle.mem \cup ToSet(disk.wal)
      BY <1>1, <2>1 DEF Finds
    <3>2. Mine \subseteq handle.mem \/ disk.base \subseteq handle.mem
      BY <1>8, <2>1 DEF CaptureOwn
    <3> QED BY <1>14, <3>1, <3>2 DEF Store
  <2>2. CASE cap[c].at = "loadSnap"
    <3>1. x.at = "loadWal" /\ handle'.mem = disk.base
      BY <1>1, <2>2 DEF Finds
    <3> QED BY <1>17, <3>1 DEF Loads
  <2>3. CASE cap[c].at \notin {"loadWal", "loadSnap"}
    <3>1. handle.mem \subseteq handle'.mem
      BY <1>1, <2>3 DEF Finds
    <3> QED BY <1>16, <2>3, <3>1
  <2> QED BY <2>1, <2>2, <2>3
<1>20. writer.at = "written" => writer.no \in slot.mem
  BY <1>1 DEF OwnKept
<1>21. OwnKept'
  <2>1. Mine' \subseteq 0..used'.commits /\ returned'.us \subseteq slot'.mem
    BY <1>1, <1>5 DEF OwnKept
  <2>2. Mine' \subseteq handle'.mem \/ (writer'.at = "failed" /\ \E e \in Captures : cap'[e].at = "loadWal")
    BY <1>1, <1>2, <1>5, <1>19
  <2> QED BY <1>1, <1>15, <1>20, <2>1, <2>2 DEF OwnKept
<1>22. \A e \in Captures : CaptureOwn(e, cap[e])'
  <2> SUFFICES ASSUME NEW e \in Captures
               PROVE  CaptureOwn(e, cap[e])'
    OBVIOUS
  <2>1. CASE e = c
    <3>1. cap'[e] = x /\ x.us \subseteq returned.us
      BY <1>2, <1>8, <2>1 DEF CaptureOwn
    <3>2. x.at # "refreshing" /\ x.at \notin Holding /\ x.at # "served" /\ x.at # "idle"
      BY <1>1 DEF Finds, Holding
    <3>3. x.at \in Reads => guard' = [owner |-> c, at |-> "body"]
      BY <1>3 DEF Reads, Loads
    <3>4. x.at = "loadWal" => Mine \subseteq handle'.mem \/ (writer.at = "failed" /\ disk.base \subseteq handle'.mem)
      BY <1>18, <1>19
    <3> QED BY <1>1, <1>5, <1>17, <2>1, <3>1, <3>2, <3>3, <3>4 DEF CaptureOwn
  <2>2. CASE e # c
    <3>1. cap'[e] = cap[e] /\ CaptureOwn(e, cap[e])
      BY <1>2, <2>2
    <3> QED BY <1>1, <1>6, <2>2, <3>1 DEF CaptureOwn
  <2> QED BY <2>1, <2>2
<1> QED BY <1>4, <1>5, <1>12, <1>21, <1>22

LEMMA OwnStep ==
  ASSUME ReadersAssumption, OwnInv, [Next]_vars
  PROVE  OwnInv'
<1>1. CASE Guards
  BY <1>1, OwnGuards DEF Guards
<1>2. CASE Writes
  BY <1>2, OwnLocks, OwnEnters, OwnApplies, OwnFsyncs, OwnEnds DEF Writes
<1>3. CASE PeerCommits \/ PeerReturns \/ PeerSnapshots \/ PeerReplacesWal
  BY <1>3, OwnPeer
<1>4. CASE \E c \in Captures : Start(c) \/ Capture(c)
  <2>1. PICK c \in Captures : Start(c) \/ Capture(c)
    BY <1>4
  <2> QED BY <2>1, OwnLooks, OwnTries, OwnRefreshLock, OwnFollows DEF Capture, Follower
<1>5. CASE UNCHANGED vars
  BY <1>5 DEF vars, OwnInv, TypeOK, Locked, Snapshotting, SlotIsHandle, Mark, GroupIsLast, SamePlace, OwnKept,
              Kept, Anchored, InPlace, Store, Mine, CaptureOwn
<1> QED BY <1>1, <1>2, <1>3, <1>4, <1>5 DEF Next

LEMMA OwnAlways == Spec => []OwnInv
<1>1. Init => OwnInv
  BY OwnInit, ReadersAssumption
<1>2. OwnInv /\ [Next]_vars => OwnInv'
  BY OwnStep, ReadersAssumption
<1> QED BY <1>1, <1>2, PTL DEF Spec

\* A capture of any handle, degraded or torn by a peer's snapshot, has every write that had
\* returned in this process when it began (SharedDb::reader).
THEOREM OwnWritesAreSeen == Spec => []OwnWritesSeen
<1>1. OwnInv => OwnWritesSeen
  BY DEF OwnInv, CaptureOwn, OwnWritesSeen, Served
<1> QED BY <1>1, OwnAlways, PTL

-----------------------------------------------------------------------------
(* Captures go forward and follow the peer, until a group's fsync fails.   *)

LEMMA PeerInit == Init => PeerInv
<1> SUFFICES ASSUME Init
             PROVE  PeerInv
  OBVIOUS
<1>1. LooksNumbered /\ LooksVouch
  BY DEF Init, LooksNumbered, LooksVouch
<1>2. Store = {} /\ ~Snapshotting
  <2>1. ToSet(<<>>) = {}
    BY DEF ToSet
  <2> QED BY <2>1 DEF Init, Store, Snapshotting
<1>3. Shown = {}
  BY DEF Init, Shown, Holding
<1>4. PeerKept
  BY <1>2, <1>3 DEF Init, Fresh, Mark, PeerKept, Kept, Anchored, Follows
<1>5. \A c \in Captures : CapturePeer(cap[c])
  BY DEF Init, CapturePeer
<1> QED BY <1>1, <1>4, <1>5 DEF PeerInv, PeerGood

\* A step after which the files, the handle and the captures are as before.
LEMMA PeerFrame ==
  ASSUME Healthy, Healthy', PeerGood, UNCHANGED <<disk, handle, slot, probe, cap, captured>>,
         Snapshotting' = Snapshotting, returned.peer \subseteq returned'.peer, returned'.peer \subseteq Store,
         xlock' = "peer" /\ peer' # 0 => peer' \in Store
  PROVE  PeerGood'
<1> USE DEF PeerGood
<1>1. Store' = Store /\ Shown' = Shown /\ \A n : After(n)' = After(n)
  BY DEF Store, Shown, After
<1>2. InPlace' = InPlace
  BY DEF InPlace, SamePlace, Healthy
<1>3. \A m, k, w : Follows(m, k, w)' = Follows(m, k, w)
  BY <1>1 DEF Follows
<1>4. PeerKept'
  BY <1>1, <1>2, <1>3 DEF PeerKept, Kept, Anchored, Mark
<1>5. LooksVouch'
  BY DEF LooksVouch, Vouches
<1>6. \A c \in Captures : CapturePeer(cap[c])'
  BY <1>1, <1>3 DEF CapturePeer
<1> QED BY <1>4, <1>5, <1>6

\* A guard publishes the handle, which nobody reads from the files then.
LEMMA PeerPublishes ==
  ASSUME OwnInv, Healthy, PeerGood, Publish
  PROVE  PeerGood'
<1> USE DEF PeerGood
<1>1. /\ guard.at = "drop" /\ slot' = [mem |-> handle.mem, mark |-> Mark(handle), whole |-> handle.whole]
      /\ UNCHANGED <<disk, xlock, handle, writing, writer, peer, probe, cap, returned, captured, used>>
  BY DEF Publish
<1>2. \A c \in Captures : cap[c].at \notin Reads
  BY <1>1 DEF OwnInv, CaptureOwn
<1>3. \A c \in Captures : cap[c].at \notin Loads /\ cap[c].at \notin {"lookWal", "lookIno", "tail", "loadWal", "loadIdent"}
  BY <1>2 DEF Reads, Loads
<1>4. slot'.mem = handle.mem /\ slot'.mark = Mark(handle) /\ slot'.whole = handle.whole
  BY <1>1
<1>5. \A n \in Shown' : n \in Shown \/ (handle.whole /\ n \in handle.mem)
  BY <1>1, <1>4 DEF Shown
<1>6. Store' = Store /\ InPlace' = InPlace /\ Snapshotting' = Snapshotting /\ \A n : After(n)' = After(n)
  BY <1>1 DEF Store, InPlace, SamePlace, Snapshotting, After
<1>7. \A m, k, w : Follows(m, k, w)' = Follows(m, k, w)
  BY <1>1, <1>6 DEF Follows
<1>8. /\ handle.whole => handle.mem \subseteq Store /\ Anchored(handle.mem)
      /\ Follows(handle.mem, Mark(handle), handle.whole) /\ Mark(handle).snap <= disk.snap
  BY <1>3 DEF PeerKept, Mark
<1>9. Shown' \subseteq Store /\ (Shown' \subseteq disk.base \/ InPlace) /\ Shown' \subseteq handle.mem
  BY <1>5, <1>8 DEF PeerKept, Kept, Anchored
<1>10. Follows(slot.mem, slot.mark, slot.whole)' /\ Follows(handle.mem, Mark(handle), handle.whole)'
  BY <1>1, <1>4, <1>7, <1>8 DEF Mark
<1>11. PeerKept'
  BY <1>1, <1>4, <1>6, <1>8, <1>9, <1>10 DEF PeerKept, Kept, Anchored
<1>12. LooksVouch'
  BY <1>1 DEF LooksVouch, Vouches
<1>13. \A c \in Captures : CapturePeer(cap[c])'
  BY <1>1, <1>3, <1>7 DEF CapturePeer
<1> QED BY <1>11, <1>12, <1>13

\* The guards' other steps, and the writer's that leave files and handle alone.
LEMMA PeerStays ==
  ASSUME OwnInv, Healthy, Healthy', PeerGood,
         \/ SetWriting \/ ClearWriting \/ Unlock \/ WriteLock \/ WriteGuard \/ Fsync \/ EndScope
         \/ WriteReturns \/ PeerReturns \/ UNCHANGED vars
  PROVE  PeerGood'
<1>1. handle \in Handles /\ returned.peer \subseteq Store /\ (xlock = "peer" /\ peer # 0 => peer \in Store)
      /\ returned \in [us : Commits, peer : Commits]
  BY DEF OwnInv, TypeOK, PeerGood, PeerKept
<1>2. CASE SetWriting \/ ClearWriting \/ Unlock \/ WriteGuard \/ UNCHANGED vars
  <2>1. UNCHANGED <<disk, xlock, handle, slot, probe, cap, captured, peer, returned>>
    BY <1>2 DEF SetWriting, ClearWriting, Unlock, WriteGuard, vars
  <2>2. Snapshotting' = Snapshotting
    BY <2>1 DEF Snapshotting
  <2> QED BY <1>1, <2>1, <2>2, PeerFrame
<1>3. CASE WriteLock
  <2>1. /\ UNCHANGED <<disk, handle, slot, probe, cap, captured, peer, returned>>
        /\ xlock = "free" /\ xlock' = "us"
    BY <1>3 DEF WriteLock
  <2>2. Snapshotting' = Snapshotting
    BY <2>1 DEF Snapshotting
  <2> QED BY <1>1, <2>1, <2>2, PeerFrame
<1>4. CASE Fsync
  <2>1. UNCHANGED <<xlock, handle, slot, probe, cap, captured, peer, returned>>
    BY <1>4 DEF Fsync
  <2>2. UNCHANGED disk
    <3>1. writer \in [at : {"idle", "enter", "scoped", "apply", "sync", "synced", "failed", "degraded",
                            "written"},
                      no : Nat, pre : Nat, direct : BOOLEAN]
      BY DEF OwnInv, TypeOK
    <3> QED BY <1>4, <3>1 DEF Fsync, Writer, Healthy
  <2>3. Snapshotting' = Snapshotting
    BY <2>1 DEF Snapshotting
  <2> QED BY <1>1, <2>1, <2>2, <2>3, PeerFrame
<1>5. CASE EndScope
  <2>1. /\ UNCHANGED <<disk, slot, probe, cap, captured, peer, returned>>
        /\ writer.at = "synced" /\ xlock' = "free"
        /\ handle' = [handle EXCEPT !.len = IF writer.at = "failed" THEN writer.pre ELSE handle.len]
    BY <1>5 DEF EndScope, Healthy
  <2>2. handle' = handle
    BY <1>1, <2>1 DEF Handles
  <2>3. xlock = "us"
    BY <2>1 DEF OwnInv, Locked, InScope
  <2>4. Snapshotting' = Snapshotting
    BY <2>1, <2>3 DEF Snapshotting
  <2> QED BY <1>1, <2>1, <2>2, <2>4, PeerFrame
<1>6. CASE WriteReturns
  <2>1. /\ UNCHANGED <<disk, xlock, handle, slot, probe, cap, captured, peer>>
        /\ returned' = [returned EXCEPT !.us = returned.us \cup {writer.no}]
    BY <1>6 DEF WriteReturns
  <2>2. returned'.peer = returned.peer /\ Snapshotting' = Snapshotting
    BY <1>1, <2>1 DEF Snapshotting
  <2> QED BY <1>1, <2>1, <2>2, PeerFrame
<1>7. CASE PeerReturns
  <2>1. /\ UNCHANGED <<disk, handle, slot, probe, cap, captured>>
        /\ xlock = "peer" /\ peer # 0 /\ xlock' = "free" /\ peer' = 0
        /\ returned' = [returned EXCEPT !.peer = returned.peer \cup {peer}]
    BY <1>7 DEF PeerReturns
  <2>2. returned'.peer = returned.peer \cup {peer} /\ Snapshotting' = Snapshotting
    BY <1>1, <2>1 DEF Snapshotting
  <2> QED BY <1>1, <2>1, <2>2, PeerFrame
<1> QED BY <1>2, <1>3, <1>4, <1>5, <1>6, <1>7

\* A write scope begins with all that the files hold.
LEMMA PeerEnters ==
  ASSUME OwnInv, ReadersAssumption, Healthy, Healthy', PeerGood, EnterScope
  PROVE  PeerGood'
<1> USE DEF PeerGood
<1>1. /\ writer.at = "enter" /\ guard = [owner |-> "writer", at |-> "body"]
      /\ UNCHANGED <<disk, xlock, slot, writing, peer, probe, cap, returned, captured, used>>
  BY DEF EnterScope, InGuard
<1>2. /\ handle' \in Handles /\ handle'.snap = disk.snap /\ handle'.ino = disk.ino
      /\ handle'.len = Len(disk.wal) /\ Store \cap handle.mem \subseteq handle'.mem
      /\ handle'.whole => \/ handle' = Loaded
                          \/ handle.whole /\ InPlace /\ handle'.mem = handle.mem \cup After(handle.len)
  BY Entered
<1>3. \A c \in Captures : cap[c].at \notin Reads
  BY <1>1, WriterAlone
<1>4. \A c \in Captures : cap[c].at \notin Loads /\ cap[c].at \notin {"lookWal", "lookIno", "tail", "loadWal", "loadIdent"}
  BY <1>3 DEF Reads, Loads
<1>5. disk \in Files /\ handle \in Handles
  BY DEF OwnInv, TypeOK
<1>6. /\ Len(disk.wal) \in Nat /\ disk.snap \in Nat
      /\ After(handle.len) \subseteq Store
  BY <1>5, FilesHold DEF Files, Handles
<1>7. ~Snapshotting /\ ~Snapshotting'
  BY <1>1 DEF OwnInv, Locked, InScope, Snapshotting
<1>8. Store' = Store /\ Shown' = Shown /\ \A n : After(n)' = After(n)
  BY <1>1 DEF Store, Shown, After
<1>9. \A m, k, w : Follows(m, k, w)' = Follows(m, k, w)
  BY <1>1, <1>7, <1>8 DEF Follows
<1>10. handle'.whole => handle'.mem = Store
  <2>1. CASE handle' = Loaded
    BY <2>1 DEF Loaded
  <2>2. CASE handle.whole /\ InPlace /\ handle'.mem = handle.mem \cup After(handle.len)
    <3>1. Follows(handle.mem, Mark(handle), handle.whole) /\ handle.mem \subseteq Store
      BY <1>4, <2>2 DEF PeerKept
    <3>2. Store \subseteq handle.mem \cup After(handle.len)
      BY <2>2, <3>1 DEF Follows, Mark, InPlace, SamePlace
    <3> QED BY <1>6, <2>2, <3>1, <3>2
  <2> QED BY <1>2, <2>1, <2>2
<1>11. InPlace'
  BY <1>1, <1>2, <1>6 DEF InPlace, SamePlace
<1>12. Follows(handle.mem, Mark(handle), handle.whole)'
  BY <1>1, <1>2, <1>6, <1>7, <1>8, <1>10 DEF Follows, Mark
<1>13. Shown \subseteq handle'.mem
  BY <1>2 DEF PeerKept, Kept
<1>14. PeerKept'
  BY <1>1, <1>2, <1>6, <1>8, <1>9, <1>10, <1>11, <1>12, <1>13 DEF PeerKept, Kept, Anchored
<1>15. LooksVouch'
  BY <1>1 DEF LooksVouch, Vouches
<1>16. \A c \in Captures : cap[c].at # "idle" => cap[c].peer \subseteq Store
  BY DEF CapturePeer, PeerKept
<1>17. \A c \in Captures : CapturePeer(cap[c])'
  BY <1>1, <1>4, <1>9, <1>10, <1>16 DEF CapturePeer
<1> QED BY <1>14, <1>15, <1>17

\* The WAL grows: what misses only its tail still does.
LEMMA FollowsGrows ==
  ASSUME disk \in Files, NEW no \in Nat, disk'.wal = Append(disk.wal, no), disk'.base = disk.base,
         disk'.snap = disk.snap, ~Snapshotting'
  PROVE  /\ Store' = Store \cup {no} /\ Len(disk.wal) \in Nat /\ Len(disk'.wal) = Len(disk.wal) + 1
         /\ \A n \in 0..Len(disk.wal) : After(n)' = After(n) \cup {no}
         /\ \A m, k, w : k.len \in Nat /\ Follows(m, k, w) => Follows(m, k, w)'
<1>1. PICK s : s = disk.wal
  OBVIOUS
<1>2. s \in Seq(Nat)
  BY <1>1 DEF Files
<1>3. PICK t : t = Append(s, no)
  OBVIOUS
<1>0. no \in Nat
  OBVIOUS
<1>4. /\ Len(t) = Len(s) + 1 /\ Len(s) \in Nat /\ ToSet(t) = ToSet(s) \cup {no}
  BY ONLY <1>0, <1>2, <1>3, WalAppended
<1>5. disk'.wal = t
  BY <1>1, <1>3
<1>6. Store' = Store \cup {no}
  BY <1>1, <1>4, <1>5 DEF Store
<1>7. ASSUME NEW n \in 0..Len(disk.wal)
      PROVE  After(n)' = After(n) \cup {no}
  <2>1. {t[i] : i \in n + 1 .. Len(t)} = {s[i] : i \in n + 1 .. Len(s)} \cup {no}
    <3>1. /\ n \in Nat /\ Len(s) + 1 \in n + 1 .. Len(t)
          /\ \A i \in n + 1 .. Len(t) : i \in n + 1 .. Len(s) \/ i = Len(s) + 1
          /\ \A i \in n + 1 .. Len(s) : i \in n + 1 .. Len(t) /\ i \in 1..Len(s)
      BY <1>1, <1>4, <1>7
    <3>2. t[Len(s) + 1] = no /\ \A i \in 1..Len(s) : t[i] = s[i]
      BY <1>2, <1>3, WalAppended
    <3> QED BY <3>1, <3>2
  <2>2. After(n)' = {t[i] : i \in n + 1 .. Len(t)} /\ After(n) = {s[i] : i \in n + 1 .. Len(s)}
    BY <1>1, <1>5 DEF After
  <2> QED BY <2>1, <2>2
<1>8. ASSUME NEW m, NEW k, NEW w, k.len \in Nat, Follows(m, k, w)
      PROVE  Follows(m, k, w)'
  <2>1. CASE w /\ k.snap = disk.snap
    <3>1. k.len <= Len(disk.wal) /\ Store \subseteq m \cup After(k.len)
      BY <1>8, <2>1 DEF Follows
    <3>2. PICK n \in 0..Len(disk.wal) : n = k.len
      BY <1>1, <1>4, <1>8, <3>1
    <3>3. After(n)' = After(n) \cup {no}
      BY <1>7
    <3>4. Store' \subseteq m \cup After(n)'
      BY <1>6, <3>1, <3>2, <3>3
    <3>5. n <= Len(disk'.wal)
      BY <1>1, <1>4, <1>5
    <3> QED BY <3>2, <3>4, <3>5 DEF Follows, After
  <2>2. CASE ~(w /\ k.snap = disk.snap)
    BY <2>2 DEF Follows
  <2> QED BY <2>1, <2>2
<1> QED BY <1>1, <1>4, <1>5, <1>6, <1>7, <1>8

\* A commit of this process.
LEMMA PeerApplies ==
  ASSUME OwnInv, ReadersAssumption, Healthy, Healthy', PeerGood, Apply
  PROVE  PeerGood'
<1> USE DEF PeerGood
<1>1. PICK no \in Nat :
        /\ disk'.wal = Append(disk.wal, no) /\ disk'.base = disk.base /\ disk'.snap = disk.snap
        /\ disk'.ino = disk.ino /\ handle'.mem = handle.mem \cup {no} /\ handle'.len = handle.len + 1
        /\ handle'.snap = handle.snap /\ handle'.ino = handle.ino /\ handle'.whole = handle.whole
        /\ xlock' \in {"us", "free"} /\ xlock = "us" /\ writer.at \in {"scoped", "apply"}
        /\ guard = [owner |-> "writer", at |-> "body"]
  BY Applied
<1>2. UNCHANGED <<slot, writing, peer, probe, cap, returned, captured>>
  BY DEF Apply
<1>3. \A c \in Captures : cap[c].at \notin Reads
  BY <1>1, WriterAlone
<1>4. \A c \in Captures : cap[c].at \notin Loads /\ cap[c].at \notin {"lookWal", "lookIno", "tail", "loadWal", "loadIdent"}
  BY <1>3 DEF Reads, Loads
<1>5. ~Snapshotting /\ ~Snapshotting'
  BY <1>1 DEF Snapshotting
<1>6. disk \in Files /\ handle \in Handles /\ slot \in Slots /\ cap \in [Captures -> Caps]
  BY DEF OwnInv, TypeOK
<1>7. /\ Store' = Store \cup {no} /\ Len(disk.wal) \in Nat /\ Len(disk'.wal) = Len(disk.wal) + 1
      /\ \A m, k, w : k.len \in Nat /\ Follows(m, k, w) => Follows(m, k, w)'
  BY <1>1, <1>5, <1>6, FollowsGrows
<1>8. Shown' = Shown
  BY <1>2 DEF Shown
<1>9. handle.snap = disk.snap /\ handle.ino = disk.ino /\ handle.len = Len(disk.wal)
  BY <1>1 DEF OwnInv, GroupIsLast, OnTop, SamePlace
<1>10. InPlace'
  BY <1>1, <1>7, <1>9 DEF InPlace, SamePlace
<1>11. handle.whole => handle.mem \subseteq Store /\ Store \subseteq handle.mem
  <2>1. Follows(handle.mem, Mark(handle), handle.whole) /\ (handle.whole => handle.mem \subseteq Store)
    BY <1>4 DEF PeerKept
  <2>2. After(Len(disk.wal)) = {}
    BY <1>6, <1>7, FilesHold
  <2> QED BY <1>9, <2>1, <2>2 DEF Follows, Mark
<1>12. Follows(handle.mem, Mark(handle), handle.whole)'
  BY <1>1, <1>5, <1>7, <1>9, <1>11 DEF Follows, Mark
<1>13. Follows(slot.mem, slot.mark, slot.whole)'
  BY <1>2, <1>6, <1>7 DEF PeerKept, Slots, Marks
<1>14. xlock' # "peer"
  BY <1>1
<1>15. PeerKept'
  BY <1>1, <1>2, <1>7, <1>8, <1>10, <1>11, <1>12, <1>13, <1>14 DEF PeerKept, Kept, Anchored
<1>16. LooksVouch'
  BY <1>1, <1>2 DEF LooksVouch, Vouches
<1>17. \A c \in Captures : CapturePeer(cap[c])'
  <2> SUFFICES ASSUME NEW c \in Captures
               PROVE  CapturePeer(cap[c])'
    OBVIOUS
  <2>1. cap[c].at \in Holding => cap[c].slot.mark.len \in Nat
    BY <1>6, CapIs DEF Slots, Marks
  <2>2. CapturePeer(cap[c])
    OBVIOUS
  <2> QED BY <1>1, <1>2, <1>4, <1>7, <2>1, <2>2 DEF CapturePeer
<1> QED BY <1>15, <1>16, <1>17

\* A commit of the peer.
LEMMA PeerAppends ==
  ASSUME OwnInv, Healthy, Healthy', PeerGood, PeerCommits
  PROVE  PeerGood'
<1> USE DEF PeerGood
<1>1. PICK no : no = used.commits + 1
  OBVIOUS
<1>2. /\ xlock = "free" /\ disk' = [disk EXCEPT !.wal = Append(disk.wal, no)]
      /\ peer' = no /\ xlock' = "peer"
      /\ UNCHANGED <<handle, slot, writing, guard, writer, probe, cap, returned, captured>>
  BY <1>1 DEF PeerCommits
<1>3. disk \in Files /\ handle \in Handles /\ slot \in Slots /\ cap \in [Captures -> Caps] /\ no \in Nat /\ no # 0
  BY <1>1 DEF OwnInv, TypeOK
<1>4. disk'.wal = Append(disk.wal, no) /\ disk'.base = disk.base /\ disk'.snap = disk.snap
      /\ disk'.ino = disk.ino
  BY <1>2, <1>3 DEF Files
<1>5. ~Snapshotting /\ ~Snapshotting'
  BY <1>2, <1>3 DEF Snapshotting
<1>6. /\ Store' = Store \cup {no} /\ Len(disk.wal) \in Nat /\ Len(disk'.wal) = Len(disk.wal) + 1
      /\ \A n \in 0..Len(disk.wal) : After(n)' = After(n) \cup {no}
      /\ \A m, k, w : k.len \in Nat /\ Follows(m, k, w) => Follows(m, k, w)'
  BY <1>3, <1>4, <1>5, FollowsGrows
<1>7. Shown' = Shown /\ handle.len \in Nat
  BY <1>2, <1>3 DEF Shown, Handles
<1>8. InPlace => InPlace'
  BY <1>2, <1>4, <1>6, <1>7 DEF InPlace, SamePlace
<1>9. Follows(slot.mem, slot.mark, slot.whole)'
  BY <1>2, <1>3, <1>6 DEF PeerKept, Slots, Marks
<1>10. Follows(handle.mem, Mark(handle), handle.whole) => Follows(handle.mem, Mark(handle), handle.whole)'
  BY <1>2, <1>6, <1>7 DEF Mark
<1>11. PeerKept'
  <2>1. returned'.peer \subseteq Store' /\ peer' \in Store'
    BY <1>2, <1>6 DEF PeerKept
  <2>2. Kept(Shown)' /\ Shown' \subseteq slot'.mem /\ Shown' \subseteq handle'.mem
    BY <1>2, <1>4, <1>6, <1>7, <1>8 DEF PeerKept, Kept, Anchored
  <2>3. slot'.mark.snap <= disk'.snap /\ handle'.snap <= disk'.snap
    BY <1>2, <1>4 DEF PeerKept
  <2>4. handle'.whole => handle'.mem \subseteq Store'
    BY <1>2, <1>6 DEF PeerKept
  <2>5. (\A c \in Captures : cap'[c].at \notin {"loadWal", "loadIdent"}) =>
          /\ handle'.whole => Anchored(handle.mem)'
          /\ Follows(handle.mem, Mark(handle), handle.whole)'
    BY <1>2, <1>4, <1>8, <1>10 DEF PeerKept, Anchored
  <2> QED BY <1>9, <2>1, <2>2, <2>3, <2>4, <2>5 DEF PeerKept
<1>12. LooksVouch'
  BY <1>2, <1>4 DEF LooksVouch, Vouches
<1>13. \A c \in Captures : CapturePeer(cap[c])'
  <2> SUFFICES ASSUME NEW c \in Captures
               PROVE  CapturePeer(cap[c])'
    OBVIOUS
  <2>1. cap[c].at \in Holding => cap[c].slot.mark.len \in Nat
    BY <1>3, CapIs DEF Slots, Marks
  <2>2. CapturePeer(cap[c])
    OBVIOUS
  <2>3. cap[c].at = "loadIdent" /\ handle.whole =>
          handle.len <= Len(disk'.wal) /\ Store' \subseteq handle.mem \cup After(handle.len)'
    <3> SUFFICES ASSUME cap[c].at = "loadIdent", handle.whole
                 PROVE  handle.len <= Len(disk'.wal) /\ Store' \subseteq handle.mem \cup After(handle.len)'
      OBVIOUS
    <3>1. handle.len <= Len(disk.wal) /\ Store \subseteq handle.mem \cup After(handle.len)
      BY <2>2 DEF CapturePeer
    <3>2. PICK n \in 0..Len(disk.wal) : n = handle.len
      BY <1>6, <1>7, <3>1
    <3>3. After(n)' = After(n) \cup {no}
      BY <1>6
    <3>4. After(handle.len)' = After(n)'
      BY <1>2, <3>2 DEF After
    <3> QED BY <1>6, <1>7, <3>1, <3>2, <3>3, <3>4
  <2> QED BY <1>2, <1>4, <1>5, <1>6, <1>7, <2>1, <2>2, <2>3 DEF CapturePeer
<1> QED BY <1>11, <1>12, <1>13

\* A step of a peer's snapshot: nothing that is whole claims to be current of it.
LEMMA PeerTears ==
  ASSUME OwnInv, Healthy, Healthy', PeerGood, handle' = Overtaken, Store' = Store,
         disk' \in Files, disk'.base = Store, disk.snap <= disk'.snap, disk'.snap = disk.snap => Snapshotting,
         UNCHANGED <<slot, writing, guard, writer, peer, probe, cap, returned, captured>>,
         peer = 0
  PROVE  PeerGood'
<1> USE DEF PeerGood
<1>1. /\ handle' \in Handles /\ handle'.mem = handle.mem /\ handle'.len = handle.len
      /\ handle'.snap = handle.snap /\ handle'.ino = handle.ino
      /\ handle'.whole => handle.whole /\ \A c \in Captures : cap[c].at \notin Reads
  BY OvertakenIs
<1>2. disk.snap \in Nat /\ disk'.snap \in Nat /\ handle \in Handles /\ slot \in Slots /\ cap \in [Captures -> Caps]
  BY DEF OwnInv, TypeOK, Files
<1>3. Shown' = Shown
  BY DEF Shown
<1>4. ASSUME NEW m, NEW k, NEW w, k.snap \in Nat, k.snap <= disk.snap, Follows(m, k, w)
      PROVE  ~(w /\ k.snap = disk'.snap)
  <2>1. CASE disk'.snap = disk.snap
    BY <1>4, <2>1 DEF Follows
  <2>2. CASE disk'.snap # disk.snap
    BY <1>2, <1>4, <2>2
  <2> QED BY <2>1, <2>2
<1>5. slot.mark.snap \in Nat /\ slot.mark.snap <= disk.snap /\ Follows(slot.mem, slot.mark, slot.whole)
  BY <1>2 DEF PeerKept, Slots, Marks
<1>6. ~(slot.whole /\ slot.mark.snap = disk'.snap) /\ slot.mark.snap <= disk'.snap
  BY <1>2, <1>4, <1>5
<1>7. Follows(slot.mem, slot.mark, slot.whole)'
  BY <1>6 DEF Follows
<1>8. handle.snap \in Nat /\ handle.snap <= disk.snap /\ handle'.snap <= disk'.snap
  BY <1>1, <1>2 DEF PeerKept, Handles
<1>9. handle'.whole => /\ \A c \in Captures : cap[c].at \notin {"loadWal", "loadIdent"}
                       /\ \A c \in Captures : cap[c].at \notin {"lookWal", "lookIno", "tail"}
                       /\ \A c \in Captures : cap[c].at \notin Loads
  BY <1>1 DEF Reads, Loads
<1>10. Follows(handle.mem, Mark(handle), handle.whole)'
  <2> SUFFICES ASSUME handle'.whole, handle.snap = disk'.snap
               PROVE  FALSE
    BY <1>1 DEF Follows, Mark
  <2>1. Follows(handle.mem, Mark(handle), handle.whole) /\ handle.whole
    BY <1>1, <1>9 DEF PeerKept
  <2>2. PICK k : k = Mark(handle)
    OBVIOUS
  <2>3. k.snap = handle.snap
    BY <2>2 DEF Mark
  <2> QED BY <1>4, <1>8, <2>1, <2>2, <2>3
<1>11. handle'.whole => handle'.mem \subseteq Store
  BY <1>1 DEF PeerKept
<1>12. PeerKept'
  <2>1. Kept(Shown)' /\ Shown' \subseteq slot'.mem /\ Shown' \subseteq handle'.mem
    BY <1>1, <1>3 DEF PeerKept, Kept, Anchored
  <2>2. handle'.whole => Anchored(handle.mem)'
    BY <1>1, <1>11 DEF Anchored
  <2> QED BY <1>6, <1>7, <1>8, <1>10, <1>11, <2>1, <2>2 DEF PeerKept
<1>13. LooksVouch'
  <2> SUFFICES ASSUME NEW c \in Captures, cap[c].at \in {"observe", "look"},
                      NEW d \in Captures, cap[d].at = "look", cap[c].after < cap[d].number
               PROVE  Vouches(cap[c], [len |-> cap[d].len, snap |-> disk'.snap])
    BY DEF LooksVouch, Vouches
  <2>1. cap[c].at \in Holding /\ cap[c].at # "idle"
    BY DEF Holding
  <2>2. cap[c].slot \in Slots
    BY <1>2, <2>1, CapIs
  <2>3. /\ cap[c].slot.mark.snap \in Nat /\ cap[c].slot.mark.snap <= disk.snap
        /\ Follows(cap[c].slot.mem, cap[c].slot.mark, cap[c].slot.whole)
    BY <2>1, <2>2 DEF CapturePeer, Slots, Marks
  <2>4. ~(cap[c].slot.whole /\ cap[c].slot.mark.snap = disk'.snap)
    BY <1>4, <2>3
  <2> QED BY <2>4 DEF Vouches
<1>14. \A c \in Captures : CapturePeer(cap[c])'
  <2> SUFFICES ASSUME NEW c \in Captures
               PROVE  CapturePeer(cap[c])'
    OBVIOUS
  <2>1. CapturePeer(cap[c])
    OBVIOUS
  <2>2. cap[c].at \in Holding =>
          /\ cap[c].slot.mark.snap <= disk'.snap
          /\ Follows(cap[c].slot.mem, cap[c].slot.mark, cap[c].slot.whole)'
    <3> SUFFICES ASSUME cap[c].at \in Holding
                 PROVE  /\ cap[c].slot.mark.snap <= disk'.snap
                        /\ ~(cap[c].slot.whole /\ cap[c].slot.mark.snap = disk'.snap)
      BY DEF Follows
    <3>1. cap[c].slot \in Slots /\ cap[c].at # "idle"
      BY <1>2, CapIs DEF Holding
    <3>2. /\ cap[c].slot.mark.snap \in Nat /\ cap[c].slot.mark.snap <= disk.snap
          /\ Follows(cap[c].slot.mem, cap[c].slot.mark, cap[c].slot.whole)
      BY <2>1, <3>1 DEF CapturePeer, Slots, Marks
    <3> QED BY <1>2, <1>4, <3>2
  <2>3. Shown' \subseteq disk'.base
    BY <1>3 DEF PeerKept, Kept
  <2>4. cap[c].at \in {"read", "loadIdent"} /\ handle'.whole =>
          cap[c].peer \subseteq handle'.mem \/ \E e \in Captures : cap'[e].at = "loadWal"
    BY <1>1, <2>1 DEF CapturePeer
  <2> QED BY <1>9, <2>1, <2>2, <2>3, <2>4 DEF CapturePeer
<1> QED BY <1>12, <1>13, <1>14

LEMMA PeerSnapshotted ==
  ASSUME OwnInv, OwnInv', Healthy, Healthy', PeerGood, PeerSnapshots \/ PeerReplacesWal
  PROVE  PeerGood'
<1>1. disk \in Files /\ disk' \in Files
  BY DEF OwnInv, TypeOK
<1>2. CASE PeerSnapshots
  <2>1. /\ xlock = "free" /\ disk' = [disk EXCEPT !.base = Store, !.snap = disk.snap + 1]
        /\ handle' = Overtaken
        /\ UNCHANGED <<slot, writing, guard, writer, peer, probe, cap, returned, captured>>
    BY <1>2 DEF PeerSnapshots
  <2>2. disk'.base = Store /\ disk'.wal = disk.wal /\ disk'.snap = disk.snap + 1 /\ disk.snap \in Nat
    BY <1>1, <2>1 DEF Files
  <2>3. Store' = Store
    BY <2>2 DEF Store
  <2>4. peer = 0 /\ disk.snap <= disk'.snap /\ disk'.snap # disk.snap
    BY <2>1, <2>2 DEF OwnInv, Locked
  <2> QED BY <1>1, <2>1, <2>2, <2>3, <2>4, PeerTears
<1>3. CASE PeerReplacesWal
  <2>1. /\ Snapshotting /\ disk' = [disk EXCEPT !.wal = <<>>, !.ino = disk.ino + 1]
        /\ handle' = Overtaken
        /\ UNCHANGED <<slot, writing, guard, writer, peer, probe, cap, returned, captured>>
    BY <1>3 DEF PeerReplacesWal
  <2>2. disk'.base = disk.base /\ disk'.wal = <<>> /\ disk'.snap = disk.snap /\ disk.snap \in Nat
    BY <1>1, <2>1 DEF Files
  <2>3. Store = disk.base
    BY <2>1 DEF Store, OwnInv, Locked
  <2>4. ToSet(<<>>) = {}
    BY DEF ToSet
  <2>5. Store' = Store
    BY <2>2, <2>3, <2>4 DEF Store
  <2>6. peer = 0 /\ disk.snap <= disk'.snap
    BY <2>1, <2>2 DEF Snapshotting
  <2> QED BY <1>1, <2>1, <2>2, <2>3, <2>5, <2>6, PeerTears
<1> QED BY <1>2, <1>3

\* A capture goes from one place to another, while the files, the handle and the slot stay.
LEMMA PeerMoves ==
  ASSUME OwnInv, PeerGood, NEW c \in Captures, NEW x, cap' = [cap EXCEPT ![c] = x],
         cap[c].at \notin {"loadWal", "loadIdent"}, x.at \notin {"loadWal", "loadIdent"},
         captured \subseteq captured', captured' \subseteq Shown,
         x.at \in Holding => x.slot = slot \/ (cap[c].at \in Holding /\ x.slot = cap[c].slot),
         UNCHANGED <<disk, xlock, handle, slot, writer, peer, returned>>,
         x.at # "idle" =>
           /\ x.seen \subseteq captured' /\ x.peer \subseteq returned.peer
           /\ x.at \in Holding => /\ x.seen \subseteq x.slot.mem /\ x.slot.mark.snap <= disk.snap
                                  /\ Follows(x.slot.mem, x.slot.mark, x.slot.whole)
           /\ x.at \in Loads => Shown \subseteq disk.base
           /\ x.at \in {"lookWal", "lookIno", "tail"} /\ handle.whole => handle.snap = disk.snap
           /\ x.at = "tail" /\ handle.whole => handle.ino = disk.ino
           /\ x.at = "read" /\ handle.whole => x.peer \subseteq handle.mem
           /\ x.at = "served" => x.seen \subseteq x.got /\ (~x.met /\ x.whole => x.peer \subseteq x.got)
  PROVE  PeerKept' /\ \A e \in Captures : CapturePeer(cap[e])'
<1> USE DEF PeerGood
<1>1. \A e \in Captures : cap'[e] = IF e = c THEN x ELSE cap[e]
  BY DEF OwnInv, TypeOK
<1>2. Shown' \subseteq Shown
  BY <1>1 DEF Shown
<1>3. Store' = Store /\ Snapshotting' = Snapshotting /\ InPlace' = InPlace /\ \A n : After(n)' = After(n)
  BY DEF Store, Snapshotting, InPlace, SamePlace, After
<1>4. \A m, k, w : Follows(m, k, w)' = Follows(m, k, w)
  BY <1>3 DEF Follows
<1>5. /\ (\E e \in Captures : cap[e].at = "loadWal") => \E e \in Captures : cap'[e].at = "loadWal"
      /\ (\A e \in Captures : cap'[e].at \notin {"loadWal", "loadIdent"}) =>
           \A e \in Captures : cap[e].at \notin {"loadWal", "loadIdent"}
  BY <1>1
<1>6. PeerKept'
  BY <1>2, <1>3, <1>4, <1>5 DEF PeerKept, Kept, Anchored, Mark
<1>7. CapturePeer(x)'
  BY <1>2, <1>3, <1>4 DEF CapturePeer
<1>8. ASSUME NEW e \in Captures, e # c
      PROVE  CapturePeer(cap[e])'
  <2>1. cap'[e] = cap[e] /\ CapturePeer(cap[e])
    BY <1>1, <1>8
  <2> QED BY <1>2, <1>3, <1>4, <1>5, <2>1 DEF CapturePeer
<1>9. ASSUME NEW e \in Captures
      PROVE  CapturePeer(cap[e])'
  <2>1. CASE e = c
    <3>1. cap'[e] = x
      BY <1>1, <2>1
    <3> QED BY <1>7, <3>1 DEF CapturePeer
  <2> QED BY <1>8, <2>1
<1> QED BY <1>6, <1>9

\* A capture that is not looking says nothing of looks.
LEMMA LooksStay ==
  ASSUME cap \in [Captures -> Caps], NEW c \in Captures, NEW x, cap' = [cap EXCEPT ![c] = x],
         x.at \notin {"observe", "look"}, UNCHANGED probe
  PROVE  /\ LooksNumbered => LooksNumbered'
         /\ LooksVouch /\ disk'.snap = disk.snap => LooksVouch'
<1>1. \A e \in Captures : cap'[e] = IF e = c THEN x ELSE cap[e]
  OBVIOUS
<1>2. LooksNumbered => LooksNumbered'
  BY <1>1 DEF LooksNumbered
<1>3. LooksVouch /\ disk'.snap = disk.snap => LooksVouch'
  BY <1>1 DEF LooksVouch, Vouches
<1> QED BY <1>2, <1>3

\* A capture that ends with a state that has all it owes.
LEMMA PeerServed ==
  ASSUME OwnInv, PeerGood, NEW c \in Captures, cap[c] \in FlagCap \cup SeekCap, cap[c].at \notin Reads,
         NEW s, s.mem \in Commits, s.whole \in BOOLEAN, NEW met \in BOOLEAN, Serve(c, s, met),
         s.whole => s.mem \subseteq Shown, cap[c].seen \subseteq s.mem,
         ~met /\ s.whole => cap[c].peer \subseteq s.mem,
         UNCHANGED <<disk, xlock, handle, slot, writer, peer, returned>>
  PROVE  PeerKept' /\ \A e \in Captures : CapturePeer(cap[e])'
<1>1. captured \in Commits /\ cap \in [Captures -> Caps]
  BY DEF OwnInv, TypeOK
<1>2. PICK x \in ServedCap :
        /\ cap' = [cap EXCEPT ![c] = x] /\ x.at = "served" /\ x.got = s.mem /\ x.whole = s.whole
        /\ x.met = met /\ x.peer = cap[c].peer /\ x.seen = cap[c].seen
        /\ captured' = IF s.whole THEN captured \cup s.mem ELSE captured
  BY <1>1, ServedIs
<1>3. cap[c].at # "idle" /\ CapturePeer(cap[c]) /\ cap[c].at \notin {"loadWal", "loadIdent"}
  BY DEF FlagCap, SeekCap, Seeks, Reads, Loads, PeerGood
<1>4. captured \subseteq captured' /\ captured' \subseteq Shown
  BY <1>1, <1>2 DEF Shown, Commits
<1>5. cap[c].seen \subseteq captured /\ cap[c].peer \subseteq returned.peer
  BY <1>3 DEF CapturePeer
<1>6. x.at \notin Holding /\ x.at \notin Loads
  BY <1>2 DEF Holding, Loads
<1> QED BY <1>2, <1>3, <1>4, <1>5, <1>6, PeerMoves

\* A capture that goes on, with no state yet.
LEMMA PeerGoes ==
  ASSUME OwnInv, PeerGood, NEW c \in Captures, cap[c].at \notin {"idle", "loadWal", "loadIdent"},
         NEW x, Goes(c, x), x.at \in {"try", "refresh", "lock", "refreshing", "read"}, UNCHANGED captured,
         x.at = "read" /\ handle.whole => cap[c].peer \subseteq handle.mem,
         UNCHANGED <<disk, xlock, handle, slot, writer, peer, returned>>
  PROVE  PeerKept' /\ \A e \in Captures : CapturePeer(cap[e])'
<1>1. cap[c].seen \subseteq captured /\ cap[c].peer \subseteq returned.peer
  BY DEF PeerGood, CapturePeer
<1>2. x.at \notin Holding /\ x.at \notin Loads /\ x.at \notin {"loadWal", "loadIdent"}
  BY DEF Holding, Loads
<1>3. captured \subseteq Shown
  BY DEF Shown, OwnInv, TypeOK, Commits
<1> QED BY <1>1, <1>2, <1>3, PeerMoves DEF Goes

\* A capture compares its slot with a look that vouches for it.
LEMMA PeerCompares ==
  ASSUME OwnInv, PeerGood, NEW c \in Captures, cap[c].at \in {"observe", "look"}, NEW seen,
         Vouches(cap[c], seen), Compare(c, seen),
         UNCHANGED <<disk, xlock, handle, slot, writer, peer, returned>>
  PROVE  /\ PeerKept' /\ \A e \in Captures : CapturePeer(cap[e])'
         /\ \E x : cap' = [cap EXCEPT ![c] = x] /\ x.at \in {"try", "served"}
<1>1. cap[c] \in Caps /\ CapturePeer(cap[c]) /\ captured \in Commits
  BY DEF OwnInv, TypeOK, PeerGood
<1>2. cap[c].at \in Seeks /\ cap[c].at \in Holding /\ cap[c].at \notin Reads
      /\ cap[c].at \notin {"idle", "loadWal", "loadIdent"}
  BY DEF Seeks, Holding, Reads, Loads
<1>3. cap[c] \in SeekCap /\ cap[c].slot \in Slots
  BY <1>1, <1>2, CapIs
<1>4. cap[c].slot.mem \in Commits /\ cap[c].slot.whole \in BOOLEAN
  BY <1>3 DEF Slots
<1>5. CASE cap[c].slot.mark = seen
  <2>1. Serve(c, cap[c].slot, FALSE)
    BY <1>5 DEF Compare
  <2>2. cap[c].slot.whole => cap[c].slot.mem \subseteq Shown
    BY <1>2, <1>4 DEF Shown, Commits
  <2>3. cap[c].seen \subseteq cap[c].slot.mem
    BY <1>1, <1>2 DEF CapturePeer
  <2>4. cap[c].slot.whole => cap[c].peer \subseteq cap[c].slot.mem
    BY <1>5 DEF Vouches
  <2>5. PICK s : s = cap[c].slot
    OBVIOUS
  <2>6. PeerKept' /\ \A e \in Captures : CapturePeer(cap[e])'
    BY <1>2, <1>3, <1>4, <2>1, <2>2, <2>3, <2>4, <2>5, PeerServed
  <2>7. \E x : cap' = [cap EXCEPT ![c] = x] /\ x.at = "served"
    <3>1. PICK x : x = [at |-> "served", got |-> s.mem, whole |-> s.whole, met |-> FALSE, us |-> cap[c].us,
                        peer |-> cap[c].peer, seen |-> cap[c].seen]
      OBVIOUS
    <3>2. cap' = [cap EXCEPT ![c] = x] /\ x.at = "served"
      BY <2>1, <2>5, <3>1 DEF Serve
    <3> QED BY <3>2
  <2> QED BY <2>6, <2>7
<1>6. CASE cap[c].slot.mark # seen
  <2>1. At(c, "try") /\ UNCHANGED captured
    BY <1>6 DEF Compare
  <2>2. "try" \in Seeks
    BY DEF Seeks
  <2>3. PICK x : Goes(c, x) /\ x.at = "try"
    BY <1>3, <2>1, <2>2, MovedIs
  <2> QED BY <1>2, <2>1, <2>3, PeerGoes DEF Goes
<1> QED BY <1>5, <1>6

\* A whole state whose mark is what the files are has all that the peer acknowledged.
LEMMA CurrentHasAll ==
  ASSUME OwnInv, PeerKept, NEW mem, NEW mark, Follows(mem, mark, TRUE),
         mark.len = Len(disk.wal), mark.snap = disk.snap
  PROVE  Store \subseteq mem /\ returned.peer \subseteq mem
<1>1. disk \in Files
  BY DEF OwnInv, TypeOK
<1>2. Len(disk.wal) \in Nat /\ After(Len(disk.wal)) = {}
  BY <1>1, FilesHold
<1>3. Store \subseteq mem
  BY <1>2 DEF Follows
<1> QED BY <1>3 DEF PeerKept

\* A capture begins; its slot is the newest that was captured.
LEMMA PeerStarts ==
  ASSUME OwnInv, PeerGood, NEW c \in Captures, Start(c)
  PROVE  PeerGood'
<1>1. PICK x \in FlagCap :
        /\ cap' = [cap EXCEPT ![c] = x] /\ x.at = "flag"
        /\ x.peer = returned.peer /\ x.seen = captured /\ x.slot = slot
  BY StartIs
<1>2. /\ cap[c].at \in {"idle", "served"}
      /\ UNCHANGED <<disk, xlock, handle, slot, writer, peer, probe, returned, captured>>
  BY DEF Start
<1>3. captured \subseteq Shown /\ cap \in [Captures -> Caps]
  BY DEF Shown, OwnInv, TypeOK, Commits
<1>4. /\ captured \subseteq slot.mem /\ slot.mark.snap <= disk.snap
      /\ Follows(slot.mem, slot.mark, slot.whole)
  BY <1>3 DEF PeerGood, PeerKept
<1>5. x.at \notin {"loadWal", "loadIdent", "lookWal", "lookIno", "tail", "read", "served", "observe", "look"}
      /\ x.at \notin Loads
  BY <1>1 DEF Loads
<1>6. cap[c].at \notin {"loadWal", "loadIdent"}
  BY <1>2
<1>7. PeerKept' /\ \A e \in Captures : CapturePeer(cap[e])'
  BY <1>1, <1>2, <1>3, <1>4, <1>5, <1>6, PeerMoves
<1>8. LooksVouch'
  BY <1>1, <1>2, <1>3, <1>5, LooksStay DEF PeerGood
<1> QED BY <1>7, <1>8 DEF PeerGood

\* A capture serves its slot while a guard is held, or looks for a look.
LEMMA PeerChecks ==
  ASSUME OwnInv, LooksNumbered, PeerGood, NEW c \in Captures, CheckWriting(c)
  PROVE  PeerGood'
<1>1. /\ cap[c].at = "flag"
      /\ UNCHANGED <<disk, xlock, handle, slot, writer, peer, probe, returned>>
  BY DEF CheckWriting
<1>2. cap \in [Captures -> Caps] /\ cap[c] \in Caps /\ CapturePeer(cap[c]) /\ captured \in Commits
      /\ probe \in Probes
  BY DEF OwnInv, TypeOK, PeerGood
<1>3. cap[c] \in FlagCap /\ cap[c].slot \in Slots
  BY <1>1, <1>2, CapIs DEF Holding
<1>4. /\ cap[c].seen \subseteq captured /\ cap[c].peer \subseteq returned.peer
      /\ cap[c].seen \subseteq cap[c].slot.mem /\ cap[c].slot.mark.snap <= disk.snap
      /\ Follows(cap[c].slot.mem, cap[c].slot.mark, cap[c].slot.whole)
  BY <1>1, <1>2 DEF CapturePeer, Holding
<1>5. cap[c].at \notin Reads /\ cap[c].at \in Holding /\ cap[c].at \notin {"loadWal", "loadIdent"}
  BY <1>1 DEF Reads, Loads, Holding
<1>6. CASE writing
  <2>1. PICK s : s = cap[c].slot
    OBVIOUS
  <2>2. Serve(c, s, TRUE)
    BY <1>6, <2>1 DEF CheckWriting
  <2>3. s.mem \in Commits /\ s.whole \in BOOLEAN
    BY <1>3, <2>1 DEF Slots
  <2>4. s.whole => s.mem \subseteq Shown
    BY <1>5, <2>1, <2>3 DEF Shown, Commits
  <2>5. PeerKept' /\ \A e \in Captures : CapturePeer(cap[e])'
    BY <1>1, <1>3, <1>4, <1>5, <2>1, <2>2, <2>3, <2>4, PeerServed
  <2>6. PICK x \in ServedCap : cap' = [cap EXCEPT ![c] = x] /\ x.at = "served"
    BY <1>2, <1>3, <2>2, <2>3, ServedIs
  <2>7. LooksVouch'
    BY <1>1, <1>2, <2>6, LooksStay DEF PeerGood
  <2> QED BY <2>5, <2>7 DEF PeerGood
<1>7. CASE ~writing
  <2>1. PICK x : Goes(c, x) /\ x.at = "observe" /\ x.slot = cap[c].slot /\ x.after = probe.started
    BY <1>7, ObserveIs
  <2>2. UNCHANGED captured
    BY <1>7 DEF CheckWriting
  <2>3. captured \subseteq Shown
    BY <1>2 DEF Shown, Commits
  <2>4. x.at \notin Loads /\ x.at \notin {"loadWal", "loadIdent"}
    BY <2>1 DEF Loads
  <2>5. PeerKept' /\ \A e \in Captures : CapturePeer(cap[e])'
    BY <1>1, <1>4, <1>5, <2>1, <2>2, <2>3, <2>4, PeerMoves DEF Goes
  <2>6. \A e \in Captures : cap'[e] = IF e = c THEN x ELSE cap[e]
    BY <1>2, <2>1 DEF Goes
  <2>7. /\ ~(x.after < probe.finished)
        /\ \A d \in Captures : cap[d].at = "look" => ~(x.after < cap[d].number)
    <3>1. probe.started \in Nat /\ probe.finished \in Nat /\ probe.finished <= probe.started
      BY <1>2 DEF Probes, LooksNumbered
    <3>2. ASSUME NEW d \in Captures, cap[d].at = "look"
          PROVE  cap[d].number \in Nat /\ cap[d].number <= probe.started
      <4>1. cap[d] \in SeekCap
        BY <1>2, <3>2, CapIs DEF Seeks
      <4> QED BY <3>2, <4>1 DEF LooksNumbered, SeekCap
    <3> QED BY <2>1, <3>1, <3>2
  <2>8. LooksVouch'
    BY <1>1, <2>1, <2>6, <2>7 DEF LooksVouch, Vouches, PeerGood
  <2> QED BY <2>5, <2>8 DEF PeerGood
<1> QED BY <1>6, <1>7

\* A capture looks, or shares another's look.
LEMMA PeerLooks ==
  ASSUME OwnInv, LooksNumbered, PeerGood, NEW c \in Captures,
         ShareLook(c) \/ StartLook(c) \/ LookAtSnapshot(c)
  PROVE  PeerGood'
<1>1. /\ cap[c].at \in {"observe", "look"}
      /\ UNCHANGED <<disk, xlock, handle, slot, writer, peer, returned>>
  BY DEF ShareLook, StartLook, LookAtSnapshot
<1>2. cap \in [Captures -> Caps] /\ cap[c] \in Caps /\ CapturePeer(cap[c]) /\ captured \in Commits
      /\ probe \in Probes /\ disk \in Files
  BY DEF OwnInv, TypeOK, PeerGood
<1>3. cap[c].at \in Holding /\ cap[c].at \in Seeks /\ cap[c].at \notin {"idle", "loadWal", "loadIdent"}
  BY <1>1 DEF Holding, Seeks
<1>4. cap[c] \in SeekCap /\ cap[c].slot \in Slots
  BY <1>2, <1>3, CapIs
<1>5. CASE ShareLook(c)
  <2>1. cap[c].at = "observe" /\ probe.finished > cap[c].after /\ Compare(c, probe.seen) /\ UNCHANGED probe
    BY <1>5 DEF ShareLook
  <2>2. cap[c].after < probe.finished
    BY <1>2, <1>4, <2>1 DEF Probes, SeekCap
  <2>3. Vouches(cap[c], probe.seen)
    BY <2>1, <2>2 DEF PeerGood, LooksVouch
  <2>4. /\ PeerKept' /\ \A e \in Captures : CapturePeer(cap[e])'
        /\ \E x : cap' = [cap EXCEPT ![c] = x] /\ x.at \in {"try", "served"}
    BY <1>1, <2>1, <2>3, PeerCompares
  <2>5. LooksVouch'
    BY <1>1, <1>2, <2>1, <2>4, LooksStay DEF PeerGood
  <2> QED BY <2>4, <2>5 DEF PeerGood
<1>6. CASE LookAtSnapshot(c)
  <2>1. PICK seen : seen = [len |-> cap[c].len, snap |-> disk.snap]
    OBVIOUS
  <2>2. /\ Compare(c, seen) /\ probe'.finished = cap[c].number /\ probe'.seen = seen /\ cap[c].at = "look"
    BY <1>6, <2>1, LookEnds
  <2>3. cap[c].after < cap[c].number
    BY <2>2 DEF LooksNumbered
  <2>4. Vouches(cap[c], seen)
    BY <2>1, <2>2, <2>3 DEF PeerGood, LooksVouch
  <2>5. /\ PeerKept' /\ \A e \in Captures : CapturePeer(cap[e])'
        /\ \E x : cap' = [cap EXCEPT ![c] = x] /\ x.at \in {"try", "served"}
    BY <1>1, <2>2, <2>4, PeerCompares
  <2>6. PICK x : cap' = [cap EXCEPT ![c] = x] /\ x.at \in {"try", "served"}
    BY <2>5
  <2>7. \A e \in Captures : cap'[e] = IF e = c THEN x ELSE cap[e]
    BY <1>2, <2>6
  <2>8. LooksVouch'
    BY <1>1, <2>1, <2>2, <2>6, <2>7 DEF LooksVouch, Vouches, PeerGood
  <2> QED BY <2>5, <2>8 DEF PeerGood
<1>7. CASE StartLook(c)
  <2>1. PICK x : /\ Goes(c, x) /\ x.at = "look" /\ x.slot = cap[c].slot /\ x.after = cap[c].after
                 /\ x.number = probe.started + 1 /\ x.len = Len(disk.wal)
                 /\ probe'.finished = probe.finished /\ probe'.seen = probe.seen
    BY <1>7, LookIs
  <2>2. UNCHANGED captured
    BY <1>7 DEF StartLook
  <2>3. captured \subseteq Shown
    BY <1>2 DEF Shown, Commits
  <2>4. x.at \notin Loads /\ x.at \notin {"loadWal", "loadIdent"}
    BY <2>1 DEF Loads
  <2>5. /\ cap[c].seen \subseteq captured /\ cap[c].peer \subseteq returned.peer
        /\ cap[c].seen \subseteq cap[c].slot.mem /\ cap[c].slot.mark.snap <= disk.snap
        /\ Follows(cap[c].slot.mem, cap[c].slot.mark, cap[c].slot.whole)
    BY <1>2, <1>3 DEF CapturePeer
  <2>6. PeerKept' /\ \A e \in Captures : CapturePeer(cap[e])'
    BY <1>1, <1>3, <2>1, <2>2, <2>3, <2>4, <2>5, PeerMoves DEF Goes
  <2>7. \A e \in Captures : cap'[e] = IF e = c THEN x ELSE cap[e]
    BY <1>2, <2>1 DEF Goes
  <2>8. ASSUME NEW e \in Captures, cap[e].at \in {"observe", "look"}
        PROVE  Vouches(cap[e], [len |-> x.len, snap |-> disk.snap])
    <3> SUFFICES ASSUME cap[e].slot.whole, cap[e].slot.mark = [len |-> x.len, snap |-> disk.snap]
                 PROVE  cap[e].peer \subseteq cap[e].slot.mem
      BY DEF Vouches
    <3>1. cap[e].at \in Holding /\ cap[e].at # "idle" /\ CapturePeer(cap[e])
      BY <2>8 DEF Holding, PeerGood
    <3>2. cap[e].slot \in Slots
      BY <1>2, <3>1, CapIs
    <3>3. cap[e].peer \subseteq returned.peer
          /\ Follows(cap[e].slot.mem, cap[e].slot.mark, cap[e].slot.whole)
      BY <3>1 DEF CapturePeer
    <3>4. PICK s : s = cap[e].slot
      OBVIOUS
    <3>5. Follows(s.mem, s.mark, TRUE) /\ s.mark.len = Len(disk.wal) /\ s.mark.snap = disk.snap
      BY <2>1, <3>3, <3>4 DEF Follows
    <3>6. returned.peer \subseteq s.mem
      BY <3>5, CurrentHasAll DEF PeerGood
    <3> QED BY <3>3, <3>4, <3>6
  <2>9. \A e \in Captures : cap'[e].at \in {"observe", "look"} =>
          /\ cap[e].at \in {"observe", "look"} /\ cap'[e].slot = cap[e].slot /\ cap'[e].after = cap[e].after
          /\ cap'[e].peer = cap[e].peer
    BY <1>1, <2>1, <2>7 DEF Goes
  <2>10. LooksVouch'
    <3> SUFFICES ASSUME NEW e \in Captures, cap'[e].at \in {"observe", "look"}
                 PROVE  /\ cap'[e].after < probe'.finished => Vouches(cap'[e], probe'.seen)
                        /\ \A d \in Captures : cap'[d].at = "look" /\ cap'[e].after < cap'[d].number =>
                             Vouches(cap'[e], [len |-> cap'[d].len, snap |-> disk'.snap])
      BY DEF LooksVouch, Vouches
    <3>1. \A seen : Vouches(cap'[e], seen) = Vouches(cap[e], seen)
      BY <2>9 DEF Vouches
    <3>2. cap'[e].after < probe'.finished => Vouches(cap'[e], probe'.seen)
      BY <2>1, <2>9, <3>1 DEF PeerGood, LooksVouch
    <3>3. ASSUME NEW d \in Captures, cap'[d].at = "look", cap'[e].after < cap'[d].number
          PROVE  Vouches(cap'[e], [len |-> cap'[d].len, snap |-> disk'.snap])
      <4>1. CASE d = c
        BY <1>1, <2>7, <2>8, <2>9, <3>1, <4>1
      <4>2. CASE d # c
        BY <1>1, <2>7, <2>9, <3>1, <3>3, <4>2 DEF PeerGood, LooksVouch
      <4> QED BY <4>1, <4>2
    <3> QED BY <3>2, <3>3
  <2> QED BY <2>6, <2>10 DEF PeerGood
<1> QED BY <1>5, <1>6, <1>7

\* With no guard held and the files as the handle last saw them, the handle has all.
LEMMA StillCurrent ==
  ASSUME OwnInv, PeerGood, guard.at = "free", ~Stale, handle.whole
  PROVE  returned.peer \subseteq handle.mem
<1>1. Follows(handle.mem, Mark(handle), TRUE)
  BY GuardFree DEF PeerGood, PeerKept, Follows
<1>2. Mark(handle).len = Len(disk.wal) /\ Mark(handle).snap = disk.snap
  BY DEF Stale, Disk, Mark
<1>3. PICK m, k : m = handle.mem /\ k = Mark(handle)
  OBVIOUS
<1>4. Follows(m, k, TRUE) /\ k.len = Len(disk.wal) /\ k.snap = disk.snap
  BY <1>1, <1>2, <1>3
<1> QED BY <1>3, <1>4, CurrentHasAll DEF PeerGood

\* A capture reads the handle, or finds that it must follow the peer.
LEMMA PeerTries ==
  ASSUME OwnInv, PeerGood, NEW c \in Captures,
         TryRead(c) \/ RefreshIfStale(c) \/ ReadHandle(c) \/ RefreshLock(c)
  PROVE  PeerGood'
<1>1. /\ cap \in [Captures -> Caps] /\ cap[c] \in Caps /\ CapturePeer(cap[c]) /\ captured \in Commits
      /\ UNCHANGED <<disk, xlock, handle, slot, writer, peer, probe, returned>>
  BY DEF OwnInv, TypeOK, PeerGood, TryRead, RefreshIfStale, ReadHandle, RefreshLock
<1>2. cap[c].at \in {"try", "refresh", "lock", "read"}
  BY DEF TryRead, RefreshIfStale, ReadHandle, RefreshLock
<1>3. cap[c].at \in Seeks /\ cap[c].at \notin Reads /\ cap[c].at \notin {"idle", "loadWal", "loadIdent"}
  BY <1>2 DEF Seeks, Reads, Loads
<1>4. cap[c] \in SeekCap /\ cap[c].peer \subseteq returned.peer /\ cap[c].seen \subseteq captured
  BY <1>1, <1>3, CapIs DEF CapturePeer
<1>5. captured \subseteq Shown /\ Shown \subseteq slot.mem /\ Shown \subseteq handle.mem
  BY <1>1 DEF Shown, Commits, PeerGood, PeerKept
<1>6. /\ slot.mem \in Commits /\ slot.whole \in BOOLEAN /\ handle.mem \in Commits /\ handle.whole \in BOOLEAN
  BY DEF OwnInv, TypeOK, Slots, Handles
<1>7. slot.whole => slot.mem \subseteq Shown
  BY <1>6 DEF Shown, Commits
<1>8. guard.at = "free" => slot.mem = handle.mem /\ slot.whole = handle.whole
                           /\ \A e \in Captures : cap[e].at # "loadWal"
  BY GuardFree
<1>9. ASSUME NEW s, NEW met \in BOOLEAN, Serve(c, s, met), s.mem \in Commits, s.whole \in BOOLEAN,
             s.whole => s.mem \subseteq Shown, Shown \subseteq s.mem,
             ~met /\ s.whole => cap[c].peer \subseteq s.mem
      PROVE  PeerGood'
  <2>1. cap[c].seen \subseteq s.mem
    BY <1>4, <1>5, <1>9
  <2>2. PeerKept' /\ \A e \in Captures : CapturePeer(cap[e])'
    BY <1>1, <1>3, <1>4, <1>9, <2>1, PeerServed
  <2>3. PICK x \in ServedCap : cap' = [cap EXCEPT ![c] = x] /\ x.at = "served"
    BY <1>1, <1>4, <1>9, ServedIs
  <2>4. LooksVouch'
    BY <1>1, <2>3, LooksStay DEF PeerGood
  <2> QED BY <2>2, <2>4 DEF PeerGood
<1>10. ASSUME NEW x, Goes(c, x), x.at \in {"refresh", "lock", "refreshing", "read"}, UNCHANGED captured,
              x.at = "read" /\ handle.whole => cap[c].peer \subseteq handle.mem
       PROVE  PeerGood'
  <2>1. PeerKept' /\ \A e \in Captures : CapturePeer(cap[e])'
    BY <1>1, <1>3, <1>10, PeerGoes
  <2>2. cap' = [cap EXCEPT ![c] = x] /\ x.at \notin {"observe", "look"}
    BY <1>10 DEF Goes
  <2>3. LooksVouch'
    BY <1>1, <2>2, LooksStay DEF PeerGood
  <2> QED BY <2>1, <2>3 DEF PeerGood
<1>11. CASE TryRead(c)
  <2>1. CASE guard.at # "free" /\ Serve(c, slot, TRUE)
    BY <1>5, <1>6, <1>7, <1>9, <2>1
  <2>2. CASE guard.at = "free" /\ ~Stale /\ Serve(c, handle, FALSE)
    <3>1. handle.whole => cap[c].peer \subseteq handle.mem /\ handle.mem \subseteq Shown
      BY <1>4, <1>7, <1>8, <2>2, StillCurrent
    <3> QED BY <1>5, <1>6, <1>9, <2>2, <3>1
  <2>3. CASE guard.at = "free" /\ Stale /\ At(c, "refresh") /\ UNCHANGED captured
    <3>1. "refresh" \in Seeks
      BY DEF Seeks
    <3>2. PICK x : Goes(c, x) /\ x.at = "refresh"
      BY <1>4, <2>3, <3>1, MovedIs
    <3> QED BY <1>10, <2>3, <3>2
  <2> QED BY <1>11, <2>1, <2>2, <2>3 DEF TryRead
<1>12. CASE RefreshIfStale(c)
  <2>1. UNCHANGED captured /\ guard.at = "free"
    BY <1>12 DEF RefreshIfStale
  <2>2. CASE Stale /\ At(c, "lock")
    <3>1. "lock" \in Seeks
      BY DEF Seeks
    <3>2. PICK x : Goes(c, x) /\ x.at = "lock"
      BY <1>4, <2>2, <3>1, MovedIs
    <3> QED BY <1>10, <2>1, <3>2
  <2>3. CASE ~Stale /\ Done(c)
    <3>1. PICK x : Goes(c, x) /\ x.at \in {"read", "refresh"}
      BY <1>1, <1>4, <2>3, DoneIs
    <3>2. handle.whole => cap[c].peer \subseteq handle.mem
      BY <1>4, <2>1, <2>3, StillCurrent
    <3> QED BY <1>10, <2>1, <3>1, <3>2
  <2> QED BY <1>12, <2>2, <2>3 DEF RefreshIfStale
<1>13. CASE ReadHandle(c)
  <2>1. cap[c].at = "read" /\ guard.at = "free" /\ Serve(c, handle, FALSE)
    BY <1>13 DEF ReadHandle
  <2>2. handle.whole => cap[c].peer \subseteq handle.mem /\ handle.mem \subseteq Shown
    BY <1>1, <1>7, <1>8, <2>1 DEF CapturePeer
  <2> QED BY <1>5, <1>6, <1>9, <2>1, <2>2
<1>14. CASE RefreshLock(c)
  <2>1. At(c, "refreshing") /\ UNCHANGED captured
    BY <1>14 DEF RefreshLock
  <2>2. "refreshing" \in Seeks
    BY DEF Seeks
  <2>3. PICK x : Goes(c, x) /\ x.at = "refreshing"
    BY <1>4, <2>1, <2>2, MovedIs
  <2> QED BY <1>10, <2>1, <2>3
<1> QED BY <1>11, <1>12, <1>13, <1>14

\* A capture looks at the files, and the handle stays.
LEMMA PeerFollowsLooks ==
  ASSUME OwnInv, Healthy, PeerGood, NEW c \in Captures, NEW x, Goes(c, x), Finds(c, x), handle' = handle,
         cap[c].at \in {"refreshing", "lookWal", "lookIno"},
         UNCHANGED <<disk, xlock, slot, writing, writer, peer, probe, returned, captured, used>>
  PROVE  PeerKept' /\ \A e \in Captures : CapturePeer(cap[e])'
<1>1. CapturePeer(cap[c]) /\ captured \in Commits /\ cap' = [cap EXCEPT ![c] = x] /\ disk \in Files
      /\ handle \in Handles
  BY DEF PeerGood, OwnInv, TypeOK, Goes
<1>2. Len(disk.wal) \in Nat /\ handle.len \in Nat
  BY <1>1, FilesHold DEF Handles
<1>3. /\ x.seen \subseteq captured /\ x.peer \subseteq returned.peer /\ x.peer = cap[c].peer
      /\ cap[c].at \in {"lookWal", "lookIno"} /\ handle.whole => handle.snap = disk.snap
  BY <1>1 DEF CapturePeer, Goes
<1>4. captured \subseteq Shown
  BY <1>1 DEF Shown, Commits
<1>5. /\ cap[c].at \notin {"loadWal", "loadIdent"} /\ x.at \notin {"loadWal", "loadIdent"}
      /\ x.at \notin Holding /\ x.at # "served"
  BY DEF Finds, Holding
<1>6. x.at \in Loads => Shown \subseteq disk.base
  <2>1. x.at \in Loads => handle.snap # disk.snap \/ handle.ino # disk.ino \/ Len(disk.wal) < handle.len
    BY DEF Finds, Loads
  <2>2. Shown \subseteq disk.base \/ InPlace
    BY DEF PeerGood, PeerKept, Kept, Anchored
  <2> QED BY <1>2, <2>1, <2>2 DEF InPlace, SamePlace, Healthy
<1>7. /\ x.at \in {"lookWal", "lookIno", "tail"} /\ handle.whole => handle.snap = disk.snap
      /\ x.at = "tail" => handle.ino = disk.ino
  BY <1>3 DEF Finds
<1>8. x.at = "read" /\ handle.whole => x.peer \subseteq handle.mem
  <2> SUFFICES ASSUME x.at = "read", handle.whole
               PROVE  x.peer \subseteq handle.mem
    OBVIOUS
  <2>1. handle.len = Len(disk.wal) /\ handle.snap = disk.snap
    BY <1>3 DEF Finds
  <2>2. \A e \in Captures : cap[e].at \notin {"loadWal", "loadIdent"}
    <3>1. guard.owner = c
      BY DEF OwnInv, CaptureOwn, Reads, Loads
    <3> QED BY <3>1 DEF OwnInv, CaptureOwn, Reads, Loads
  <2>3. PICK m, k : m = handle.mem /\ k = Mark(handle)
    OBVIOUS
  <2>4. Follows(m, k, TRUE) /\ k.len = Len(disk.wal) /\ k.snap = disk.snap
    BY <2>1, <2>2, <2>3 DEF PeerGood, PeerKept, Follows, Mark
  <2>5. returned.peer \subseteq m
    BY <2>4, CurrentHasAll DEF PeerGood
  <2> QED BY <1>3, <2>3, <2>5
<1> QED BY <1>1, <1>3, <1>4, <1>5, <1>6, <1>7, <1>8, PeerMoves

\* A capture reads the files into the handle.
LEMMA PeerFollowsReads ==
  ASSUME OwnInv, OwnInv', Healthy, PeerGood, NEW c \in Captures, NEW x, Goes(c, x), Finds(c, x),
         cap[c].at \in {"tail", "loadSnap", "loadWal", "loadIdent"},
         UNCHANGED <<disk, xlock, slot, writing, writer, peer, probe, returned, captured, used>>
  PROVE  PeerKept' /\ \A e \in Captures : CapturePeer(cap[e])'
<1> USE DEF PeerGood
<1>1. /\ CapturePeer(cap[c]) /\ captured \in Commits /\ disk \in Files /\ handle \in Handles
      /\ handle' \in Handles /\ cap \in [Captures -> Caps] /\ CaptureOwn(c, cap[c])
  BY DEF OwnInv, TypeOK
<1>2. cap' = [cap EXCEPT ![c] = x] /\ \A e \in Captures : cap'[e] = IF e = c THEN x ELSE cap[e]
  BY <1>1 DEF Goes
<1>3. /\ Len(disk.wal) \in Nat /\ handle.len \in Nat /\ disk.base \subseteq Store
      /\ ToSet(disk.wal) \subseteq Store /\ After(handle.len) \subseteq Store /\ After(Len(disk.wal)) = {}
      /\ disk.snap \in Nat
  <2>1. handle.len \in Nat /\ disk.snap \in Nat
    BY <1>1 DEF Handles, Files
  <2>2. Len(disk.wal) \in Nat /\ disk.base \subseteq Store /\ ToSet(disk.wal) \subseteq Store
    BY <1>1, FilesHold
  <2>3. After(handle.len) \subseteq Store /\ After(Len(disk.wal)) = {}
    BY <1>1, <2>1, <2>2, FilesHold
  <2> QED BY <2>1, <2>2, <2>3
<1>4. \A e \in Captures : e # c => /\ cap[e].at \notin Loads
                                   /\ cap[e].at \notin {"lookWal", "lookIno", "tail", "loadWal", "loadIdent"}
  <2>1. guard = [owner |-> c, at |-> "body"]
    BY <1>1 DEF CaptureOwn, Reads, Loads
  <2> QED BY <2>1 DEF OwnInv, CaptureOwn, Reads, Loads
<1>5. /\ Store' = Store /\ (Snapshotting' <=> Snapshotting) /\ \A n : After(n)' = After(n)
  BY DEF Store, Snapshotting, After
<1>6. \A m, k, w : Follows(m, k, w)' = Follows(m, k, w)
  BY <1>5 DEF Follows
<1>7. /\ x.seen \subseteq captured /\ x.peer \subseteq returned.peer /\ x.peer = cap[c].peer
      /\ returned.peer \subseteq Store
  BY <1>1 DEF CapturePeer, Goes, PeerKept
<1>8. x.at \notin Holding /\ cap[c].at \notin Holding /\ x.at \notin {"lookWal", "lookIno", "tail", "idle", "served"}
  BY DEF Finds, Holding
<1>9. Shown' = Shown
  BY <1>2, <1>8 DEF Shown
<1>10. cap[c].at \in Loads => Shown \subseteq disk.base
  BY <1>1 DEF CapturePeer, Loads
<1>11. InPlace => InPlace' \/ cap[c].at \in Loads
  <2>1. CASE cap[c].at = "tail"
    BY <1>3, <2>1 DEF Finds, InPlace, SamePlace
  <2> QED BY <2>1 DEF Loads
\* what each read leaves in the handle
<1>12. /\ Shown \subseteq handle'.mem
       /\ handle'.whole => handle'.mem \subseteq Store
       /\ handle'.snap <= disk.snap
  <2>1. CASE cap[c].at = "tail"
    BY <1>3, <2>1 DEF Finds, PeerKept
  <2>2. CASE cap[c].at = "loadSnap"
    BY <1>3, <1>10, <2>2 DEF Finds, PeerKept, Loads
  <2>3. CASE cap[c].at = "loadWal"
    <3>1. handle'.mem = handle.mem \cup ToSet(disk.wal) /\ handle'.whole = handle.whole
          /\ handle'.snap = handle.snap
      BY <2>3 DEF Finds
    <3> QED BY <1>3, <3>1 DEF PeerKept
  <2>4. CASE cap[c].at = "loadIdent"
    BY <1>3, <2>4 DEF Finds, PeerKept
  <2> QED BY <2>1, <2>2, <2>3, <2>4
<1>13. Kept(Shown)'
  BY <1>5, <1>9, <1>10, <1>11 DEF PeerKept, Kept, Anchored
<1>14. CASE cap[c].at = "tail"
  <2>1. /\ x.at \in {"read", "refresh"} /\ handle'.mem = handle.mem \cup After(handle.len)
        /\ handle'.len = (IF Len(disk.wal) > handle.len THEN Len(disk.wal) ELSE handle.len)
        /\ handle'.snap = handle.snap /\ handle'.ino = handle.ino /\ handle'.whole = handle.whole
    BY <1>14 DEF Finds
  <2>2. \A e \in Captures : cap[e].at \notin {"loadWal", "loadIdent"}
    BY <1>4, <1>14
  <2>3. handle.whole => /\ handle.snap = disk.snap /\ handle.ino = disk.ino /\ ~Snapshotting
                        /\ handle.len <= Len(disk.wal) /\ Store \subseteq handle'.mem
    BY <1>1, <1>14, <2>1, <2>2 DEF CapturePeer, PeerKept, Follows, Mark
  <2>4. handle'.whole => InPlace' /\ handle'.len = Len(disk.wal)
    BY <1>3, <2>1, <2>3 DEF InPlace, SamePlace
  <2>5. Follows(handle.mem, Mark(handle), handle.whole)'
    BY <1>3, <1>5, <2>1, <2>3, <2>4 DEF Follows, Mark
  <2>6. PeerKept'
    BY <1>5, <1>6, <1>9, <1>12, <1>13, <2>4, <2>5 DEF PeerKept, Anchored
  <2>7. \A e \in Captures : CapturePeer(cap[e])'
    <3> SUFFICES ASSUME NEW e \in Captures
                 PROVE  CapturePeer(cap[e])'
      OBVIOUS
    <3>1. CASE e = c
      <4>1. cap'[e] = x /\ (handle'.whole => x.peer \subseteq handle'.mem)
        BY <1>2, <1>7, <2>1, <2>3, <3>1
      <4>2. x.at \notin Loads
        BY <2>1 DEF Loads
      <4> QED BY <1>7, <1>8, <2>1, <4>1, <4>2 DEF CapturePeer
    <3>2. CASE e # c
      <4>1. cap'[e] = cap[e] /\ CapturePeer(cap[e])
        BY <1>2, <3>2
      <4>2. cap[e].at = "read" /\ handle'.whole => cap[e].peer \subseteq handle'.mem
        BY <2>1, <2>2, <4>1 DEF CapturePeer
      <4> QED BY <1>4, <1>6, <3>2, <4>1, <4>2 DEF CapturePeer
    <3> QED BY <3>1, <3>2
  <2> QED BY <2>6, <2>7
<1>15. CASE cap[c].at = "loadSnap"
  <2>1. x.at = "loadWal" /\ handle'.mem = disk.base /\ handle'.whole = ~Snapshotting
    BY <1>15 DEF Finds
  <2>2. cap'[c].at = "loadWal" /\ Shown \subseteq disk.base
    BY <1>2, <1>10, <1>15, <2>1 DEF Loads
  <2>3. PeerKept'
    BY <1>5, <1>6, <1>9, <1>12, <1>13, <2>2 DEF PeerKept
  <2>4. \A e \in Captures : CapturePeer(cap[e])'
    <3> SUFFICES ASSUME NEW e \in Captures
                 PROVE  CapturePeer(cap[e])'
      OBVIOUS
    <3>1. CASE e = c
      <4>1. cap'[e] = x
        BY <1>2, <3>1
      <4> QED BY <1>5, <1>7, <1>8, <1>9, <2>1, <2>2, <4>1 DEF CapturePeer
    <3>2. CASE e # c
      <4>1. cap'[e] = cap[e] /\ CapturePeer(cap[e])
        BY <1>2, <3>2
      <4> QED BY <1>4, <1>6, <2>2, <3>2, <4>1 DEF CapturePeer
    <3> QED BY <3>1, <3>2
  <2> QED BY <2>3, <2>4
<1>16. CASE cap[c].at = "loadWal"
  <2>1. /\ x.at = "loadIdent" /\ handle'.mem = handle.mem \cup ToSet(disk.wal) /\ handle'.whole = handle.whole
        /\ handle'.len = Len(disk.wal) /\ handle'.ino = disk.ino
    BY <1>16 DEF Finds
  <2>2. cap'[c].at = "loadIdent" /\ Shown \subseteq disk.base
    BY <1>2, <1>10, <1>16, <2>1 DEF Loads
  <2>3. handle.whole => ~Snapshotting /\ Store \subseteq handle'.mem
    BY <1>1, <1>16, <2>1 DEF CapturePeer, Store
  <2>4. PeerKept'
    BY <1>5, <1>6, <1>9, <1>12, <1>13, <2>2 DEF PeerKept
  <2>5. \A e \in Captures : CapturePeer(cap[e])'
    <3> SUFFICES ASSUME NEW e \in Captures
                 PROVE  CapturePeer(cap[e])'
      OBVIOUS
    <3>1. CASE e = c
      <4>1. cap'[e] = x /\ (handle'.whole => x.peer \subseteq handle'.mem)
        BY <1>2, <1>7, <2>1, <2>3, <3>1
      <4>2. handle'.len <= Len(disk'.wal) /\ (handle'.whole => ~Snapshotting')
        BY <1>3, <1>5, <2>1, <2>3
      <4>3. handle'.whole => Store' \subseteq handle'.mem \cup After(handle.len)'
        BY <1>5, <2>1, <2>3
      <4> QED BY <1>7, <1>8, <1>9, <2>1, <2>2, <4>1, <4>2, <4>3 DEF CapturePeer
    <3>2. CASE e # c
      <4>1. cap'[e] = cap[e] /\ CapturePeer(cap[e])
        BY <1>2, <3>2
      <4>2. cap[e].at = "read" /\ handle'.whole => cap[e].peer \subseteq handle'.mem
        BY <1>7, <2>1, <2>3, <4>1 DEF CapturePeer
      <4> QED BY <1>4, <1>6, <3>2, <4>1, <4>2 DEF CapturePeer
    <3> QED BY <3>1, <3>2
  <2> QED BY <2>4, <2>5
<1>17. CASE cap[c].at = "loadIdent"
  <2>1. /\ x.at \in {"read", "refresh"} /\ handle'.mem = handle.mem /\ handle'.whole = handle.whole
        /\ handle'.len = handle.len /\ handle'.snap = disk.snap /\ handle'.ino = handle.ino
    BY <1>17 DEF Finds
  <2>2. \A e \in Captures : cap[e].at # "loadWal"
    BY <1>4, <1>17
  <2>3. handle.whole => /\ ~Snapshotting /\ handle.ino = disk.ino /\ handle.len <= Len(disk.wal)
                        /\ Store \subseteq handle.mem \cup After(handle.len) /\ x.peer \subseteq handle.mem
    BY <1>1, <1>7, <1>17, <2>2 DEF CapturePeer
  <2>4. handle'.whole => InPlace'
    BY <2>1, <2>3 DEF InPlace, SamePlace
  <2>5. Follows(handle.mem, Mark(handle), handle.whole)'
    <3>1. handle'.whole => Store' \subseteq handle'.mem \cup After(handle.len)'
      BY <1>5, <2>1, <2>3
    <3>2. After(Mark(handle).len)' = After(handle.len)'
      BY DEF Mark
    <3> QED BY <1>5, <2>1, <2>3, <3>1, <3>2 DEF Follows, Mark
  <2>6. PeerKept'
    BY <1>5, <1>6, <1>9, <1>12, <1>13, <2>4, <2>5 DEF PeerKept, Anchored
  <2>7. \A e \in Captures : CapturePeer(cap[e])'
    <3> SUFFICES ASSUME NEW e \in Captures
                 PROVE  CapturePeer(cap[e])'
      OBVIOUS
    <3>1. CASE e = c
      <4>1. cap'[e] = x /\ (handle'.whole => x.peer \subseteq handle'.mem)
        BY <1>2, <2>1, <2>3, <3>1
      <4>2. x.at \notin Loads
        BY <2>1 DEF Loads
      <4> QED BY <1>7, <1>8, <2>1, <4>1, <4>2 DEF CapturePeer
    <3>2. CASE e # c
      <4>1. cap'[e] = cap[e] /\ CapturePeer(cap[e])
        BY <1>2, <3>2
      <4>2. cap[e].at = "read" /\ handle'.whole => cap[e].peer \subseteq handle'.mem
        BY <2>1, <2>2, <4>1 DEF CapturePeer
      <4> QED BY <1>4, <1>6, <3>2, <4>1, <4>2 DEF CapturePeer
    <3> QED BY <3>1, <3>2
  <2> QED BY <2>6, <2>7
<1> QED BY <1>14, <1>15, <1>16, <1>17

\* A capture follows the peer.
LEMMA PeerFollows ==
  ASSUME OwnInv, OwnInv', Healthy, PeerGood, NEW c \in Captures, Follower(c)
  PROVE  PeerGood'
<1>1. PICK x : /\ Goes(c, x) /\ Finds(c, x)
               /\ UNCHANGED <<disk, xlock, slot, writing, writer, peer, probe, returned, captured, used>>
  BY FollowerIs
<1>2. \/ cap[c].at \in {"refreshing", "lookWal", "lookIno"} /\ handle' = handle
      \/ cap[c].at \in {"tail", "loadSnap", "loadWal", "loadIdent"}
  BY <1>1 DEF Finds
<1>3. PeerKept' /\ \A e \in Captures : CapturePeer(cap[e])'
  BY <1>1, <1>2, PeerFollowsLooks, PeerFollowsReads
<1>4. cap \in [Captures -> Caps] /\ cap' = [cap EXCEPT ![c] = x] /\ x.at \notin {"observe", "look"}
  BY <1>1 DEF Goes, Finds, OwnInv, TypeOK
<1>5. LooksVouch'
  BY <1>1, <1>4, LooksStay DEF PeerGood
<1> QED BY <1>3, <1>5 DEF PeerGood

\* A capture that compared is served or goes on.
LEMMA ComparedIs ==
  ASSUME NEW c \in Captures, cap \in [Captures -> Caps], NEW seen, Compare(c, seen)
  PROVE  \E x : cap' = [cap EXCEPT ![c] = x] /\ x.at \in {"served", "try"}
<1>1. CASE Serve(c, cap[c].slot, FALSE)
  <2>1. PICK x : x = [at |-> "served", got |-> cap[c].slot.mem, whole |-> cap[c].slot.whole, met |-> FALSE,
                      us |-> cap[c].us, peer |-> cap[c].peer, seen |-> cap[c].seen]
    OBVIOUS
  <2>2. cap' = [cap EXCEPT ![c] = x] /\ x.at = "served"
    BY <1>1, <2>1 DEF Serve
  <2> QED BY <2>2
<1>2. CASE At(c, "try")
  <2>1. PICK x : x = [cap[c] EXCEPT !.at = "try"]
    OBVIOUS
  <2>2. cap' = [cap EXCEPT ![c] = x]
    BY <1>2, <2>1 DEF At
  <2>3. x.at = "try"
    <3>1. "at" \in DOMAIN cap[c]
      BY DEF Caps, IdleCap, FlagCap, SeekCap, ServedCap
    <3> QED BY <2>1, <3>1
  <2> QED BY <2>2, <2>3
<1> QED BY <1>1, <1>2 DEF Compare

\* The steps that look keep looks in their order.
LEMMA LooksStep ==
  ASSUME OwnInv, LooksNumbered, NEW c \in Captures, Start(c) \/ Capture(c)
  PROVE  LooksNumbered'
<1>1. cap \in [Captures -> Caps] /\ cap[c] \in Caps /\ probe \in Probes /\ captured \in Commits
  BY DEF OwnInv, TypeOK
<1>2. probe.started \in Nat /\ probe.finished \in Nat
  BY <1>1 DEF Probes
<1>3. \A e \in Captures : cap[e].at \in {"observe", "look"} => cap[e].after \in Nat /\ cap[e].number \in Nat
  <2>1. \A e \in Captures : cap[e].at \in {"observe", "look"} => cap[e] \in SeekCap
    BY <1>1, CapIs DEF Seeks
  <2> QED BY <2>1 DEF SeekCap
<1>4. CASE Start(c)
  <2>1. PICK x \in FlagCap : cap' = [cap EXCEPT ![c] = x] /\ x.at = "flag"
    BY <1>4, StartIs
  <2>2. UNCHANGED probe
    BY <1>4 DEF Start
  <2> QED BY <1>1, <2>1, <2>2, LooksStay
<1>5. CASE CheckWriting(c)
  <2>1. cap[c].at = "flag" /\ UNCHANGED probe
    BY <1>5 DEF CheckWriting
  <2>2. CASE writing
    <3>1. PICK x : x = [at |-> "served", got |-> cap[c].slot.mem, whole |-> cap[c].slot.whole, met |-> TRUE,
                        us |-> cap[c].us, peer |-> cap[c].peer, seen |-> cap[c].seen]
      OBVIOUS
    <3>2. cap' = [cap EXCEPT ![c] = x] /\ x.at = "served"
      BY <1>5, <2>2, <3>1 DEF CheckWriting, Serve
    <3> QED BY <1>1, <2>1, <3>2, LooksStay
  <2>3. CASE ~writing
    <3>1. PICK x : Goes(c, x) /\ x.at = "observe" /\ x.after = probe.started
      BY <1>5, <2>3, ObserveIs
    <3>2. \A e \in Captures : cap'[e] = IF e = c THEN x ELSE cap[e]
      BY <1>1, <3>1 DEF Goes
    <3> QED BY <1>2, <2>1, <3>1, <3>2 DEF LooksNumbered
  <2> QED BY <2>2, <2>3
<1>6. CASE StartLook(c)
  <2>1. PICK x : /\ Goes(c, x) /\ x.at = "look" /\ x.after = cap[c].after
                 /\ x.number = probe.started + 1 /\ probe'.started = probe.started + 1
                 /\ probe'.finished = probe.finished
    BY <1>6, LookIs
  <2>2. \A e \in Captures : cap'[e] = IF e = c THEN x ELSE cap[e]
    BY <1>1, <2>1 DEF Goes
  <2>3. cap[c].at = "observe"
    BY <1>6 DEF StartLook
  <2>4. ASSUME NEW e \in Captures, cap'[e].at \in {"observe", "look"}
        PROVE  /\ cap'[e].after <= probe'.started
               /\ cap'[e].at = "look" => cap'[e].after < cap'[e].number /\ cap'[e].number <= probe'.started
    <3>1. CASE e = c
      BY <1>2, <1>3, <2>1, <2>2, <2>3, <3>1 DEF LooksNumbered
    <3>2. CASE e # c
      BY <1>2, <1>3, <2>1, <2>2, <2>4, <3>2 DEF LooksNumbered
    <3> QED BY <3>1, <3>2
  <2>5. probe'.finished <= probe'.started
    BY <1>2, <2>1 DEF LooksNumbered
  <2> QED BY <2>4, <2>5 DEF LooksNumbered
<1>7. CASE \E seen : Compare(c, seen) /\ UNCHANGED probe
  <2>1. PICK x : cap' = [cap EXCEPT ![c] = x] /\ x.at \in {"served", "try"}
    BY <1>1, <1>7, ComparedIs
  <2> QED BY <1>1, <1>7, <2>1, LooksStay
<1>8. CASE LookAtSnapshot(c)
  <2>1. PICK seen : seen = [len |-> cap[c].len, snap |-> disk.snap]
    OBVIOUS
  <2>2. /\ Compare(c, seen) /\ probe'.started = probe.started
        /\ probe'.finished = cap[c].number /\ cap[c].at = "look"
    BY <1>8, <2>1, LookEnds
  <2>3. PICK x : cap' = [cap EXCEPT ![c] = x] /\ x.at \in {"served", "try"}
    BY <1>1, <2>2, ComparedIs
  <2>4. \A e \in Captures : cap'[e] = IF e = c THEN x ELSE cap[e]
    BY <1>1, <2>3
  <2> QED BY <1>2, <1>3, <2>2, <2>3, <2>4 DEF LooksNumbered
<1>9. CASE TryRead(c) \/ RefreshIfStale(c) \/ RefreshLock(c) \/ ReadHandle(c)
  <2>1. UNCHANGED probe
    BY <1>9 DEF TryRead, RefreshIfStale, RefreshLock, ReadHandle
  <2>2. PICK x : cap' = [cap EXCEPT ![c] = x] /\ x.at \notin {"observe", "look"}
    <3>1. cap[c].at \in {"try", "refresh", "lock", "read"}
      BY <1>9 DEF TryRead, RefreshIfStale, RefreshLock, ReadHandle
    <3>2. cap[c] \in SeekCap
      BY <1>1, <3>1, CapIs DEF Seeks
    <3>3. CASE \E s, met : Serve(c, s, met)
      <4>1. PICK s, met : Serve(c, s, met)
        BY <3>3
      <4>2. PICK x : x = [at |-> "served", got |-> s.mem, whole |-> s.whole, met |-> met,
                          us |-> cap[c].us, peer |-> cap[c].peer, seen |-> cap[c].seen]
        OBVIOUS
      <4>3. cap' = [cap EXCEPT ![c] = x] /\ x.at = "served"
        BY <4>1, <4>2 DEF Serve
      <4> QED BY <4>3
    <3>4. CASE \E at \in {"refresh", "lock", "refreshing"} : At(c, at)
      <4>1. PICK at \in {"refresh", "lock", "refreshing"} : At(c, at)
        BY <3>4
      <4>2. at \in Seeks
        BY DEF Seeks
      <4> QED BY <3>2, <4>1, <4>2, MovedIs DEF Goes
    <3>5. CASE Done(c)
      BY <1>1, <3>2, <3>5, DoneIs DEF Goes
    <3> QED BY <1>9, <3>3, <3>4, <3>5 DEF TryRead, RefreshIfStale, RefreshLock, ReadHandle
  <2> QED BY <1>1, <2>1, <2>2, LooksStay
<1>10. CASE Follower(c)
  <2>1. PICK x : Goes(c, x) /\ Finds(c, x) /\ UNCHANGED probe
    BY <1>10, FollowerIs
  <2>2. cap' = [cap EXCEPT ![c] = x] /\ x.at \notin {"observe", "look"}
    BY <2>1 DEF Goes, Finds
  <2> QED BY <1>1, <2>1, <2>2, LooksStay
<1>11. ShareLook(c) => \E seen : Compare(c, seen) /\ UNCHANGED probe
  BY DEF ShareLook
<1> QED BY <1>4, <1>5, <1>6, <1>7, <1>8, <1>9, <1>10, <1>11 DEF Capture, Follower

\* A failed group is never forgotten.
LEMMA HealthyBefore ==
  ASSUME OwnInv, [Next]_vars, Healthy'
  PROVE  Healthy
<1>1. writer \in [at : {"idle", "enter", "scoped", "apply", "sync", "synced", "failed", "degraded", "written"},
                  no : Nat, pre : Nat, direct : BOOLEAN]
  BY DEF OwnInv, TypeOK
<1>2. CASE Writes
  BY <1>1, <1>2 DEF Writes, WriteLock, WriteGuard, EnterScope, Apply, Fsync, EndScope, WriteReturns, Writer,
                    Healthy
<1>3. CASE UNCHANGED writer
  BY <1>3 DEF Healthy
<1>4. Guards \/ PeerCommits \/ PeerReturns \/ PeerSnapshots \/ PeerReplacesWal \/ UNCHANGED vars => UNCHANGED writer
  BY DEF Guards, SetWriting, Publish, ClearWriting, Unlock, PeerCommits, PeerReturns, PeerSnapshots,
         PeerReplacesWal, vars
<1>5. ASSUME NEW c \in Captures, Start(c) \/ Capture(c)
      PROVE  UNCHANGED writer
  BY <1>5 DEF Start, Capture, CheckWriting, ShareLook, StartLook, LookAtSnapshot, TryRead, RefreshIfStale,
              RefreshLock, ReadHandle, RefreshLook, RefreshLookAtWal, RefreshLookAtInode, RefreshTail,
              ReloadSnapshot, ReloadWal, ReloadIdent, Follow
<1> QED BY <1>2, <1>3, <1>4, <1>5 DEF Next

LEMMA PeerStep ==
  ASSUME ReadersAssumption, OwnInv, OwnInv', PeerInv, [Next]_vars
  PROVE  PeerInv'
<1>1. LooksNumbered'
  <2>1. CASE \E c \in Captures : Start(c) \/ Capture(c)
    BY <2>1, LooksStep DEF PeerInv
  <2>2. CASE UNCHANGED <<probe, cap>>
    BY <2>2 DEF PeerInv, LooksNumbered
  <2>3. Guards \/ Writes \/ PeerCommits \/ PeerReturns \/ PeerSnapshots \/ PeerReplacesWal \/ UNCHANGED vars =>
          UNCHANGED <<probe, cap>>
    BY DEF Guards, SetWriting, Publish, ClearWriting, Unlock, Writes, WriteLock, WriteGuard, EnterScope, Apply,
           Fsync, EndScope, WriteReturns, PeerCommits, PeerReturns, PeerSnapshots, PeerReplacesWal, vars
  <2> QED BY <2>1, <2>2, <2>3 DEF Next
<1>2. ASSUME Healthy'
      PROVE  PeerGood'
  <2>1. Healthy /\ PeerGood /\ LooksNumbered
    BY <1>2, HealthyBefore DEF PeerInv
  <2>2. CASE Guards
    BY <1>2, <2>1, <2>2, PeerPublishes, PeerStays DEF Guards
  <2>3. CASE Writes
    BY <1>2, <2>1, <2>3, PeerStays, PeerEnters, PeerApplies DEF Writes
  <2>4. CASE PeerCommits \/ PeerReturns \/ PeerSnapshots \/ PeerReplacesWal
    BY <1>2, <2>1, <2>4, PeerAppends, PeerStays, PeerSnapshotted
  <2>5. CASE \E c \in Captures : Start(c) \/ Capture(c)
    <3>1. PICK c \in Captures : Start(c) \/ Capture(c)
      BY <2>5
    <3> QED BY <2>1, <3>1, PeerStarts, PeerChecks, PeerLooks, PeerTries, PeerFollows DEF Capture, Follower
  <2>6. CASE UNCHANGED vars
    BY <1>2, <2>1, <2>6, PeerStays
  <2> QED BY <2>2, <2>3, <2>4, <2>5, <2>6 DEF Next
<1> QED BY <1>1, <1>2 DEF PeerInv

LEMMA PeerAlways == Spec => []PeerInv
<1>1. Init => PeerInv
  BY PeerInit
<1>2. OwnInv /\ OwnInv' /\ PeerInv /\ [Next]_vars => PeerInv'
  BY PeerStep, ReadersAssumption
<1> QED BY <1>1, <1>2, OwnAlways, PTL DEF Spec

\* Two captures one after the other never go back in time while the first was of a whole state
\* and no group's fsync has failed, whoever published, reloaded or looked in between.
THEOREM CapturesGoForward == Spec => []CapturesAdvance
<1>1. PeerInv => CapturesAdvance
  BY DEF PeerInv, PeerGood, CapturePeer, CapturesAdvance, Served
<1> QED BY <1>1, PeerAlways, PTL

\* A capture that met no write guard has what the peer had acknowledged when it began, through
\* shared looks and refreshes made of separate reads, unless a step of a peer's snapshot fell
\* inside the refresh that read its state.
THEOREM PeersAreFollowed == Spec => []PeersFollowed
<1>1. PeerInv => PeersFollowed
  BY DEF PeerInv, PeerGood, CapturePeer, PeersFollowed, Served
<1> QED BY <1>1, PeerAlways, PTL

=============================================================================
