---------------------------- MODULE Transactions ----------------------------
(***************************************************************************)
(* Interactive transactions: BEGIN on a snapshot, statements that buffer   *)
(* their writes, COMMIT by compare-and-set over every key touched.         *)
(*                                                                         *)
(* The transactions run in one process, the server; a peer process writes  *)
(* the same store.  Each has a handle that numbers the commits it sees     *)
(* (commit_seq) and the nodes by the commit that last touched them         *)
(* (last_change).  The numbers are a handle's own: a tail refresh counts   *)
(* every frame, a live commit does not count the marker frame it appends,  *)
(* and a reload starts over from the largest number the snapshot holds.    *)
(*                                                                         *)
(* The content of a node is the number, in the store's whole history, of   *)
(* the frame that last wrote it; an absent node's is Absent.  A frame is   *)
(* the nodes it touches (inserts, property and edge writes: an edge write  *)
(* touches both ends) and those it deletes, and may have neither, as a     *)
(* declaration or a marker has.  Appends and snapshots are atomic here:    *)
(* the process lock is module Processes'.                                  *)
(***************************************************************************)
EXTENDS Integers, Sequences, FiniteSetsExt

CONSTANTS
  Keys,        \* node keys
  Txs,         \* transactions, each begun at most once
  Legacy,      \* nodes of a snapshot older than the last_change section
  Snapshotters,\* the processes that take snapshots
  MaxCommits, MaxSnaps

Server == "server"
Peer == "peer"
Handles == {Server, Peer}

ASSUME TransactionsAssumption ==
  /\ Legacy \subseteq Keys /\ Snapshotters \subseteq Handles
  /\ MaxCommits \in Nat /\ MaxSnaps \in Nat

VARIABLES
  disk,     \* the snapshot and the frames of the WAL after it
  handle,   \* what each process has loaded
  tx,       \* the transactions
  commits,  \* how many commits there were
  moved,    \* per key, the last of them that changed it
  snaps     \* snapshots taken

vars == <<disk, handle, tx, commits, moved, snaps>>

Absent == 0
Unmarked == 0                    \* no last_change entry
TX_CHANGED_SINCE_BEGIN == -1     \* u64::MAX: no last_change is ever equal to it

NoTx == [phase |-> "none", base |-> [k \in Keys |-> Absent], base_version |-> 0, base_store |-> 0,
         at |-> 0, keys |-> <<>>, touch |-> {}, del |-> {}]

-----------------------------------------------------------------------------
(* A handle and the numbers it gives. *)

\* last_changed, a missing node or entry read as 0
LastChanged(h, k) == IF h.content[k] = Absent THEN Unmarked ELSE h.last_change[k]

\* one frame, as replay, a tail refresh and a live commit apply it
ApplyFrame(h, f) ==
  LET seq == h.commit_seq + 1
  IN [h EXCEPT
       !.commit_seq = seq,
       !.at = f.id,
       !.content = [k \in Keys |-> IF k \in f.touch THEN f.id
                                   ELSE IF k \in f.del THEN Absent ELSE @[k]],
       !.last_change = [k \in Keys |-> IF k \in f.touch THEN seq ELSE @[k]],
       !.top = IF f.touch # {} THEN seq ELSE @]

\* the frames that wrote or deleted a node, that touched it, that touched any
Wrote(fs, k) == {j \in 1..Len(fs) : k \in fs[j].touch \cup fs[j].del}
Touched(fs, k) == {j \in 1..Len(fs) : k \in fs[j].touch}
Touching(fs) == {j \in 1..Len(fs) : fs[j].touch # {}}
Content(f, k) == IF k \in f.touch THEN f.id ELSE Absent

\* The frames of a WAL one after the other (ReplayIsFrameByFrame of MCTransactions): the
\* last frame that wrote a node has its content, the last that touched it its number.
ApplyFrames(h, fs) ==
  [h EXCEPT
    !.commit_seq = @ + Len(fs),
    !.at = IF fs = <<>> THEN @ ELSE fs[Len(fs)].id,
    !.content = [k \in Keys |-> IF Wrote(fs, k) = {} THEN @[k]
                                ELSE Content(fs[Max(Wrote(fs, k))], k)],
    !.last_change = [k \in Keys |-> IF Touched(fs, k) = {} THEN @[k]
                                    ELSE h.commit_seq + Max(Touched(fs, k))],
    !.top = IF Touching(fs) = {} THEN @ ELSE h.commit_seq + Max(Touching(fs))]

\* load_from_disk after reset_for_reload: a new store id, and numbers that start from
\* the largest the snapshot holds, those of deleted nodes included
Load(h) ==
  ApplyFrames([content |-> disk.content, last_change |-> disk.last_change, top |-> disk.top,
               commit_seq |-> disk.top, store_id |-> h.store_id + 1, at |-> disk.at,
               snap |-> disk.snap, consumed |-> Len(disk.wal)],
              disk.wal)

\* refresh_checking: reload when the snapshot is another one, else the WAL's tail
Refreshed(h) ==
  IF h.snap # disk.snap THEN Load(h)
  ELSE [ApplyFrames(h, SubSeq(disk.wal, h.consumed + 1, Len(disk.wal)))
          EXCEPT !.consumed = Len(disk.wal)]

\* the store as a reader of the whole disk finds it
Stored == Load(handle[Server]).content

Init ==
  /\ LET born == [k \in Keys |-> IF k \in Legacy THEN 1 ELSE Absent]
         first == IF Legacy = {} THEN 0 ELSE 1
     IN /\ disk = [snap |-> 0, content |-> born, last_change |-> [k \in Keys |-> Unmarked],
                   top |-> 0, at |-> first, wal |-> <<>>]
        /\ handle = [p \in Handles |->
             [content |-> born, last_change |-> [k \in Keys |-> Unmarked], top |-> 0,
              commit_seq |-> 0, store_id |-> 0, at |-> first, snap |-> 0, consumed |-> 0]]
        /\ commits = first
  /\ tx = [t \in Txs |-> NoTx]
  /\ moved = [k \in Keys |-> 0]
  /\ snaps = 0

-----------------------------------------------------------------------------
(* What the processes do besides transactions. *)

\* refresh_if_stale, ahead of a read at the server.  (The peer's reads change nothing: its
\* numbers are the same whenever it refreshes, and it does before each write.)
Refresh ==
  /\ Refreshed(handle[Server]) # handle[Server]
  /\ handle' = [handle EXCEPT ![Server] = Refreshed(@)]
  /\ UNCHANGED <<disk, tx, commits, moved, snaps>>

\* Append the frame to the WAL over the refreshed handle `h`, and a marker frame after it
\* when its rules derived an edge: the marker is written, consumed and not counted.
LogThenApply(p, h, touch, del, marker) ==
  LET f == [id |-> commits + 1, touch |-> touch, del |-> del]
      m == [id |-> commits + 1, touch |-> {}, del |-> {}]
      wal == disk.wal \o (IF marker THEN <<f, m>> ELSE <<f>>)
  IN /\ commits < MaxCommits
     /\ commits' = commits + 1
     /\ disk' = [disk EXCEPT !.wal = wal]
     /\ handle' = [handle EXCEPT ![p] = [ApplyFrame(h, f) EXCEPT !.consumed = Len(wal)]]
     /\ moved' = [k \in Keys |-> IF k \in touch \cup del THEN commits + 1 ELSE moved[k]]

\* an auto-commit write: one node or the two ends of an edge, a deletion, a declaration
Write(p) ==
  LET h == Refreshed(handle[p])
      live == {k \in Keys : h.content[k] # Absent}
  IN /\ \E marker \in BOOLEAN :
          \/ \E k \in Keys : LogThenApply(p, h, {k}, {}, marker)
          \/ \E k, l \in live : k # l /\ LogThenApply(p, h, {k, l}, {}, marker)
          \/ \E k \in live : LogThenApply(p, h, {}, {k}, marker)
          \/ LogThenApply(p, h, {}, {}, FALSE)
     /\ UNCHANGED <<tx, snaps>>

\* snapshot(): the handle's numbers are saved as they are, the WAL starts empty
Snapshot(p) ==
  LET h == Refreshed(handle[p])
  IN /\ p \in Snapshotters /\ snaps < MaxSnaps
     /\ disk' = [snap |-> disk.snap + 1, content |-> h.content, last_change |-> h.last_change,
                 top |-> h.top, at |-> h.at, wal |-> <<>>]
     /\ handle' = [handle EXCEPT ![p] = [h EXCEPT !.snap = disk.snap + 1, !.consumed = 0]]
     /\ snaps' = snaps + 1
     /\ UNCHANGED <<tx, commits, moved>>

-----------------------------------------------------------------------------
(* Transactions, at the server. *)

\* Mutant of TxBaseLastChange: the live handle's number is taken as BEGIN's.
TxBaseLastChangeLive(t, k) == LastChanged(handle[Server], k)

\* Mutant of TxBaseLastChange: a commit numbered as the base version counts as later.
TxBaseLastChangeOffByOne(t, k) ==
  LET h == handle[Server]
      in_base == tx[t].base[k] # Absent
      live == h.content[k] # Absent
  IN IF h.store_id # tx[t].base_store THEN TX_CHANGED_SINCE_BEGIN
     ELSE IF ~live /\ ~in_base THEN Unmarked
     ELSE IF live # in_base THEN TX_CHANGED_SINCE_BEGIN
     ELSE IF h.last_change[k] >= tx[t].base_version THEN TX_CHANGED_SINCE_BEGIN
     ELSE h.last_change[k]

\* tx_base_last_change: what the key had at BEGIN, from the live handle
TxBaseLastChange(t, k) ==
  LET h == handle[Server]
      in_base == tx[t].base[k] # Absent
      live == h.content[k] # Absent
  IN IF h.store_id # tx[t].base_store THEN TX_CHANGED_SINCE_BEGIN
     ELSE IF ~live /\ ~in_base THEN Unmarked
     ELSE IF live # in_base THEN TX_CHANGED_SINCE_BEGIN
     ELSE IF h.last_change[k] > tx[t].base_version THEN TX_CHANGED_SINCE_BEGIN
     ELSE h.last_change[k]

Begin(t) ==
  LET h == handle[Server]
  IN /\ tx[t].phase = "none"
     /\ tx' = [tx EXCEPT ![t] = [NoTx EXCEPT !.phase = "open", !.base = h.content, !.at = h.at,
                                             !.base_version = h.commit_seq,
                                             !.base_store = h.store_id]]
     /\ UNCHANGED <<disk, handle, commits, moved, snaps>>

\* what the transaction's own statements see: the base under its buffer
View(t) == {k \in Keys : \/ k \in tx[t].touch
                         \/ tx[t].base[k] # Absent /\ k \notin tx[t].del}

\* record_keys: a key's expected number is fixed when the transaction first touches it
Recorded(t, ks) ==
  [k \in DOMAIN tx[t].keys \cup ks |->
     IF k \in DOMAIN tx[t].keys THEN tx[t].keys[k] ELSE TxBaseLastChange(t, k)]

\* execute: a statement that succeeds reads some keys, writes some and deletes some; it
\* records them all.  One that fails changes nothing.
Execute(t) ==
  /\ tx[t].phase = "open"
  /\ \/ \E k \in Keys :               \* a read
          tx' = [tx EXCEPT ![t].keys = Recorded(t, {k})]
     \/ \E k \in Keys :               \* CREATE, MERGE or SET
          tx' = [tx EXCEPT ![t].keys = Recorded(t, {k}),
                           ![t].touch = @ \cup {k}, ![t].del = @ \ {k}]
     \/ \E k, l \in View(t) :         \* a relationship
          /\ k # l
          /\ tx' = [tx EXCEPT ![t].keys = Recorded(t, {k, l}), ![t].touch = @ \cup {k, l}]
     \/ \E k \in View(t) :            \* DELETE
          tx' = [tx EXCEPT ![t].keys = Recorded(t, {k}), ![t].touch = @ \ {k},
                           ![t].del = IF tx[t].base[k] # Absent THEN @ \cup {k} ELSE @]
  /\ UNCHANGED <<disk, handle, commits, moved, snaps>>

\* check_preconditions: NodeUnchangedSince for every recorded key
CheckPreconditions(h, t) ==
  \A k \in DOMAIN tx[t].keys : LastChanged(h, k) = tx[t].keys[k]

\* the batch is refused whole when an operation is: an insert of a live node (one the base
\* did not have), a write to or a deletion of a missing one
Applies(h, t) ==
  \A k \in tx[t].touch \cup tx[t].del : (h.content[k] = Absent) = (tx[t].base[k] = Absent)

Ended(t, how) == tx' = [tx EXCEPT ![t].phase = how]

\* commit: the whole buffer as one frame, checked under the write guard after a refresh
Commit(t) ==
  LET h == Refreshed(handle[Server])
      writes == tx[t].touch \cup tx[t].del # {}
  IN /\ tx[t].phase = "open"
     /\ \/ /\ ~writes
           /\ Ended(t, "read")
           /\ UNCHANGED <<disk, handle, commits, moved>>
        \/ /\ writes /\ ~CheckPreconditions(h, t)
           /\ Ended(t, "conflict")
           /\ handle' = [handle EXCEPT ![Server] = h]
           /\ UNCHANGED <<disk, commits, moved>>
        \/ /\ writes /\ CheckPreconditions(h, t) /\ ~Applies(h, t)
           /\ Ended(t, "refused")
           /\ handle' = [handle EXCEPT ![Server] = h]
           /\ UNCHANGED <<disk, commits, moved>>
        \/ /\ writes /\ CheckPreconditions(h, t) /\ Applies(h, t)
           /\ Ended(t, "committed")
           /\ LogThenApply(Server, h, tx[t].touch, tx[t].del, FALSE)
     /\ UNCHANGED snaps

Rollback(t) ==
  /\ tx[t].phase = "open"
  /\ Ended(t, "rolled_back")
  /\ UNCHANGED <<disk, handle, commits, moved, snaps>>

Next ==
  \/ Refresh
  \/ \E p \in Handles : Write(p) \/ Snapshot(p)
  \/ \E t \in Txs : Begin(t) \/ Execute(t) \/ Commit(t) \/ Rollback(t)

Spec == Init /\ [][Next]_vars

-----------------------------------------------------------------------------
(* Properties. *)

Commits(t) == tx[t].phase = "open" /\ tx'[t].phase = "committed"
Conflicts(t) == tx[t].phase = "open" /\ tx'[t].phase = "conflict"
Reloaded(t) == handle'[Server].store_id # tx[t].base_store

\* A transaction commits its writes only over nodes that are as it saw them: every node
\* that it read or wrote has, in the store just before the commit, the content its base
\* snapshot had.  No other writer's update, in this process or the peer, is lost.
NoLostUpdate ==
  [][\A t \in Txs : Commits(t) => \A k \in DOMAIN tx[t].keys : Stored[k] = tx[t].base[k]]_vars

\* The same, for a server that was not reloaded since BEGIN: there every number is of one
\* numbering, whenever the transaction first touched the key and whoever wrote in between.
ConflictsDetected ==
  [][\A t \in Txs : Commits(t) /\ ~Reloaded(t) =>
       \A k \in DOMAIN tx[t].keys : Stored[k] = tx[t].base[k]]_vars

\* A commit that fails as a conflict had one: a key of the transaction was changed by a
\* commit its base snapshot did not have, or the server reloaded since BEGIN.  A retry
\* from BEGIN with no other writer therefore succeeds.
ConflictsAreReal ==
  [][\A t \in Txs : Conflicts(t) =>
       Reloaded(t) \/ \E k \in DOMAIN tx[t].keys : moved[k] > tx[t].at]_vars

=============================================================================
