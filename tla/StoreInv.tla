------------------------------ MODULE StoreInv ------------------------------
(***************************************************************************)
(* The inductive invariants behind CrashSafe, ReopenIsIdentity,            *)
(* NoRevivableIntent and RecoversPrefix, and the configurations in which   *)
(* the first two hold.                                                     *)
(***************************************************************************)
EXTENDS Store

\* No append or fsync error leaves the handle going on, the snapshot carries
\* its declarations, and whatever a snapshot holds is durable when it is
\* taken: because nothing is ever lost that was written, or because every
\* frame is fsynced, or because the only snapshots are those of the upgrade.
SafeConfig ==
  /\ V11 /\ ~AppendFaults /\ ~SyncFaults
  /\ \/ "power" \notin Crashes
     \/ Policy = "Strict" /\ "kill" \notin Crashes /\ ~Rules
     \/ Modes \subseteq {"upgrade"}

Quiet == {"idle", "upgrading", "intent", "snapped", "renamed", "replaced"}

\* The commits that w[h+1..n] writes; how many of the commits of h a WAL w
\* with b commits before it reaches in its first n frames.
Ids(w, h, n)   == {w[i].id : i \in {j \in h+1..n : w[j].c \in Write}}
AtIn(w, b, n)  == IF n = 0 THEN b ELSE w[n].id
DeclAt(h, j)   == DeclAfter(FALSE, h, 0, j)

\* A longer WAL reaches more commits, and never more than there are.
InOrder(w, b, j) ==
  \A n \in 0..Len(w) : AtIn(w, b, n) <= j /\ \A m \in 0..n : AtIn(w, b, m) <= AtIn(w, b, n)

IdsInOrder == InOrder(wal, base, Len(hist))

\* The frames w[m+1..n] take the graph from one commit of h to a later one.
Linked(w, b, h, m, n) ==
  /\ AtIn(w, b, m) <= AtIn(w, b, n) /\ AtIn(w, b, n) <= Len(h)
  /\ Ids(w, m, n) = {j \in AtIn(w, b, m)+1..AtIn(w, b, n) : h[j] \in Write}
  /\ DeclAt(h, AtIn(w, b, n)) = DeclAfter(DeclAt(h, AtIn(w, b, m)), Bytes(w), m, n)

\* So does every stretch of the WAL.
Chained(w, b, h) == \A n \in 0..Len(w) : \A m \in 0..n : Linked(w, b, h, m, n)

\* Torn bytes are only at the end, and only while the store is down.
TornOnlyWhenDown ==
  \A i \in 1..Len(wal) : wal[i].c = Torn =>
    pc = "down" /\ i = Len(wal) /\ wal[i].id = At(i - 1)

\* The handle's graph is the history's, less the frame being committed.
MemIsCurrent ==
  /\ pc # "down" => At(Len(wal)) = Len(hist)
  /\ pc \in Quiet => mem = After(hist, Len(hist))
  /\ pc \in {"appended", "synced"} =>
       /\ cur \in Write \cup {Declare, Drop}
       /\ Len(wal) > 0 /\ Len(hist) > 0
       /\ wal[Len(wal)] = [c |-> cur, id |-> Len(hist)]
       /\ hist[Len(hist)] = cur
       /\ At(Len(wal) - 1) = Len(hist) - 1
       /\ mem = After(hist, Len(hist) - 1)

\* How much of a WAL of which k frames are fsynced no crash takes away.
BoundOf(w, k) ==
  IF "power" \in Crashes /\ k < ValidLen(Bytes(w)) THEN k ELSE ValidLen(Bytes(w))

Bound == BoundOf(wal, synced)

\* Where a snapshot does not wait for an fsync, the WAL is fsynced already.
NothingUnsynced ==
  /\ "power" \in Crashes /\ ~(Modes \subseteq {"upgrade"}) /\ pc # "appended" => synced = Len(wal)
  /\ pc \in {"synced", "upgrading"} => synced = Len(wal)
  /\ pc = "intent" /\ "power" \in Crashes => synced = Len(wal)

PromisesKept == promised <= At(Bound)

GraphIn(s) == IF s = None THEN Empty ELSE s.g

\* The snapshot s is the graph after the first q frames of the WAL w, which no
\* crash loses.
SnapAt(s, w, k, b, h, q) == q <= BoundOf(w, k) /\ GraphIn(s) = After(h, AtIn(w, b, q))

HasOwnMark(s) == s # None /\ s.mark # None

NoneStands(ints, s, c) == \A i \in 1..Len(ints) : ~StandsAt(i, ints, s, c)

\* What an open takes for held is held, and what it replays is not.
HeldIn(s, ints, w, k, b, h, p) ==
  /\ s = None => b = 0
  /\ HasOwnMark(s) => Matches(s.mark, Bytes(w)) /\ SnapAt(s, w, k, b, h, Len(s.mark))
  /\ \A i \in 1..Len(ints) :
       StandsAt(i, ints, s, Bytes(w)) => SnapAt(s, w, k, b, h, Len(ints[i].wal))
  /\ ~HasOwnMark(s) /\ (NoneStands(ints, s, Bytes(w)) \/ p = "replaced") =>
       \E q \in 0..Len(w) : SnapAt(s, w, k, b, h, q) /\ \A i \in 1..q : w[i].c \notin Write

SnapIsHeld == HeldIn(snap, intent, wal, synced, base, hist, pc)

\* Which intents are in the file at each step of a snapshot.
IntentsInOrder ==
  /\ pc = "intent" /\ Replaces(mode) =>
       /\ Len(intent) >= 1 /\ intent[1] = [snap |-> Image(mode), wal |-> Bytes(wal)]
       /\ \A i \in 2..Len(intent) : StandsAt(i, intent, snap, Bytes(wal))
  /\ pc \in {"snapped", "renamed", "replaced"} => snap = [g |-> mem, mark |-> None]
  /\ pc = "snapped" => Len(intent) >= 1 /\ StandsAt(1, intent, snap, Bytes(wal))

-----------------------------------------------------------------------------
(* The invariant behind NoRevivableIntent, which needs no assumption on    *)
(* the configuration.                                                      *)

\* Every intent that names the snapshot on disk is true of the WAL c.
NamingStand(ints, s, c) == \A i \in 1..Len(ints) : ints[i].snap = s => Matches(ints[i].wal, c)

\* While a snapshot is replacing the WAL, the handle knows that its intent is
\* to be settled.
KnowsUnsettled ==
  /\ pc \in {"snapped", "renamed", "replaced"} => unsettled
  /\ pc = "intent" /\ Replaces(mode) => unsettled

\* Beside a handle that has nothing to settle no intent waits for the WAL to
\* become the one it names.
NothingWaits ==
  /\ pc \in Quiet /\ ~unsettled => NamingStand(intent, snap, Bytes(wal))
  /\ pc \in {"appended", "synced"} =>
       Len(wal) >= 1 /\ NamingStand(intent, snap, SubSeq(Bytes(wal), 1, Len(wal) - 1))

IntentInv == KnowsUnsettled /\ NothingWaits

-----------------------------------------------------------------------------
(* The invariant behind CrashSafe and ReopenIsIdentity.                    *)

CrashInv ==
  /\ Chained(wal, base, hist)
  /\ TornOnlyWhenDown
  /\ MemIsCurrent
  /\ NothingUnsynced
  /\ PromisesKept
  /\ SnapIsHeld
  /\ IntentsInOrder

-----------------------------------------------------------------------------
(* The invariant behind RecoversPrefix where appends and fsyncs fail and   *)
(* no snapshot is taken.  The handle's graph may lack commits of the WAL,  *)
(* and torn bytes may lie between whole frames.                            *)

WalIsAll ==
  /\ snap = None /\ intent = <<>> /\ base = 0
  /\ pc \in {"idle", "appended", "synced", "down"}

ReachesEnd == pc # "down" => At(Len(wal)) = Len(hist)

FaultInv == WalIsAll /\ Chained(wal, base, hist) /\ ReachesEnd
=============================================================================
