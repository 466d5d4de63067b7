------------------------- MODULE TransactionsProofs -------------------------
(***************************************************************************)
(* No update is lost, and a conflict is one, for any keys, transactions,   *)
(* writers and snapshots: ConflictsDetected and ConflictsAreReal.          *)
(***************************************************************************)
EXTENDS Transactions, SequenceTheorems, WellFoundedInduction, TLAPS

-----------------------------------------------------------------------------
(* The inductive invariant.                                                *)

Frame == [id : Nat, touch : SUBSET Keys, del : SUBSET Keys]
Handle == [content : [Keys -> Nat], last_change : [Keys -> Nat], top : Nat, commit_seq : Nat,
           store_id : Nat, at : Nat, snap : Nat, consumed : Nat]
Disk == [snap : Nat, content : [Keys -> Nat], last_change : [Keys -> Nat], top : Nat, at : Nat,
         wal : Seq(Frame)]
Recordings == UNION {[S -> Int] : S \in SUBSET Keys}
Tx == [phase : {"none", "open", "read", "conflict", "refused", "committed", "rolled_back"},
       base : [Keys -> Nat], base_version : Nat, base_store : Nat, at : Nat,
       keys : Recordings, touch : SUBSET Keys, del : SUBSET Keys]

StoreTypeOK ==
  /\ disk \in Disk /\ handle \in [Handles -> Handle]
  /\ commits \in Nat /\ moved \in [Keys -> Nat]
TxTypeOK == tx \in [Txs -> Tx]

\* A handle's numbers are below its count of commits, and a snapshot's below its largest.
Numbered(h, n) == /\ h.top <= h.commit_seq /\ h.at <= n
                  /\ \A k \in Keys : h.last_change[k] <= h.top
DiskNumbered == disk.at <= commits /\ \A k \in Keys : disk.last_change[k] <= disk.top

\* A frame's commit is counted, and is not after the last that moved a node it writes.
FramesMove ==
  /\ \A k \in Keys : moved[k] <= commits
  /\ \A j \in 1..Len(disk.wal) :
       /\ disk.wal[j].id <= commits
       /\ \A k \in disk.wal[j].touch \cup disk.wal[j].del : disk.wal[j].id <= moved[k]

\* A node that is there has a number.
Marked(x) == \A k \in Keys : x.content[k] # Absent => x.last_change[k] >= 1

\* Where the server's handle and the disk are of one snapshot, what the WAL has after the
\* handle brings it to the store on disk, and is of commits the handle has not seen.
Ahead == SubSeq(disk.wal, handle[Server].consumed + 1, Len(disk.wal))
ServerFollows ==
  /\ handle[Server].snap <= disk.snap
  /\ handle[Server].snap = disk.snap =>
       /\ handle[Server].consumed <= Len(disk.wal)
       /\ \A j \in 1..Len(disk.wal) :
            j > handle[Server].consumed => disk.wal[j].id > handle[Server].at
       /\ Stored = ApplyFrames(handle[Server], Ahead).content

\* A recorded number tells what the key was in the base: none, or one BEGIN had seen.
Recording(s) ==
  \A k \in DOMAIN s.keys :
    \/ s.keys[k] = TX_CHANGED_SINCE_BEGIN
    \/ s.keys[k] = Unmarked /\ s.base[k] = Absent
    \/ s.keys[k] >= 1 /\ s.keys[k] <= s.base_version /\ s.base[k] # Absent

\* While the handle `h` is the one of BEGIN: a node whose number BEGIN had seen is as in
\* the base or deleted; one that no later commit moved is as in the base, number and all,
\* and was recorded so.
OfOneNumbering(s, h, mv) ==
  /\ s.base_version <= h.commit_seq /\ s.at <= h.at
  /\ \A k \in Keys : h.last_change[k] <= s.base_version =>
                       h.content[k] = s.base[k] \/ h.content[k] = Absent
  /\ \A k \in Keys : mv[k] <= s.at =>
                       h.content[k] = s.base[k] /\ h.last_change[k] <= s.base_version
  /\ \A k \in DOMAIN s.keys : mv[k] <= s.at => s.keys[k] = LastChanged(h, k)

TxHolds(s, h, mv) ==
  s.phase # "none" => /\ s.base_store <= h.store_id
                      /\ s.base_store = h.store_id => OfOneNumbering(s, h, mv)

AllNumbered == DiskNumbered /\ \A p \in Handles : Numbered(handle[p], commits)
TxsHold == \A t \in Txs : TxHolds(tx[t], handle[Server], moved)
AllMarked == Marked(disk) /\ \A p \in Handles : Marked(handle[p])
AllRecorded == \A t \in Txs : Recording(tx[t])

\* What holds with nodes older than the last_change section too, and what without.
StoreInv == StoreTypeOK /\ AllNumbered /\ FramesMove /\ ServerFollows
TxInv == StoreInv /\ TxTypeOK /\ TxsHold
MarkedInv == AllMarked /\ AllRecorded

-----------------------------------------------------------------------------
(* Replay.                                                                 *)

\* A non-empty set of positions has a largest, which Max is.
LEMMA MaxOfPositions ==
  ASSUME NEW n \in Nat, NEW S \in SUBSET (1..n), S # {}
  PROVE  Max(S) \in S /\ \A x \in S : x <= Max(S)
<1> DEFINE T == {n - x : x \in S}
<1> DEFINE R == OpToRel(<, Nat)
<1>1. T \in SUBSET Nat /\ T # {}
  OBVIOUS
<1>2. IsWellFoundedOn(R, Nat)
  BY NatLessThanWellFounded
<1>3. PICK m \in T : \A y \in T : ~(<<y, m>> \in R)
  <2> HIDE DEF T, R
  <2> QED BY <1>1, <1>2, WFMin
<1>4. \A y \in T : m <= y
  <2> SUFFICES ASSUME NEW y \in T PROVE m <= y
    OBVIOUS
  <2>1. y \in Nat /\ m \in Nat
    BY <1>1
  <2>2. ~(y < m)
    BY <1>3, <2>1 DEF OpToRel
  <2> QED BY <2>1, <2>2
<1>5. PICK x \in S : m = n - x
  BY <1>3
<1>6. \A y \in S : y <= x
  <2> SUFFICES ASSUME NEW y \in S PROVE y <= x
    OBVIOUS
  <2>1. n - y \in T
    OBVIOUS
  <2>2. n - x <= n - y
    BY <1>4, <1>5, <2>1
  <2>3. x \in Int /\ y \in Int
    OBVIOUS
  <2> HIDE DEF T
  <2> QED BY <2>2, <2>3
<1>7. x \in S /\ \A y \in S : x >= y
  <2> \A y \in S : y \in Int /\ x \in Int
    OBVIOUS
  <2> QED BY <1>6
<1>8. Max(S) \in S /\ \A y \in S : Max(S) >= y
  BY <1>7 DEF Max
<1> HIDE DEF T
<1>9. S \subseteq Int
  OBVIOUS
<1> QED BY <1>8, <1>9

\* What replaying frames leaves of a handle, and what it says of a node.
LEMMA Replayed ==
  ASSUME NEW h \in Handle, NEW fs \in Seq(Frame)
  PROVE  LET g == ApplyFrames(h, fs) IN
         /\ g \in Handle
         /\ g.store_id = h.store_id /\ g.snap = h.snap /\ g.consumed = h.consumed
         /\ g.commit_seq = h.commit_seq + Len(fs)
         /\ fs = <<>> => g.at = h.at
         /\ fs # <<>> => g.at = fs[Len(fs)].id
         /\ h.top <= h.commit_seq => h.top <= g.top /\ g.top <= g.commit_seq
<1> DEFINE g == ApplyFrames(h, fs)
<1>1. Len(fs) \in Nat /\ \A j \in 1..Len(fs) : fs[j] \in Frame
  OBVIOUS
<1>2. \A k \in Keys : Wrote(fs, k) # {} => Max(Wrote(fs, k)) \in 1..Len(fs)
  <2> TAKE k \in Keys
  <2>1. Wrote(fs, k) \in SUBSET (1..Len(fs))
    BY DEF Wrote
  <2> QED BY <1>1, <2>1, MaxOfPositions
<1>3. \A k \in Keys : Touched(fs, k) # {} => Max(Touched(fs, k)) \in 1..Len(fs)
  <2> TAKE k \in Keys
  <2>1. Touched(fs, k) \in SUBSET (1..Len(fs))
    BY DEF Touched
  <2> QED BY <1>1, <2>1, MaxOfPositions
<1>4. Touching(fs) # {} => Max(Touching(fs)) \in 1..Len(fs)
  <2>1. Touching(fs) \in SUBSET (1..Len(fs))
    BY DEF Touching
  <2> QED BY <1>1, <2>1, MaxOfPositions
<1>5. g.commit_seq = h.commit_seq + Len(fs) /\ g.store_id = h.store_id /\ g.snap = h.snap
      /\ g.consumed = h.consumed /\ (fs = <<>> => g.at = h.at)
      /\ (fs # <<>> => g.at = fs[Len(fs)].id)
  BY DEF ApplyFrames, Handle
<1>6. g.top = IF Touching(fs) = {} THEN h.top ELSE h.commit_seq + Max(Touching(fs))
  BY DEF ApplyFrames, Handle
<1>7. h.commit_seq \in Nat /\ h.top \in Nat
  BY DEF Handle
<1>8. h.top <= h.commit_seq => h.top <= g.top /\ g.top <= g.commit_seq
  <2>1. CASE Touching(fs) = {}
    BY <2>1, <1>1, <1>5, <1>6, <1>7
  <2>2. CASE Touching(fs) # {}
    <3>1. PICK m \in 1..Len(fs) : m = Max(Touching(fs))
      BY <2>2, <1>4
    <3>2. g.top = h.commit_seq + m
      BY <2>2, <3>1, <1>6
    <3> QED BY <3>2, <1>1, <1>5, <1>7
  <2> QED BY <2>1, <2>2
<1>9. g \in Handle
  <2>1. h.top \in Nat /\ h.at \in Nat /\ h.content \in [Keys -> Nat] /\ h.last_change \in [Keys -> Nat]
    BY DEF Handle
  <2>2. h.commit_seq + Len(fs) \in Nat
    BY <1>1, <1>7
  <2>3. (IF fs = <<>> THEN h.at ELSE fs[Len(fs)].id) \in Nat
    <3>1. fs # <<>> => Len(fs) \in 1..Len(fs)
      BY <1>1
    <3> QED BY <1>1, <2>1, <3>1 DEF Frame
  <2>4. [k \in Keys |-> IF Wrote(fs, k) = {} THEN h.content[k]
                        ELSE Content(fs[Max(Wrote(fs, k))], k)] \in [Keys -> Nat]
    BY <1>1, <1>2, <2>1 DEF Content, Frame, Absent
  <2>5. [k \in Keys |-> IF Touched(fs, k) = {} THEN h.last_change[k]
                        ELSE h.commit_seq + Max(Touched(fs, k))] \in [Keys -> Nat]
    BY <1>1, <1>3, <1>7, <2>1
  <2>6. (IF Touching(fs) = {} THEN h.top ELSE h.commit_seq + Max(Touching(fs))) \in Nat
    BY <1>1, <1>4, <1>7, <2>1
  <2> QED BY <2>2, <2>3, <2>4, <2>5, <2>6 DEF ApplyFrames, Handle
<1> QED BY <1>5, <1>8, <1>9

\* What replay says of a node.
LEMMA ReplayedNode ==
  ASSUME NEW h \in Handle, NEW fs \in Seq(Frame), NEW k \in Keys
  PROVE  LET g == ApplyFrames(h, fs) IN
         /\ (\A j \in 1..Len(fs) : k \notin fs[j].touch \cup fs[j].del) =>
               g.content[k] = h.content[k] /\ g.last_change[k] = h.last_change[k]
         /\ (\A j \in 1..Len(fs) : k \notin fs[j].touch) =>
               /\ g.last_change[k] = h.last_change[k]
               /\ g.content[k] = h.content[k] \/ g.content[k] = Absent
         /\ (\E j \in 1..Len(fs) : k \in fs[j].touch) =>
               g.last_change[k] > h.commit_seq /\ g.last_change[k] <= g.top
<1> DEFINE g == ApplyFrames(h, fs)
<1>1. Len(fs) \in Nat /\ h.commit_seq \in Nat
  BY DEF Handle
<1>2. g.content[k] = IF Wrote(fs, k) = {} THEN h.content[k] ELSE Content(fs[Max(Wrote(fs, k))], k)
  BY DEF ApplyFrames, Handle
<1>3. g.last_change[k] = IF Touched(fs, k) = {} THEN h.last_change[k]
                         ELSE h.commit_seq + Max(Touched(fs, k))
  BY DEF ApplyFrames, Handle
<1>4. g.top = IF Touching(fs) = {} THEN h.top ELSE h.commit_seq + Max(Touching(fs))
  BY DEF ApplyFrames, Handle
<1> HIDE DEF g
<1>5. ASSUME \A j \in 1..Len(fs) : k \notin fs[j].touch \cup fs[j].del
      PROVE  g.content[k] = h.content[k] /\ g.last_change[k] = h.last_change[k]
  <2>1. Wrote(fs, k) = {} /\ Touched(fs, k) = {}
    BY <1>5 DEF Wrote, Touched
  <2> QED BY <2>1, <1>2, <1>3
<1>6. ASSUME \A j \in 1..Len(fs) : k \notin fs[j].touch
      PROVE  g.last_change[k] = h.last_change[k] /\ (g.content[k] = h.content[k] \/ g.content[k] = Absent)
  <2>1. Touched(fs, k) = {}
    BY <1>6 DEF Touched
  <2>2. CASE Wrote(fs, k) = {}
    BY <2>1, <2>2, <1>2, <1>3
  <2>3. CASE Wrote(fs, k) # {}
    <3>1. Wrote(fs, k) \in SUBSET (1..Len(fs))
      BY DEF Wrote
    <3>2. Max(Wrote(fs, k)) \in 1..Len(fs)
      BY <1>1, <2>3, <3>1, MaxOfPositions
    <3>3. Content(fs[Max(Wrote(fs, k))], k) = Absent
      BY <1>6, <3>2 DEF Content
    <3> QED BY <2>1, <2>3, <3>3, <1>2, <1>3
  <2> QED BY <2>2, <2>3
<1>7. ASSUME \E j \in 1..Len(fs) : k \in fs[j].touch
      PROVE  g.last_change[k] > h.commit_seq /\ g.last_change[k] <= g.top
  <2>1. /\ Touched(fs, k) # {} /\ Touched(fs, k) \in SUBSET (1..Len(fs))
        /\ Touching(fs) # {} /\ Touching(fs) \in SUBSET (1..Len(fs))
        /\ Touched(fs, k) \subseteq Touching(fs)
    BY <1>7 DEF Touched, Touching
  <2>2. PICK m : m = Max(Touched(fs, k))
    OBVIOUS
  <2>3. PICK n : n = Max(Touching(fs))
    OBVIOUS
  <2>4. m \in Touched(fs, k)
    BY <1>1, <2>1, <2>2, MaxOfPositions
  <2>5. \A x \in Touching(fs) : x <= n
    BY <1>1, <2>1, <2>3, MaxOfPositions
  <2>6. n \in Touching(fs)
    BY <1>1, <2>1, <2>3, MaxOfPositions
  <2>7. m <= n /\ m \in 1..Len(fs) /\ n \in 1..Len(fs)
    BY <2>1, <2>4, <2>5, <2>6
  <2>8. g.last_change[k] = h.commit_seq + m /\ g.top = h.commit_seq + n
    BY <2>1, <2>2, <2>3, <1>3, <1>4
  <2> QED BY <2>7, <2>8, <1>1
<1>8. (\A j \in 1..Len(fs) : k \notin fs[j].touch \cup fs[j].del) =>
         g.content[k] = h.content[k] /\ g.last_change[k] = h.last_change[k]
  BY <1>5
<1>9. (\A j \in 1..Len(fs) : k \notin fs[j].touch) =>
         g.last_change[k] = h.last_change[k] /\ (g.content[k] = h.content[k] \/ g.content[k] = Absent)
  BY <1>6
<1>10. (\E j \in 1..Len(fs) : k \in fs[j].touch) =>
          g.last_change[k] > h.commit_seq /\ g.last_change[k] <= g.top
  BY <1>7
<1> QED BY <1>8, <1>9, <1>10 DEF g

\* What replay makes of the nodes' content.
ContentAfter(c, fs) ==
  [k \in Keys |-> IF Wrote(fs, k) = {} THEN c[k] ELSE Content(fs[Max(Wrote(fs, k))], k)]

LEMMA ContentIs ==
  ASSUME NEW h \in Handle, NEW fs \in Seq(Frame)
  PROVE  ApplyFrames(h, fs).content = ContentAfter(h.content, fs)
BY DEF ApplyFrames, ContentAfter, Handle

LEMMA ContentOfNone ==
  ASSUME NEW c \in [Keys -> Nat], NEW fs, fs = <<>>
  PROVE  ContentAfter(c, fs) = c
<1>1. \A k \in Keys : Wrote(fs, k) = {}
  BY DEF Wrote
<1> QED BY <1>1 DEF ContentAfter

\* One frame more has its say on the nodes it writes.
ContentWith(c, f) == [k \in Keys |-> IF k \in f.touch \cup f.del THEN Content(f, k) ELSE c[k]]

LEMMA ContentOneMore ==
  ASSUME NEW c, NEW fs \in Seq(Frame), NEW f \in Frame
  PROVE  ContentAfter(c, Append(fs, f)) = ContentWith(ContentAfter(c, fs), f)
<1>1. PICK n \in Nat : n = Len(fs)
  OBVIOUS
<1>2. PICK gs \in Seq(Frame) : gs = Append(fs, f)
  <2>1. Append(fs, f) \in Seq(Frame)
    BY AppendProperties
  <2> QED BY <2>1
<1>3. Len(gs) = n + 1 /\ gs[n + 1] = f /\ \A j \in 1..n : gs[j] = fs[j]
  BY <1>1, <1>2
<1>4. ASSUME NEW k \in Keys
      PROVE  (IF Wrote(gs, k) = {} THEN c[k] ELSE Content(gs[Max(Wrote(gs, k))], k)) =
               IF k \in f.touch \cup f.del THEN Content(f, k) ELSE ContentAfter(c, fs)[k]
  <2>1. CASE k \in f.touch \cup f.del
    <3>1. n + 1 \in Wrote(gs, k) /\ Wrote(gs, k) \in SUBSET (1..n+1)
      BY <1>3, <2>1 DEF Wrote
    <3>2. PICK m : m = Max(Wrote(gs, k))
      OBVIOUS
    <3>3. n + 1 \in Nat /\ Wrote(gs, k) # {}
      BY <3>1
    <3>4. m \in Wrote(gs, k) /\ \A x \in Wrote(gs, k) : x <= m
      BY <3>1, <3>2, <3>3, MaxOfPositions
    <3>5. m \in 1..n+1 /\ n + 1 <= m
      BY <3>1, <3>4
    <3>6. m = n + 1
      BY <3>5
    <3> QED BY <1>3, <2>1, <3>2, <3>3, <3>6
  <2>2. CASE k \notin f.touch \cup f.del
    <3>1. Wrote(gs, k) = Wrote(fs, k)
      BY <1>1, <1>3, <2>2 DEF Wrote
    <3>2. Wrote(fs, k) # {} => gs[Max(Wrote(fs, k))] = fs[Max(Wrote(fs, k))]
      <4>1. Wrote(fs, k) \in SUBSET (1..n)
        BY <1>1 DEF Wrote
      <4> QED BY <1>3, <4>1, MaxOfPositions
    <3> QED BY <2>2, <3>1, <3>2 DEF ContentAfter
  <2> QED BY <2>1, <2>2
<1> QED BY <1>2, <1>4 DEF ContentAfter, ContentWith

\* A frame that writes nothing, as a marker, changes nothing.
LEMMA ContentWithMarker ==
  ASSUME NEW c, NEW f \in Frame, NEW m \in Frame, m.touch = {}, m.del = {}
  PROVE  ContentWith(ContentWith(c, f), m) = ContentWith(c, f)
BY DEF ContentWith

-----------------------------------------------------------------------------
(* What a refresh and a commit make of a handle.                           *)

\* `g` is `h` after more frames, all of commits that `h` has not seen.
Advances(h, g, mv) ==
  /\ g.store_id = h.store_id /\ h.commit_seq <= g.commit_seq /\ h.at <= g.at
  /\ \A k \in Keys :
       \/ g.content[k] = h.content[k] /\ g.last_change[k] = h.last_change[k]
       \/ /\ g.content[k] = Absent /\ g.last_change[k] = h.last_change[k]
          /\ h.at < mv[k]
       \/ h.commit_seq < g.last_change[k] /\ h.at < mv[k]

\* A transaction's numbers stay good on a handle that advanced.
LEMMA AdvanceHolds ==
  ASSUME NEW s \in Tx, NEW h \in Handle, NEW g \in Handle, NEW mv \in [Keys -> Nat],
         NEW mw \in [Keys -> Nat], \A k \in Keys : mv[k] <= mw[k],
         Advances(h, g, mw), TxHolds(s, h, mv)
  PROVE  TxHolds(s, g, mw)
<1> SUFFICES ASSUME s.phase # "none"
             PROVE  s.base_store <= g.store_id /\ (s.base_store = g.store_id => OfOneNumbering(s, g, mw))
  BY DEF TxHolds
<1>1. s.base_store <= h.store_id /\ (s.base_store = h.store_id => OfOneNumbering(s, h, mv))
  BY DEF TxHolds
<1>2. g.store_id = h.store_id /\ h.commit_seq <= g.commit_seq /\ h.at <= g.at
  BY DEF Advances
<1>3. /\ h.commit_seq \in Nat /\ g.commit_seq \in Nat /\ h.at \in Nat /\ g.at \in Nat
      /\ s.base_version \in Nat /\ s.at \in Nat
      /\ h.content \in [Keys -> Nat] /\ h.last_change \in [Keys -> Nat]
      /\ g.content \in [Keys -> Nat] /\ g.last_change \in [Keys -> Nat]
      /\ s.keys \in Recordings
  BY DEF Handle, Tx
<1> SUFFICES ASSUME OfOneNumbering(s, h, mv) PROVE OfOneNumbering(s, g, mw)
  BY <1>1, <1>2
<1>4. s.base_version <= h.commit_seq /\ s.at <= h.at
  BY DEF OfOneNumbering
<1>5. s.base_version <= g.commit_seq /\ s.at <= g.at
  BY <1>2, <1>3, <1>4
<1>6. \A k \in Keys :
        \/ g.content[k] = h.content[k] /\ g.last_change[k] = h.last_change[k]
        \/ g.content[k] = Absent /\ g.last_change[k] = h.last_change[k] /\ s.at < mw[k]
        \/ s.base_version < g.last_change[k] /\ s.at < mw[k]
  <2> SUFFICES ASSUME NEW k \in Keys
               PROVE  \/ g.content[k] = h.content[k] /\ g.last_change[k] = h.last_change[k]
                      \/ g.content[k] = Absent /\ g.last_change[k] = h.last_change[k] /\ s.at < mw[k]
                      \/ s.base_version < g.last_change[k] /\ s.at < mw[k]
    OBVIOUS
  <2>1. \/ g.content[k] = h.content[k] /\ g.last_change[k] = h.last_change[k]
        \/ g.content[k] = Absent /\ g.last_change[k] = h.last_change[k] /\ h.at < mw[k]
        \/ h.commit_seq < g.last_change[k] /\ h.at < mw[k]
    BY DEF Advances
  <2>2. mw[k] \in Nat /\ g.last_change[k] \in Nat
    BY <1>3
  <2>3. h.at < mw[k] => s.at < mw[k]
    BY <2>2, <1>3, <1>4
  <2>4. h.commit_seq < g.last_change[k] => s.base_version < g.last_change[k]
    BY <2>2, <1>3, <1>4
  <2> QED BY <2>1, <2>3, <2>4
<1>7. \A k \in Keys : g.last_change[k] <= s.base_version =>
                        g.content[k] = s.base[k] \/ g.content[k] = Absent
  <2> SUFFICES ASSUME NEW k \in Keys, g.last_change[k] <= s.base_version
               PROVE  g.content[k] = s.base[k] \/ g.content[k] = Absent
    OBVIOUS
  <2>1. g.last_change[k] \in Nat
    BY <1>3
  <2>2. ~(s.base_version < g.last_change[k])
    BY <2>1, <1>3
  <2>3. h.last_change[k] <= s.base_version => h.content[k] = s.base[k] \/ h.content[k] = Absent
    BY DEF OfOneNumbering
  <2> QED BY <2>2, <2>3, <1>6
<1>8. \A k \in Keys : mw[k] <= s.at =>
        /\ g.content[k] = h.content[k] /\ g.last_change[k] = h.last_change[k]
        /\ mv[k] <= s.at
  <2> SUFFICES ASSUME NEW k \in Keys, mw[k] <= s.at
               PROVE  /\ g.content[k] = h.content[k] /\ g.last_change[k] = h.last_change[k]
                      /\ mv[k] <= s.at
    OBVIOUS
  <2>1. mw[k] \in Nat /\ mv[k] \in Nat /\ mv[k] <= mw[k]
    OBVIOUS
  <2>2. ~(s.at < mw[k]) /\ mv[k] <= s.at
    BY <2>1, <1>3
  <2> QED BY <2>2, <1>6
<1>9. \A k \in Keys : mw[k] <= s.at =>
        g.content[k] = s.base[k] /\ g.last_change[k] <= s.base_version
  BY <1>8 DEF OfOneNumbering
<1>10. \A k \in DOMAIN s.keys : mw[k] <= s.at => s.keys[k] = LastChanged(g, k)
  <2>1. DOMAIN s.keys \subseteq Keys
    BY <1>3 DEF Recordings
  <2>2. \A k \in DOMAIN s.keys : mv[k] <= s.at => s.keys[k] = LastChanged(h, k)
    BY DEF OfOneNumbering
  <2> QED BY <1>8, <2>1, <2>2 DEF LastChanged
<1> QED BY <1>5, <1>7, <1>9, <1>10 DEF OfOneNumbering

\* Advancing twice.
LEMMA AdvanceTwice ==
  ASSUME NEW h \in Handle, NEW g \in Handle, NEW f \in Handle, NEW mv \in [Keys -> Nat],
         NEW mw \in [Keys -> Nat], \A k \in Keys : mv[k] <= mw[k],
         Advances(h, g, mv), Advances(g, f, mw)
  PROVE  Advances(h, f, mw)
<1>1. /\ h.commit_seq \in Nat /\ g.commit_seq \in Nat /\ f.commit_seq \in Nat
      /\ h.at \in Nat /\ g.at \in Nat /\ f.at \in Nat
      /\ h.last_change \in [Keys -> Nat] /\ g.last_change \in [Keys -> Nat]
      /\ f.last_change \in [Keys -> Nat]
  BY DEF Handle
<1>2. /\ g.store_id = h.store_id /\ h.commit_seq <= g.commit_seq /\ h.at <= g.at
      /\ f.store_id = g.store_id /\ g.commit_seq <= f.commit_seq /\ g.at <= f.at
  BY DEF Advances
<1>3. f.store_id = h.store_id /\ h.commit_seq <= f.commit_seq /\ h.at <= f.at
  BY <1>1, <1>2
<1>4. ASSUME NEW k \in Keys
      PROVE  \/ f.content[k] = h.content[k] /\ f.last_change[k] = h.last_change[k]
             \/ f.content[k] = Absent /\ f.last_change[k] = h.last_change[k] /\ h.at < mw[k]
             \/ h.commit_seq < f.last_change[k] /\ h.at < mw[k]
  <2>1. \/ g.content[k] = h.content[k] /\ g.last_change[k] = h.last_change[k]
        \/ g.content[k] = Absent /\ g.last_change[k] = h.last_change[k] /\ h.at < mv[k]
        \/ h.commit_seq < g.last_change[k] /\ h.at < mv[k]
    BY DEF Advances
  <2>2. \/ f.content[k] = g.content[k] /\ f.last_change[k] = g.last_change[k]
        \/ f.content[k] = Absent /\ f.last_change[k] = g.last_change[k] /\ g.at < mw[k]
        \/ g.commit_seq < f.last_change[k] /\ g.at < mw[k]
    BY DEF Advances
  <2>3. mv[k] \in Nat /\ mw[k] \in Nat /\ mv[k] <= mw[k] /\ f.last_change[k] \in Nat
    BY <1>1
  <2>4. (h.at < mv[k] => h.at < mw[k]) /\ (g.at < mw[k] => h.at < mw[k])
    BY <2>3, <1>1, <1>2
  <2>5. g.commit_seq < f.last_change[k] => h.commit_seq < f.last_change[k]
    BY <2>3, <1>1, <1>2
  <2> QED BY <2>1, <2>2, <2>4, <2>5
<1> QED BY <1>3, <1>4 DEF Advances

\* A live commit: one frame more.
LEMMA FrameAdvances ==
  ASSUME NEW h \in Handle, NEW f \in Frame, NEW mv \in [Keys -> Nat], h.at < f.id,
         \A k \in f.touch \cup f.del : mv[k] = f.id
  PROVE  /\ ApplyFrame(h, f) \in Handle
         /\ ApplyFrame(h, f).snap = h.snap
         /\ Advances(h, ApplyFrame(h, f), mv)
<1>1. /\ h.commit_seq \in Nat /\ h.at \in Nat /\ h.top \in Nat /\ h.content \in [Keys -> Nat]
      /\ h.last_change \in [Keys -> Nat] /\ f.id \in Nat
  BY DEF Handle, Frame
<1>2. PICK seq \in Nat : seq = h.commit_seq + 1
  BY <1>1
<1>3. PICK g : g = ApplyFrame(h, f)
  OBVIOUS
<1>4. /\ g.store_id = h.store_id /\ g.commit_seq = seq /\ g.at = f.id /\ g.snap = h.snap
      /\ g.content = [k \in Keys |-> IF k \in f.touch THEN f.id
                                     ELSE IF k \in f.del THEN Absent ELSE h.content[k]]
      /\ g.last_change = [k \in Keys |-> IF k \in f.touch THEN seq ELSE h.last_change[k]]
  BY <1>2, <1>3 DEF ApplyFrame, Handle
<1>5. g \in Handle
  <2>1. [k \in Keys |-> IF k \in f.touch THEN f.id
                        ELSE IF k \in f.del THEN Absent ELSE h.content[k]] \in [Keys -> Nat]
    BY <1>1 DEF Absent
  <2>2. [k \in Keys |-> IF k \in f.touch THEN seq ELSE h.last_change[k]] \in [Keys -> Nat]
    BY <1>1
  <2>3. (IF f.touch # {} THEN seq ELSE h.top) \in Nat
    BY <1>1
  <2> QED BY <1>1, <1>2, <1>3, <2>1, <2>2, <2>3 DEF ApplyFrame, Handle
<1>6. h.commit_seq <= g.commit_seq /\ h.at <= g.at /\ h.commit_seq < seq
  BY <1>1, <1>2, <1>4
<1>7. ASSUME NEW k \in Keys
      PROVE  \/ g.content[k] = h.content[k] /\ g.last_change[k] = h.last_change[k]
             \/ g.content[k] = Absent /\ g.last_change[k] = h.last_change[k] /\ h.at < mv[k]
             \/ h.commit_seq < g.last_change[k] /\ h.at < mv[k]
  <2>1. k \in f.touch \cup f.del => h.at < mv[k]
    OBVIOUS
  <2>2. CASE k \in f.touch
    BY <2>1, <2>2, <1>4, <1>6
  <2>3. CASE k \notin f.touch /\ k \in f.del
    BY <2>1, <2>3, <1>4
  <2>4. CASE k \notin f.touch \cup f.del
    BY <2>4, <1>4
  <2> QED BY <2>2, <2>3, <2>4
<1> QED BY <1>3, <1>4, <1>5, <1>6, <1>7 DEF Advances

\* Replay keeps the numbers in order.
LEMMA ReplayNumbered ==
  ASSUME NEW h \in Handle, NEW fs \in Seq(Frame), NEW n \in Nat, Numbered(h, n),
         \A j \in 1..Len(fs) : fs[j].id <= n
  PROVE  Numbered(ApplyFrames(h, fs), n)
<1>1. PICK g \in Handle : g = ApplyFrames(h, fs)
  BY Replayed, Zenon
<1>2. h.top <= g.top /\ g.top <= g.commit_seq
  BY <1>1, Replayed DEF Numbered
<1>3. g.at <= n
  <2>1. CASE fs = <<>>
    BY <1>1, <2>1, Replayed DEF Numbered
  <2>2. CASE fs # <<>>
    <3>1. Len(fs) \in 1..Len(fs)
      BY <2>2
    <3> QED BY <1>1, <2>2, <3>1, Replayed
  <2> QED BY <2>1, <2>2
<1>4. ASSUME NEW k \in Keys PROVE g.last_change[k] <= g.top
  <2>1. CASE \A j \in 1..Len(fs) : k \notin fs[j].touch
    <3>1. g.last_change[k] = h.last_change[k]
      BY <1>1, <2>1, ReplayedNode
    <3>2. h.last_change[k] <= h.top
      BY DEF Numbered
    <3>3. h.last_change[k] \in Nat /\ h.top \in Nat /\ g.top \in Nat
      BY DEF Handle
    <3> QED BY <3>1, <3>2, <3>3, <1>2
  <2>2. CASE \E j \in 1..Len(fs) : k \in fs[j].touch
    BY <1>1, <2>2, ReplayedNode
  <2> QED BY <2>1, <2>2
<1> QED BY <1>1, <1>2, <1>3, <1>4 DEF Numbered

\* Replay gives the nodes it makes a number.
LEMMA ReplayMarked ==
  ASSUME NEW h \in Handle, NEW fs \in Seq(Frame), Marked(h)
  PROVE  Marked(ApplyFrames(h, fs))
<1>1. PICK g \in Handle : g = ApplyFrames(h, fs)
  BY Replayed, Zenon
<1>2. ASSUME NEW k \in Keys, g.content[k] # Absent PROVE g.last_change[k] >= 1
  <2>1. CASE \A j \in 1..Len(fs) : k \notin fs[j].touch
    BY <1>1, <1>2, <2>1, ReplayedNode DEF Marked
  <2>2. CASE \E j \in 1..Len(fs) : k \in fs[j].touch
    <3>1. g.last_change[k] > h.commit_seq
      BY <1>1, <2>2, ReplayedNode
    <3>2. g.last_change[k] \in Nat /\ h.commit_seq \in Nat
      BY DEF Handle
    <3> QED BY <3>1, <3>2
  <2> QED BY <2>1, <2>2
<1> QED BY <1>1, <1>2 DEF Marked

\* The part of a WAL after the frames a handle has consumed.
TailFrom(w, c) == SubSeq(w, c + 1, Len(w))

LEMMA TailOf ==
  ASSUME NEW w \in Seq(Frame), NEW c \in Nat
  PROVE  /\ TailFrom(w, c) \in Seq(Frame) /\ Len(TailFrom(w, c)) \in Nat
         /\ c <= Len(w) => Len(TailFrom(w, c)) = Len(w) - c
         /\ \A j \in 1..Len(TailFrom(w, c)) :
              c + j \in 1..Len(w) /\ c + j > c /\ TailFrom(w, c)[j] = w[c + j]
<1>1. Len(w) \in Nat
  OBVIOUS
<1>2. PICK t : t = TailFrom(w, c)
  OBVIOUS
<1>3. t \in Seq(Frame) /\ Len(t) \in Nat /\ (c <= Len(w) => Len(t) = Len(w) - c)
      /\ \A j \in 1..Len(t) : c + j \in 1..Len(w) /\ c + j > c /\ t[j] = w[c + j]
  <2>1. CASE c < Len(w)
    <3>1. c + 1 \in 1..Len(w)+1 /\ Len(w) \in (c + 1) - 1 .. Len(w)
      BY <1>1, <2>1
    <3>2. /\ t \in Seq(Frame) /\ Len(t) = Len(w) - (c + 1) + 1
          /\ \A j \in 1..Len(w) - (c + 1) + 1 : t[j] = w[(c + 1) + j - 1]
      BY <1>2, <3>1, SubSeqProperties DEF TailFrom
    <3>3. Len(t) = Len(w) - c /\ Len(w) - c \in Nat
      BY <1>1, <2>1, <3>2
    <3>4. ASSUME NEW j \in 1..Len(t)
          PROVE  c + j \in 1..Len(w) /\ c + j > c /\ t[j] = w[c + j]
      <4>1. j \in Nat /\ j >= 1 /\ j <= Len(w) - c
        BY <1>1, <3>3
      <4>2. j \in 1..Len(w) - (c + 1) + 1 /\ (c + 1) + j - 1 = c + j
        BY <1>1, <4>1
      <4>3. t[j] = w[c + j]
        BY <3>2, <4>2
      <4> QED BY <1>1, <4>1, <4>3
    <3> QED BY <3>2, <3>3, <3>4
  <2>2. CASE c >= Len(w)
    <3>1. t = <<>>
      BY <1>1, <1>2, <2>2 DEF TailFrom
    <3>2. Len(t) = 0
      BY ONLY <3>1
    <3>3. c <= Len(w) => Len(w) - c = 0
      BY <1>1, <2>2
    <3> QED BY <3>1, <3>2, <3>3
  <2> QED BY <1>1, <2>1, <2>2
<1> QED BY <1>2, <1>3

\* The handle that a reload starts from.
Start(h) ==
  [content |-> disk.content, last_change |-> disk.last_change, top |-> disk.top,
   commit_seq |-> disk.top, store_id |-> h.store_id + 1, at |-> disk.at,
   snap |-> disk.snap, consumed |-> Len(disk.wal)]

LEMMA StartIsHandle ==
  ASSUME StoreInv, NEW h \in Handle
  PROVE  /\ Start(h) \in Handle /\ Numbered(Start(h), commits)
         /\ disk.wal \in Seq(Frame) /\ (\A j \in 1..Len(disk.wal) : disk.wal[j].id <= commits)
         /\ Load(h) = ApplyFrames(Start(h), disk.wal)
<1>1. disk \in Disk /\ commits \in Nat
  BY DEF StoreInv, StoreTypeOK
<1>2. /\ disk.content \in [Keys -> Nat] /\ disk.last_change \in [Keys -> Nat] /\ disk.top \in Nat
      /\ disk.at \in Nat /\ disk.snap \in Nat /\ disk.wal \in Seq(Frame) /\ Len(disk.wal) \in Nat
  BY <1>1 DEF Disk
<1>3. h.store_id + 1 \in Nat
  BY DEF Handle
<1>4. Start(h) \in Handle
  BY <1>2, <1>3 DEF Start, Handle
<1>5. Numbered(Start(h), commits)
  BY <1>2 DEF StoreInv, AllNumbered, DiskNumbered, Numbered, Start
<1>6. \A j \in 1..Len(disk.wal) : disk.wal[j].id <= commits
  BY DEF StoreInv, FramesMove
<1> QED BY <1>2, <1>4, <1>5, <1>6 DEF Load, Start

\* A refreshed handle is of the disk's snapshot and whole WAL.
LEMMA RefreshedHandle ==
  ASSUME StoreInv, NEW p \in Handles
  PROVE  LET g == Refreshed(handle[p]) IN
         /\ g \in Handle /\ Numbered(g, commits)
         /\ g.snap = disk.snap /\ g.consumed = Len(disk.wal)
         /\ Marked(disk) /\ Marked(handle[p]) => Marked(g)
<1>1. PICK h \in Handle : h = handle[p]
  BY DEF StoreInv, StoreTypeOK
<1>2. PICK g : g = Refreshed(h)
  OBVIOUS
<1>3. /\ disk.wal \in Seq(Frame) /\ Len(disk.wal) \in Nat
      /\ (\A j \in 1..Len(disk.wal) : disk.wal[j].id <= commits) /\ commits \in Nat
  <2>1. commits \in Nat
    BY DEF StoreInv, StoreTypeOK
  <2>2. disk.wal \in Seq(Frame) /\ \A j \in 1..Len(disk.wal) : disk.wal[j].id <= commits
    BY StartIsHandle
  <2> QED BY <2>1, <2>2, LenProperties
<1>4. CASE h.snap # disk.snap
  <2>1. PICK s \in Handle : s = Start(h)
    BY StartIsHandle
  <2>2. g = ApplyFrames(s, disk.wal)
    BY <1>2, <1>4, <2>1, StartIsHandle DEF Refreshed
  <2>3. Numbered(s, commits)
    BY <2>1, StartIsHandle
  <2>4. Numbered(g, commits)
    BY <1>3, <2>2, <2>3, ReplayNumbered
  <2>5. s.snap = disk.snap /\ s.consumed = Len(disk.wal)
    BY <2>1 DEF Start
  <2>6. g \in Handle /\ g.snap = s.snap /\ g.consumed = s.consumed
    BY <1>3, <2>2, Replayed
  <2>7. Marked(disk) => Marked(g)
    <3>1. Marked(disk) => Marked(s)
      BY <2>1 DEF Marked, Start
    <3> QED BY <1>3, <2>2, <3>1, ReplayMarked
  <2> QED BY <1>1, <1>2, <2>4, <2>5, <2>6, <2>7
<1>5. CASE h.snap = disk.snap
  <2>1. h.consumed \in Nat
    BY DEF Handle
  <2>2. PICK fs \in Seq(Frame) : fs = TailFrom(disk.wal, h.consumed)
    BY <1>3, <2>1, TailOf
  <2>3. PICK a \in Handle : a = ApplyFrames(h, fs)
    BY Replayed, Zenon
  <2>4. g = [a EXCEPT !.consumed = Len(disk.wal)]
    BY <1>2, <1>5, <2>2, <2>3 DEF Refreshed, TailFrom
  <2>5. \A j \in 1..Len(fs) : fs[j].id <= commits
    <3>1. \A j \in 1..Len(fs) :
            h.consumed + j \in 1..Len(disk.wal) /\ fs[j] = disk.wal[h.consumed + j]
      BY <1>3, <2>1, <2>2, TailOf
    <3> QED BY <1>3, <3>1
  <2>6. Numbered(h, commits)
    BY <1>1 DEF StoreInv, AllNumbered
  <2>7. Numbered(a, commits)
    BY <1>3, <2>3, <2>5, <2>6, ReplayNumbered
  <2>8. Marked(h) => Marked(a)
    BY <2>3, ReplayMarked
  <2>9. a.snap = h.snap
    BY <2>3, Replayed
  <2>10. /\ g \in Handle /\ g.consumed = Len(disk.wal) /\ g.snap = a.snap
         /\ g.content = a.content /\ g.last_change = a.last_change /\ g.top = a.top
         /\ g.commit_seq = a.commit_seq /\ g.at = a.at
    BY <1>3, <2>4 DEF Handle
  <2> QED BY <1>1, <1>2, <1>5, <2>7, <2>8, <2>9, <2>10 DEF Numbered, Marked
<1> QED BY <1>4, <1>5

\* The server's, too, is the store on disk, and is the old handle advanced or a new one.
LEMMA RefreshedServer ==
  ASSUME StoreInv
  PROVE  LET g == Refreshed(handle[Server]) IN
         /\ g.content = Stored
         /\ \/ Advances(handle[Server], g, moved)
            \/ g.store_id = handle[Server].store_id + 1
<1>1. PICK h \in Handle : h = handle[Server]
  BY DEF StoreInv, StoreTypeOK, Handles
<1>2. PICK g : g = Refreshed(h)
  OBVIOUS
<1>3. disk.wal \in Seq(Frame) /\ Len(disk.wal) \in Nat /\ moved \in [Keys -> Nat]
  <2>1. moved \in [Keys -> Nat]
    BY DEF StoreInv, StoreTypeOK
  <2>2. disk.wal \in Seq(Frame)
    BY StartIsHandle
  <2> QED BY <2>1, <2>2, LenProperties
<1>4. CASE h.snap # disk.snap
  <2>1. g = Load(h)
    BY <1>2, <1>4 DEF Refreshed
  <2>2. PICK s \in Handle : s = Start(h)
    BY StartIsHandle
  <2>3. g = ApplyFrames(s, disk.wal)
    BY <2>1, <2>2, StartIsHandle
  <2>4. g.store_id = s.store_id
    BY <1>3, <2>3, Replayed
  <2>5. s.store_id = h.store_id + 1
    BY <2>2 DEF Start
  <2> QED BY <1>1, <1>2, <2>1, <2>4, <2>5 DEF Stored
<1>5. CASE h.snap = disk.snap
  <2>1. /\ h.consumed \in Nat /\ h.at \in Nat /\ h.commit_seq \in Nat
    BY DEF Handle
  <2>2. PICK fs \in Seq(Frame) : fs = TailFrom(disk.wal, h.consumed)
    BY <1>3, <2>1, TailOf
  <2>3. PICK a \in Handle : a = ApplyFrames(h, fs)
    BY Replayed, Zenon
  <2>4. g = [a EXCEPT !.consumed = Len(disk.wal)]
    BY <1>2, <1>5, <2>2, <2>3 DEF Refreshed, TailFrom
  <2>5. /\ g.store_id = a.store_id /\ g.commit_seq = a.commit_seq /\ g.at = a.at
        /\ g.content = a.content /\ g.last_change = a.last_change
    BY <2>4 DEF Handle
  <2>6. g.content = Stored
    BY <1>1, <1>5, <2>2, <2>3, <2>5 DEF StoreInv, ServerFollows, Ahead, TailFrom
  <2>7. \A j \in 1..Len(fs) : /\ fs[j].id > h.at /\ fs[j].id \in Nat
                              /\ \A k \in fs[j].touch \cup fs[j].del : fs[j].id <= moved[k]
    <3> SUFFICES ASSUME NEW j \in 1..Len(fs)
                 PROVE  /\ fs[j].id > h.at /\ fs[j].id \in Nat
                        /\ \A k \in fs[j].touch \cup fs[j].del : fs[j].id <= moved[k]
      OBVIOUS
    <3>1. PICK i \in 1..Len(disk.wal) : i > h.consumed /\ fs[j] = disk.wal[i]
      <4>1. /\ h.consumed + j \in 1..Len(disk.wal) /\ h.consumed + j > h.consumed
            /\ fs[j] = disk.wal[h.consumed + j]
        BY <1>3, <2>1, <2>2, TailOf
      <4> QED BY <4>1
    <3>2. disk.wal[i].id > h.at
      BY <1>1, <1>5, <3>1 DEF StoreInv, ServerFollows
    <3>3. \A k \in disk.wal[i].touch \cup disk.wal[i].del : disk.wal[i].id <= moved[k]
      BY DEF StoreInv, FramesMove
    <3>4. fs[j] \in Frame
      OBVIOUS
    <3> QED BY <3>1, <3>2, <3>3, <3>4 DEF Frame
  <2>8. a.store_id = h.store_id /\ a.commit_seq = h.commit_seq + Len(fs)
        /\ (fs = <<>> => a.at = h.at) /\ (fs # <<>> => a.at = fs[Len(fs)].id)
    BY <2>3, Replayed
  <2>9. h.commit_seq <= a.commit_seq /\ h.at <= a.at
    <3>1. Len(fs) \in Nat /\ (fs # <<>> => Len(fs) \in 1..Len(fs))
      OBVIOUS
    <3> QED BY <2>1, <2>7, <2>8, <3>1
  <2>10. ASSUME NEW k \in Keys
         PROVE  \/ a.content[k] = h.content[k] /\ a.last_change[k] = h.last_change[k]
                \/ a.content[k] = Absent /\ a.last_change[k] = h.last_change[k] /\ h.at < moved[k]
                \/ h.commit_seq < a.last_change[k] /\ h.at < moved[k]
    <3>1. CASE \A j \in 1..Len(fs) : k \notin fs[j].touch \cup fs[j].del
      BY <2>3, <3>1, ReplayedNode
    <3>2. CASE \E j \in 1..Len(fs) : k \in fs[j].touch \cup fs[j].del
      <4>1. h.at < moved[k]
        <5>1. PICK j \in 1..Len(fs) : k \in fs[j].touch \cup fs[j].del
          BY <3>2
        <5>2. fs[j].id > h.at /\ fs[j].id \in Nat /\ fs[j].id <= moved[k] /\ moved[k] \in Nat
          BY <1>3, <2>7, <5>1
        <5> QED BY <2>1, <5>2
      <4>2. CASE \E j \in 1..Len(fs) : k \in fs[j].touch
        <5>1. a.last_change[k] > h.commit_seq
          BY <2>3, <4>2, ReplayedNode
        <5>2. a.last_change[k] \in Nat
          BY DEF Handle
        <5> QED BY <2>1, <4>1, <5>1, <5>2
      <4>3. CASE \A j \in 1..Len(fs) : k \notin fs[j].touch
        BY <2>3, <4>1, <4>3, ReplayedNode
      <4> QED BY <4>2, <4>3
    <3> QED BY <3>1, <3>2
  <2>11. Advances(h, g, moved)
    BY <2>5, <2>8, <2>9, <2>10 DEF Advances
  <2> QED BY <1>1, <1>2, <2>6, <2>11
<1> QED BY <1>4, <1>5

-----------------------------------------------------------------------------
(* The steps that change the store or a handle.                            *)

\* Every transaction that agreed with the server's handle does after the step.
Kept == \A s \in Tx : TxHolds(s, handle[Server], moved) => TxHolds(s, handle'[Server], moved')

LEMMA AdvanceKeeps ==
  ASSUME NEW h \in Handle, NEW g \in Handle, NEW mv \in [Keys -> Nat], NEW mw \in [Keys -> Nat],
         \A k \in Keys : mv[k] <= mw[k],
         Advances(h, g, mw) \/ g.store_id = h.store_id + 1
  PROVE  \A s \in Tx : TxHolds(s, h, mv) => TxHolds(s, g, mw)
<1> SUFFICES ASSUME NEW s \in Tx, TxHolds(s, h, mv) PROVE TxHolds(s, g, mw)
  OBVIOUS
<1>1. CASE Advances(h, g, mw)
  BY <1>1, AdvanceHolds
<1>2. CASE g.store_id = h.store_id + 1
  <2>1. s.base_store \in Nat /\ h.store_id \in Nat
    BY DEF Tx, Handle
  <2>2. s.phase # "none" => s.base_store <= h.store_id
    BY DEF TxHolds
  <2>3. s.phase # "none" => s.base_store <= g.store_id /\ s.base_store # g.store_id
    BY <1>2, <2>1, <2>2
  <2> QED BY <2>3 DEF TxHolds
<1> QED BY <1>1, <1>2

\* What a handle's position in the files is does not matter to its numbers.
LEMMA PositionOnly ==
  ASSUME NEW h, NEW g \in Handle, NEW f, NEW n, NEW mv,
         f.store_id = g.store_id, f.commit_seq = g.commit_seq, f.at = g.at, f.top = g.top,
         f.content = g.content, f.last_change = g.last_change
  PROVE  /\ Advances(h, g, mv) => Advances(h, f, mv)
         /\ Numbered(g, n) => Numbered(f, n)
         /\ Marked(g) => Marked(f)
<1>1. Advances(h, g, mv) => Advances(h, f, mv)
  BY DEF Advances
<1> QED BY <1>1 DEF Numbered, Marked

LEMMA StoredIs ==
  ASSUME StoreInv
  PROVE  Stored = ContentAfter(disk.content, disk.wal)
<1>1. PICK h \in Handle : h = handle[Server]
  BY DEF StoreInv, StoreTypeOK, Handles
<1>2. Start(h) \in Handle /\ disk.wal \in Seq(Frame) /\ Load(h) = ApplyFrames(Start(h), disk.wal)
  BY StartIsHandle
<1>3. Load(h).content = ContentAfter(Start(h).content, disk.wal)
  BY <1>2, ContentIs
<1> QED BY <1>1, <1>3 DEF Stored, Start

LEMMA StoredNext ==
  ASSUME disk' \in Disk, NEW h \in Handle, handle'[Server] = h
  PROVE  Stored' = ContentAfter(disk'.content, disk'.wal)
<1>1. PICK s : s = [content |-> disk'.content, last_change |-> disk'.last_change, top |-> disk'.top,
                    commit_seq |-> disk'.top, store_id |-> h.store_id + 1, at |-> disk'.at,
                    snap |-> disk'.snap, consumed |-> Len(disk'.wal)]
  OBVIOUS
<1>2. s \in Handle /\ s.content = disk'.content /\ disk'.wal \in Seq(Frame)
  <2>1. h.store_id + 1 \in Nat
    BY DEF Handle
  <2>2. disk'.wal \in Seq(Frame) /\ Len(disk'.wal) \in Nat
    BY DEF Disk
  <2> QED BY <1>1, <2>1, <2>2 DEF Disk, Handle
<1>3. Stored' = ApplyFrames(s, disk'.wal).content
  BY <1>1 DEF Stored, Load
<1> QED BY <1>2, <1>3, ContentIs

\* A handle that has consumed the whole WAL, and has the store's content, follows it.
LEMMA FollowsWhole ==
  ASSUME disk' \in Disk, NEW h \in Handle, handle'[Server] = h, h.snap = disk'.snap,
         h.consumed = Len(disk'.wal), h.content = ContentAfter(disk'.content, disk'.wal)
  PROVE  ServerFollows'
<1>1. disk'.wal \in Seq(Frame) /\ Len(disk'.wal) \in Nat /\ disk'.snap \in Nat
  BY DEF Disk
<1>2. PICK fs \in Seq(Frame) : fs = TailFrom(disk'.wal, h.consumed)
  BY <1>1, TailOf
<1>3. fs = <<>>
  <2>1. Len(fs) = Len(disk'.wal) - Len(disk'.wal)
    BY <1>1, <1>2, TailOf
  <2>2. Len(fs) = 0
    BY <1>1, <2>1
  <2> QED BY <2>2
<1>4. ApplyFrames(h, fs).content = h.content
  <2>1. h.content \in [Keys -> Nat]
    BY DEF Handle
  <2> QED BY <1>3, <2>1, ContentIs, ContentOfNone
<1>5. Ahead' = fs
  BY <1>2 DEF Ahead, TailFrom
<1>6. ApplyFrames(handle[Server], Ahead)' = ApplyFrames(h, fs)
  BY <1>5
<1>7. Stored' = ApplyFrames(handle[Server], Ahead)'.content
  BY <1>4, <1>6, StoredNext
<1>8. h.consumed <= Len(disk'.wal) /\ h.snap <= disk'.snap
      /\ \A j \in 1..Len(disk'.wal) : ~(j > h.consumed)
  BY <1>1
<1> QED BY <1>7, <1>8 DEF ServerFollows

\* A refresh at the server.
LEMMA RefreshKeeps ==
  ASSUME StoreInv, handle' = [handle EXCEPT ![Server] = Refreshed(handle[Server])],
         UNCHANGED <<disk, commits, moved>>
  PROVE  StoreInv' /\ Kept /\ (AllMarked => AllMarked')
<1>1. PICK h \in Handle : h = handle[Server]
  BY DEF StoreInv, StoreTypeOK, Handles
<1>2. Server \in Handles
  BY DEF Handles
<1>3. PICK g \in Handle : g = Refreshed(h)
  BY <1>1, <1>2, RefreshedHandle
<1>4. Numbered(g, commits) /\ g.snap = disk.snap /\ g.consumed = Len(disk.wal)
      /\ (Marked(disk) /\ Marked(h) => Marked(g))
  BY <1>1, <1>2, <1>3, RefreshedHandle
<1>5. g.content = Stored /\ (Advances(h, g, moved) \/ g.store_id = h.store_id + 1)
  BY <1>1, <1>3, RefreshedServer
<1>6. handle \in [Handles -> Handle] /\ handle'[Server] = g
      /\ \A p \in Handles : p # Server => handle'[p] = handle[p]
  BY <1>1, <1>2, <1>3 DEF StoreInv, StoreTypeOK
<1>7. StoreTypeOK'
  BY <1>1, <1>3, <1>6 DEF StoreInv, StoreTypeOK
<1>8. AllNumbered'
  <2>1. \A p \in Handles : Numbered(handle'[p], commits')
    BY <1>4, <1>6 DEF StoreInv, AllNumbered
  <2>2. DiskNumbered'
    BY DEF StoreInv, AllNumbered, DiskNumbered
  <2> QED BY <2>1, <2>2 DEF AllNumbered
<1>9. FramesMove'
  BY DEF StoreInv, FramesMove
<1>10. disk \in Disk /\ disk.snap \in Nat /\ disk.wal \in Seq(Frame) /\ Len(disk.wal) \in Nat
       /\ disk.content \in [Keys -> Nat]
  BY DEF StoreInv, StoreTypeOK, Disk
<1>12. ServerFollows'
  <2>1. g.content = ContentAfter(disk'.content, disk'.wal) /\ disk' \in Disk
    BY <1>5, <1>10, StoredIs
  <2> QED BY <1>4, <1>6, <2>1, FollowsWhole
<1>13. Kept
  <2>1. moved \in [Keys -> Nat] /\ \A k \in Keys : moved[k] <= moved[k]
    BY DEF StoreInv, StoreTypeOK
  <2>2. \A s \in Tx : TxHolds(s, h, moved) => TxHolds(s, g, moved)
    BY <1>5, <2>1, AdvanceKeeps
  <2> QED BY <1>1, <1>6, <2>2 DEF Kept
<1>14. AllMarked => AllMarked'
  <2> SUFFICES ASSUME AllMarked PROVE AllMarked'
    OBVIOUS
  <2>1. \A p \in Handles : Marked(handle'[p])
    BY <1>1, <1>2, <1>4, <1>6 DEF AllMarked
  <2>2. Marked(disk')
    BY DEF AllMarked
  <2> QED BY <2>1, <2>2 DEF AllMarked
<1> QED BY <1>7, <1>8, <1>9, <1>12, <1>13, <1>14 DEF StoreInv

\* A tail and one more frame.
LEMMA TailGrows ==
  ASSUME NEW w \in Seq(Frame), NEW c \in Nat, c <= Len(w), NEW f \in Frame
  PROVE  TailFrom(Append(w, f), c) = Append(TailFrom(w, c), f)
<1>1. PICK v : v = Append(w, f)
  OBVIOUS
<1>2. PICK n \in Nat : n = Len(w)
  OBVIOUS
<1>3. /\ v \in Seq(Frame) /\ Len(v) = n + 1 /\ v[n + 1] = f
      /\ \A i \in 1..n : v[i] = w[i]
  BY <1>1, <1>2, AppendProperties
<1>4. PICK t : t = TailFrom(w, c)
  OBVIOUS
<1>5. PICK u : u = TailFrom(v, c)
  OBVIOUS
<1>6. c <= n /\ c <= Len(v)
  BY <1>2, <1>3
<1>7. t \in Seq(Frame) /\ Len(t) = n - c /\ \A j \in 1..Len(t) : c + j \in 1..n /\ t[j] = w[c + j]
  BY <1>2, <1>4, <1>6, TailOf
<1>8. u \in Seq(Frame) /\ Len(u) = (n + 1) - c /\ \A j \in 1..Len(u) : u[j] = v[c + j]
  BY <1>3, <1>5, <1>6, TailOf
<1>9. PICK r : r = Append(t, f)
  OBVIOUS
<1>10. PICK m \in Nat : m = n - c
  BY <1>6
<1>11. /\ r \in Seq(Frame) /\ Len(r) = m + 1 /\ r[m + 1] = f
       /\ \A i \in 1..m : r[i] = t[i]
  BY <1>7, <1>9, <1>10, AppendProperties
<1>12. Len(u) = m + 1 /\ c + (m + 1) = n + 1
  BY <1>8, <1>10
<1>13. ASSUME NEW j \in 1..Len(u) PROVE u[j] = r[j]
  <2>1. CASE j = m + 1
    BY <2>1, <1>3, <1>8, <1>11, <1>12
  <2>2. CASE j # m + 1
    <3>1. j \in 1..m
      BY <2>2, <1>12
    <3>2. j \in 1..Len(t)
      BY <3>1, <1>7, <1>10
    <3>3. u[j] = v[c + j] /\ c + j \in 1..n /\ t[j] = w[c + j] /\ r[j] = t[j]
      BY <3>1, <3>2, <1>7, <1>8, <1>11
    <3> QED BY <3>3, <1>3
  <2> QED BY <2>1, <2>2
<1>14. Len(u) = Len(r)
  BY <1>11, <1>12
<1>15. u = r
  BY <1>8, <1>11, <1>13, <1>14, SeqEqual
<1> QED BY <1>1, <1>4, <1>5, <1>9, <1>15

\* What the WAL brings the disk's snapshot to, it still brings the handle to.
LEMMA FollowsGrows ==
  ASSUME NEW dc, NEW hc, NEW w \in Seq(Frame), NEW c \in Nat, c <= Len(w), NEW f \in Frame,
         ContentAfter(dc, w) = ContentAfter(hc, TailFrom(w, c))
  PROVE  /\ Append(w, f) \in Seq(Frame) /\ c <= Len(Append(w, f))
         /\ ContentAfter(dc, Append(w, f)) = ContentAfter(hc, TailFrom(Append(w, f), c))
<1>1. Append(w, f) \in Seq(Frame) /\ Len(Append(w, f)) = Len(w) + 1 /\ Len(w) \in Nat
  BY AppendProperties
<1>2. c <= Len(Append(w, f))
  BY <1>1
<1>3. TailFrom(Append(w, f), c) = Append(TailFrom(w, c), f)
  BY TailGrows
<1>4. TailFrom(w, c) \in Seq(Frame)
  BY TailOf
<1>5. ContentAfter(dc, Append(w, f)) = ContentWith(ContentAfter(dc, w), f)
  BY ContentOneMore
<1>6. ContentAfter(hc, Append(TailFrom(w, c), f)) = ContentWith(ContentAfter(hc, TailFrom(w, c)), f)
  BY <1>4, ContentOneMore
<1> QED BY <1>1, <1>2, <1>3, <1>5, <1>6

\* The frame of a live commit leaves the numbers in order and marks what it makes.
LEMMA FrameNumbered ==
  ASSUME NEW h \in Handle, NEW f \in Frame, NEW n \in Nat, Numbered(h, n), f.id = n + 1
  PROVE  /\ Numbered(ApplyFrame(h, f), n + 1)
         /\ Marked(h) => Marked(ApplyFrame(h, f))
         /\ ApplyFrame(h, f).content = ContentWith(h.content, f)
<1>1. /\ h.commit_seq \in Nat /\ h.at \in Nat /\ h.top \in Nat /\ h.content \in [Keys -> Nat]
      /\ h.last_change \in [Keys -> Nat]
  BY DEF Handle
<1>2. PICK seq \in Nat : seq = h.commit_seq + 1
  BY <1>1
<1>3. PICK g : g = ApplyFrame(h, f)
  OBVIOUS
<1>4. /\ g.commit_seq = seq /\ g.at = n + 1
      /\ g.content = [k \in Keys |-> IF k \in f.touch THEN f.id
                                     ELSE IF k \in f.del THEN Absent ELSE h.content[k]]
      /\ g.last_change = [k \in Keys |-> IF k \in f.touch THEN seq ELSE h.last_change[k]]
      /\ f.touch # {} => g.top = seq
      /\ f.touch = {} => g.top = h.top
  BY <1>2, <1>3 DEF ApplyFrame, Handle
<1>5. h.top <= h.commit_seq /\ \A k \in Keys : h.last_change[k] <= h.top
  BY DEF Numbered
<1>6. g.top <= g.commit_seq
  BY <1>1, <1>2, <1>4, <1>5
<1>7. ASSUME NEW k \in Keys PROVE g.last_change[k] <= g.top
  <2>1. h.last_change[k] <= h.top /\ h.last_change[k] \in Nat
    BY <1>1, <1>5
  <2>2. CASE k \in f.touch
    BY <2>2, <1>4
  <2>3. CASE k \notin f.touch
    BY <2>1, <2>3, <1>1, <1>2, <1>4, <1>5
  <2> QED BY <2>2, <2>3
<1>8. Numbered(g, n + 1)
  BY <1>4, <1>6, <1>7 DEF Numbered
<1>9. Marked(h) => Marked(g)
  <2> SUFFICES ASSUME Marked(h), NEW k \in Keys, g.content[k] # Absent PROVE g.last_change[k] >= 1
    BY DEF Marked
  <2>1. CASE k \in f.touch
    BY <2>1, <1>1, <1>2, <1>4
  <2>2. CASE k \notin f.touch
    BY <2>2, <1>4 DEF Marked
  <2> QED BY <2>1, <2>2
<1>10. g.content = ContentWith(h.content, f)
  BY <1>4 DEF ContentWith, Content
<1> QED BY <1>3, <1>8, <1>9, <1>10

\* The WAL of a commit: its frame, and a marker's.
Grown(w, v, f, m) == v = Append(w, f) \/ v = Append(Append(w, f), m)

LEMMA GrownWal ==
  ASSUME NEW w \in Seq(Frame), NEW f \in Frame, NEW m \in Frame, NEW v, Grown(w, v, f, m)
  PROVE  /\ v \in Seq(Frame) /\ Len(v) \in Nat /\ Len(w) \in Nat
         /\ \A j \in 1..Len(v) : (j \in 1..Len(w) /\ v[j] = w[j]) \/ v[j] = f \/ v[j] = m
<1>1. PICK u : u = Append(w, f)
  OBVIOUS
<1>2. /\ u \in Seq(Frame) /\ Len(w) \in Nat /\ Len(u) = Len(w) + 1 /\ u[Len(w) + 1] = f
      /\ \A i \in 1..Len(w) : u[i] = w[i]
  BY <1>1, AppendProperties
<1>3. \A j \in 1..Len(u) : (j \in 1..Len(w) /\ u[j] = w[j]) \/ u[j] = f
  <2> SUFFICES ASSUME NEW j \in 1..Len(u) PROVE (j \in 1..Len(w) /\ u[j] = w[j]) \/ u[j] = f
    OBVIOUS
  <2>1. j \in 1..Len(w) \/ j = Len(w) + 1
    BY <1>2
  <2> QED BY <1>2, <2>1
<1>4. Len(u) \in Nat
  BY <1>2
<1>5. CASE v = u
  BY <1>2, <1>3, <1>4, <1>5
<1>6. CASE v = Append(u, m)
  <2>1. /\ v \in Seq(Frame) /\ Len(v) = Len(u) + 1 /\ v[Len(u) + 1] = m
        /\ \A i \in 1..Len(u) : v[i] = u[i]
    BY <1>2, <1>6, AppendProperties
  <2>2. \A j \in 1..Len(v) : (j \in 1..Len(w) /\ v[j] = w[j]) \/ v[j] = f \/ v[j] = m
    <3> SUFFICES ASSUME NEW j \in 1..Len(v)
                 PROVE  (j \in 1..Len(w) /\ v[j] = w[j]) \/ v[j] = f \/ v[j] = m
      OBVIOUS
    <3>1. j \in 1..Len(u) \/ j = Len(u) + 1
      BY <1>4, <2>1
    <3> QED BY <1>3, <2>1, <3>1
  <2>3. Len(v) \in Nat
    BY <1>4, <2>1
  <2> QED BY <1>2, <2>1, <2>2, <2>3
<1> QED BY <1>1, <1>5, <1>6 DEF Grown

LEMMA GrownContent ==
  ASSUME NEW w \in Seq(Frame), NEW f \in Frame, NEW m \in Frame, m.touch = {}, m.del = {},
         NEW v, Grown(w, v, f, m), NEW c
  PROVE  ContentAfter(c, v) = ContentWith(ContentAfter(c, w), f)
<1>1. PICK u \in Seq(Frame) : u = Append(w, f)
  BY AppendProperties
<1>2. ContentAfter(c, u) = ContentWith(ContentAfter(c, w), f)
  BY <1>1, ContentOneMore
<1>3. CASE v = u
  BY <1>2, <1>3
<1>4. CASE v = Append(u, m)
  <2>1. ContentAfter(c, v) = ContentWith(ContentAfter(c, u), m)
    BY <1>4, ContentOneMore
  <2>2. ContentWith(ContentWith(ContentAfter(c, w), f), m) = ContentWith(ContentAfter(c, w), f)
    BY ContentWithMarker
  <2> QED BY <1>2, <2>1, <2>2
<1> QED BY <1>1, <1>3, <1>4 DEF Grown

LEMMA GrownFollows ==
  ASSUME NEW w \in Seq(Frame), NEW f \in Frame, NEW m \in Frame, NEW v, Grown(w, v, f, m),
         NEW dc, NEW hc, NEW c \in Nat, c <= Len(w),
         ContentAfter(dc, w) = ContentAfter(hc, TailFrom(w, c))
  PROVE  c <= Len(v) /\ ContentAfter(dc, v) = ContentAfter(hc, TailFrom(v, c))
<1>1. PICK u \in Seq(Frame) : u = Append(w, f)
  BY AppendProperties
<1>2. c <= Len(u) /\ ContentAfter(dc, u) = ContentAfter(hc, TailFrom(u, c))
  BY <1>1, FollowsGrows
<1>3. CASE v = u
  BY <1>2, <1>3
<1>4. CASE v = Append(u, m)
  BY <1>2, <1>4, FollowsGrows
<1> QED BY <1>1, <1>3, <1>4 DEF Grown

\* A commit, of a write or of a transaction.
LEMMA CommitKeeps ==
  ASSUME StoreInv, NEW p \in Handles, NEW touch \in SUBSET Keys, NEW del \in SUBSET Keys,
         NEW marker \in BOOLEAN, LogThenApply(p, Refreshed(handle[p]), touch, del, marker)
  PROVE  StoreInv' /\ Kept /\ (AllMarked => AllMarked')
<1>1. /\ disk \in Disk /\ handle \in [Handles -> Handle] /\ commits \in Nat
      /\ moved \in [Keys -> Nat]
  BY DEF StoreInv, StoreTypeOK
<1>2. PICK n \in Nat : n = commits + 1
  BY <1>1
<1>3. PICK f \in Frame : f = [id |-> n, touch |-> touch, del |-> del]
  BY DEF Frame
<1>4. PICK m \in Frame : m = [id |-> n, touch |-> {}, del |-> {}]
  BY DEF Frame
<1>5. /\ f.id = n /\ f.touch = touch /\ f.del = del /\ m.id = n /\ m.touch = {} /\ m.del = {}
  BY <1>3, <1>4
<1>6. PICK w \in Seq(Frame) : w = disk.wal
  BY <1>1 DEF Disk
<1>7. PICK v : v = w \o (IF marker THEN <<f, m>> ELSE <<f>>)
  OBVIOUS
<1>8. PICK g \in Handle : g = Refreshed(handle[p])
  BY RefreshedHandle
<1>9. Numbered(g, commits) /\ g.snap = disk.snap
      /\ (Marked(disk) /\ Marked(handle[p]) => Marked(g))
  BY <1>8, RefreshedHandle
<1>10. /\ commits' = n
       /\ disk' = [disk EXCEPT !.wal = v]
       /\ handle' = [handle EXCEPT ![p] = [ApplyFrame(g, f) EXCEPT !.consumed = Len(v)]]
       /\ moved' = [k \in Keys |-> IF k \in touch \cup del THEN n ELSE moved[k]]
  BY <1>2, <1>3, <1>4, <1>6, <1>7, <1>8 DEF LogThenApply
<1>11. Grown(w, v, f, m)
  <2>1. w \o <<f>> = Append(w, f)
    OBVIOUS
  <2>2. w \o <<f, m>> = Append(Append(w, f), m)
    OBVIOUS
  <2> QED BY <1>7, <2>1, <2>2 DEF Grown
<1>12. /\ v \in Seq(Frame) /\ Len(v) \in Nat /\ Len(w) \in Nat
       /\ \A j \in 1..Len(v) : (j \in 1..Len(w) /\ v[j] = w[j]) \/ v[j] = f \/ v[j] = m
  BY <1>11, GrownWal
<1>13. PICK mw \in [Keys -> Nat] : mw = moved'
  BY <1>1, <1>10
<1>14. \A k \in Keys : /\ k \in touch \cup del => mw[k] = n
                       /\ k \notin touch \cup del => mw[k] = moved[k]
  BY <1>10, <1>13
<1>15. \A k \in Keys : moved[k] \in Nat /\ moved[k] <= mw[k] /\ mw[k] <= n
  <2>1. \A k \in Keys : moved[k] \in Nat /\ moved[k] <= commits
    BY <1>1 DEF StoreInv, FramesMove
  <2> SUFFICES ASSUME NEW k \in Keys
               PROVE  moved[k] \in Nat /\ moved[k] <= mw[k] /\ mw[k] <= n
    OBVIOUS
  <2>2. PICK b \in Nat : b = moved[k]
    BY <2>1
  <2>3. b <= commits /\ (mw[k] = n \/ mw[k] = b)
    BY <1>14, <2>1, <2>2
  <2>4. b <= mw[k] /\ mw[k] <= n
    <3> HIDE <2>2
    <3> QED BY <1>1, <1>2, <2>3
  <2> QED BY <2>2, <2>4
<1>16. PICK a \in Handle : a = ApplyFrame(g, f)
  <2>1. g.at <= commits /\ g.at \in Nat
    BY <1>9 DEF Numbered, Handle
  <2>2. g.at < f.id
    BY <1>1, <1>2, <1>5, <2>1
  <2>3. \A k \in f.touch \cup f.del : mw[k] = f.id
    BY <1>5, <1>14
  <2> QED BY <2>2, <2>3, FrameAdvances
<1>17. a.snap = g.snap /\ Advances(g, a, mw)
  <2>1. g.at <= commits /\ g.at \in Nat
    BY <1>9 DEF Numbered, Handle
  <2>2. g.at < f.id
    BY <1>1, <1>2, <1>5, <2>1
  <2>3. \A k \in f.touch \cup f.del : mw[k] = f.id
    BY <1>5, <1>14
  <2> QED BY <1>16, <2>2, <2>3, FrameAdvances
<1>18. Numbered(a, n) /\ (Marked(g) => Marked(a)) /\ a.content = ContentWith(g.content, f)
  <2>1. Numbered(a, commits + 1) /\ (Marked(g) => Marked(a)) /\ a.content = ContentWith(g.content, f)
    <3>1. f.id = commits + 1
      BY <1>2, <1>5
    <3> QED BY <1>1, <1>9, <1>16, <3>1, FrameNumbered
  <2> QED BY <1>2, <2>1
<1>19. PICK b : b = [a EXCEPT !.consumed = Len(v)]
  OBVIOUS
<1>20. /\ b \in Handle /\ b.consumed = Len(v) /\ b.snap = a.snap
       /\ b.store_id = a.store_id /\ b.commit_seq = a.commit_seq /\ b.at = a.at /\ b.top = a.top
       /\ b.content = a.content /\ b.last_change = a.last_change
  BY <1>12, <1>19 DEF Handle
<1>21. /\ Advances(g, b, mw) /\ Numbered(b, n) /\ (Marked(a) => Marked(b))
  BY <1>17, <1>18, <1>20, PositionOnly
<1>22. handle'[p] = b /\ \A q \in Handles : q # p => handle'[q] = handle[q]
  BY <1>1, <1>10, <1>16, <1>19
<1>23. /\ disk' \in Disk /\ disk'.wal = v /\ disk'.snap = disk.snap /\ disk'.content = disk.content
       /\ disk'.last_change = disk.last_change /\ disk'.top = disk.top /\ disk'.at = disk.at
  BY <1>1, <1>10, <1>12 DEF Disk
<1>24. StoreTypeOK'
  <2>1. handle' \in [Handles -> Handle]
    BY <1>1, <1>10, <1>16, <1>19, <1>20
  <2> QED BY <2>1, <1>10, <1>13, <1>23 DEF StoreTypeOK
<1>25. AllNumbered'
  <2>1. ASSUME NEW q \in Handles PROVE Numbered(handle'[q], n)
    <3>1. CASE q = p
      BY <3>1, <1>21, <1>22
    <3>2. CASE q # p
      <4>1. PICK x \in Handle : x = handle[q]
        BY <1>1
      <4>2. Numbered(x, commits) /\ x.at \in Nat
        BY <4>1 DEF StoreInv, AllNumbered, Handle
      <4>3. x.at <= n
        BY <1>1, <1>2, <4>2 DEF Numbered
      <4>4. Numbered(x, n)
        BY <4>2, <4>3 DEF Numbered
      <4> QED BY <3>2, <4>1, <4>4, <1>22
    <3> QED BY <3>1, <3>2
  <2>2. DiskNumbered'
    <3>1. disk.at <= commits /\ \A k \in Keys : disk.last_change[k] <= disk.top
      BY DEF StoreInv, AllNumbered, DiskNumbered
    <3>2. disk.at \in Nat
      BY <1>1 DEF Disk
    <3>3. disk.at <= n
      BY <1>1, <1>2, <3>1, <3>2
    <3> QED BY <1>10, <1>23, <3>1, <3>3 DEF DiskNumbered
  <2> QED BY <1>10, <2>1, <2>2 DEF AllNumbered
<1>26. FramesMove'
  <2>1. ASSUME NEW j \in 1..Len(v)
        PROVE  v[j].id <= n /\ \A k \in v[j].touch \cup v[j].del : v[j].id <= mw[k]
    <3>1. CASE j \in 1..Len(w) /\ v[j] = w[j]
      <4>1. w[j].id <= commits /\ (\A k \in w[j].touch \cup w[j].del : w[j].id <= moved[k])
        BY <1>6, <3>1 DEF StoreInv, FramesMove
      <4>2. w[j] \in Frame
        BY <3>1
      <4>3. w[j].id \in Nat /\ w[j].touch \cup w[j].del \subseteq Keys
        BY <4>2 DEF Frame
      <4>4. w[j].id <= n
        BY <1>1, <1>2, <4>1, <4>3
      <4>5. ASSUME NEW k \in w[j].touch \cup w[j].del PROVE w[j].id <= mw[k]
        <5>1. moved[k] \in Nat /\ moved[k] <= mw[k] /\ w[j].id <= moved[k] /\ mw[k] \in Nat
          BY <1>15, <4>1, <4>3
        <5> QED BY <4>3, <5>1
      <4> QED BY <3>1, <4>4, <4>5
    <3>2. CASE v[j] = f
      BY <3>2, <1>5, <1>14
    <3>3. CASE v[j] = m
      BY <3>3, <1>5
    <3> QED BY <1>12, <3>1, <3>2, <3>3
  <2> QED BY <1>10, <1>13, <1>15, <1>23, <2>1 DEF FramesMove
<1>27. AllMarked => AllMarked'
  <2> SUFFICES ASSUME AllMarked PROVE AllMarked'
    OBVIOUS
  <2>1. Marked(disk')
    BY <1>23 DEF AllMarked, Marked
  <2>2. Marked(b)
    BY <1>9, <1>18, <1>21 DEF AllMarked
  <2>3. \A q \in Handles : Marked(handle'[q])
    BY <1>22, <2>2 DEF AllMarked
  <2> QED BY <2>1, <2>3 DEF AllMarked
<1>28. CASE p = Server
  <2>1. g.content = ContentAfter(disk.content, w)
    BY <1>6, <1>8, <1>28, RefreshedServer, StoredIs
  <2>2. ContentAfter(disk.content, v) = ContentWith(ContentAfter(disk.content, w), f)
    BY <1>5, <1>11, GrownContent
  <2>3. b.content = ContentAfter(disk'.content, disk'.wal)
    BY <1>18, <1>20, <1>23, <2>1, <2>2
  <2>4. handle'[Server] = b /\ b.snap = disk'.snap /\ b.consumed = Len(disk'.wal)
    BY <1>9, <1>17, <1>20, <1>22, <1>23, <1>28
  <2>5. ServerFollows'
    BY <1>20, <1>23, <2>3, <2>4, FollowsWhole
  <2>6. PICK h \in Handle : h = handle[Server]
    BY <1>1, <1>28
  <2>7. Advances(h, g, moved) \/ g.store_id = h.store_id + 1
    BY <1>8, <1>28, <2>6, RefreshedServer
  <2>8. Advances(h, b, mw) \/ b.store_id = h.store_id + 1
    <3>1. CASE Advances(h, g, moved)
      BY <3>1, <1>1, <1>15, <1>20, <1>21, AdvanceTwice
    <3>2. CASE g.store_id = h.store_id + 1
      BY <3>2, <1>21 DEF Advances
    <3> QED BY <2>7, <3>1, <3>2
  <2>9. \A s \in Tx : TxHolds(s, h, moved) => TxHolds(s, b, mw)
    BY <1>1, <1>15, <1>20, <2>8, AdvanceKeeps
  <2>10. Kept
    BY <1>13, <2>4, <2>6, <2>9 DEF Kept
  <2> QED BY <1>24, <1>25, <1>26, <1>27, <2>5, <2>10 DEF StoreInv
<1>29. CASE p # Server
  <2>1. Server \in Handles
    BY DEF Handles
  <2>2. PICK h \in Handle : h = handle[Server]
    BY <1>1, <2>1
  <2>3. handle'[Server] = h
    BY <1>22, <1>29, <2>1, <2>2
  <2>4. h.snap <= disk'.snap
    BY <1>23, <2>2 DEF StoreInv, ServerFollows
  <2>5. ASSUME h.snap = disk.snap
        PROVE  /\ h.consumed <= Len(v)
               /\ \A j \in 1..Len(v) : j > h.consumed => v[j].id > h.at
               /\ Stored' = ApplyFrames(h, TailFrom(v, h.consumed)).content
    <3>1. /\ h.consumed <= Len(w)
          /\ \A j \in 1..Len(w) : j > h.consumed => w[j].id > h.at
          /\ Stored = ApplyFrames(h, TailFrom(w, h.consumed)).content
      BY <1>6, <2>2, <2>5 DEF StoreInv, ServerFollows, Ahead, TailFrom
    <3>2. h.consumed \in Nat /\ h.at \in Nat /\ h.at <= commits
      BY <2>1, <2>2 DEF StoreInv, AllNumbered, Numbered, Handle
    <3>3. h.at < n
      BY <1>1, <1>2, <3>2
    <3>4. \A j \in 1..Len(v) : j > h.consumed => v[j].id > h.at
      <4> SUFFICES ASSUME NEW j \in 1..Len(v), j > h.consumed PROVE v[j].id > h.at
        OBVIOUS
      <4>1. CASE j \in 1..Len(w) /\ v[j] = w[j]
        BY <3>1, <4>1
      <4>2. CASE v[j] = f \/ v[j] = m
        BY <1>5, <3>2, <3>3, <4>2
      <4> QED BY <1>12, <4>1, <4>2
    <3>5. TailFrom(w, h.consumed) \in Seq(Frame) /\ TailFrom(v, h.consumed) \in Seq(Frame)
      BY <1>12, <3>2, TailOf
    <3>6. ContentAfter(disk.content, w) = ContentAfter(h.content, TailFrom(w, h.consumed))
      <4>1. Stored = ContentAfter(disk.content, w)
        BY <1>6, StoredIs
      <4>2. ApplyFrames(h, TailFrom(w, h.consumed)).content
              = ContentAfter(h.content, TailFrom(w, h.consumed))
        BY <3>5, ContentIs
      <4> QED BY <3>1, <4>1, <4>2
    <3>7. /\ h.consumed <= Len(v)
          /\ ContentAfter(disk.content, v) = ContentAfter(h.content, TailFrom(v, h.consumed))
      BY <1>11, <3>1, <3>2, <3>6, GrownFollows
    <3>8. Stored' = ContentAfter(disk.content, v)
      BY <1>23, <2>3, StoredNext
    <3>9. ApplyFrames(h, TailFrom(v, h.consumed)).content
            = ContentAfter(h.content, TailFrom(v, h.consumed))
      BY <3>5, ContentIs
    <3> QED BY <3>4, <3>7, <3>8, <3>9
  <2>6. ServerFollows'
    <3>1. Ahead' = TailFrom(v, h.consumed)
      BY <1>23, <2>3 DEF Ahead, TailFrom
    <3>2. ApplyFrames(handle[Server], Ahead)' = ApplyFrames(h, TailFrom(v, h.consumed))
      BY <2>3, <3>1
    <3>3. h.snap = disk'.snap =>
            /\ h.consumed <= Len(disk'.wal)
            /\ \A j \in 1..Len(disk'.wal) : j > h.consumed => disk'.wal[j].id > h.at
            /\ Stored' = ApplyFrames(handle[Server], Ahead)'.content
      BY <1>23, <2>5, <3>2
    <3> QED BY <2>3, <2>4, <3>3 DEF ServerFollows
  <2>7. Advances(h, h, mw)
    <3>1. h.commit_seq \in Nat /\ h.at \in Nat
      BY DEF Handle
    <3> QED BY <3>1 DEF Advances
  <2>8. \A s \in Tx : TxHolds(s, h, moved) => TxHolds(s, h, mw)
    BY <1>1, <1>15, <2>7, AdvanceKeeps
  <2>9. Kept
    BY <1>13, <2>2, <2>3, <2>8 DEF Kept
  <2> QED BY <1>24, <1>25, <1>26, <1>27, <2>6, <2>9 DEF StoreInv
<1> QED BY <1>28, <1>29

\* A snapshot, by either process.
LEMMA SnapshotKeeps ==
  ASSUME StoreInv, NEW p \in Handles, Snapshot(p)
  PROVE  StoreInv' /\ Kept /\ (AllMarked => AllMarked')
<1>1. /\ disk \in Disk /\ handle \in [Handles -> Handle] /\ commits \in Nat
      /\ moved \in [Keys -> Nat]
  BY DEF StoreInv, StoreTypeOK
<1>2. PICK g \in Handle : g = Refreshed(handle[p])
  BY RefreshedHandle
<1>3. Numbered(g, commits) /\ (Marked(disk) /\ Marked(handle[p]) => Marked(g))
  BY <1>2, RefreshedHandle
<1>4. PICK n \in Nat : n = disk.snap + 1
  BY <1>1 DEF Disk
<1>5. PICK b : b = [g EXCEPT !.snap = n, !.consumed = 0]
  OBVIOUS
<1>6. /\ b \in Handle /\ b.consumed = 0 /\ b.snap = n
      /\ b.store_id = g.store_id /\ b.commit_seq = g.commit_seq /\ b.at = g.at /\ b.top = g.top
      /\ b.content = g.content /\ b.last_change = g.last_change
  BY <1>5 DEF Handle
<1>7. Numbered(b, commits) /\ (Marked(g) => Marked(b))
  BY <1>3, <1>6, PositionOnly
<1>8. /\ disk' = [snap |-> n, content |-> g.content, last_change |-> g.last_change,
                  top |-> g.top, at |-> g.at, wal |-> <<>>]
      /\ handle' = [handle EXCEPT ![p] = b]
      /\ commits' = commits /\ moved' = moved
  BY <1>2, <1>4, <1>5 DEF Snapshot
<1>9. handle'[p] = b /\ \A q \in Handles : q # p => handle'[q] = handle[q]
  BY <1>1, <1>8
<1>10. /\ disk' \in Disk /\ disk'.snap = n /\ disk'.content = g.content /\ disk'.wal = <<>>
       /\ disk'.last_change = g.last_change /\ disk'.top = g.top /\ disk'.at = g.at
  <2>1. <<>> \in Seq(Frame)
    OBVIOUS
  <2> QED BY <1>8, <2>1 DEF Disk, Handle
<1>11. StoreTypeOK'
  <2>1. handle' \in [Handles -> Handle]
    BY <1>1, <1>6, <1>8
  <2> QED BY <2>1, <1>1, <1>8, <1>10 DEF StoreTypeOK
<1>12. AllNumbered'
  <2>1. \A q \in Handles : Numbered(handle'[q], commits)
    BY <1>7, <1>9 DEF StoreInv, AllNumbered
  <2>2. DiskNumbered'
    BY <1>3, <1>8, <1>10 DEF DiskNumbered, Numbered
  <2> QED BY <1>8, <2>1, <2>2 DEF AllNumbered
<1>13. FramesMove'
  <2>1. Len(disk'.wal) = 0
    BY <1>10
  <2> QED BY <1>8, <2>1 DEF StoreInv, FramesMove
<1>14. AllMarked => AllMarked'
  <2> SUFFICES ASSUME AllMarked PROVE AllMarked'
    OBVIOUS
  <2>1. Marked(g) /\ Marked(b)
    BY <1>3, <1>7 DEF AllMarked
  <2>2. Marked(disk')
    BY <1>10, <2>1 DEF Marked
  <2>3. \A q \in Handles : Marked(handle'[q])
    BY <1>9, <2>1 DEF AllMarked
  <2> QED BY <2>2, <2>3 DEF AllMarked
<1>15. \A k \in Keys : moved[k] <= moved[k]
  BY <1>1
<1>16. CASE p = Server
  <2>1. handle'[Server] = b /\ b.snap = disk'.snap
    BY <1>6, <1>9, <1>10, <1>16
  <2>2. b.consumed = Len(disk'.wal)
    BY <1>6, <1>10
  <2>3. b.content = ContentAfter(disk'.content, disk'.wal)
    <3>1. g.content \in [Keys -> Nat]
      BY DEF Handle
    <3>2. ContentAfter(g.content, disk'.wal) = g.content
      BY <1>10, <3>1, ContentOfNone
    <3> QED BY <1>6, <1>10, <3>2
  <2>4. ServerFollows'
    BY <1>6, <1>10, <2>1, <2>2, <2>3, FollowsWhole
  <2>5. PICK h \in Handle : h = handle[Server]
    BY <1>1, <1>16
  <2>6. Advances(h, g, moved) \/ g.store_id = h.store_id + 1
    BY <1>2, <1>16, <2>5, RefreshedServer
  <2>7. Advances(h, b, moved) \/ b.store_id = h.store_id + 1
    BY <1>6, <2>6, PositionOnly
  <2>8. \A s \in Tx : TxHolds(s, h, moved) => TxHolds(s, b, moved)
    BY <1>1, <1>6, <1>15, <2>7, AdvanceKeeps
  <2>9. Kept
    BY <1>8, <2>1, <2>5, <2>8 DEF Kept
  <2> QED BY <1>11, <1>12, <1>13, <1>14, <2>4, <2>9 DEF StoreInv
<1>17. CASE p # Server
  <2>1. handle'[Server] = handle[Server]
    BY <1>9, <1>17 DEF Handles
  <2>2. handle[Server].snap <= disk.snap /\ handle[Server].snap \in Nat /\ disk.snap \in Nat
    BY <1>1 DEF StoreInv, ServerFollows, Handle, Disk, Handles
  <2>3. handle[Server].snap <= n /\ handle[Server].snap # n
    BY <1>4, <2>2
  <2>4. ServerFollows'
    BY <1>10, <2>1, <2>3 DEF ServerFollows
  <2>5. Kept
    BY <1>8, <2>1 DEF Kept
  <2> QED BY <1>11, <1>12, <1>13, <1>14, <2>4, <2>5 DEF StoreInv
<1> QED BY <1>16, <1>17

-----------------------------------------------------------------------------
(* The transactions' own steps.                                            *)

\* What a record of a transaction agrees on does not depend on its buffer, nor on how it
\* ended.
LEMMA BufferOnly ==
  ASSUME NEW s, NEW r, NEW h, NEW mv, TxHolds(s, h, mv), s.phase # "none",
         r.base = s.base, r.base_version = s.base_version, r.base_store = s.base_store,
         r.at = s.at, r.keys = s.keys
  PROVE  TxHolds(r, h, mv) /\ (Recording(s) => Recording(r))
<1>1. s.base_store <= h.store_id /\ (s.base_store = h.store_id => OfOneNumbering(s, h, mv))
  BY DEF TxHolds
<1>2. OfOneNumbering(s, h, mv) => OfOneNumbering(r, h, mv)
  BY DEF OfOneNumbering
<1>3. Recording(s) => Recording(r)
  BY DEF Recording
<1> QED BY <1>1, <1>2, <1>3 DEF TxHolds

\* The number that is recorded for a key is one, and tells what the base had.
LEMMA BaseNumber ==
  ASSUME TxInv, NEW t \in Txs, tx[t].phase # "none", NEW k \in Keys
  PROVE  LET n == TxBaseLastChange(t, k) s == tx[t] h == handle[Server] IN
         /\ n \in Int
         /\ s.base_store = h.store_id /\ moved[k] <= s.at => n = LastChanged(h, k)
         /\ Marked(h) => \/ n = TX_CHANGED_SINCE_BEGIN
                         \/ n = Unmarked /\ s.base[k] = Absent
                         \/ n >= 1 /\ n <= s.base_version /\ s.base[k] # Absent
<1>1. PICK h \in Handle : h = handle[Server]
  BY DEF TxInv, StoreInv, StoreTypeOK, Handles
<1>2. PICK s \in Tx : s = tx[t]
  BY DEF TxInv, TxTypeOK
<1>3. PICK n : n = TxBaseLastChange(t, k)
  OBVIOUS
<1>4. /\ h.content[k] \in Nat /\ h.last_change[k] \in Nat /\ s.base[k] \in Nat
      /\ s.base_version \in Nat
  BY DEF Handle, Tx
<1>5. /\ h.store_id # s.base_store => n = TX_CHANGED_SINCE_BEGIN
      /\ h.store_id = s.base_store =>
           /\ h.content[k] = Absent /\ s.base[k] = Absent => n = Unmarked
           /\ (h.content[k] = Absent) # (s.base[k] = Absent) => n = TX_CHANGED_SINCE_BEGIN
           /\ h.content[k] # Absent /\ s.base[k] # Absent =>
                /\ h.last_change[k] > s.base_version => n = TX_CHANGED_SINCE_BEGIN
                /\ ~(h.last_change[k] > s.base_version) => n = h.last_change[k]
  BY <1>1, <1>2, <1>3 DEF TxBaseLastChange
<1>6. n \in Int
  BY <1>4, <1>5 DEF TX_CHANGED_SINCE_BEGIN, Unmarked
<1>7. ASSUME s.base_store = h.store_id, moved[k] <= s.at PROVE n = LastChanged(h, k)
  <2>1. OfOneNumbering(s, h, moved)
    BY <1>1, <1>2, <1>7 DEF TxInv, TxsHold, TxHolds
  <2>2. h.content[k] = s.base[k] /\ h.last_change[k] <= s.base_version
    BY <1>7, <2>1 DEF OfOneNumbering
  <2>3. ~(h.last_change[k] > s.base_version)
    BY <1>4, <2>2
  <2> QED BY <1>5, <1>7, <2>2, <2>3 DEF LastChanged
<1>8. ASSUME Marked(h)
      PROVE  \/ n = TX_CHANGED_SINCE_BEGIN
             \/ n = Unmarked /\ s.base[k] = Absent
             \/ n >= 1 /\ n <= s.base_version /\ s.base[k] # Absent
  <2>1. h.content[k] # Absent => h.last_change[k] >= 1
    BY <1>8 DEF Marked
  <2>2. ~(h.last_change[k] > s.base_version) => h.last_change[k] <= s.base_version
    BY <1>4
  <2> QED BY <1>5, <2>1, <2>2
<1> QED BY <1>1, <1>2, <1>3, <1>6, <1>7, <1>8

\* A statement records keys.
LEMMA RecordedHolds ==
  ASSUME TxInv, NEW t \in Txs, tx[t].phase = "open", NEW ks \in SUBSET Keys,
         NEW r, r.base = tx[t].base, r.base_version = tx[t].base_version,
         r.base_store = tx[t].base_store, r.at = tx[t].at, r.keys = Recorded(t, ks)
  PROVE  /\ r.keys \in Recordings
         /\ TxHolds(r, handle[Server], moved)
         /\ MarkedInv => Recording(r)
<1>1. PICK h \in Handle : h = handle[Server]
  BY DEF TxInv, StoreInv, StoreTypeOK, Handles
<1>2. PICK s \in Tx : s = tx[t]
  BY DEF TxInv, TxTypeOK
<1>3. s.keys \in Recordings /\ DOMAIN s.keys \subseteq Keys
  BY DEF Tx, Recordings
<1>4. \A k \in DOMAIN s.keys : s.keys[k] \in Int
  BY <1>3 DEF Recordings
<1>5. /\ DOMAIN r.keys = DOMAIN s.keys \cup ks
      /\ \A k \in DOMAIN s.keys : r.keys[k] = s.keys[k]
      /\ \A k \in ks : k \notin DOMAIN s.keys => r.keys[k] = TxBaseLastChange(t, k)
  BY <1>2 DEF Recorded
<1>6. \A k \in Keys : TxBaseLastChange(t, k) \in Int
  BY BaseNumber
<1>7. r.keys \in Recordings
  <2>1. r.keys \in [DOMAIN s.keys \cup ks -> Int]
    BY <1>2, <1>4, <1>6 DEF Recorded
  <2>2. DOMAIN s.keys \cup ks \in SUBSET Keys
    BY <1>3
  <2> QED BY <2>1, <2>2 DEF Recordings
<1>8. TxHolds(s, h, moved) /\ s.phase # "none"
  BY <1>1, <1>2 DEF TxInv, TxsHold
<1>9. s.base_store <= h.store_id /\ (s.base_store = h.store_id => OfOneNumbering(s, h, moved))
  BY <1>8 DEF TxHolds
<1>10. ASSUME s.base_store = h.store_id PROVE OfOneNumbering(r, h, moved)
  <2>1. OfOneNumbering(s, h, moved)
    BY <1>9, <1>10
  <2>2. \A k \in DOMAIN r.keys : moved[k] <= r.at => r.keys[k] = LastChanged(h, k)
    <3> SUFFICES ASSUME NEW k \in DOMAIN r.keys, moved[k] <= s.at PROVE r.keys[k] = LastChanged(h, k)
      BY <1>2
    <3>1. CASE k \in DOMAIN s.keys
      BY <1>5, <2>1, <3>1 DEF OfOneNumbering
    <3>2. CASE k \notin DOMAIN s.keys
      <4>1. k \in ks /\ k \in Keys
        BY <1>5, <3>2
      <4>2. TxBaseLastChange(t, k) = LastChanged(h, k)
        BY <1>1, <1>2, <1>8, <1>10, <4>1, BaseNumber
      <4> QED BY <1>5, <3>2, <4>1, <4>2
    <3> QED BY <3>1, <3>2
  <2>3. s.base_version <= h.commit_seq /\ s.at <= h.at
    BY <2>1 DEF OfOneNumbering
  <2>4. \A k \in Keys : h.last_change[k] <= s.base_version =>
                          h.content[k] = s.base[k] \/ h.content[k] = Absent
    BY <2>1 DEF OfOneNumbering
  <2>5. \A k \in Keys : moved[k] <= s.at =>
                          h.content[k] = s.base[k] /\ h.last_change[k] <= s.base_version
    BY <2>1 DEF OfOneNumbering
  <2> QED BY <1>2, <2>2, <2>3, <2>4, <2>5 DEF OfOneNumbering
<1>11. TxHolds(r, h, moved)
  BY <1>2, <1>9, <1>10 DEF TxHolds
<1>12. ASSUME MarkedInv PROVE Recording(r)
  <2>1. Marked(h) /\ Recording(s)
    BY <1>1, <1>2, <1>12 DEF MarkedInv, AllMarked, AllRecorded, Handles
  <2> SUFFICES ASSUME NEW k \in DOMAIN r.keys
               PROVE  \/ r.keys[k] = TX_CHANGED_SINCE_BEGIN
                      \/ r.keys[k] = Unmarked /\ s.base[k] = Absent
                      \/ r.keys[k] >= 1 /\ r.keys[k] <= s.base_version /\ s.base[k] # Absent
    BY <1>2 DEF Recording
  <2>2. CASE k \in DOMAIN s.keys
    BY <1>5, <2>1, <2>2 DEF Recording
  <2>3. CASE k \notin DOMAIN s.keys
    <3>1. k \in ks /\ k \in Keys /\ r.keys[k] = TxBaseLastChange(t, k)
      BY <1>5, <2>3
    <3> QED BY <1>1, <1>2, <1>8, <2>1, <3>1, BaseNumber
  <2> QED BY <2>2, <2>3
<1> QED BY <1>1, <1>7, <1>11, <1>12

-----------------------------------------------------------------------------
(* The invariant.                                                          *)

LEMMA TxInit ==
  ASSUME Init
  PROVE  TxInv /\ (Legacy = {} => MarkedInv)
<1> DEFINE born == [k \in Keys |-> IF k \in Legacy THEN 1 ELSE Absent]
<1> DEFINE first == IF Legacy = {} THEN 0 ELSE 1
<1> DEFINE zero == [k \in Keys |-> Unmarked]
<1>1. PICK h : h = [content |-> born, last_change |-> zero, top |-> 0, commit_seq |-> 0,
                    store_id |-> 0, at |-> first, snap |-> 0, consumed |-> 0]
  OBVIOUS
<1>2. /\ disk = [snap |-> 0, content |-> born, last_change |-> zero, top |-> 0, at |-> first,
                 wal |-> <<>>]
      /\ handle = [p \in Handles |-> h] /\ commits = first
      /\ tx = [t \in Txs |-> NoTx] /\ moved = [k \in Keys |-> 0]
  BY <1>1 DEF Init
<1>3. born \in [Keys -> Nat] /\ zero \in [Keys -> Nat] /\ first \in Nat
      /\ (Legacy = {} => \A k \in Keys : born[k] = Absent) /\ (\A k \in Keys : zero[k] = 0)
  BY DEF Absent, Unmarked
<1> HIDE DEF born, first, zero
<1>4. h \in Handle
  BY <1>1, <1>3 DEF Handle
<1>5. <<>> \in Seq(Frame) /\ Len(<<>>) = 0
  OBVIOUS
<1>6. /\ disk \in Disk /\ disk.wal = <<>> /\ disk.content = born /\ disk.last_change = zero
      /\ disk.top = 0 /\ disk.at = first /\ disk.snap = 0
  BY <1>2, <1>3, <1>5 DEF Disk
<1>7. StoreTypeOK
  BY <1>2, <1>3, <1>4, <1>6 DEF StoreTypeOK
<1>8. handle[Server] = h /\ \A p \in Handles : handle[p] = h
  BY <1>2 DEF Handles
<1>9. AllNumbered
  <2>1. Numbered(h, first)
    BY <1>1, <1>3 DEF Numbered
  <2>2. DiskNumbered
    BY <1>2, <1>3, <1>6 DEF DiskNumbered
  <2> QED BY <1>2, <1>8, <2>1, <2>2 DEF AllNumbered
<1>10. FramesMove
  BY <1>2, <1>3, <1>5, <1>6 DEF FramesMove
<1>11. ServerFollows
  <2>1. h.snap = 0 /\ h.consumed = 0 /\ h.content = born
    BY <1>1
  <2>2. PICK fs \in Seq(Frame) : fs = TailFrom(disk.wal, h.consumed)
    BY <1>5, <1>6, <2>1, TailOf
  <2>3. fs = <<>>
    <3>1. Len(disk.wal) = 0 /\ disk.wal \in Seq(Frame)
      BY <1>5, <1>6
    <3>2. PICK w \in Seq(Frame) : w = disk.wal /\ Len(w) = 0
      BY <3>1
    <3>3. 0 \in Nat /\ 0 <= Len(w) /\ fs = TailFrom(w, 0)
      BY <2>1, <2>2, <3>2
    <3>4. Len(fs) = Len(w) - 0
      BY <3>3, TailOf
    <3> QED BY <3>2, <3>4
  <2>4. ApplyFrames(h, fs).content = born
    BY <1>3, <1>4, <2>1, <2>3, ContentIs, ContentOfNone
  <2>5. Stored = born
    <3>1. PICK s : s = [content |-> disk.content, last_change |-> disk.last_change, top |-> disk.top,
                        commit_seq |-> disk.top, store_id |-> h.store_id + 1, at |-> disk.at,
                        snap |-> disk.snap, consumed |-> Len(disk.wal)]
      OBVIOUS
    <3>2. h.store_id + 1 \in Nat /\ Len(disk.wal) \in Nat
      BY <1>4, <1>5, <1>6 DEF Handle
    <3>3. s \in Handle /\ s.content = born
      BY <1>3, <1>6, <3>1, <3>2 DEF Handle, Disk
    <3>4. Stored = ApplyFrames(s, disk.wal).content
      BY <1>8, <3>1 DEF Stored, Load
    <3> QED BY <1>3, <1>5, <1>6, <3>3, <3>4, ContentIs, ContentOfNone
  <2>6. Ahead = fs
    BY <1>8, <2>2 DEF Ahead, TailFrom
  <2>7. 0 <= Len(disk.wal) /\ \A j \in 1..Len(disk.wal) : FALSE
    BY <1>5, <1>6
  <2> QED BY <1>6, <1>8, <2>1, <2>4, <2>5, <2>6, <2>7 DEF ServerFollows
<1>12. TxTypeOK
  <2>1. <<>> \in [{} -> Int]
    OBVIOUS
  <2>2. <<>> \in Recordings
    BY <2>1 DEF Recordings
  <2>3. NoTx \in Tx
    BY <2>2 DEF NoTx, Tx, Absent
  <2> QED BY <1>2, <2>3 DEF TxTypeOK
<1>13. TxsHold
  BY <1>2 DEF TxsHold, TxHolds, NoTx
<1>14. AllRecorded
  <2>1. NoTx.keys = <<>> /\ DOMAIN <<>> = {}
    BY DEF NoTx
  <2>2. Recording(NoTx)
    BY <2>1 DEF Recording
  <2> QED BY <1>2, <2>2 DEF AllRecorded
<1>15. Legacy = {} => AllMarked
  <2> SUFFICES ASSUME Legacy = {} PROVE AllMarked
    OBVIOUS
  <2>1. \A k \in Keys : born[k] = Absent
    BY <1>3
  <2>2. Marked(disk) /\ Marked(h)
    BY <1>1, <1>6, <2>1 DEF Marked
  <2> QED BY <1>8, <2>2 DEF AllMarked
<1> QED BY <1>7, <1>9, <1>10, <1>11, <1>12, <1>13, <1>14, <1>15 DEF TxInv, StoreInv, MarkedInv

\* The store changes or the handle does, and the transactions do not.
LEMMA OthersKeep ==
  ASSUME TxInv, StoreInv', Kept, AllMarked => AllMarked', tx' = tx
  PROVE  TxInv' /\ (MarkedInv => MarkedInv')
<1>1. TxTypeOK' /\ (AllRecorded => AllRecorded')
  BY DEF TxInv, TxTypeOK, AllRecorded
<1>2. TxsHold'
  BY DEF TxInv, TxTypeOK, TxsHold, Kept
<1> QED BY <1>1, <1>2 DEF TxInv, MarkedInv

\* One transaction changes, and with it perhaps the store.
LEMMA OneChanges ==
  ASSUME TxInv, StoreInv', Kept, AllMarked => AllMarked', NEW t \in Txs, NEW r \in Tx,
         tx' = [tx EXCEPT ![t] = r], TxHolds(r, handle[Server], moved), MarkedInv => Recording(r)
  PROVE  TxInv' /\ (MarkedInv => MarkedInv')
<1>1. tx \in [Txs -> Tx]
  BY DEF TxInv, TxTypeOK
<1>2. tx' \in [Txs -> Tx] /\ tx'[t] = r /\ \A u \in Txs : u # t => tx'[u] = tx[u]
  BY <1>1
<1>3. TxsHold'
  <2> SUFFICES ASSUME NEW u \in Txs PROVE TxHolds(tx'[u], handle'[Server], moved')
    BY DEF TxsHold
  <2>1. CASE u = t
    BY <1>2, <2>1 DEF Kept
  <2>2. CASE u # t
    <3>1. TxHolds(tx[u], handle[Server], moved) /\ tx[u] \in Tx
      BY <1>1 DEF TxInv, TxsHold
    <3> QED BY <1>2, <2>2, <3>1 DEF Kept
  <2> QED BY <2>1, <2>2
<1>4. MarkedInv => AllRecorded'
  BY <1>2 DEF MarkedInv, AllRecorded
<1> QED BY <1>2, <1>3, <1>4 DEF TxInv, TxTypeOK, MarkedInv

\* A step that leaves the store and the handles alone.
LEMMA StoreSame ==
  ASSUME StoreInv, UNCHANGED <<disk, handle, commits, moved>>
  PROVE  StoreInv' /\ Kept /\ (AllMarked => AllMarked')
<1>1. StoreTypeOK' /\ FramesMove'
  BY DEF StoreInv, StoreTypeOK, FramesMove
<1>2. AllNumbered'
  BY DEF StoreInv, AllNumbered, DiskNumbered
<1>3. Ahead' = Ahead /\ Stored' = Stored
  BY DEF Ahead, Stored, Load
<1>4. ServerFollows'
  <2>1. ApplyFrames(handle[Server], Ahead)' = ApplyFrames(handle[Server], Ahead)
    BY <1>3
  <2> QED BY <1>3, <2>1 DEF StoreInv, ServerFollows
<1>5. Kept /\ (AllMarked => AllMarked')
  BY DEF Kept, AllMarked
<1> QED BY <1>1, <1>2, <1>4, <1>5 DEF StoreInv

\* A transaction that ends.
LEMMA EndedKeeps ==
  ASSUME TxInv, StoreInv', Kept, AllMarked => AllMarked', NEW t \in Txs, tx[t].phase = "open",
         NEW how \in {"read", "conflict", "refused", "committed", "rolled_back"}, Ended(t, how)
  PROVE  TxInv' /\ (MarkedInv => MarkedInv')
<1>1. PICK s \in Tx : s = tx[t]
  BY DEF TxInv, TxTypeOK
<1>2. PICK r : r = [s EXCEPT !.phase = how]
  OBVIOUS
<1>3. /\ r \in Tx /\ r.base = s.base /\ r.base_version = s.base_version
      /\ r.base_store = s.base_store /\ r.at = s.at /\ r.keys = s.keys
  BY <1>2 DEF Tx
<1>4. tx' = [tx EXCEPT ![t] = r]
  BY <1>1, <1>2 DEF Ended, TxInv, TxTypeOK
<1>5. TxHolds(s, handle[Server], moved) /\ s.phase # "none" /\ (MarkedInv => Recording(s))
  BY <1>1 DEF TxInv, TxsHold, MarkedInv, AllRecorded
<1>6. TxHolds(r, handle[Server], moved) /\ (Recording(s) => Recording(r))
  BY <1>3, <1>5, BufferOnly
<1> QED BY <1>3, <1>4, <1>5, <1>6, OneChanges

LEMMA BeginKeeps ==
  ASSUME TxInv, NEW t \in Txs, Begin(t)
  PROVE  TxInv' /\ (MarkedInv => MarkedInv')
<1>1. PICK h \in Handle : h = handle[Server]
  BY DEF TxInv, StoreInv, StoreTypeOK, Handles
<1>2. PICK r : r = [NoTx EXCEPT !.phase = "open", !.base = h.content, !.at = h.at,
                                !.base_version = h.commit_seq, !.base_store = h.store_id]
  OBVIOUS
<1>3. /\ r.base = h.content /\ r.at = h.at /\ r.base_version = h.commit_seq
      /\ r.base_store = h.store_id /\ r.keys = <<>> /\ r.touch = {} /\ r.del = {} /\ r.phase = "open"
  BY <1>2 DEF NoTx
<1>4. r \in Tx
  <2>1. <<>> \in [{} -> Int]
    OBVIOUS
  <2>2. <<>> \in Recordings
    BY <2>1 DEF Recordings
  <2> QED BY <1>2, <2>2 DEF NoTx, Tx, Handle
<1>5. tx' = [tx EXCEPT ![t] = r] /\ UNCHANGED <<disk, handle, commits, moved>>
  BY <1>1, <1>2 DEF Begin
<1>6. DOMAIN r.keys = {}
  BY <1>3
<1>7. Recording(r)
  BY <1>6 DEF Recording
<1>8. TxHolds(r, h, moved)
  <2>1. /\ h.commit_seq \in Nat /\ h.at \in Nat /\ h.store_id \in Nat /\ h.top \in Nat
        /\ h.last_change \in [Keys -> Nat]
    BY DEF Handle
  <2>2. Numbered(h, commits)
    BY <1>1 DEF TxInv, StoreInv, AllNumbered, Handles
  <2>3. \A k \in Keys : h.last_change[k] <= h.commit_seq
    <3> SUFFICES ASSUME NEW k \in Keys PROVE h.last_change[k] <= h.commit_seq
      OBVIOUS
    <3>1. h.last_change[k] <= h.top /\ h.top <= h.commit_seq /\ h.last_change[k] \in Nat
      BY <2>1, <2>2 DEF Numbered
    <3> QED BY <2>1, <3>1
  <2>4. OfOneNumbering(r, h, moved)
    BY <1>3, <1>6, <2>1, <2>3 DEF OfOneNumbering
  <2> QED BY <1>3, <2>1, <2>4 DEF TxHolds
<1>9. StoreInv' /\ Kept /\ (AllMarked => AllMarked')
  BY <1>5, StoreSame DEF TxInv
<1> QED BY <1>1, <1>4, <1>5, <1>7, <1>8, <1>9, OneChanges

\* What every statement that succeeds does.
Statement(t, ks, a, d) ==
  tx' = [tx EXCEPT ![t] = [tx[t] EXCEPT !.keys = Recorded(t, ks), !.touch = a, !.del = d]]

LEMMA ExecuteIsStatement ==
  ASSUME TxTypeOK, NEW t \in Txs, Execute(t)
  PROVE  \E ks \in SUBSET Keys, a \in SUBSET Keys, d \in SUBSET Keys : Statement(t, ks, a, d)
<1>1. PICK s \in Tx : s = tx[t]
  BY DEF TxTypeOK
<1>2. tx \in [Txs -> Tx] /\ s.phase = "open"
  BY <1>1 DEF TxTypeOK, Execute
<1>3. s.touch \in SUBSET Keys /\ s.del \in SUBSET Keys
  BY DEF Tx
<1>4. View(t) \subseteq Keys
  BY DEF View
<1>5. ASSUME NEW k \in Keys, tx' = [tx EXCEPT ![t].keys = Recorded(t, {k})]
      PROVE  Statement(t, {k}, s.touch, s.del)
  BY <1>1, <1>2, <1>5 DEF Tx, Statement
<1>6. ASSUME NEW k \in Keys,
             tx' = [tx EXCEPT ![t].keys = Recorded(t, {k}),
                              ![t].touch = @ \cup {k}, ![t].del = @ \ {k}]
      PROVE  Statement(t, {k}, s.touch \cup {k}, s.del \ {k})
  BY <1>1, <1>2, <1>6 DEF Tx, Statement
<1>7. ASSUME NEW k \in Keys, NEW l \in Keys,
             tx' = [tx EXCEPT ![t].keys = Recorded(t, {k, l}), ![t].touch = @ \cup {k, l}]
      PROVE  Statement(t, {k, l}, s.touch \cup {k, l}, s.del)
  BY <1>1, <1>2, <1>7 DEF Tx, Statement
<1>8. ASSUME NEW k \in Keys, NEW d,
             tx' = [tx EXCEPT ![t].keys = Recorded(t, {k}), ![t].touch = @ \ {k}, ![t].del = d]
      PROVE  Statement(t, {k}, s.touch \ {k}, d)
  BY <1>1, <1>2, <1>8 DEF Tx, Statement
<1>9. \/ \E k \in Keys : tx' = [tx EXCEPT ![t].keys = Recorded(t, {k})]
      \/ \E k \in Keys : tx' = [tx EXCEPT ![t].keys = Recorded(t, {k}),
                                          ![t].touch = @ \cup {k}, ![t].del = @ \ {k}]
      \/ \E k, l \in Keys : tx' = [tx EXCEPT ![t].keys = Recorded(t, {k, l}),
                                             ![t].touch = @ \cup {k, l}]
      \/ \E k \in Keys : \E d \in {s.del \cup {k}, s.del} :
           tx' = [tx EXCEPT ![t].keys = Recorded(t, {k}), ![t].touch = @ \ {k}, ![t].del = d]
  BY <1>1, <1>2, <1>4 DEF Execute
<1>10. CASE \E k \in Keys : tx' = [tx EXCEPT ![t].keys = Recorded(t, {k})]
  <2>1. PICK k \in Keys : Statement(t, {k}, s.touch, s.del)
    BY <1>5, <1>10
  <2>2. {k} \in SUBSET Keys
    OBVIOUS
  <2> QED BY <1>3, <2>1, <2>2
<1>11. CASE \E k \in Keys : tx' = [tx EXCEPT ![t].keys = Recorded(t, {k}),
                                            ![t].touch = @ \cup {k}, ![t].del = @ \ {k}]
  <2>1. PICK k \in Keys : Statement(t, {k}, s.touch \cup {k}, s.del \ {k})
    BY <1>6, <1>11
  <2>2. s.touch \cup {k} \in SUBSET Keys /\ s.del \ {k} \in SUBSET Keys /\ {k} \in SUBSET Keys
    BY <1>3
  <2> QED BY <2>1, <2>2
<1>12. CASE \E k, l \in Keys : tx' = [tx EXCEPT ![t].keys = Recorded(t, {k, l}),
                                                ![t].touch = @ \cup {k, l}]
  <2>1. PICK k \in Keys, l \in Keys : Statement(t, {k, l}, s.touch \cup {k, l}, s.del)
    BY <1>7, <1>12
  <2>2. s.touch \cup {k, l} \in SUBSET Keys /\ {k, l} \in SUBSET Keys
    BY <1>3
  <2> QED BY <1>3, <2>1, <2>2
<1>13. CASE \E k \in Keys : \E d \in {s.del \cup {k}, s.del} :
              tx' = [tx EXCEPT ![t].keys = Recorded(t, {k}), ![t].touch = @ \ {k}, ![t].del = d]
  <2>1. PICK k \in Keys : \E d \in {s.del \cup {k}, s.del} : Statement(t, {k}, s.touch \ {k}, d)
    BY <1>8, <1>13
  <2>2. PICK d \in {s.del \cup {k}, s.del} : Statement(t, {k}, s.touch \ {k}, d)
    BY <2>1
  <2>3. s.touch \ {k} \in SUBSET Keys /\ d \in SUBSET Keys /\ {k} \in SUBSET Keys
    BY <1>3
  <2> QED BY <2>2, <2>3
<1> QED BY <1>9, <1>10, <1>11, <1>12, <1>13

LEMMA ExecuteKeeps ==
  ASSUME TxInv, NEW t \in Txs, Execute(t)
  PROVE  TxInv' /\ (MarkedInv => MarkedInv')
<1>1. PICK s \in Tx : s = tx[t]
  BY DEF TxInv, TxTypeOK
<1>2. tx \in [Txs -> Tx] /\ s.phase = "open"
  BY <1>1 DEF TxInv, TxTypeOK, Execute
<1>3. PICK ks \in SUBSET Keys, a \in SUBSET Keys, d \in SUBSET Keys : Statement(t, ks, a, d)
  BY ExecuteIsStatement DEF TxInv
<1>4. tx' = [tx EXCEPT ![t] = [s EXCEPT !.keys = Recorded(t, ks), !.touch = a, !.del = d]]
  BY <1>1, <1>3 DEF Statement
<1>5. PICK r : r = [s EXCEPT !.keys = Recorded(t, ks), !.touch = a, !.del = d]
  OBVIOUS
<1>6. /\ r.base = s.base /\ r.base_version = s.base_version /\ r.base_store = s.base_store
      /\ r.at = s.at /\ r.keys = Recorded(t, ks)
  BY <1>5 DEF Tx
<1>7. r.keys \in Recordings /\ TxHolds(r, handle[Server], moved) /\ (MarkedInv => Recording(r))
  BY <1>1, <1>2, <1>6, RecordedHolds
<1>8. r \in Tx
  BY <1>5, <1>6, <1>7 DEF Tx
<1>9. StoreInv' /\ Kept /\ (AllMarked => AllMarked')
  BY StoreSame DEF TxInv, Execute
<1> QED BY <1>4, <1>5, <1>7, <1>8, <1>9, OneChanges

\* A write, with the frame it appends.
LEMMA WriteCommits ==
  ASSUME NEW p \in Handles, Write(p)
  PROVE  /\ tx' = tx
         /\ \E touch \in SUBSET Keys, del \in SUBSET Keys, marker \in BOOLEAN :
              LogThenApply(p, Refreshed(handle[p]), touch, del, marker)
<1> DEFINE L(touch, del, marker) == LogThenApply(p, Refreshed(handle[p]), touch, del, marker)
<1>1. \E marker \in BOOLEAN :
        \/ \E k \in Keys : L({k}, {}, marker)
        \/ \E k, l \in Keys : L({k, l}, {}, marker)
        \/ \E k \in Keys : L({}, {k}, marker)
        \/ L({}, {}, FALSE)
  BY DEF Write
<1> HIDE DEF L
<1>2. PICK marker \in BOOLEAN :
        \/ \E k \in Keys : L({k}, {}, marker)
        \/ \E k, l \in Keys : L({k, l}, {}, marker)
        \/ \E k \in Keys : L({}, {k}, marker)
        \/ L({}, {}, FALSE)
  BY <1>1
<1>3. {} \in SUBSET Keys /\ FALSE \in BOOLEAN
      /\ \A k, l \in Keys : {k} \in SUBSET Keys /\ {k, l} \in SUBSET Keys
  OBVIOUS
<1>4. \E touch \in SUBSET Keys, del \in SUBSET Keys, mk \in BOOLEAN : L(touch, del, mk)
  <2>1. CASE \E k \in Keys : L({k}, {}, marker)
    BY <1>3, <2>1
  <2>2. CASE \E k, l \in Keys : L({k, l}, {}, marker)
    BY <1>3, <2>2
  <2>3. CASE \E k \in Keys : L({}, {k}, marker)
    BY <1>3, <2>3
  <2>4. CASE L({}, {}, FALSE)
    BY <1>3, <2>4
  <2> QED BY <1>2, <2>1, <2>2, <2>3, <2>4
<1> QED BY <1>4 DEF L, Write

\* COMMIT, in its four outcomes.
LEMMA CommitOutcomes ==
  ASSUME NEW t \in Txs, Commit(t)
  PROVE  LET h == Refreshed(handle[Server]) IN
         /\ tx[t].phase = "open"
         /\ \/ Ended(t, "read") /\ UNCHANGED <<disk, handle, commits, moved>>
            \/ /\ Ended(t, "conflict") /\ ~CheckPreconditions(h, t)
               /\ handle' = [handle EXCEPT ![Server] = h] /\ UNCHANGED <<disk, commits, moved>>
            \/ /\ Ended(t, "refused")
               /\ handle' = [handle EXCEPT ![Server] = h] /\ UNCHANGED <<disk, commits, moved>>
            \/ /\ Ended(t, "committed") /\ CheckPreconditions(h, t)
               /\ LogThenApply(Server, h, tx[t].touch, tx[t].del, FALSE)
BY DEF Commit

LEMMA CommitStep ==
  ASSUME TxInv, NEW t \in Txs, Commit(t)
  PROVE  TxInv' /\ (MarkedInv => MarkedInv')
<1>1. tx[t].phase = "open" /\ StoreInv /\ Server \in Handles
  BY CommitOutcomes DEF TxInv, Handles
<1>2. CASE Ended(t, "read") /\ UNCHANGED <<disk, handle, commits, moved>>
  <2>1. StoreInv' /\ Kept /\ (AllMarked => AllMarked')
    BY <1>1, <1>2, StoreSame
  <2> QED BY <1>1, <1>2, <2>1, EndedKeeps
<1>3. CASE /\ Ended(t, "conflict") \/ Ended(t, "refused")
           /\ handle' = [handle EXCEPT ![Server] = Refreshed(handle[Server])]
           /\ UNCHANGED <<disk, commits, moved>>
  <2>1. StoreInv' /\ Kept /\ (AllMarked => AllMarked')
    BY <1>1, <1>3, RefreshKeeps
  <2>2. CASE Ended(t, "conflict")
    BY <1>1, <2>1, <2>2, EndedKeeps
  <2>3. CASE Ended(t, "refused")
    BY <1>1, <2>1, <2>3, EndedKeeps
  <2> QED BY <1>3, <2>2, <2>3
<1>4. CASE /\ Ended(t, "committed")
           /\ LogThenApply(Server, Refreshed(handle[Server]), tx[t].touch, tx[t].del, FALSE)
  <2>1. tx[t].touch \in SUBSET Keys /\ tx[t].del \in SUBSET Keys /\ FALSE \in BOOLEAN
    BY DEF TxInv, TxTypeOK, Tx
  <2>2. StoreInv' /\ Kept /\ (AllMarked => AllMarked')
    BY <1>1, <1>4, <2>1, CommitKeeps
  <2> QED BY <1>1, <1>4, <2>2, EndedKeeps
<1> QED BY <1>2, <1>3, <1>4, CommitOutcomes

LEMMA TxStep ==
  ASSUME TxInv, [Next]_vars
  PROVE  TxInv' /\ (MarkedInv => MarkedInv')
<1>1. StoreInv
  BY DEF TxInv
<1>2. CASE Refresh
  <2>1. /\ handle' = [handle EXCEPT ![Server] = Refreshed(handle[Server])]
        /\ UNCHANGED <<disk, commits, moved>> /\ tx' = tx
    BY <1>2 DEF Refresh
  <2>2. StoreInv' /\ Kept /\ (AllMarked => AllMarked')
    BY <1>1, <2>1, RefreshKeeps
  <2> QED BY <2>1, <2>2, OthersKeep
<1>3. ASSUME NEW p \in Handles, Write(p) PROVE TxInv' /\ (MarkedInv => MarkedInv')
  <2>1. StoreInv' /\ Kept /\ (AllMarked => AllMarked')
    BY <1>1, <1>3, WriteCommits, CommitKeeps
  <2> QED BY <1>3, <2>1, WriteCommits, OthersKeep
<1>4. ASSUME NEW p \in Handles, Snapshot(p) PROVE TxInv' /\ (MarkedInv => MarkedInv')
  <2>1. StoreInv' /\ Kept /\ (AllMarked => AllMarked')
    BY <1>1, <1>4, SnapshotKeeps
  <2>2. tx' = tx
    BY <1>4 DEF Snapshot
  <2> QED BY <2>1, <2>2, OthersKeep
<1>5. ASSUME NEW t \in Txs, Begin(t) PROVE TxInv' /\ (MarkedInv => MarkedInv')
  BY <1>5, BeginKeeps
<1>6. ASSUME NEW t \in Txs, Execute(t) PROVE TxInv' /\ (MarkedInv => MarkedInv')
  BY <1>6, ExecuteKeeps
<1>7. ASSUME NEW t \in Txs, Commit(t) PROVE TxInv' /\ (MarkedInv => MarkedInv')
  BY <1>7, CommitStep
<1>8. ASSUME NEW t \in Txs, Rollback(t) PROVE TxInv' /\ (MarkedInv => MarkedInv')
  <2>1. /\ tx[t].phase = "open" /\ Ended(t, "rolled_back")
        /\ UNCHANGED <<disk, handle, commits, moved>>
    BY <1>8 DEF Rollback
  <2>2. StoreInv' /\ Kept /\ (AllMarked => AllMarked')
    BY <1>1, <2>1, StoreSame
  <2> QED BY <2>1, <2>2, EndedKeeps
<1>9. CASE UNCHANGED vars
  <2>1. UNCHANGED <<disk, handle, commits, moved>> /\ tx' = tx
    BY <1>9 DEF vars
  <2>2. StoreInv' /\ Kept /\ (AllMarked => AllMarked')
    BY <1>1, <2>1, StoreSame
  <2> QED BY <2>1, <2>2, OthersKeep
<1> QED BY <1>2, <1>3, <1>4, <1>5, <1>6, <1>7, <1>8, <1>9 DEF Next

-----------------------------------------------------------------------------
(* The theorems.                                                           *)

\* A transaction's end is the step of its own COMMIT.
LEMMA EndIsCommit ==
  ASSUME TxInv, [Next]_vars, NEW t \in Txs, NEW how \in {"committed", "conflict"},
         tx[t].phase = "open", tx'[t].phase = how
  PROVE  Commit(t)
<1>1. tx \in [Txs -> Tx] /\ how # "open" /\ how # "rolled_back"
  BY DEF TxInv, TxTypeOK
<1>2. tx' # tx
  BY <1>1
<1>3. ASSUME NEW p \in Handles PROVE ~Write(p) /\ ~Snapshot(p)
  BY <1>2, WriteCommits DEF Snapshot
<1>4. ~Refresh /\ ~UNCHANGED vars
  BY <1>2 DEF Refresh, vars
<1>5. ASSUME NEW u \in Txs, Begin(u) PROVE FALSE
  <2>1. u # t
    BY <1>5 DEF Begin
  <2>2. tx'[t] = tx[t]
    BY <1>1, <1>5, <2>1 DEF Begin
  <2> QED BY <1>1, <2>2
<1>6. ASSUME NEW u \in Txs, Execute(u) PROVE FALSE
  <2>1. PICK ks \in SUBSET Keys, a \in SUBSET Keys, d \in SUBSET Keys : Statement(u, ks, a, d)
    BY <1>6, ExecuteIsStatement DEF TxInv
  <2>2. tx'[t].phase = tx[t].phase
    BY <1>1, <2>1 DEF Statement, Tx
  <2> QED BY <1>1, <2>2
<1>7. ASSUME NEW u \in Txs, Rollback(u) PROVE FALSE
  <2>1. tx'[t].phase = tx[t].phase \/ tx'[t].phase = "rolled_back"
    BY <1>1, <1>7 DEF Rollback, Ended, Tx
  <2> QED BY <1>1, <2>1
<1>8. ASSUME NEW u \in Txs, Commit(u), u # t PROVE FALSE
  <2>1. tx'[t] = tx[t]
    BY <1>1, <1>8, CommitOutcomes DEF Ended
  <2> QED BY <1>1, <2>1
<1> QED BY <1>3, <1>4, <1>5, <1>6, <1>7, <1>8 DEF Next

\* A precondition that holds on a handle of BEGIN's numbering: the node is as in the base.
LEMMA CheckedIsBase ==
  ASSUME NEW s \in Tx, NEW h \in Handle, NEW mv, OfOneNumbering(s, h, mv), Recording(s), Marked(h),
         NEW k \in DOMAIN s.keys, LastChanged(h, k) = s.keys[k]
  PROVE  h.content[k] = s.base[k]
<1>1. k \in Keys /\ s.keys[k] \in Int /\ s.base_version \in Nat
  BY DEF Tx, Recordings
<1>2. h.content[k] \in Nat /\ h.last_change[k] \in Nat
  BY <1>1 DEF Handle
<1>3. h.last_change[k] <= s.base_version => h.content[k] = s.base[k] \/ h.content[k] = Absent
  BY <1>1 DEF OfOneNumbering
<1>4. LastChanged(h, k) # TX_CHANGED_SINCE_BEGIN
  BY <1>2 DEF LastChanged, TX_CHANGED_SINCE_BEGIN, Unmarked
<1>5. CASE s.keys[k] = Unmarked /\ s.base[k] = Absent
  <2>1. h.content[k] # Absent => h.last_change[k] = 0 /\ h.last_change[k] >= 1
    BY <1>1, <1>5 DEF LastChanged, Unmarked, Marked
  <2> QED BY <1>2, <1>5, <2>1
<1>6. CASE s.keys[k] >= 1 /\ s.keys[k] <= s.base_version /\ s.base[k] # Absent
  <2>1. h.content[k] # Absent
    BY <1>6 DEF LastChanged, Unmarked
  <2>2. h.last_change[k] <= s.base_version
    BY <1>6, <2>1 DEF LastChanged
  <2> QED BY <1>3, <2>1, <2>2
<1> QED BY <1>4, <1>5, <1>6 DEF Recording

\* No lost update (transaction.rs, COMMIT; db.rs tx_base_last_change, check_preconditions):
\* a transaction commits only over nodes that are as its base snapshot had them, whoever
\* wrote in between and whenever it first touched them, where the server was not reloaded
\* since BEGIN and no node is older than the last_change section.
THEOREM NoUpdateIsLost ==
  ASSUME Legacy = {}
  PROVE  Spec => ConflictsDetected
<1>1. Init => TxInv /\ MarkedInv
  BY TxInit
<1>2. TxInv /\ MarkedInv /\ [Next]_vars => TxInv' /\ MarkedInv'
  BY TxStep
<1>3. TxInv /\ MarkedInv /\ [Next]_vars =>
        [\A t \in Txs : Commits(t) /\ ~Reloaded(t) =>
           \A k \in DOMAIN tx[t].keys : Stored[k] = tx[t].base[k]]_vars
  <2> SUFFICES ASSUME TxInv, MarkedInv, [Next]_vars, NEW t \in Txs, Commits(t), ~Reloaded(t),
                      NEW k \in DOMAIN tx[t].keys
               PROVE  Stored[k] = tx[t].base[k]
    OBVIOUS
  <2>1. Commit(t) /\ tx'[t].phase = "committed"
    BY EndIsCommit DEF Commits
  <2>2. PICK h \in Handle : h = handle[Server]
    BY DEF TxInv, StoreInv, StoreTypeOK, Handles
  <2>3. PICK s \in Tx : s = tx[t]
    BY DEF TxInv, TxTypeOK
  <2>4. StoreInv /\ Server \in Handles /\ s.phase = "open"
    BY <2>3 DEF TxInv, Handles, Commits
  <2>5. PICK g \in Handle : g = Refreshed(h)
    BY <2>2, <2>4, RefreshedHandle
  <2>6. /\ CheckPreconditions(g, t)
        /\ LogThenApply(Server, g, s.touch, s.del, FALSE)
    <3>1. tx \in [Txs -> Tx]
      BY DEF TxInv, TxTypeOK
    <3>2. \A how : Ended(t, how) => tx'[t].phase = how
      BY <3>1 DEF Ended, Tx
    <3> QED BY <2>1, <2>2, <2>3, <2>5, <3>2, CommitOutcomes
  <2>7. g.content = Stored /\ (Advances(h, g, moved) \/ g.store_id = h.store_id + 1)
    BY <2>2, <2>4, <2>5, RefreshedServer
  <2>8. Marked(g)
    BY <2>2, <2>4, <2>5, RefreshedHandle DEF MarkedInv, AllMarked
  <2>9. g.store_id = s.base_store
    <3>1. handle'[Server].store_id = g.store_id
      <4>1. handle \in [Handles -> Handle]
        BY DEF TxInv, StoreInv, StoreTypeOK
      <4>2. \A f, n : [ApplyFrame(g, f) EXCEPT !.consumed = n].store_id = g.store_id
        BY DEF ApplyFrame, Handle
      <4> QED BY <2>4, <2>6, <4>1, <4>2 DEF LogThenApply
    <3> QED BY <2>3, <3>1 DEF Reloaded
  <2>10. TxHolds(s, g, moved)
    <3>1. TxHolds(s, h, moved) /\ moved \in [Keys -> Nat] /\ \A l \in Keys : moved[l] <= moved[l]
      BY <2>2, <2>3 DEF TxInv, TxsHold, StoreInv, StoreTypeOK
    <3> QED BY <2>7, <3>1, AdvanceKeeps
  <2>11. OfOneNumbering(s, g, moved)
    BY <2>4, <2>9, <2>10 DEF TxHolds
  <2>12. Recording(s)
    BY <2>3 DEF MarkedInv, AllRecorded
  <2>13. LastChanged(g, k) = s.keys[k]
    BY <2>3, <2>6 DEF CheckPreconditions
  <2>14. g.content[k] = s.base[k]
    BY <2>3, <2>8, <2>11, <2>12, <2>13, CheckedIsBase
  <2> QED BY <2>3, <2>7, <2>14
<1> QED BY <1>1, <1>2, <1>3, PTL DEF Spec, ConflictsDetected

\* A conflict is one (db.rs tx_base_last_change and its base_version): COMMIT fails its
\* preconditions only where another commit moved a node the transaction read or wrote
\* after its base snapshot, or the server reloaded since BEGIN.
THEOREM ConflictsHaveACause == Spec => ConflictsAreReal
<1>1. Init => TxInv
  BY TxInit
<1>2. TxInv /\ [Next]_vars => TxInv'
  BY TxStep
<1>3. TxInv /\ [Next]_vars =>
        [\A t \in Txs : Conflicts(t) =>
           Reloaded(t) \/ \E k \in DOMAIN tx[t].keys : moved[k] > tx[t].at]_vars
  <2> SUFFICES ASSUME TxInv, [Next]_vars, NEW t \in Txs, Conflicts(t), ~Reloaded(t),
                      \A k \in DOMAIN tx[t].keys : ~(moved[k] > tx[t].at)
               PROVE  FALSE
    OBVIOUS
  <2>1. Commit(t) /\ tx'[t].phase = "conflict"
    BY EndIsCommit DEF Conflicts
  <2>2. PICK h \in Handle : h = handle[Server]
    BY DEF TxInv, StoreInv, StoreTypeOK, Handles
  <2>3. PICK s \in Tx : s = tx[t]
    BY DEF TxInv, TxTypeOK
  <2>4. StoreInv /\ Server \in Handles /\ s.phase = "open"
    BY <2>3 DEF TxInv, Handles, Conflicts
  <2>5. PICK g \in Handle : g = Refreshed(h)
    BY <2>2, <2>4, RefreshedHandle
  <2>6. ~CheckPreconditions(g, t) /\ handle' = [handle EXCEPT ![Server] = g]
    <3>1. tx \in [Txs -> Tx]
      BY DEF TxInv, TxTypeOK
    <3>2. \A how : Ended(t, how) => tx'[t].phase = how
      BY <3>1 DEF Ended, Tx
    <3> QED BY <2>1, <2>2, <2>5, <3>2, CommitOutcomes
  <2>7. Advances(h, g, moved) \/ g.store_id = h.store_id + 1
    BY <2>2, <2>4, <2>5, RefreshedServer
  <2>8. g.store_id = s.base_store
    <3>1. handle \in [Handles -> Handle]
      BY DEF TxInv, StoreInv, StoreTypeOK
    <3>2. handle'[Server] = g
      BY <2>4, <2>6, <3>1
    <3> QED BY <2>3, <3>2 DEF Reloaded
  <2>9. moved \in [Keys -> Nat] /\ \A l \in Keys : moved[l] <= moved[l]
    BY DEF TxInv, StoreInv, StoreTypeOK
  <2>10. TxHolds(s, g, moved)
    <3>1. TxHolds(s, h, moved)
      BY <2>2, <2>3 DEF TxInv, TxsHold
    <3> QED BY <2>7, <2>9, <3>1, AdvanceKeeps
  <2>11. OfOneNumbering(s, g, moved)
    BY <2>4, <2>8, <2>10 DEF TxHolds
  <2>12. ASSUME NEW k \in DOMAIN s.keys PROVE LastChanged(g, k) = s.keys[k]
    <3>1. k \in Keys /\ s.at \in Nat
      BY DEF Tx, Recordings
    <3>2. moved[k] \in Nat /\ ~(moved[k] > s.at)
      BY <2>3, <2>9, <3>1
    <3>3. moved[k] <= s.at
      BY <3>1, <3>2
    <3> QED BY <2>11, <3>3 DEF OfOneNumbering
  <2> QED BY <2>3, <2>6, <2>12 DEF CheckPreconditions
<1> QED BY <1>1, <1>2, <1>3, PTL DEF Spec, ConflictsAreReal
=============================================================================
