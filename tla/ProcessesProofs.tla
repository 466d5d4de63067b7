-------------------------- MODULE ProcessesProofs --------------------------
(***************************************************************************)
(* Proofs about Processes, for any number of processes, commits and        *)
(* snapshots: a write lands on what others wrote before it and what was    *)
(* acknowledged stays, but for handles whose load a peer's snapshot fell   *)
(* into; and while the WAL only grows a read sees what was acknowledged    *)
(* before it and skips nothing.                                            *)
(***************************************************************************)
EXTENDS Processes, SequenceTheorems, TLAPS

-----------------------------------------------------------------------------
(* The invariant.                                                          *)

\* The whole frames of a WAL that is torn at its end, if anywhere.
Whole(w)    == IF Len(w) > 0 /\ w[Len(w)] = Torn THEN Len(w) - 1 ELSE Len(w)
TornLast(w) == \A i \in 1..Len(w) : w[i] = Torn => i = Len(w)
Upto(w, n)  == {w[i] : i \in 1..n}

\* A handle with its cursor at n of the WAL on disk, and with the graph that goes with it
\* if its last load read the snapshot on disk.
AtCursor(x, n, w, s) == x.consumed = n /\ (x.loaded = s.id => x.mem = s.done \cup Upto(w, n))

LoadPcs == {"loadSnap", "loadWal", "repair", "loadIdent"}

\* What a handle may be doing, according to its kind and to whether it holds the lock.
LockPart(x, p, l, modes) ==
  /\ x.writing <=> l = p
  /\ x.pc \in {"ready", "appending", "appended", "snapped"} => l = p
  /\ x.pc \in {"idle", "served", "down"} => l # p
  /\ x.pc # "down" => x.mode \in modes /\ (x.mode = "owner" => l = p)
  /\ x.mode = "reader" => l # p
  /\ x.opening => x.mode # "shared" /\ x.pc \in LoadPcs
  /\ x.mode = "owner" => x.pc \notin {"look", "lookWal", "tail"}
  /\ x.mode = "owner" /\ x.pc \in LoadPcs => x.opening
  /\ x.pc = "repair" => x.mode = "owner"

\* A handle's cursor is within the WAL it was read from, and its graph is made of what is
\* before the cursor, unless the files were replaced and the identities tell, or its last
\* load read another snapshot than the one it took the identity of.
Coherent(x, w, i, s) ==
  x.walId = i =>
    /\ x.consumed <= Whole(w)
    /\ x.snapId = s.id /\ x.loaded = s.id => x.mem = s.done \cup Upto(w, x.consumed)

\* A shared handle, with or without the lock.
SharedPart(x, w, i, s) ==
  /\ x.walId <= i /\ x.snapId <= s.id /\ x.loaded <= s.id
  /\ x.mode = "shared" =>
       /\ x.pc \in {"idle", "served", "look", "lookWal", "tail"} => Coherent(x, w, i, s)
       /\ x.pc = "loadWal" /\ x.loaded = s.id => x.mem = s.done
       /\ x.pc = "loadIdent" /\ x.walId = i => AtCursor(x, x.consumed, w, s) /\ x.consumed <= Whole(w)

\* The handle that holds the lock.  No snapshot but its own falls into its loads.
HolderPart(x, w, i, s, n, d) ==
  /\ x.pc \in {"lookWal", "tail", "ready", "appending", "appended"} => x.snapId = s.id
  /\ x.pc \in {"tail", "ready", "appending", "appended", "loadIdent"} => x.walId = i
  /\ x.pc \in {"loadWal", "repair", "loadIdent"} => x.loaded = s.id
  /\ x.pc = "loadWal" => x.mem = s.done
  /\ x.pc = "repair" => Whole(w) < Len(w) /\ x.keep = SubSeq(w, 1, Whole(w))
                        /\ AtCursor(x, Whole(w), w, s)
  /\ x.pc \in {"ready", "appended", "loadIdent"} => Whole(w) = Len(w) /\ AtCursor(x, Len(w), w, s)
  /\ x.pc = "appending" => /\ Len(w) > 0 /\ w[Len(w)] = Torn /\ x.file = i /\ n > 1
                           /\ AtCursor(x, Len(w) - 1, w, s)
  /\ x.pc = "appended" => n > 1 /\ n - 1 \in Upto(w, Len(w))
  /\ x.pc = "snapped" => /\ x.mem = s.done
                         /\ Whole(w) = Len(w) /\ Upto(w, Len(w)) \subseteq s.done \cup d
                         /\ s.id >= 1

\* Torn bytes are those of the append under way, or of a dead owner.
FilePart ==
  /\ TornLast(wal) /\ next > 0
  /\ Whole(wal) < Len(wal) =>
       "torn" \in world.faults \/ \E p \in Proc : h[p].pc = "appending"

HandlePart(p) ==
  /\ LockPart(h[p], p, lock, world.modes)
  /\ SharedPart(h[p], wal, ino, snap)
  /\ lock = p => HolderPart(h[p], wal, ino, snap, next, dropped)

SafeInv ==
  /\ TypeOK
  /\ FilePart
  /\ \A p \in Proc : HandlePart(p)
  /\ AckedSurvives

\* While the WAL only grows, the frames are the commits in order, and every
\* handle, whatever it is doing, has the commits before its cursor.
Following(x, w) ==
  /\ x.mem = 1..x.consumed /\ x.consumed <= Whole(w)
  /\ x.snapId = 0 /\ x.walId = 0
  /\ x.pc # "repair"
  /\ x.pc = "loadSnap" => x.consumed = 0
  /\ x.pc \in LoadPcs => x.opening
  /\ x.pc = "served" => x.must \subseteq x.mem

GrowInv ==
  /\ ino = 0 /\ snap.id = 0 /\ snap.done = {} /\ dropped = {}
  /\ next = Len(wal) + 1 /\ \A i \in 1..Whole(wal) : wal[i] = i
  /\ \A p \in Proc : Following(h[p], wal) /\ h[p].must \subseteq acked

-----------------------------------------------------------------------------
(* The WAL.                                                                *)

\* The whole frames are all of them, or all but the last.
LEMMA WholeFacts ==
  ASSUME NEW w \in Seq(Nat)
  PROVE  /\ Len(w) \in Nat /\ Whole(w) \in Nat /\ Whole(w) <= Len(w) /\ Len(w) <= Whole(w) + 1
         /\ Whole(w) < Len(w) <=> Len(w) > 0 /\ w[Len(w)] = Torn
         /\ \A i \in 1..Len(w) : w[i] \in Nat
BY DEF Whole, Torn

\* None of them is torn.
LEMMA WholeNotTorn ==
  ASSUME NEW w \in Seq(Nat), TornLast(w)
  PROVE  \A i \in 1..Whole(w) : w[i] # Torn
BY WholeFacts DEF Whole, TornLast

LEMMA UptoType ==
  ASSUME NEW w \in Seq(Nat), NEW n \in 0..Len(w)
  PROVE  Upto(w, n) \in SUBSET Nat
BY DEF Upto

\* What decode_all finds from a cursor is the rest of the whole frames.
LEMMA TailFromIs ==
  ASSUME NEW w \in Seq(Nat), TornLast(w), NEW c \in Nat
  PROVE  TailFrom(w, c) = IF c <= Whole(w) THEN SubSeq(w, c + 1, Whole(w)) ELSE <<>>
<1> DEFINE Torns == \E i \in 1..Len(w) : i <= c /\ w[i] = Torn
           IsEnd(n) == /\ \A i \in 1..n : i > c => w[i] # Torn
                       /\ n < Len(w) => w[n+1] = Torn
           end == CHOOSE n \in 0..Len(w) : IsEnd(n)
<1>1. Len(w) \in Nat /\ Whole(w) \in 0..Len(w) /\ Len(w) <= Whole(w) + 1
  BY WholeFacts
<1>2. TailFrom(w, c) = IF Torns THEN <<>> ELSE SubSeq(w, c + 1, end)
  BY DEF TailFrom
<1>3. ASSUME Torns PROVE c > Whole(w)
  BY <1>1, <1>3, WholeNotTorn
<1>4. ASSUME ~Torns PROVE end \in 0..Len(w) /\ IsEnd(end)
  <2>1. IsEnd(Whole(w))
    <3>1. \A i \in 1..Whole(w) : w[i] # Torn
      BY WholeNotTorn
    <3>2. Whole(w) < Len(w) => w[Whole(w) + 1] = Torn
      BY <1>1, WholeFacts
    <3> QED BY <3>1, <3>2
  <2>2. \E n \in 0..Len(w) : IsEnd(n)
    BY <2>1, <1>1
  <2> HIDE DEF IsEnd
  <2> QED BY <2>2
<1>5. ASSUME ~Torns PROVE end = Whole(w) \/ (c >= Len(w) /\ end = Len(w))
  <2>1. end \in 0..Len(w) /\ IsEnd(end)
    BY <1>4, <1>5
  <2>2. PICK n \in 0..Len(w) : n = end
    BY <2>1
  <2>3. (\A i \in 1..n : i > c => w[i] # Torn) /\ (n < Len(w) => w[n+1] = Torn)
    BY <2>1, <2>2
  <2>4. CASE n < Len(w)
    <3>1. n + 1 \in 1..Len(w) /\ w[n+1] = Torn
      BY <2>3, <2>4, <1>1
    <3>2. n + 1 = Len(w)
      BY <3>1 DEF TornLast
    <3>3. Len(w) > 0 /\ w[Len(w)] = Torn /\ n = Len(w) - 1
      BY <3>1, <3>2, <1>1
    <3>4. n = Whole(w)
      BY <3>3 DEF Whole
    <3> HIDE DEF end
    <3> QED BY <3>4, <2>2
  <2>5. CASE n = Len(w)
    BY <2>2, <2>3, <2>5, <1>1, WholeFacts
  <2> QED BY <2>4, <2>5, <1>1
<1>6. CASE Torns
  BY <1>6, <1>2, <1>3, <1>1
<1>7. CASE ~Torns
  <2>1. PICK n \in 0..Len(w) : n = end
    BY <1>4, <1>7
  <2>2. TailFrom(w, c) = SubSeq(w, c + 1, n) /\ (n = Whole(w) \/ (c >= Len(w) /\ n = Len(w)))
    BY <1>2, <1>5, <1>7, <2>1
  <2>3. n < c + 1 => SubSeq(w, c + 1, n) = <<>>
    BY <1>1
  <2>4. CASE c <= Whole(w)
    <3>1. n = Whole(w)
      BY <2>2, <2>4, <1>1
    <3> QED BY <3>1, <2>2, <2>4
  <2>5. CASE c > Whole(w)
    <3>1. n < c + 1
      BY <2>2, <2>5, <1>1
    <3> QED BY <3>1, <2>2, <2>3, <2>5, <1>1
  <2> QED BY <2>4, <2>5, <1>1
<1> QED BY <1>6, <1>7

\* Applying what is found to a graph made of the frames before the cursor.
LEMMA TailFromApplied ==
  ASSUME NEW w \in Seq(Nat), TornLast(w), NEW c \in Nat
  PROVE  /\ TailFrom(w, c) \in Seq(Nat) /\ Frames(TailFrom(w, c)) \in SUBSET Nat
         /\ Len(TailFrom(w, c)) \in Nat
         /\ c <= Whole(w) =>
              /\ c + Len(TailFrom(w, c)) = Whole(w)
              /\ Upto(w, c) \cup Frames(TailFrom(w, c)) = Upto(w, Whole(w))
<1>1. Len(w) \in Nat /\ Whole(w) \in 0..Len(w)
  BY WholeFacts
<1>2. PICK t : t = TailFrom(w, c)
  OBVIOUS
<1>3. t = IF c <= Whole(w) THEN SubSeq(w, c + 1, Whole(w)) ELSE <<>>
  BY <1>2, TailFromIs
<1>4. t \in Seq(Nat) /\ Len(t) \in Nat
  BY <1>1, <1>3
<1>5. Frames(t) \in SUBSET Nat
  BY <1>4 DEF Frames
<1>6. ASSUME c <= Whole(w)
      PROVE  c + Len(t) = Whole(w) /\ Upto(w, c) \cup Frames(t) = Upto(w, Whole(w))
  <2>1. t = SubSeq(w, c + 1, Whole(w))
    BY <1>3, <1>6
  <2>2. Len(t) = Whole(w) - c /\ \A i \in 1..Len(t) : t[i] = w[c + i]
    BY <2>1, <1>1, <1>6
  <2>3. ASSUME NEW e \in Upto(w, Whole(w)) PROVE e \in Upto(w, c) \cup Frames(t)
    <3>1. PICK i \in 1..Whole(w) : e = w[i]
      BY <2>3 DEF Upto
    <3>2. CASE i <= c
      BY <3>1, <3>2 DEF Upto
    <3>3. CASE i > c
      <4>1. i - c \in 1..Len(t) /\ t[i - c] = w[i]
        BY <2>2, <3>3, <1>1
      <4> QED BY <4>1, <3>1 DEF Frames
    <3> QED BY <3>2, <3>3, <1>1
  <2>4. ASSUME NEW e \in Upto(w, c) \cup Frames(t) PROVE e \in Upto(w, Whole(w))
    <3>1. CASE e \in Upto(w, c)
      BY <3>1, <1>1, <1>6 DEF Upto
    <3>2. CASE e \in Frames(t)
      <4>1. PICK i \in 1..Len(t) : e = t[i]
        BY <3>2 DEF Frames
      <4>2. c + i \in 1..Whole(w) /\ e = w[c + i]
        BY <4>1, <2>2, <1>1, <1>6
      <4> QED BY <4>2 DEF Upto
    <3> QED BY <3>1, <3>2, <2>4
  <2>5. c + Len(t) = Whole(w)
    BY <2>2, <1>1
  <2> QED BY <2>3, <2>4, <2>5
<1> QED BY <1>2, <1>4, <1>5, <1>6

\* An open reads all the whole frames.
LEMMA OpenFinds ==
  ASSUME NEW w \in Seq(Nat), TornLast(w)
  PROVE  Frames(TailFrom(w, 0)) = Upto(w, Whole(w)) /\ Len(TailFrom(w, 0)) = Whole(w)
<1>1. Upto(w, 0) = {}
  BY DEF Upto
<1>2. Whole(w) \in Nat
  BY WholeFacts
<1>3. PICK t : t = TailFrom(w, 0)
  OBVIOUS
<1>4. Len(t) \in Nat /\ 0 + Len(t) = Whole(w) /\ Upto(w, 0) \cup Frames(t) = Upto(w, Whole(w))
  BY <1>2, <1>3, TailFromApplied
<1>5. Len(t) = Whole(w)
  BY <1>2, <1>4
<1>6. Frames(t) = Upto(w, Whole(w))
  BY <1>1, <1>4
<1> QED BY <1>3, <1>5, <1>6

LEMMA StoreStateIs ==
  ASSUME wal \in Seq(Nat), TornLast(wal)
  PROVE  StoreState = snap.done \cup Upto(wal, Whole(wal))
BY OpenFinds DEF StoreState

\* The graph of a prefix depends on the frames of the prefix only.
LEMMA UptoSame ==
  ASSUME NEW w, NEW v, NEW n \in Nat, \A i \in 1..n : v[i] = w[i]
  PROVE  Upto(v, n) = Upto(w, n)
BY DEF Upto

\* An append begins.
LEMMA AppendBegun ==
  ASSUME NEW w \in Seq(Nat), TornLast(w), Whole(w) = Len(w),
         NEW v, v = Append(w, Torn)
  PROVE  /\ v \in Seq(Nat) /\ TornLast(v) /\ Len(v) = Len(w) + 1 /\ v[Len(v)] = Torn
         /\ Whole(v) = Len(w) /\ \A n \in 0..Len(w) : Upto(v, n) = Upto(w, n)
<1>1. Len(w) \in Nat /\ Torn \in Nat
  BY DEF Torn
<1>2. v \in Seq(Nat) /\ Len(v) = Len(w) + 1 /\ v[Len(v)] = Torn /\ \A i \in 1..Len(w) : v[i] = w[i]
  BY <1>1
<1>3. Whole(v) = Len(w)
  BY <1>1, <1>2 DEF Whole
<1>4. TornLast(v)
  BY <1>1, <1>2, WholeNotTorn DEF TornLast
<1>5. ASSUME NEW n \in 0..Len(w) PROVE Upto(v, n) = Upto(w, n)
  <2>1. n \in Nat /\ \A i \in 1..n : v[i] = w[i]
    BY <1>1, <1>2
  <2> QED BY ONLY <2>1, UptoSame, Zenon
<1> QED BY <1>2, <1>3, <1>4, <1>5

\* An append ends.
LEMMA AppendEnded ==
  ASSUME NEW w \in Seq(Nat), TornLast(w), Len(w) > 0, w[Len(w)] = Torn,
         NEW k \in Nat, k # Torn, NEW v \in Seq(Nat), Len(v) = Len(w),
         v[Len(w)] = k, \A i \in 1..Len(w) - 1 : v[i] = w[i]
  PROVE  /\ TornLast(v) /\ Whole(v) = Len(w) /\ Whole(w) = Len(w) - 1
         /\ \A n \in 0..Whole(w) : Upto(v, n) = Upto(w, n)
         /\ Upto(v, Len(v)) = Upto(w, Whole(w)) \cup {k}
<1>1. Len(w) \in Nat /\ Whole(w) = Len(w) - 1
  BY DEF Whole
<1>2. v \in Seq(Nat) /\ Len(v) = Len(w) /\ v[Len(w)] = k
  OBVIOUS
<1>3. \A i \in 1..Whole(w) : v[i] = w[i]
  BY <1>1
<1>4. Whole(v) = Len(w)
  BY <1>2, <1>1 DEF Whole
<1>5. TornLast(v)
  <2>1. \A i \in 1..Whole(w) : v[i] # Torn
    BY <1>3, WholeNotTorn
  <2>2. PICK l \in Nat : l = Len(w)
    BY <1>1
  <2>3. \A i \in 1..l : i \in 1..l - 1 \/ i = l
    BY <2>2
  <2> QED BY <2>1, <2>2, <2>3, <1>1, <1>2 DEF TornLast
<1>6. ASSUME NEW n \in 0..Whole(w) PROVE Upto(v, n) = Upto(w, n)
  <2>1. n \in Nat /\ \A i \in 1..n : v[i] = w[i]
    BY <1>1, <1>3
  <2> QED BY ONLY <2>1, UptoSame, Zenon
<1>7. Upto(v, Len(v)) = Upto(v, Whole(w)) \cup {k}
  <2>0. PICK l \in Nat : l = Len(w)
    BY <1>1
  <2>1. \A i \in 1..l : i \in 1..l - 1 \/ i = l
    BY <2>0
  <2>2. Len(w) \in 1..Len(v) /\ 1..Whole(w) \subseteq 1..Len(v)
    BY <1>1, <1>2
  <2> QED BY <2>0, <2>1, <2>2, <1>1, <1>2 DEF Upto
<1>8. Whole(w) \in 0..Whole(w)
  BY <1>1
<1> QED BY <1>1, <1>2, <1>4, <1>5, <1>6, <1>7, <1>8

\* A repair keeps the whole frames.
LEMMA Repaired ==
  ASSUME NEW w \in Seq(Nat), TornLast(w), NEW v, v = SubSeq(w, 1, Whole(w))
  PROVE  /\ v \in Seq(Nat) /\ TornLast(v) /\ Len(v) = Whole(w) /\ Whole(v) = Whole(w)
         /\ Upto(v, Whole(w)) = Upto(w, Whole(w))
<1>1. Len(w) \in Nat /\ Whole(w) \in 0..Len(w)
  BY WholeFacts
<1>2. v \in Seq(Nat) /\ Len(v) = Whole(w) /\ \A i \in 1..Whole(w) : v[i] = w[i]
  BY <1>1
<1>3. \A i \in 1..Len(v) : v[i] # Torn
  BY <1>2, WholeNotTorn
<1>4. Whole(v) = Whole(w) /\ TornLast(v)
  BY <1>1, <1>2, <1>3 DEF Whole, TornLast
<1>5. Upto(v, Whole(w)) = Upto(w, Whole(w))
  <2>1. Whole(w) \in Nat /\ \A i \in 1..Whole(w) : v[i] = w[i]
    BY <1>1, <1>2
  <2> QED BY ONLY <2>1, UptoSame, Zenon
<1> QED BY <1>2, <1>4, <1>5

\* An empty WAL.
LEMMA EmptyWal ==
  /\ <<>> \in Seq(Nat) /\ TornLast(<<>>) /\ Len(<<>>) = 0 /\ Whole(<<>>) = 0
  /\ Upto(<<>>, 0) = {}
BY DEF TornLast, Whole, Upto

-----------------------------------------------------------------------------
(* Steps.                                                                  *)

\* Who else has the lock is nothing to a handle.
LEMMA LockPartFrame ==
  ASSUME NEW x, NEW p, NEW l, NEW m, NEW modes, l = p <=> m = p, LockPart(x, p, l, modes)
  PROVE  LockPart(x, p, m, modes)
BY DEF LockPart

\* One handle changes, and perhaps the lock's holder, and the files do not.
LEMMA LocalStep ==
  ASSUME SafeInv, NEW p \in Proc, NEW x \in Handle, h' = [h EXCEPT ![p] = x],
         UNCHANGED <<world, wal, ino, snap, next, dropped>>,
         acked' \in SUBSET Nat, acked' \subseteq StoreState \cup dropped,
         lock' \in Proc \cup {NoProc}, \A q \in Proc \ {p} : lock' = q <=> lock = q,
         h[p].pc = "appending" => "torn" \in world.faults,
         LockPart(x, p, lock', world.modes), SharedPart(x, wal, ino, snap),
         lock' = p => HolderPart(x, wal, ino, snap, next, dropped)
  PROVE  SafeInv'
<1>1. h \in [Proc -> Handle] /\ h' \in [Proc -> Handle] /\ h'[p] = x /\ \A q \in Proc \ {p} : h'[q] = h[q]
  BY DEF SafeInv, TypeOK
<1>2. TypeOK'
  BY <1>1 DEF SafeInv, TypeOK
<1>3. FilePart'
  <2>1. FilePart
    BY DEF SafeInv
  <2>2. "torn" \in world.faults \/ (\A q \in Proc : h[q].pc = "appending" => h'[q].pc = "appending")
    BY <1>1
  <2> QED BY <2>1, <2>2 DEF FilePart
<1>4. ASSUME NEW q \in Proc PROVE HandlePart(q)'
  <2>1. HandlePart(q)
    BY DEF SafeInv
  <2>2. CASE q = p
    BY <1>1, <2>2 DEF HandlePart
  <2>3. CASE q # p
    <3>1. lock' = q <=> lock = q
      BY <2>3
    <3>2. LockPart(h[q], q, lock', world.modes)
      BY <2>1, <3>1, LockPartFrame DEF HandlePart
    <3> QED BY <1>1, <2>1, <2>3, <3>1, <3>2 DEF HandlePart
  <2> QED BY <2>2, <2>3
<1>5. AckedSurvives'
  BY DEF AckedSurvives, StoreState
<1> QED BY <1>2, <1>3, <1>4, <1>5 DEF SafeInv

\* The holder of the lock changes the files, and its handle.
LEMMA HolderStep ==
  ASSUME SafeInv, NEW p \in Proc, NEW x \in Handle, h' = [h EXCEPT ![p] = x],
         NEW w \in Seq(Nat), NEW i \in Nat, NEW s \in [id : Nat, done : SUBSET Nat], NEW n \in Nat,
         NEW d \in SUBSET Nat,
         wal' = w, ino' = i, snap' = s, next' = n, dropped' = d, UNCHANGED <<world, acked>>,
         TornLast(w), n > 0,
         Whole(w) < Len(w) => x.pc = "appending",
         acked \subseteq s.done \cup Upto(w, Whole(w)) \cup d,
         lock = p, lock' \in {p, NoProc},
         LockPart(x, p, lock', world.modes), SharedPart(x, w, i, s),
         lock' = p => HolderPart(x, w, i, s, n, d),
         \A q \in Proc \ {p} : SharedPart(h[q], w, i, s)
  PROVE  SafeInv'
<1>1. h \in [Proc -> Handle] /\ h' \in [Proc -> Handle] /\ h'[p] = x /\ \A q \in Proc \ {p} : h'[q] = h[q]
  BY DEF SafeInv, TypeOK
<1>2. TypeOK'
  BY <1>1 DEF SafeInv, TypeOK
<1>3. FilePart'
  BY <1>1 DEF FilePart
<1>4. ASSUME NEW q \in Proc PROVE HandlePart(q)'
  <2>1. HandlePart(q)
    BY DEF SafeInv
  <2>2. CASE q = p
    BY <1>1, <2>2 DEF HandlePart
  <2>3. CASE q # p
    <3>1. ~(lock = q) /\ ~(lock' = q)
      BY <2>3, ProcessesAssumption
    <3>2. LockPart(h[q], q, lock', world.modes)
      BY <2>1, <3>1, LockPartFrame DEF HandlePart
    <3> QED BY <1>1, <2>1, <2>3, <3>1, <3>2 DEF HandlePart
  <2> QED BY <2>2, <2>3
<1>5. AckedSurvives'
  <2>1. Frames(TailFrom(w, 0)) = Upto(w, Whole(w))
    BY OpenFinds
  <2>2. StoreState' = s.done \cup Upto(w, Whole(w))
    BY <2>1 DEF StoreState
  <2> QED BY <2>2 DEF AckedSurvives
<1> QED BY <1>2, <1>3, <1>4, <1>5 DEF SafeInv

\* What the invariant says about one handle and the files.
LEMMA SafeFacts ==
  ASSUME SafeInv, NEW p \in Proc
  PROVE  /\ h[p] \in Handle /\ LockPart(h[p], p, lock, world.modes)
         /\ SharedPart(h[p], wal, ino, snap)
         /\ lock = p => HolderPart(h[p], wal, ino, snap, next, dropped)
         /\ wal \in Seq(Nat) /\ TornLast(wal) /\ ino \in Nat /\ snap.id \in Nat /\ snap.done \in SUBSET Nat
         /\ next \in Nat /\ next > 0 /\ lock \in Proc \cup {NoProc}
         /\ acked \in SUBSET Nat /\ dropped \in SUBSET Nat /\ acked \subseteq StoreState \cup dropped
         /\ h[p].consumed \in Nat /\ h[p].walId \in Nat /\ h[p].snapId \in Nat /\ h[p].loaded \in Nat
         /\ h[p].mem \in SUBSET Nat
BY DEF SafeInv, TypeOK, FilePart, HandlePart, AckedSurvives, Handle

\* The types that a step's new handle is made from.
LEMMA HandleTypes ==
  ASSUME SafeInv, NEW p \in Proc
  PROVE  /\ h[p] \in Handle /\ acked \in SUBSET Nat /\ wal \in Seq(Nat)
         /\ ino \in Nat /\ snap.id \in Nat /\ snap.done \in SUBSET Nat
BY SafeFacts

\* A handle that has read the WAL is a handle.
LEMMA ReadWalType ==
  ASSUME NEW y \in Handle, NEW m \in SUBSET Nat, NEW c \in Nat, NEW i \in Nat, NEW t \in Seq(Nat),
         NEW k \in {"repair", "loadIdent"}
  PROVE  [y EXCEPT !.mem = m, !.consumed = c, !.walId = i, !.keep = t, !.pc = k] \in Handle
<1>1. PICK z : z = [y EXCEPT !.mem = m, !.consumed = c, !.walId = i]
  OBVIOUS
<1>2. z \in Handle
  BY <1>1 DEF Handle
<1>3. [y EXCEPT !.mem = m, !.consumed = c, !.walId = i, !.keep = t, !.pc = k]
        = [z EXCEPT !.keep = t, !.pc = k]
  BY <1>1
<1>4. [z EXCEPT !.keep = t, !.pc = k] \in Handle
  BY <1>2 DEF Handle
<1> QED BY <1>3, <1>4

-----------------------------------------------------------------------------
(* Each step keeps the invariant.                                          *)

LEMMA ReadSafe ==
  ASSUME SafeInv, NEW p \in Proc, Read(p)
  PROVE  SafeInv'
<1>1. PICK x : /\ x = [h[p] EXCEPT !.must = acked, !.pc = IF Stale(h[p]) THEN "look" ELSE "served"]
               /\ h' = [h EXCEPT ![p] = x]
  BY DEF Read, Step
<1>0. PICK k \in {"look", "served"} : k = IF Stale(h[p]) THEN "look" ELSE "served"
  OBVIOUS
<1>2. h[p].pc = "idle" /\ UNCHANGED <<world, wal, ino, snap, lock, next, acked, dropped>>
  BY DEF Read, Step
<1>8. x = [h[p] EXCEPT !.must = acked, !.pc = k]
  BY ONLY <1>0, <1>1
<1>9. h[p] \in Handle /\ acked \in SUBSET Nat
  BY SafeFacts
<1>3. x \in Handle
  BY ONLY <1>0, <1>8, <1>9 DEF Handle
<1>4. LockPart(x, p, lock', world.modes)
  BY <1>1, <1>2, SafeFacts DEF LockPart, Handle, LoadPcs
<1>5. SharedPart(x, wal, ino, snap)
  BY <1>1, <1>2, SafeFacts DEF SharedPart, Coherent, Handle, LoadPcs
<1>6. lock' # p
  BY <1>2, SafeFacts DEF LockPart
<1> QED BY <1>1, <1>2, <1>3, <1>4, <1>5, <1>6, SafeFacts, LocalStep

LEMMA ReturnSafe ==
  ASSUME SafeInv, NEW p \in Proc, Return(p)
  PROVE  SafeInv'
<1>1. PICK x : x = [h[p] EXCEPT !.must = {}, !.pc = "idle"] /\ h' = [h EXCEPT ![p] = x]
  BY DEF Return, Step
<1>2. h[p].pc = "served" /\ UNCHANGED <<world, wal, ino, snap, lock, next, acked, dropped>>
  BY DEF Return, Step
<1>3. x \in Handle
  BY <1>1, HandleTypes DEF Handle
<1>4. LockPart(x, p, lock', world.modes)
  BY <1>1, <1>2, SafeFacts DEF LockPart, Handle, LoadPcs
<1>5. SharedPart(x, wal, ino, snap)
  BY <1>1, <1>2, SafeFacts DEF SharedPart, Coherent, Handle, LoadPcs
<1>6. lock' # p
  BY <1>2, SafeFacts DEF LockPart
<1> QED BY <1>1, <1>2, <1>3, <1>4, <1>5, <1>6, SafeFacts, LocalStep

LEMMA LookAtSnapshotSafe ==
  ASSUME SafeInv, NEW p \in Proc, LookAtSnapshot(p)
  PROVE  SafeInv'
<1>1. PICK k \in {"loadSnap", "lookWal"} : k = IF snap.id # h[p].snapId THEN "loadSnap" ELSE "lookWal"
  OBVIOUS
<1>2. PICK x : x = [h[p] EXCEPT !.pc = k] /\ h' = [h EXCEPT ![p] = x]
  BY <1>1 DEF LookAtSnapshot, Step
<1>3. h[p].pc = "look" /\ UNCHANGED <<world, wal, ino, snap, lock, next, acked, dropped>>
  BY DEF LookAtSnapshot, Step
<1>4. x \in Handle
  BY <1>2, HandleTypes DEF Handle
<1>5. LockPart(x, p, lock', world.modes)
  BY <1>2, <1>3, SafeFacts DEF LockPart, Handle, LoadPcs
<1>6. SharedPart(x, wal, ino, snap)
  BY <1>1, <1>2, <1>3, SafeFacts DEF SharedPart, Coherent, Handle, LoadPcs
<1>7. HolderPart(x, wal, ino, snap, next, dropped)
  BY <1>1, <1>2, <1>3, SafeFacts DEF HolderPart, Handle
<1> QED BY <1>2, <1>3, <1>4, <1>5, <1>6, <1>7, SafeFacts, LocalStep

\* Under the lock, and where no writer dies in an append, the WAL is whole.
LEMMA HeldWhole ==
  ASSUME SafeInv, NEW p \in Proc, lock = p, h[p].pc # "appending", "torn" \notin world.faults
  PROVE  Whole(wal) = Len(wal)
<1>1. \A q \in Proc : h[q].pc = "appending" => q = p
  BY SafeFacts DEF LockPart
<1>2. ~(Whole(wal) < Len(wal))
  BY <1>1 DEF SafeInv, FilePart
<1> QED BY <1>2, SafeFacts, WholeFacts

LEMMA LookAtWalSafe ==
  ASSUME SafeInv, Safe, NEW p \in Proc, LookAtWal(p)
  PROVE  SafeInv'
<1>1. h[p].pc = "lookWal" /\ UNCHANGED <<world, wal, ino, snap, lock, next, acked, dropped>>
  BY DEF LookAtWal, Step
<1>2. PICK k \in {"loadSnap", "ready", "served", "tail"} :
        /\ h' = [h EXCEPT ![p] = [h[p] EXCEPT !.pc = k]]
        /\ k = "loadSnap" => Len(wal) < h[p].consumed \/ WalReplaced(h[p])
        /\ k \in {"ready", "served"} => Len(wal) = h[p].consumed /\ ~WalReplaced(h[p])
        /\ k = "tail" => ~WalReplaced(h[p])
        /\ k = "ready" => h[p].writing
        /\ k = "served" => ~h[p].writing
  BY DEF LookAtWal, Step, Refreshed
<1>3. PICK x : x = [h[p] EXCEPT !.pc = k] /\ h' = [h EXCEPT ![p] = x]
  BY <1>2
<1>4. x \in Handle
  BY <1>3, HandleTypes DEF Handle
<1>5. LockPart(x, p, lock', world.modes)
  BY <1>1, <1>2, <1>3, SafeFacts DEF LockPart, Handle, LoadPcs
<1>7. SharedPart(x, wal, ino, snap)
  BY <1>1, <1>2, <1>3, SafeFacts DEF SharedPart, Coherent, Handle, LoadPcs
<1>8. ASSUME lock = p PROVE HolderPart(x, wal, ino, snap, next, dropped)
  <2>1. h[p].writing /\ h[p].mode = "shared" /\ "shared" \in world.modes
    BY <1>1, <1>8, SafeFacts DEF LockPart, Handle
  <2>2. Whole(wal) = Len(wal)
    BY <1>1, <1>8, <2>1, HeldWhole DEF Safe
  <2>3. h[p].snapId = snap.id
    BY <1>1, <1>8, SafeFacts DEF HolderPart
  <2>4. k # "loadSnap" => h[p].walId = ino
    BY <1>2, <2>1 DEF WalReplaced
  <2>5. k = "ready" => AtCursor(h[p], Len(wal), wal, snap)
    BY <1>1, <1>2, <2>1, <2>3, <2>4, SafeFacts DEF SharedPart, Coherent, AtCursor
  <2>6. x.snapId = h[p].snapId /\ x.walId = h[p].walId /\ x.pc = k
        /\ x.mem = h[p].mem /\ x.consumed = h[p].consumed /\ x.loaded = h[p].loaded
    BY <1>3, SafeFacts DEF Handle
  <2>7. k = "ready" => AtCursor(x, Len(wal), wal, snap)
    BY <2>5, <2>6 DEF AtCursor
  <2> QED BY <1>2, <2>1, <2>2, <2>3, <2>4, <2>6, <2>7 DEF HolderPart
<1> QED BY <1>1, <1>3, <1>4, <1>5, <1>7, <1>8, SafeFacts, LocalStep

LEMMA ReadTailSafe ==
  ASSUME SafeInv, Safe, NEW p \in Proc, ReadTail(p)
  PROVE  SafeInv'
<1>1. h[p].pc = "tail" /\ UNCHANGED <<world, wal, ino, snap, lock, next, acked, dropped>>
  BY DEF ReadTail, Step
<1>2. PICK k \in {"ready", "served"} : k = IF h[p].writing THEN "ready" ELSE "served"
  OBVIOUS
<1>3. PICK m \in SUBSET Nat : m = h[p].mem \cup Frames(TailFrom(wal, h[p].consumed))
  BY SafeFacts, TailFromApplied
<1>4. PICK c \in Nat : c = h[p].consumed + Len(TailFrom(wal, h[p].consumed))
  BY SafeFacts, TailFromApplied
<1>5. PICK x : x = [h[p] EXCEPT !.mem = m, !.consumed = c, !.pc = k] /\ h' = [h EXCEPT ![p] = x]
  <2>1. h' = [h EXCEPT ![p] = Refreshed([h[p] EXCEPT !.mem = m, !.consumed = c])]
    BY <1>3, <1>4, SafeFacts DEF ReadTail, Step, Handle
  <2>2. Refreshed([h[p] EXCEPT !.mem = m, !.consumed = c]) = [h[p] EXCEPT !.mem = m, !.consumed = c, !.pc = k]
    BY <1>2, SafeFacts DEF Refreshed, Handle
  <2> QED BY <2>1, <2>2
<1>6. x \in Handle
  BY <1>5, HandleTypes DEF Handle
<1>7. LockPart(x, p, lock', world.modes)
  BY <1>1, <1>2, <1>5, SafeFacts DEF LockPart, Handle, LoadPcs
<1>8. /\ x.pc = k /\ x.mem = m /\ x.consumed = c /\ x.mode = h[p].mode
      /\ x.walId = h[p].walId /\ x.snapId = h[p].snapId /\ x.loaded = h[p].loaded
  BY <1>5, SafeFacts DEF Handle
<1>9. ASSUME h[p].mode = "shared", h[p].walId = ino
      PROVE  c = Whole(wal) /\ (h[p].snapId = snap.id /\ h[p].loaded = snap.id => m = snap.done \cup Upto(wal, Whole(wal)))
  <2>1. /\ h[p].consumed <= Whole(wal)
        /\ h[p].snapId = snap.id /\ h[p].loaded = snap.id => h[p].mem = snap.done \cup Upto(wal, h[p].consumed)
    BY <1>1, <1>9, SafeFacts DEF SharedPart, Coherent
  <2>2. /\ h[p].consumed + Len(TailFrom(wal, h[p].consumed)) = Whole(wal)
        /\ Upto(wal, h[p].consumed) \cup Frames(TailFrom(wal, h[p].consumed)) = Upto(wal, Whole(wal))
    BY <2>1, SafeFacts, TailFromApplied
  <2> QED BY <2>1, <2>2, <1>3, <1>4
<1>10. SharedPart(x, wal, ino, snap)
  <2>1. Whole(wal) \in Nat
    BY SafeFacts, WholeFacts
  <2>2. h[p].mode = "shared" => Coherent(x, wal, ino, snap)
    BY <1>8, <1>9, <2>1 DEF Coherent
  <2> QED BY <1>8, <2>2, SafeFacts DEF SharedPart, LoadPcs
<1>11. ASSUME lock = p PROVE HolderPart(x, wal, ino, snap, next, dropped)
  <2>1. h[p].writing /\ h[p].mode = "shared" /\ "shared" \in world.modes
    BY <1>1, <1>11, SafeFacts DEF LockPart, Handle
  <2>2. Whole(wal) = Len(wal)
    BY <1>1, <1>11, <2>1, HeldWhole DEF Safe
  <2>3. h[p].snapId = snap.id /\ h[p].walId = ino
    BY <1>1, <1>11, SafeFacts DEF HolderPart
  <2>4. AtCursor(x, Len(wal), wal, snap)
    BY <1>8, <1>9, <2>1, <2>2, <2>3 DEF AtCursor
  <2> QED BY <1>2, <1>8, <2>1, <2>2, <2>3, <2>4 DEF HolderPart
<1> QED BY <1>1, <1>5, <1>6, <1>7, <1>10, <1>11, SafeFacts, LocalStep

LEMMA LoadSnapshotSafe ==
  ASSUME SafeInv, NEW p \in Proc, LoadSnapshot(p)
  PROVE  SafeInv'
<1>1. h[p].pc = "loadSnap" /\ UNCHANGED <<world, wal, ino, snap, lock, next, acked, dropped>>
  BY DEF LoadSnapshot, Step
<1>2. PICK x : x = [h[p] EXCEPT !.mem = snap.done, !.loaded = snap.id, !.pc = "loadWal"] /\ h' = [h EXCEPT ![p] = x]
  BY DEF LoadSnapshot, Step
<1>3. x \in Handle
  BY <1>2, HandleTypes DEF Handle
<1>4. LockPart(x, p, lock', world.modes)
  BY <1>1, <1>2, SafeFacts DEF LockPart, Handle, LoadPcs
<1>5. SharedPart(x, wal, ino, snap)
  BY <1>1, <1>2, SafeFacts DEF SharedPart, Handle, LoadPcs
<1>6. HolderPart(x, wal, ino, snap, next, dropped)
  BY <1>1, <1>2, SafeFacts DEF HolderPart, Handle
<1> QED BY <1>1, <1>2, <1>3, <1>4, <1>5, <1>6, SafeFacts, LocalStep

LEMMA LoadWalSafe ==
  ASSUME SafeInv, Safe, NEW p \in Proc, LoadWal(p)
  PROVE  SafeInv'
<1>1. h[p].pc = "loadWal" /\ UNCHANGED <<world, wal, ino, snap, lock, next, acked, dropped>>
  BY DEF LoadWal, Step
<1>2. PICK t \in Seq(Nat) : t = TailFrom(wal, 0)
  BY SafeFacts, TailFromApplied
<1>3. t = SubSeq(wal, 1, Whole(wal)) /\ Len(t) = Whole(wal) /\ Frames(t) = Upto(wal, Whole(wal))
  <2>1. Whole(wal) \in Nat /\ 0 + 1 = 1
    BY SafeFacts, WholeFacts
  <2>2. wal \in Seq(Nat) /\ TornLast(wal) /\ 0 \in Nat
    BY SafeFacts
  <2>3. Len(t) = Whole(wal) /\ Frames(t) = Upto(wal, Whole(wal))
    BY <1>2, <2>2, OpenFinds
  <2>4. t = SubSeq(wal, 0 + 1, Whole(wal))
    BY <1>2, <2>1, <2>2, TailFromIs
  <2> QED BY <2>1, <2>3, <2>4
<1>4. PICK k \in {"repair", "loadIdent"} :
        k = IF h[p].opening /\ h[p].mode # "reader" /\ Len(t) < Len(wal) THEN "repair" ELSE "loadIdent"
  OBVIOUS
<1>5. PICK m \in SUBSET Nat : m = h[p].mem \cup Frames(t)
  BY <1>2, SafeFacts, TailFromApplied
<1>6. PICK c \in Nat : c = Len(t)
  OBVIOUS
<1>7. PICK x : /\ x = [h[p] EXCEPT !.mem = m, !.consumed = c, !.walId = ino, !.keep = t, !.pc = k]
               /\ h' = [h EXCEPT ![p] = x]
  BY <1>2, <1>4, <1>5, <1>6, SafeFacts DEF LoadWal, Step, Handle
<1>0. h[p] \in Handle /\ ino \in Nat
  BY SafeFacts
<1>8. x \in Handle
  <2>1. m \in SUBSET Nat /\ c \in Nat /\ t \in Seq(Nat) /\ k \in {"repair", "loadIdent"}
    OBVIOUS
  <2>2. [h[p] EXCEPT !.mem = m, !.consumed = c, !.walId = ino, !.keep = t, !.pc = k] \in Handle
    BY ONLY <1>0, <2>1, ReadWalType
  <2> QED BY ONLY <1>7, <2>2
<1>9. LockPart(x, p, lock', world.modes)
  BY <1>1, <1>4, <1>7, SafeFacts DEF LockPart, Handle, LoadPcs
<1>10. /\ x.pc = k /\ x.mem = m /\ x.consumed = c /\ x.mode = h[p].mode /\ x.keep = t
       /\ x.walId = ino /\ x.snapId = h[p].snapId /\ x.loaded = h[p].loaded
  BY <1>7, SafeFacts DEF Handle
<1>11. Whole(wal) \in Nat /\ Len(wal) \in Nat /\ Whole(wal) <= Len(wal)
  BY SafeFacts, WholeFacts
<1>12. SharedPart(x, wal, ino, snap)
  <2>1. h[p].mode = "shared" /\ h[p].loaded = snap.id => m = snap.done \cup Upto(wal, Whole(wal))
    BY <1>1, <1>3, <1>5, SafeFacts DEF SharedPart
  <2>2. h[p].mode = "shared" => k = "loadIdent"
    BY <1>1, <1>4, SafeFacts DEF SharedPart, LockPart, LoadPcs
  <2>3. ino <= ino /\ h[p].snapId <= snap.id /\ h[p].loaded <= snap.id
    BY SafeFacts DEF SharedPart
  <2> QED BY <1>3, <1>6, <1>10, <1>11, <2>1, <2>2, <2>3 DEF SharedPart, AtCursor, LoadPcs
<1>13. ASSUME lock = p PROVE HolderPart(x, wal, ino, snap, next, dropped)
  <2>1. m = snap.done \cup Upto(wal, Whole(wal)) /\ x.loaded = snap.id
    BY <1>1, <1>3, <1>5, <1>10, <1>13, SafeFacts DEF HolderPart
  <2>2. ASSUME k = "loadIdent" PROVE Whole(wal) = Len(wal)
    <3>1. CASE h[p].mode = "shared"
      <4>1. "torn" \notin world.faults
        BY <1>1, <3>1, SafeFacts DEF LockPart, Safe
      <4> QED BY <4>1, <1>1, <1>13, HeldWhole
    <3>2. CASE h[p].mode = "owner"
      <4>1. h[p].opening
        BY <1>1, <3>2, SafeFacts DEF LockPart, LoadPcs
      <4> QED BY <4>1, <3>2, <2>2, <1>3, <1>4, <1>11
    <3> QED BY <3>1, <3>2, <1>13, SafeFacts DEF LockPart, Handle
  <2>3. k = "loadIdent" => AtCursor(x, Len(wal), wal, snap)
    BY <2>1, <2>2, <1>3, <1>6, <1>10 DEF AtCursor
  <2>4. k = "repair" => Whole(wal) < Len(wal) /\ AtCursor(x, Whole(wal), wal, snap)
    BY <2>1, <1>3, <1>4, <1>6, <1>10 DEF AtCursor
  <2> QED BY <2>1, <2>2, <2>3, <2>4, <1>3, <1>4, <1>10 DEF HolderPart
<1> QED BY <1>1, <1>7, <1>8, <1>9, <1>12, <1>13, SafeFacts, LocalStep

LEMMA LoadIdentSafe ==
  ASSUME SafeInv, NEW p \in Proc, LoadIdent(p)
  PROVE  SafeInv'
<1>1. h[p].pc = "loadIdent" /\ UNCHANGED <<world, wal, ino, snap, lock, next, acked, dropped>>
  BY DEF LoadIdent, Step
<1>2. PICK k \in {"idle", "ready", "served"} :
        k = IF h[p].opening /\ ~h[p].writing THEN "idle" ELSE IF h[p].writing THEN "ready" ELSE "served"
  OBVIOUS
<1>0. PICK e \in Seq(Nat) : e = <<>>
  BY EmptyWal
<1>3. PICK x : /\ x = [h[p] EXCEPT !.snapId = snap.id, !.keep = e, !.opening = FALSE, !.pc = k]
               /\ h' = [h EXCEPT ![p] = x]
  BY <1>0, <1>2, SafeFacts DEF LoadIdent, Step, Refreshed, Handle
<1>4. x \in Handle
  BY <1>3, HandleTypes DEF Handle
<1>5. LockPart(x, p, lock', world.modes)
  BY <1>1, <1>2, <1>3, SafeFacts DEF LockPart, Handle, LoadPcs
<1>6. /\ x.pc = k /\ x.mem = h[p].mem /\ x.consumed = h[p].consumed /\ x.mode = h[p].mode
      /\ x.walId = h[p].walId /\ x.snapId = snap.id /\ x.loaded = h[p].loaded
  BY <1>3, SafeFacts DEF Handle
<1>7. SharedPart(x, wal, ino, snap)
  BY <1>1, <1>6, SafeFacts DEF SharedPart, Coherent, AtCursor, LoadPcs
<1>8. ASSUME lock = p PROVE HolderPart(x, wal, ino, snap, next, dropped)
  <2>1. k = "ready"
    BY <1>2, <1>8, SafeFacts DEF LockPart
  <2>2. h[p].walId = ino /\ Whole(wal) = Len(wal) /\ AtCursor(h[p], Len(wal), wal, snap)
    BY <1>1, <1>8, SafeFacts DEF HolderPart
  <2>3. AtCursor(x, Len(wal), wal, snap)
    BY <2>2, <1>6 DEF AtCursor
  <2> QED BY <1>6, <2>1, <2>2, <2>3 DEF HolderPart
<1> QED BY <1>1, <1>3, <1>4, <1>5, <1>7, <1>8, SafeFacts, LocalStep

LEMMA EnterWriteScopeSafe ==
  ASSUME SafeInv, NEW p \in Proc, EnterWriteScope(p)
  PROVE  SafeInv'
<1>1. /\ h[p].pc = "idle" /\ h[p].mode = "shared" /\ lock = NoProc /\ lock' = p
      /\ UNCHANGED <<world, wal, ino, snap, next, acked, dropped>>
  BY DEF EnterWriteScope, Step
<1>2. PICK x : x = [h[p] EXCEPT !.writing = TRUE, !.pc = "look"] /\ h' = [h EXCEPT ![p] = x]
  BY DEF EnterWriteScope, Step
<1>3. x \in Handle
  BY <1>2, HandleTypes DEF Handle
<1>4. LockPart(x, p, lock', world.modes)
  BY <1>1, <1>2, SafeFacts DEF LockPart, Handle, LoadPcs
<1>5. SharedPart(x, wal, ino, snap)
  BY <1>1, <1>2, SafeFacts DEF SharedPart, Coherent, Handle, LoadPcs
<1>6. HolderPart(x, wal, ino, snap, next, dropped)
  BY <1>2, SafeFacts DEF HolderPart, Handle
<1>7. \A q \in Proc \ {p} : lock' = q <=> lock = q
  BY <1>1, ProcessesAssumption
<1> QED BY <1>1, <1>2, <1>3, <1>4, <1>5, <1>6, <1>7, SafeFacts, LocalStep

\* A holder at the end of what it did is current, with or without the lock.
LEMMA HolderIsCoherent ==
  ASSUME SafeInv, NEW p \in Proc, lock = p, h[p].pc \in {"ready", "appended"},
         NEW x, x.mem = h[p].mem, x.consumed = h[p].consumed,
         x.loaded = h[p].loaded
  PROVE  /\ Coherent(x, wal, ino, snap) /\ Whole(wal) = Len(wal) /\ AtCursor(x, Len(wal), wal, snap)
         /\ h[p].walId = ino /\ h[p].snapId = snap.id
         /\ ~Straddles(h[p]) => h[p].mem = StoreState
<1>1. HolderPart(h[p], wal, ino, snap, next, dropped)
  BY SafeFacts
<1>2. /\ Whole(wal) = Len(wal) /\ AtCursor(h[p], Len(wal), wal, snap)
      /\ h[p].walId = ino /\ h[p].snapId = snap.id
  BY <1>1 DEF HolderPart
<1>3. Len(wal) \in Nat
  BY SafeFacts
<1>4. StoreState = snap.done \cup Upto(wal, Whole(wal))
  BY SafeFacts, StoreStateIs
<1> QED BY <1>2, <1>3, <1>4 DEF Coherent, AtCursor, Straddles

\* end_write_lock.
LEMMA LeftFacts ==
  ASSUME NEW y \in Handle, y.mode # "reader", NEW x, x = Left(y)
  PROVE  /\ x \in Handle /\ x.mem = y.mem /\ x.consumed = y.consumed /\ x.mode = y.mode
         /\ x.walId = y.walId /\ x.snapId = y.snapId /\ x.loaded = y.loaded /\ x.opening = y.opening /\ x.must = y.must
         /\ y.mode = "owner" => x.pc = "ready" /\ x.writing = y.writing
         /\ y.mode = "shared" => x.pc = "idle" /\ x.writing = FALSE
BY DEF Left, Handle

LEMMA LeaveWriteScopeSafe ==
  ASSUME SafeInv, NEW p \in Proc, LeaveWriteScope(p)
  PROVE  SafeInv'
<1>1. /\ h[p].pc = "ready" /\ h[p].mode = "shared" /\ lock' = NoProc
      /\ UNCHANGED <<world, wal, ino, snap, next, acked, dropped>>
  BY DEF LeaveWriteScope, Step
<1>2. PICK x : x = Left(h[p]) /\ h' = [h EXCEPT ![p] = x]
  BY DEF LeaveWriteScope, Step
<1>3. /\ x \in Handle /\ x.mem = h[p].mem /\ x.consumed = h[p].consumed /\ x.mode = "shared"
      /\ x.walId = h[p].walId /\ x.snapId = h[p].snapId /\ x.loaded = h[p].loaded /\ x.opening = h[p].opening
      /\ x.pc = "idle" /\ x.writing = FALSE
  BY <1>1, <1>2, SafeFacts, LeftFacts
<1>4. lock = p /\ NoProc # p
  BY <1>1, SafeFacts, ProcessesAssumption DEF LockPart
<1>5. LockPart(x, p, lock', world.modes)
  BY <1>1, <1>3, <1>4, SafeFacts DEF LockPart, LoadPcs
<1>6. SharedPart(x, wal, ino, snap)
  BY <1>1, <1>3, <1>4, SafeFacts, HolderIsCoherent DEF SharedPart, LoadPcs
<1>7. \A q \in Proc \ {p} : lock' = q <=> lock = q
  BY <1>1, <1>4, ProcessesAssumption
<1> QED BY <1>1, <1>2, <1>3, <1>4, <1>5, <1>6, <1>7, SafeFacts, LocalStep

LEMMA FsyncSafe ==
  ASSUME SafeInv, NEW p \in Proc, Fsync(p)
  PROVE  SafeInv'
<1>1. /\ h[p].pc = "appended" /\ lock' = Unlocked(p) /\ acked' = acked \cup {next - 1}
      /\ UNCHANGED <<world, wal, ino, snap, next, dropped>>
  BY DEF Fsync, Step
<1>2. PICK x : x = Left(h[p]) /\ h' = [h EXCEPT ![p] = x]
  BY DEF Fsync, Step
<1>3. lock = p /\ NoProc # p /\ h[p].mode \in {"shared", "owner"}
  BY <1>1, SafeFacts, ProcessesAssumption DEF LockPart, Handle
<1>4. /\ x \in Handle /\ x.mem = h[p].mem /\ x.consumed = h[p].consumed /\ x.mode = h[p].mode
      /\ x.walId = h[p].walId /\ x.snapId = h[p].snapId /\ x.loaded = h[p].loaded /\ x.opening = h[p].opening
      /\ h[p].mode = "owner" => x.pc = "ready" /\ x.writing = h[p].writing
      /\ h[p].mode = "shared" => x.pc = "idle" /\ x.writing = FALSE
  <2>1. h[p] \in Handle /\ h[p].mode # "reader"
    BY <1>3, SafeFacts
  <2> QED BY ONLY <1>2, <2>1, LeftFacts, Zenon
<1>5. (h[p].mode = "owner" => lock' = p) /\ (h[p].mode = "shared" => lock' = NoProc)
  BY <1>1 DEF Unlocked
<1>6. /\ Coherent(x, wal, ino, snap) /\ Whole(wal) = Len(wal) /\ AtCursor(x, Len(wal), wal, snap)
      /\ h[p].walId = ino /\ h[p].snapId = snap.id
      /\ ~Straddles(h[p]) => h[p].mem = StoreState
  BY <1>1, <1>3, <1>4, HolderIsCoherent
<1>7. next - 1 \in StoreState /\ next - 1 \in Nat
  BY <1>1, <1>3, <1>6, SafeFacts, StoreStateIs DEF HolderPart
<1>8. LockPart(x, p, lock', world.modes)
  BY <1>1, <1>3, <1>4, <1>5, SafeFacts DEF LockPart, LoadPcs
<1>9. SharedPart(x, wal, ino, snap)
  BY <1>3, <1>4, <1>6, SafeFacts DEF SharedPart, LoadPcs
<1>10. lock' = p => HolderPart(x, wal, ino, snap, next, dropped)
  BY <1>3, <1>4, <1>5, <1>6 DEF HolderPart
<1>11. \A q \in Proc \ {p} : lock' = q <=> lock = q
  BY <1>3, <1>5, ProcessesAssumption
<1>12. acked' \in SUBSET Nat /\ acked' \subseteq StoreState \cup dropped /\ lock' \in Proc \cup {NoProc}
  BY <1>1, <1>3, <1>5, <1>7, SafeFacts
<1> QED BY <1>1, <1>2, <1>4, <1>8, <1>9, <1>10, <1>11, <1>12, LocalStep

\* A process that is gone.
LEMMA DownFacts ==
  /\ Down \in Handle /\ Down.pc = "down" /\ Down.mode = "shared"
  /\ Down.writing = FALSE /\ Down.opening = FALSE /\ Down.walId = 0 /\ Down.snapId = 0
  /\ Down.loaded = 0
  /\ Down.mem = {} /\ Down.consumed = 0 /\ Down.must = {}
BY EmptyWal DEF Down, Fresh, Handle

LEMMA GoneSafe ==
  ASSUME SafeInv, NEW p \in Proc, h' = [h EXCEPT ![p] = Down],
         lock' = IF lock = p THEN NoProc ELSE lock,
         h[p].pc = "appending" => "torn" \in world.faults,
         UNCHANGED <<world, wal, ino, snap, next, acked, dropped>>
  PROVE  SafeInv'
<1>1. NoProc # p /\ lock' # p /\ lock' \in Proc \cup {NoProc}
  BY SafeFacts, ProcessesAssumption
<1>2. \A q \in Proc \ {p} : lock' = q <=> lock = q
  BY ProcessesAssumption
<1>3. PICK x : x = Down
  OBVIOUS
<1>4. LockPart(x, p, lock', world.modes)
  BY <1>1, <1>3, DownFacts DEF LockPart, LoadPcs
<1>5. SharedPart(x, wal, ino, snap)
  BY <1>3, DownFacts, SafeFacts DEF SharedPart, LoadPcs
<1> QED BY <1>1, <1>2, <1>3, <1>4, <1>5, DownFacts, SafeFacts, LocalStep

LEMMA KillSafe ==
  ASSUME SafeInv, NEW p \in Proc, Kill(p)
  PROVE  SafeInv'
BY GoneSafe DEF Kill

LEMMA CloseSafe ==
  ASSUME SafeInv, NEW p \in Proc, Close(p)
  PROVE  SafeInv'
BY GoneSafe DEF Close

LEMMA LoadingFacts ==
  ASSUME NEW m \in {"shared", "owner", "reader"}, NEW x, x = Loading(m)
  PROVE  /\ x \in Handle /\ x.pc = "loadSnap" /\ x.mode = m /\ x.opening = TRUE
         /\ x.walId = 0 /\ x.snapId = 0 /\ x.loaded = 0 /\ x.mem = {} /\ x.consumed = 0 /\ x.must = {}
         /\ m = "owner" => x.writing = TRUE
         /\ m # "owner" => x.writing = FALSE
<1>1. Fresh \in Handle
  BY EmptyWal DEF Fresh, Handle
<1>2. PICK b \in BOOLEAN : b = (m = "owner")
  OBVIOUS
<1>3. x = [Fresh EXCEPT !.mode = m, !.opening = TRUE, !.writing = b, !.pc = "loadSnap"]
  BY <1>2 DEF Loading
<1>4. x \in Handle
  BY <1>1, <1>3 DEF Handle
<1>5. /\ x.pc = "loadSnap" /\ x.mode = m /\ x.opening = TRUE /\ x.writing = b
      /\ x.walId = 0 /\ x.snapId = 0 /\ x.loaded = 0 /\ x.mem = {} /\ x.consumed = 0 /\ x.must = {}
  BY <1>3 DEF Fresh
<1> QED BY <1>2, <1>4, <1>5

LEMMA OpenOwnerSafe ==
  ASSUME SafeInv, NEW p \in Proc, OpenOwner(p)
  PROVE  SafeInv'
<1>1. /\ "owner" \in world.modes /\ lock = NoProc /\ lock' = p /\ h[p].pc = "down"
      /\ UNCHANGED <<world, wal, ino, snap, next, acked, dropped>>
  BY DEF OpenOwner, Step
<1>2. PICK x : x = Loading("owner") /\ h' = [h EXCEPT ![p] = x]
  BY DEF OpenOwner, Step
<1>3. /\ x \in Handle /\ x.pc = "loadSnap" /\ x.mode = "owner" /\ x.opening = TRUE
      /\ x.walId = 0 /\ x.snapId = 0 /\ x.loaded = 0 /\ x.writing = TRUE
  BY <1>2, LoadingFacts
<1>4. LockPart(x, p, lock', world.modes)
  BY <1>1, <1>3 DEF LockPart, LoadPcs
<1>5. SharedPart(x, wal, ino, snap) /\ HolderPart(x, wal, ino, snap, next, dropped)
  BY <1>3, SafeFacts DEF SharedPart, HolderPart
<1>6. \A q \in Proc \ {p} : lock' = q <=> lock = q
  BY <1>1, ProcessesAssumption
<1> QED BY <1>1, <1>2, <1>3, <1>4, <1>5, <1>6, SafeFacts, LocalStep

LEMMA OpenUnlockedSafe ==
  ASSUME SafeInv, Safe, NEW p \in Proc, NEW m \in {"shared", "reader"}, OpenUnlocked(p, m)
  PROVE  SafeInv'
<1>1. /\ m = "reader" /\ m \in world.modes /\ h[p].pc = "down"
      /\ UNCHANGED <<world, wal, ino, snap, lock, next, acked, dropped>>
  BY DEF OpenUnlocked, Step, Safe
<1>2. PICK x : x = Loading("reader") /\ h' = [h EXCEPT ![p] = x]
  BY <1>1 DEF OpenUnlocked, Step
<1>3. /\ x \in Handle /\ x.pc = "loadSnap" /\ x.mode = "reader" /\ x.opening = TRUE
      /\ x.walId = 0 /\ x.snapId = 0 /\ x.loaded = 0 /\ x.writing = FALSE
  BY <1>2, LoadingFacts
<1>4. lock # p
  BY <1>1, SafeFacts DEF LockPart
<1>5. LockPart(x, p, lock', world.modes)
  BY <1>1, <1>3, <1>4 DEF LockPart, LoadPcs
<1>6. SharedPart(x, wal, ino, snap)
  BY <1>3, SafeFacts DEF SharedPart
<1> QED BY <1>1, <1>2, <1>3, <1>4, <1>5, <1>6, SafeFacts, LocalStep

\* What others know of the WAL stays true when it grows, and is told apart from it by its
\* inode when it is replaced and by the snapshot's identity when there is a new one.
LEMMA SharedGrown ==
  ASSUME NEW w \in Seq(Nat), NEW v \in Seq(Nat), Whole(w) <= Whole(v),
         \A n \in 0..Whole(w) : Upto(v, n) = Upto(w, n),
         NEW x, x.consumed \in Nat, NEW i, NEW s, SharedPart(x, w, i, s)
  PROVE  SharedPart(x, v, i, s)
<1>1. Whole(w) \in Nat /\ Whole(v) \in Nat
  BY WholeFacts
<1>2. x.consumed <= Whole(w) => x.consumed <= Whole(v) /\ Upto(v, x.consumed) = Upto(w, x.consumed)
  BY <1>1
<1> QED BY <1>2 DEF SharedPart, Coherent, AtCursor

LEMMA SharedReplaced ==
  ASSUME NEW w, NEW v, NEW x, x.walId \in Nat, NEW i \in Nat, NEW s, SharedPart(x, w, i, s),
         NEW j, j = i + 1
  PROVE  SharedPart(x, v, j, s)
<1>1. x.walId <= j /\ x.walId # j
  BY DEF SharedPart
<1> QED BY <1>1 DEF SharedPart, Coherent

LEMMA SharedSnapped ==
  ASSUME NEW w, NEW x, x.snapId \in Nat, x.loaded \in Nat, NEW i, NEW s, s.id \in Nat,
         SharedPart(x, w, i, s), NEW t, t.id = s.id + 1
  PROVE  SharedPart(x, w, i, t)
<1>1. x.snapId <= t.id /\ x.snapId # t.id /\ x.loaded <= t.id /\ x.loaded # t.id
  BY DEF SharedPart
<1> QED BY <1>1 DEF SharedPart, Coherent, AtCursor, LoadPcs

LEMMA BeginAppendSafe ==
  ASSUME SafeInv, NEW p \in Proc, BeginAppend(p)
  PROVE  SafeInv'
<1>1. h[p].pc = "ready" /\ UNCHANGED <<world, ino, snap, lock, acked, dropped>>
  BY DEF BeginAppend, Step
<1>2. lock = p
  BY <1>1, SafeFacts DEF LockPart
<1>3. PICK v : v = Append(wal, Torn) /\ wal' = v
  BY DEF BeginAppend
<1>4. PICK n \in Nat : n = next + 1 /\ next' = n
  BY SafeFacts DEF BeginAppend
<1>5. PICK l \in Nat : l = Len(wal)
  BY SafeFacts
<1>6. PICK x : x = [h[p] EXCEPT !.pre = l, !.file = ino, !.pc = "appending"] /\ h' = [h EXCEPT ![p] = x]
  BY <1>5 DEF BeginAppend, Step
<1>7. x \in Handle
  BY <1>6, HandleTypes DEF Handle
<1>8. /\ x.pc = "appending" /\ x.mem = h[p].mem /\ x.consumed = h[p].consumed /\ x.mode = h[p].mode
      /\ x.walId = h[p].walId /\ x.snapId = h[p].snapId /\ x.loaded = h[p].loaded /\ x.file = ino
  BY <1>6, SafeFacts DEF Handle
<1>9. /\ Whole(wal) = Len(wal) /\ AtCursor(x, Len(wal), wal, snap)
      /\ h[p].walId = ino /\ h[p].snapId = snap.id
  BY <1>1, <1>2, <1>8, HolderIsCoherent
<1>10. /\ v \in Seq(Nat) /\ TornLast(v) /\ Len(v) = l + 1 /\ v[Len(v)] = Torn /\ Whole(v) = l
       /\ \A k \in 0..l : Upto(v, k) = Upto(wal, k)
  BY <1>3, <1>5, <1>9, SafeFacts, AppendBegun
<1>11. LockPart(x, p, lock', world.modes)
  BY <1>1, <1>6, SafeFacts DEF LockPart, Handle, LoadPcs
<1>12. SharedPart(x, v, ino, snap)
  BY <1>8, SafeFacts DEF SharedPart, LoadPcs
<1>13. HolderPart(x, v, ino, snap, n, dropped)
  <2>1. AtCursor(x, l, v, snap)
    BY <1>5, <1>9, <1>10 DEF AtCursor
  <2>2. Len(v) > 0 /\ Len(v) - 1 = l /\ n > 1
    BY <1>4, <1>10, SafeFacts
  <2> QED BY <1>8, <1>9, <1>10, <2>1, <2>2 DEF HolderPart
<1>14. \A q \in Proc \ {p} : SharedPart(h[q], v, ino, snap)
  <2>1. Whole(wal) <= Whole(v) /\ \A k \in 0..Whole(wal) : Upto(v, k) = Upto(wal, k)
    BY <1>5, <1>9, <1>10
  <2> QED BY <1>10, <2>1, SafeFacts, SharedGrown
<1>15. acked \subseteq snap.done \cup Upto(v, Whole(v)) \cup dropped
  <2>1. Upto(v, Whole(v)) = Upto(wal, Whole(wal))
    BY <1>5, <1>9, <1>10
  <2> QED BY <2>1, SafeFacts, StoreStateIs
<1>16. snap \in [id : Nat, done : SUBSET Nat]
  BY DEF SafeInv, TypeOK, FilePart
<1>17. n > 0
  BY <1>4, SafeFacts
<1> QED BY <1>1, <1>2, <1>3, <1>4, <1>6, <1>7, <1>8, <1>10, <1>11, <1>12, <1>13, <1>14, <1>15, <1>16,
           <1>17, SafeFacts, HolderStep

LEMMA EndAppendSafe ==
  ASSUME SafeInv, NEW p \in Proc, EndAppend(p)
  PROVE  SafeInv'
<1>1. h[p].pc = "appending" /\ UNCHANGED <<world, ino, snap, lock, next, acked, dropped>>
  BY DEF EndAppend, Step
<1>2. lock = p
  BY <1>1, SafeFacts DEF LockPart
<1>3. /\ Len(wal) > 0 /\ wal[Len(wal)] = Torn /\ h[p].file = ino /\ next > 1
      /\ AtCursor(h[p], Len(wal) - 1, wal, snap) /\ h[p].walId = ino /\ h[p].snapId = snap.id
  BY <1>1, <1>2, SafeFacts DEF HolderPart
<1>4. PICK k \in Nat : k = next - 1 /\ k # Torn
  BY <1>3, SafeFacts DEF Torn
<1>5. PICK v : v = [wal EXCEPT ![Len(wal)] = k] /\ wal' = v
  BY <1>3, <1>4 DEF EndAppend
<1>6. /\ v \in Seq(Nat) /\ TornLast(v) /\ Len(v) = Len(wal) /\ Whole(v) = Len(wal)
      /\ Whole(wal) = Len(wal) - 1 /\ \A n \in 0..Whole(wal) : Upto(v, n) = Upto(wal, n)
      /\ Upto(v, Len(v)) = Upto(wal, Whole(wal)) \cup {k}
  <2>1. wal \in Seq(Nat) /\ TornLast(wal) /\ k \in Nat
    BY SafeFacts
  <2>2. v = [wal EXCEPT ![Len(wal)] = k]
    BY <1>5
  <2>3. v \in Seq(Nat) /\ Len(v) = Len(wal) /\ v[Len(wal)] = k /\ \A i \in 1..Len(wal) - 1 : v[i] = wal[i]
    BY <2>1, <2>2, <1>3
  <2> QED BY <1>3, <1>4, <2>1, <2>3, AppendEnded
<1>7. PICK m \in SUBSET Nat : m = h[p].mem \cup {k}
  BY SafeFacts
<1>8. PICK c \in Nat : c = h[p].consumed + 1
  BY SafeFacts
<1>9. PICK x : x = [h[p] EXCEPT !.mem = m, !.consumed = c, !.pc = "appended"] /\ h' = [h EXCEPT ![p] = x]
  BY <1>4, <1>7, <1>8, SafeFacts DEF EndAppend, Step, Handle
<1>10. x \in Handle
  BY <1>9, HandleTypes DEF Handle
<1>11. /\ x.pc = "appended" /\ x.mem = m /\ x.consumed = c /\ x.mode = h[p].mode
       /\ x.walId = h[p].walId /\ x.snapId = h[p].snapId /\ x.loaded = h[p].loaded
  BY <1>9, SafeFacts DEF Handle
<1>12. LockPart(x, p, lock', world.modes)
  BY <1>1, <1>9, SafeFacts DEF LockPart, Handle, LoadPcs
<1>13. SharedPart(x, v, ino, snap)
  BY <1>11, SafeFacts DEF SharedPart, LoadPcs
<1>14. HolderPart(x, v, ino, snap, next, dropped)
  <2>1. c = Len(v)
    BY <1>3, <1>6, <1>8, SafeFacts DEF AtCursor
  <2>2. h[p].loaded = snap.id => m = snap.done \cup Upto(v, Len(v))
    BY <1>3, <1>6, <1>7 DEF AtCursor
  <2>3. AtCursor(x, Len(v), v, snap) /\ next - 1 \in Upto(v, Len(v))
    BY <1>4, <1>6, <1>11, <2>1, <2>2 DEF AtCursor
  <2> QED BY <1>3, <1>6, <1>11, <2>3 DEF HolderPart
<1>15. \A q \in Proc \ {p} : SharedPart(h[q], v, ino, snap)
  <2>1. Whole(wal) <= Whole(v) /\ \A n \in 0..Whole(wal) : Upto(v, n) = Upto(wal, n)
    BY <1>6, SafeFacts, WholeFacts
  <2> QED BY <1>6, <2>1, SafeFacts, SharedGrown
<1>16. acked \subseteq snap.done \cup Upto(v, Whole(v)) \cup dropped
  <2>1. Upto(wal, Whole(wal)) \subseteq Upto(v, Whole(v))
    BY <1>6
  <2> QED BY <2>1, SafeFacts, StoreStateIs
<1>17. snap \in [id : Nat, done : SUBSET Nat]
  BY DEF SafeInv, TypeOK, FilePart
<1>18. ~(Whole(v) < Len(v))
  BY <1>6, SafeFacts
<1> QED BY <1>1, <1>2, <1>5, <1>6, <1>9, <1>10, <1>12, <1>13, <1>14, <1>15, <1>16, <1>17, <1>18,
           SafeFacts, HolderStep

LEMMA WriteSnapshotSafe ==
  ASSUME SafeInv, Safe, NEW p \in Proc, WriteSnapshot(p)
  PROVE  SafeInv'
<1>1. h[p].pc = "ready" /\ snap.id < world.snaps /\ UNCHANGED <<world, wal, ino, lock, next, acked>>
  BY DEF WriteSnapshot, Step
<1>2. lock = p
  BY <1>1, SafeFacts DEF LockPart
<1>3. PICK j \in Nat : j = snap.id + 1
  BY SafeFacts
<1>4. PICK s : s = [id |-> j, done |-> h[p].mem] /\ snap' = s
  BY <1>3 DEF WriteSnapshot
<1>5. s \in [id : Nat, done : SUBSET Nat] /\ s.id = j /\ s.done = h[p].mem
  BY <1>4, SafeFacts
<1>6. PICK x : x = [h[p] EXCEPT !.pc = "snapped"] /\ h' = [h EXCEPT ![p] = x]
  BY DEF WriteSnapshot, Step
<1>7. x \in Handle
  BY <1>6, HandleTypes DEF Handle
<1>8. /\ x.pc = "snapped" /\ x.mem = h[p].mem /\ x.consumed = h[p].consumed /\ x.mode = h[p].mode
      /\ x.walId = h[p].walId /\ x.snapId = h[p].snapId /\ x.loaded = h[p].loaded
  BY <1>6, SafeFacts DEF Handle
<1>9. /\ Whole(wal) = Len(wal) /\ AtCursor(x, Len(wal), wal, snap)
      /\ h[p].walId = ino /\ h[p].snapId = snap.id
      /\ ~Straddles(h[p]) => h[p].mem = StoreState
  BY <1>1, <1>2, <1>8, HolderIsCoherent
<1>10. LockPart(x, p, lock', world.modes)
  BY <1>1, <1>6, SafeFacts DEF LockPart, Handle, LoadPcs
<1>11. StoreState = snap.done \cup Upto(wal, Whole(wal)) /\ StoreState \in SUBSET Nat
  <2>1. Upto(wal, Whole(wal)) \in SUBSET Nat
    BY SafeFacts, WholeFacts, UptoType
  <2> QED BY <2>1, SafeFacts, StoreStateIs
<1>12. PICK d \in SUBSET Nat : dropped' = d /\ dropped \subseteq d /\ StoreState \subseteq s.done \cup d
  <2>1. CASE Straddles(h[p])
    <3>1. dropped' = dropped \cup (StoreState \ h[p].mem)
      BY <2>1 DEF WriteSnapshot
    <3>2. dropped \cup (StoreState \ h[p].mem) \in SUBSET Nat
      BY <1>11, SafeFacts
    <3> QED BY <3>1, <3>2, <1>5
  <2>2. CASE ~Straddles(h[p])
    BY <2>2, <1>5, <1>9, SafeFacts DEF WriteSnapshot
  <2> QED BY <2>1, <2>2
<1>13. SharedPart(x, wal, ino, s)
  BY <1>3, <1>5, <1>8, <1>9, SafeFacts DEF SharedPart, LoadPcs
<1>14. HolderPart(x, wal, ino, s, next, d)
  <2>1. Upto(wal, Len(wal)) \subseteq s.done \cup d
    BY <1>9, <1>11, <1>12
  <2>2. s.id >= 1
    BY <1>3, <1>5, SafeFacts
  <2> QED BY <1>5, <1>8, <1>9, <2>1, <2>2 DEF HolderPart
<1>15. ASSUME NEW q \in Proc \ {p} PROVE SharedPart(h[q], wal, ino, s)
  <2>1. s.id = snap.id + 1 /\ snap.id \in Nat
    BY <1>3, <1>5, SafeFacts
  <2>2. h[q].snapId \in Nat /\ h[q].loaded \in Nat /\ SharedPart(h[q], wal, ino, snap)
    BY SafeFacts
  <2> QED BY <2>1, <2>2, SharedSnapped
<1>17. acked \subseteq s.done \cup Upto(wal, Whole(wal)) \cup d
  BY <1>12, SafeFacts
<1>16. ~(Whole(wal) < Len(wal))
  BY <1>9, SafeFacts
<1>18. /\ wal \in Seq(Nat) /\ TornLast(wal) /\ ino \in Nat /\ next \in Nat /\ next > 0
       /\ wal' = wal /\ ino' = ino /\ next' = next /\ lock' \in {p, NoProc}
       /\ UNCHANGED <<world, acked>>
  BY <1>1, <1>2, SafeFacts
<1>19. snap' = s /\ h' = [h EXCEPT ![p] = x] /\ dropped' = d
  BY <1>4, <1>6, <1>12
<1>20. LockPart(x, p, lock', world.modes) /\ (lock' = p => HolderPart(x, wal, ino, s, next, d))
  BY <1>10, <1>14
<1> QED BY <1>2, <1>5, <1>7, <1>13, <1>15, <1>16, <1>17, <1>18, <1>19, <1>20, HolderStep

LEMMA ReplaceWalSafe ==
  ASSUME SafeInv, NEW p \in Proc, ReplaceWal(p)
  PROVE  SafeInv'
<1>1. /\ h[p].pc = "snapped" /\ lock' = Unlocked(p) /\ UNCHANGED <<world, snap, next, acked, dropped>>
  BY DEF ReplaceWal, Step
<1>2. lock = p /\ NoProc # p /\ h[p].mode \in {"shared", "owner"}
  BY <1>1, SafeFacts, ProcessesAssumption DEF LockPart, Handle
<1>3. PICK w : w = <<>> /\ wal' = w
  BY DEF ReplaceWal
<1>0. wal' = w
  BY <1>3
<1>4. w \in Seq(Nat) /\ TornLast(w) /\ Len(w) = 0 /\ Whole(w) = 0 /\ Upto(w, 0) = {}
  BY <1>3, EmptyWal
<1>5. PICK j \in Nat : j = ino + 1 /\ ino' = j
  BY SafeFacts DEF ReplaceWal
<1>6. PICK y : y = Left(h[p])
  OBVIOUS
<1>7. /\ y \in Handle /\ y.mem = h[p].mem /\ y.mode = h[p].mode /\ y.opening = h[p].opening
      /\ h[p].mode = "owner" => y.pc = "ready" /\ y.writing = h[p].writing
      /\ h[p].mode = "shared" => y.pc = "idle" /\ y.writing = FALSE
  <2>1. h[p] \in Handle /\ h[p].mode # "reader"
    BY <1>2, SafeFacts
  <2> QED BY ONLY <1>6, <2>1, LeftFacts, Zenon
<1>8. PICK x : /\ x = [y EXCEPT !.consumed = 0, !.walId = j, !.snapId = snap.id, !.loaded = snap.id]
               /\ h' = [h EXCEPT ![p] = x]
  BY <1>5, <1>6 DEF ReplaceWal, Step
<1>9. x \in Handle /\ h' = [h EXCEPT ![p] = x]
  BY <1>7, <1>8, SafeFacts DEF Handle
<1>10. /\ x.mem = h[p].mem /\ x.mode = h[p].mode /\ x.consumed = 0 /\ x.walId = j /\ x.snapId = snap.id
       /\ x.loaded = snap.id
       /\ x.pc = y.pc /\ x.opening = y.opening /\ x.writing = y.writing
  BY <1>7, <1>8 DEF Handle
<1>11. (h[p].mode = "owner" => lock' = p) /\ (h[p].mode = "shared" => lock' = NoProc)
  BY <1>1 DEF Unlocked
<1>12. /\ h[p].mem = snap.done /\ Whole(wal) = Len(wal)
       /\ Upto(wal, Len(wal)) \subseteq snap.done \cup dropped
  BY <1>1, <1>2, SafeFacts DEF HolderPart
<1>13. LockPart(x, p, lock', world.modes)
  BY <1>1, <1>2, <1>7, <1>10, <1>11, SafeFacts DEF LockPart, LoadPcs
<1>14. x.mem = snap.done \cup Upto(w, 0)
  BY <1>4, <1>10, <1>12
<1>15. SharedPart(x, w, j, snap)
  BY <1>2, <1>4, <1>7, <1>10, <1>14, SafeFacts DEF SharedPart, Coherent, LoadPcs
<1>16. lock' = p => HolderPart(x, w, j, snap, next, dropped)
  <2>1. AtCursor(x, 0, w, snap)
    BY <1>10, <1>14 DEF AtCursor
  <2> QED BY <1>2, <1>4, <1>7, <1>10, <1>11, <2>1 DEF HolderPart
<1>17. \A q \in Proc \ {p} : SharedPart(h[q], w, j, snap)
  BY <1>5, SafeFacts, SharedReplaced
<1>18. acked \subseteq snap.done \cup Upto(w, Whole(w)) \cup dropped
  BY <1>12, SafeFacts, StoreStateIs
<1>19. snap \in [id : Nat, done : SUBSET Nat]
  BY <1>12, SafeFacts DEF SafeInv, TypeOK
<1>20. ~(Whole(w) < Len(w)) /\ lock' \in {p, NoProc}
  BY <1>2, <1>4, <1>11
<1> QED BY <1>0, <1>1, <1>2, <1>4, <1>5, <1>9, <1>13, <1>15, <1>16, <1>17, <1>18, <1>19, <1>20,
           SafeFacts, HolderStep

LEMMA RepairWalSafe ==
  ASSUME SafeInv, NEW p \in Proc, RepairWal(p)
  PROVE  SafeInv'
<1>1. h[p].pc = "repair" /\ UNCHANGED <<world, snap, lock, next, acked, dropped>>
  BY DEF RepairWal, Step
<1>2. h[p].mode = "owner" /\ lock = p /\ h[p].opening
  BY <1>1, SafeFacts DEF LockPart, LoadPcs
<1>3. /\ Whole(wal) < Len(wal) /\ h[p].keep = SubSeq(wal, 1, Whole(wal))
      /\ AtCursor(h[p], Whole(wal), wal, snap) /\ h[p].loaded = snap.id
  BY <1>1, <1>2, SafeFacts DEF HolderPart
<1>4. PICK w : w = SubSeq(wal, 1, Whole(wal)) /\ wal' = w
  BY <1>3 DEF RepairWal
<1>5. /\ w \in Seq(Nat) /\ TornLast(w) /\ Len(w) = Whole(wal) /\ Whole(w) = Whole(wal)
      /\ Upto(w, Whole(wal)) = Upto(wal, Whole(wal))
  BY <1>4, SafeFacts, Repaired
<1>6. PICK j \in Nat : j = ino + 1 /\ ino' = j
  BY SafeFacts DEF RepairWal
<1>7. PICK x : x = [h[p] EXCEPT !.walId = j, !.pc = "loadIdent"] /\ h' = [h EXCEPT ![p] = x]
  BY <1>6 DEF RepairWal, Step
<1>8. x \in Handle
  BY <1>7, HandleTypes DEF Handle
<1>9. /\ x.pc = "loadIdent" /\ x.mem = h[p].mem /\ x.consumed = h[p].consumed /\ x.mode = "owner"
      /\ x.walId = j /\ x.snapId = h[p].snapId /\ x.loaded = h[p].loaded
  BY <1>2, <1>7, SafeFacts DEF Handle
<1>11. LockPart(x, p, lock', world.modes)
  BY <1>1, <1>2, <1>7, SafeFacts DEF LockPart, Handle, LoadPcs
<1>12. SharedPart(x, w, j, snap)
  BY <1>9, SafeFacts DEF SharedPart
<1>13. HolderPart(x, w, j, snap, next, dropped)
  <2>1. AtCursor(x, Len(w), w, snap)
    BY <1>3, <1>5, <1>9 DEF AtCursor
  <2> QED BY <1>3, <1>5, <1>9, <2>1 DEF HolderPart
<1>14. \A q \in Proc \ {p} : SharedPart(h[q], w, j, snap)
  BY <1>6, SafeFacts, SharedReplaced
<1>15. acked \subseteq snap.done \cup Upto(w, Whole(w)) \cup dropped
  BY <1>5, SafeFacts, StoreStateIs
<1>16. snap \in [id : Nat, done : SUBSET Nat]
  BY DEF SafeInv, TypeOK
<1>17. ~(Whole(w) < Len(w))
  BY <1>5, SafeFacts, WholeFacts
<1> QED BY <1>1, <1>2, <1>4, <1>5, <1>6, <1>7, <1>8, <1>11, <1>12, <1>13, <1>14, <1>15, <1>16,
           <1>17, SafeFacts, HolderStep

-----------------------------------------------------------------------------
(* The invariant holds in every safe deployment.                           *)

LEMMA InitSafe ==
  ASSUME Init
  PROVE  SafeInv
<1>1. Fresh \in Handle /\ Down \in Handle
  BY EmptyWal, DownFacts DEF Fresh, Handle
<1>2. \A p \in Proc : h[p] = Down \/ (h[p] = Fresh /\ "shared" \in world.modes)
  BY DEF Init, Fresh
<1>3. snap \in [id : Nat, done : SUBSET Nat] /\ snap.id = 0 /\ snap.done = {}
  BY DEF Init
<1>4. wal \in Seq(Nat) /\ TornLast(wal) /\ Len(wal) = 0 /\ Whole(wal) = 0 /\ Upto(wal, 0) = {}
  BY EmptyWal DEF Init
<1>5. TypeOK
  <2>1. h \in [Proc -> Handle]
    BY <1>1 DEF Init
  <2> QED BY <1>3, <1>4, <2>1 DEF Init, TypeOK
<1>6. FilePart
  BY <1>3, <1>4 DEF Init, FilePart
<1>7. ASSUME NEW p \in Proc PROVE HandlePart(p)
  <2>1. lock # p
    BY ProcessesAssumption DEF Init
  <2>2. CASE h[p] = Down
    BY <2>1, <2>2, <1>3, DownFacts DEF HandlePart, LockPart, SharedPart, LoadPcs, Init
  <2>3. CASE h[p] = Fresh /\ "shared" \in world.modes
    <3>1. /\ h[p].pc = "idle" /\ h[p].mode = "shared" /\ h[p].writing = FALSE /\ h[p].opening = FALSE
          /\ h[p].mem = {} /\ h[p].consumed = 0 /\ h[p].walId = 0 /\ h[p].snapId = 0 /\ h[p].loaded = 0
      BY <2>3 DEF Fresh
    <3>2. LockPart(h[p], p, lock, world.modes)
      BY <2>1, <2>3, <3>1 DEF LockPart, LoadPcs
    <3>3. SharedPart(h[p], wal, ino, snap)
      BY <3>1, <1>3, <1>4 DEF SharedPart, Coherent, LoadPcs, Init
    <3> QED BY <2>1, <3>2, <3>3 DEF HandlePart
  <2> QED BY <1>2, <2>2, <2>3
<1>8. AckedSurvives
  BY DEF AckedSurvives, Init
<1> QED BY <1>5, <1>6, <1>7, <1>8 DEF SafeInv

\* A deployment is what it is.
LEMMA SameWorld ==
  ASSUME [Next]_vars
  PROVE  world' = world
<1>1. CASE Next
  BY <1>1 DEF Next, Step, Read, Return, LookAtSnapshot, LookAtWal, ReadTail, LoadSnapshot, LoadWal, RepairWal,
     LoadIdent, EnterWriteScope, LeaveWriteScope, BeginAppend, EndAppend, Fsync, FsyncFails,
     WriteSnapshot, ReplaceWal, Kill, Close, OpenOwner, OpenUnlocked
<1>2. CASE UNCHANGED vars
  BY <1>2 DEF vars
<1> QED BY <1>1, <1>2

LEMMA NextSafe ==
  ASSUME SafeInv, Safe, [Next]_vars
  PROVE  SafeInv'
<1>1. CASE UNCHANGED vars
  BY <1>1 DEF vars, SafeInv, TypeOK, FilePart, HandlePart, AckedSurvives, StoreState
<1>2. ASSUME NEW p \in Proc, Read(p) \/ Return(p) \/ LookAtSnapshot(p) \/ LookAtWal(p) \/ ReadTail(p)
      PROVE  SafeInv'
  BY <1>2, ReadSafe, ReturnSafe, LookAtSnapshotSafe, LookAtWalSafe, ReadTailSafe
<1>3. ASSUME NEW p \in Proc, LoadSnapshot(p) \/ LoadWal(p) \/ RepairWal(p) \/ LoadIdent(p)
      PROVE  SafeInv'
  BY <1>3, LoadSnapshotSafe, LoadWalSafe, RepairWalSafe, LoadIdentSafe
<1>4. ASSUME NEW p \in Proc, EnterWriteScope(p) \/ LeaveWriteScope(p) \/ BeginAppend(p) \/ EndAppend(p)
      PROVE  SafeInv'
  BY <1>4, EnterWriteScopeSafe, LeaveWriteScopeSafe, BeginAppendSafe, EndAppendSafe
<1>5. ASSUME NEW p \in Proc, Fsync(p) \/ FsyncFails(p) \/ WriteSnapshot(p) \/ ReplaceWal(p)
      PROVE  SafeInv'
  <2>1. ~FsyncFails(p)
    BY DEF FsyncFails, Safe
  <2> QED BY <1>5, <2>1, FsyncSafe, WriteSnapshotSafe, ReplaceWalSafe
<1>6. ASSUME NEW p \in Proc, Kill(p) \/ Close(p) \/ OpenOwner(p)
      PROVE  SafeInv'
  BY <1>6, KillSafe, CloseSafe, OpenOwnerSafe
<1>7. ASSUME NEW p \in Proc, NEW m \in {"shared", "reader"}, OpenUnlocked(p, m)
      PROVE  SafeInv'
  BY <1>7, OpenUnlockedSafe
<1> QED BY <1>1, <1>2, <1>3, <1>4, <1>5, <1>6, <1>7 DEF Next

LEMMA SafeAlways ==
  Spec => [](Safe => SafeInv)
<1>1. Init => (Safe => SafeInv)
  BY InitSafe
<1>2. (Safe => SafeInv) /\ [Next]_vars => (Safe => SafeInv)'
  <2> SUFFICES ASSUME Safe => SafeInv, [Next]_vars, Safe' PROVE SafeInv'
    OBVIOUS
  <2>1. Safe
    BY SameWorld DEF Safe
  <2> QED BY <2>1, NextSafe
<1> QED BY <1>1, <1>2, PTL DEF Spec

\* A write lands on top of every commit other processes have made, in every deployment
\* whose WAL is only appended to and replaced under the lock, however often it is
\* snapshotted: a write scope about to append or to snapshot has its cursor at the end
\* of the WAL on disk, and the graph the files hold unless a peer's snapshot fell inside
\* its last load.
THEOREM WritesLandOnTop ==
  Spec => []WriteIsOnTop
<1>1. ASSUME Safe, SafeInv PROVE WriteIsOnTop
  <2>1. ASSUME NEW p \in Proc, h[p].pc = "ready"
        PROVE  /\ h[p].consumed = Len(wal) /\ h[p].walId = ino
               /\ ~Straddles(h[p]) => h[p].mem = StoreState
    <3>1. lock = p
      BY <1>1, <2>1, SafeFacts DEF LockPart
    <3>2. /\ ~Straddles(h[p]) => h[p].mem = StoreState
          /\ h[p].walId = ino /\ AtCursor(h[p], Len(wal), wal, snap)
      BY <1>1, <2>1, <3>1, HolderIsCoherent
    <3> QED BY <3>2 DEF AtCursor
  <2> QED BY <2>1 DEF WriteIsOnTop
<1>2. (Safe => SafeInv) => WriteIsOnTop
  BY <1>1 DEF WriteIsOnTop
<1> QED BY <1>2, SafeAlways, PTL

\* A commit acknowledged as durable stays in the files, whichever process appends,
\* snapshots, repairs or dies afterwards, in the same deployments: only a snapshot of
\* a handle whose load a peer's snapshot fell into can leave it out.
THEOREM AcknowledgedIsKept ==
  Spec => [](Safe => AckedSurvives)
<1>1. (Safe => SafeInv) => (Safe => AckedSurvives)
  BY DEF SafeInv
<1> QED BY <1>1, SafeAlways, PTL

-----------------------------------------------------------------------------
(* While the WAL only grows.                                               *)

LEMMA GrowFacts ==
  ASSUME SafeInv, GrowInv, OnlyGrows, NEW p \in Proc
  PROVE  /\ Safe /\ "torn" \notin world.faults /\ ~(snap.id < world.snaps)
         /\ h[p].mem = 1..h[p].consumed /\ h[p].consumed \in Nat /\ h[p].consumed <= Whole(wal)
         /\ h[p].snapId = snap.id /\ h[p].walId = ino /\ h[p].pc \notin {"repair", "snapped"}
         /\ h[p].must \subseteq acked
         /\ Whole(wal) \in Nat /\ Len(wal) \in Nat /\ Whole(wal) <= Len(wal)
         /\ Upto(wal, Whole(wal)) = 1..Whole(wal) /\ acked \subseteq 1..Whole(wal)
<1>1. Safe /\ "torn" \notin world.faults /\ ~(snap.id < world.snaps)
  BY DEF OnlyGrows, Safe, GrowInv
<1>2. Whole(wal) \in Nat /\ Len(wal) \in Nat /\ Whole(wal) <= Len(wal)
  BY SafeFacts, WholeFacts
<1>3. Upto(wal, Whole(wal)) = 1..Whole(wal)
  BY DEF Upto, GrowInv
<1>4. acked \subseteq 1..Whole(wal)
  BY <1>3, SafeFacts, StoreStateIs DEF GrowInv
<1>5. h[p].pc # "snapped"
  <2>1. h[p].pc = "snapped" => snap.id >= 1
    BY SafeFacts DEF LockPart, HolderPart
  <2> QED BY <2>1 DEF GrowInv
<1>6. /\ h[p].mem = 1..h[p].consumed /\ h[p].consumed <= Whole(wal)
      /\ h[p].snapId = snap.id /\ h[p].walId = ino /\ h[p].pc # "repair" /\ h[p].must \subseteq acked
  BY DEF GrowInv, Following
<1> QED BY <1>1, <1>2, <1>3, <1>4, <1>5, <1>6, SafeFacts

\* One handle changes, and the files do not.
LEMMA GrowLocal ==
  ASSUME GrowInv, h \in [Proc -> Handle], NEW p \in Proc, NEW x, h' = [h EXCEPT ![p] = x],
         UNCHANGED <<wal, ino, snap, next, dropped>>, acked \subseteq acked',
         Following(x, wal), x.must \subseteq acked'
  PROVE  GrowInv'
<1>1. h'[p] = x /\ \A q \in Proc \ {p} : h'[q] = h[q]
  OBVIOUS
<1>2. ASSUME NEW q \in Proc PROVE Following(h'[q], wal) /\ h'[q].must \subseteq acked'
  BY <1>1 DEF GrowInv
<1> QED BY <1>2 DEF GrowInv

LEMMA ReadGrows ==
  ASSUME SafeInv, GrowInv, OnlyGrows, NEW p \in Proc,
         Read(p) \/ Return(p) \/ LookAtSnapshot(p) \/ LookAtWal(p) \/ ReadTail(p)
  PROVE  GrowInv'
<1>1. h \in [Proc -> Handle] /\ UNCHANGED <<wal, ino, snap, next, acked, dropped>>
  BY DEF SafeInv, TypeOK, Read, Return, LookAtSnapshot, LookAtWal, ReadTail
<1>2. h[p] \in Handle /\ Following(h[p], wal)
  BY SafeFacts DEF GrowInv
<1>3. CASE Read(p)
  <2>1. PICK k \in {"look", "served"} : k = IF Stale(h[p]) THEN "look" ELSE "served"
    OBVIOUS
  <2>2. PICK x : x = [h[p] EXCEPT !.must = acked, !.pc = k] /\ h' = [h EXCEPT ![p] = x]
    BY <1>3, <2>1 DEF Read, Step
  <2>3. k = "served" => acked \subseteq h[p].mem
    <3>1. k = "served" => h[p].consumed = Len(wal)
      BY <2>1 DEF Stale
    <3> QED BY <3>1, GrowFacts
  <2>4. Following(x, wal) /\ x.must \subseteq acked
    BY <2>2, <2>3, <1>2 DEF Following, Handle, LoadPcs
  <2> QED BY <2>2, <2>4, <1>1, GrowLocal
<1>4. CASE Return(p)
  <2>1. PICK x : x = [h[p] EXCEPT !.must = {}, !.pc = "idle"] /\ h' = [h EXCEPT ![p] = x]
    BY <1>4 DEF Return, Step
  <2>2. Following(x, wal) /\ x.must \subseteq acked
    BY <2>1, <1>2 DEF Following, Handle, LoadPcs
  <2> QED BY <2>1, <2>2, <1>1, GrowLocal
<1>5. CASE LookAtSnapshot(p)
  <2>1. PICK x : x = [h[p] EXCEPT !.pc = "lookWal"] /\ h' = [h EXCEPT ![p] = x]
    BY <1>5, GrowFacts DEF LookAtSnapshot, Step
  <2>2. Following(x, wal) /\ x.must \subseteq acked
    BY <2>1, <1>2, GrowFacts DEF Following, Handle, LoadPcs
  <2> QED BY <2>1, <2>2, <1>1, GrowLocal
<1>6. CASE LookAtWal(p)
  <2>1. ~(Len(wal) < h[p].consumed \/ WalReplaced(h[p]))
    BY GrowFacts DEF WalReplaced
  <2>2. PICK k \in {"ready", "served", "tail"} :
          /\ h' = [h EXCEPT ![p] = [h[p] EXCEPT !.pc = k]]
          /\ k = "served" => Len(wal) = h[p].consumed
    BY <1>6, <2>1 DEF LookAtWal, Step, Refreshed
  <2>3. PICK x : x = [h[p] EXCEPT !.pc = k] /\ h' = [h EXCEPT ![p] = x]
    BY <2>2
  <2>4. k = "served" => h[p].must \subseteq h[p].mem
    BY <2>2, GrowFacts
  <2>5. Following(x, wal) /\ x.must \subseteq acked
    BY <2>2, <2>3, <2>4, <1>2, GrowFacts DEF Following, Handle, LoadPcs
  <2> QED BY <2>3, <2>5, <1>1, GrowLocal
<1>7. CASE ReadTail(p)
  <2>1. /\ h[p].consumed + Len(TailFrom(wal, h[p].consumed)) = Whole(wal)
        /\ Upto(wal, h[p].consumed) \cup Frames(TailFrom(wal, h[p].consumed)) = Upto(wal, Whole(wal))
    BY SafeFacts, GrowFacts, TailFromApplied
  <2>2. Upto(wal, h[p].consumed) = h[p].mem
    BY GrowFacts DEF Upto, GrowInv
  <2>3. PICK c \in Nat : c = Whole(wal)
    BY GrowFacts
  <2>4. PICK m : m = 1..c
    OBVIOUS
  <2>5. h[p].mem \cup Frames(TailFrom(wal, h[p].consumed)) = m
    BY <2>1, <2>2, <2>3, <2>4, GrowFacts
  <2>6. PICK k \in {"ready", "served"} : k = IF h[p].writing THEN "ready" ELSE "served"
    OBVIOUS
  <2>7. PICK x : x = [h[p] EXCEPT !.mem = m, !.consumed = c, !.pc = k] /\ h' = [h EXCEPT ![p] = x]
    <3>1. h' = [h EXCEPT ![p] = Refreshed([h[p] EXCEPT !.mem = m, !.consumed = c])]
      BY <1>7, <2>1, <2>3, <2>5, SafeFacts DEF ReadTail, Step, Handle
    <3>2. Refreshed([h[p] EXCEPT !.mem = m, !.consumed = c])
            = [h[p] EXCEPT !.mem = m, !.consumed = c, !.pc = k]
      BY <2>6, SafeFacts DEF Refreshed, Handle
    <3> QED BY <3>1, <3>2
  <2>8. h[p].must \subseteq m
    BY <2>3, <2>4, GrowFacts
  <2>9. /\ x.mem = m /\ x.consumed = c /\ x.pc = k /\ x.must = h[p].must
        /\ x.snapId = h[p].snapId /\ x.walId = h[p].walId
    BY <2>7, <1>2 DEF Handle
  <2>10. Following(x, wal) /\ x.must \subseteq acked
    BY <2>3, <2>4, <2>8, <2>9, <1>2, GrowFacts DEF Following, LoadPcs
  <2> QED BY <2>7, <2>10, <1>1, GrowLocal
<1> QED BY <1>3, <1>4, <1>5, <1>6, <1>7

LEMMA LoadGrows ==
  ASSUME SafeInv, GrowInv, OnlyGrows, NEW p \in Proc, LoadSnapshot(p) \/ LoadWal(p) \/ LoadIdent(p)
  PROVE  GrowInv'
<1>1. h \in [Proc -> Handle] /\ UNCHANGED <<wal, ino, snap, next, acked, dropped>>
  BY DEF SafeInv, TypeOK, LoadSnapshot, LoadWal, LoadIdent
<1>2. h[p] \in Handle /\ Following(h[p], wal)
  BY SafeFacts DEF GrowInv
<1>3. CASE LoadSnapshot(p)
  <2>1. h[p].pc = "loadSnap" /\ snap.done = {} /\ 1..0 = {}
    BY <1>3 DEF LoadSnapshot, Step, GrowInv
  <2>2. h[p].consumed = 0 /\ h[p].mem = snap.done /\ h[p].opening
    BY <2>1, <1>2 DEF Following, LoadPcs
  <2>3. PICK x : x = [h[p] EXCEPT !.loaded = snap.id, !.pc = "loadWal"] /\ h' = [h EXCEPT ![p] = x]
    BY <1>3, <2>2, <1>2 DEF LoadSnapshot, Step, Handle
  <2>4. Following(x, wal) /\ x.must \subseteq acked
    BY <2>2, <2>3, <1>2, GrowFacts DEF Following, Handle, LoadPcs
  <2> QED BY <2>3, <2>4, <1>1, GrowLocal
<1>4. CASE LoadWal(p)
  <2>1. h[p].pc = "loadWal" /\ h[p].opening
    BY <1>4, <1>2 DEF LoadWal, Step, Following, LoadPcs
  <2>2. PICK t : t = TailFrom(wal, 0)
    OBVIOUS
  <2>3. Frames(t) = 1..Whole(wal) /\ Len(t) = Whole(wal)
    BY <2>2, SafeFacts, GrowFacts, OpenFinds
  <2>4. PICK c \in Nat : c = Whole(wal)
    BY GrowFacts
  <2>5. PICK m : m = 1..c
    OBVIOUS
  <2>6. h[p].mem \cup Frames(t) = m
    BY <2>3, <2>4, <2>5, GrowFacts
  <2>7. ~(h[p].opening /\ h[p].mode # "reader" /\ Len(t) < Len(wal))
    <3>1. CASE h[p].mode = "reader"
      BY <3>1
    <3>2. CASE h[p].mode # "reader"
      <4>1. h[p].mode = "owner" /\ lock = p
        BY <2>1, <3>2, <1>2, SafeFacts DEF LockPart, Handle
      <4>2. Whole(wal) = Len(wal)
        BY <2>1, <4>1, GrowFacts, HeldWhole
      <4> QED BY <2>3, <4>2, GrowFacts
    <3> QED BY <3>1, <3>2
  <2>8. PICK x : /\ x = [h[p] EXCEPT !.mem = m, !.consumed = c, !.walId = ino, !.keep = t, !.pc = "loadIdent"]
                 /\ h' = [h EXCEPT ![p] = x]
    <3>1. h' = [h EXCEPT ![p] = [h[p] EXCEPT !.mem = h[p].mem \cup Frames(t), !.consumed = Len(t),
                                             !.walId = ino, !.keep = t, !.pc = "loadIdent"]]
      BY <1>4, <2>2, <2>7, <1>2 DEF LoadWal, Step, Handle
    <3> QED BY <3>1, <2>3, <2>4, <2>6
  <2>9. /\ x.mem = m /\ x.consumed = c /\ x.pc = "loadIdent" /\ x.must = h[p].must
        /\ x.snapId = h[p].snapId /\ x.walId = ino /\ x.opening = h[p].opening
    BY <2>8, <1>2 DEF Handle
  <2>10. Following(x, wal) /\ x.must \subseteq acked
    BY <2>1, <2>4, <2>5, <2>9, <1>2, GrowFacts DEF Following, LoadPcs, GrowInv
  <2> QED BY <2>8, <2>10, <1>1, GrowLocal
<1>5. CASE LoadIdent(p)
  <2>1. h[p].pc = "loadIdent" /\ h[p].opening
    BY <1>5, <1>2 DEF LoadIdent, Step, Following, LoadPcs
  <2>2. PICK k \in {"idle", "ready"} : k = IF h[p].writing THEN "ready" ELSE "idle"
    OBVIOUS
  <2>3. PICK x : /\ x = [h[p] EXCEPT !.snapId = snap.id, !.keep = <<>>, !.opening = FALSE, !.pc = k]
                 /\ h' = [h EXCEPT ![p] = x]
    BY <1>5, <2>1, <2>2, <1>2 DEF LoadIdent, Step, Refreshed, Handle
  <2>4. /\ x.mem = h[p].mem /\ x.consumed = h[p].consumed /\ x.pc = k /\ x.must = h[p].must
        /\ x.snapId = snap.id /\ x.walId = h[p].walId
    BY <2>3, <1>2 DEF Handle
  <2>5. Following(x, wal) /\ x.must \subseteq acked
    BY <2>2, <2>4, <1>2, GrowFacts DEF Following, LoadPcs, GrowInv
  <2> QED BY <2>3, <2>5, <1>1, GrowLocal
<1> QED BY <1>3, <1>4, <1>5

LEMMA ScopeGrows ==
  ASSUME SafeInv, GrowInv, OnlyGrows, NEW p \in Proc,
         EnterWriteScope(p) \/ LeaveWriteScope(p) \/ Fsync(p)
  PROVE  GrowInv'
<1>1. h \in [Proc -> Handle] /\ UNCHANGED <<wal, ino, snap, next, dropped>> /\ acked \subseteq acked'
  BY DEF SafeInv, TypeOK, EnterWriteScope, LeaveWriteScope, Fsync
<1>2. h[p] \in Handle /\ Following(h[p], wal)
  BY SafeFacts DEF GrowInv
<1>3. CASE EnterWriteScope(p)
  <2>1. PICK x : x = [h[p] EXCEPT !.writing = TRUE, !.pc = "look"] /\ h' = [h EXCEPT ![p] = x]
    BY <1>3 DEF EnterWriteScope, Step
  <2>2. Following(x, wal) /\ x.must \subseteq acked
    BY <2>1, <1>2, GrowFacts DEF Following, Handle, LoadPcs
  <2> QED BY <2>1, <2>2, <1>1, GrowLocal
<1>4. CASE LeaveWriteScope(p) \/ Fsync(p)
  <2>1. PICK x : x = Left(h[p]) /\ h' = [h EXCEPT ![p] = x]
    BY <1>4 DEF LeaveWriteScope, Fsync, Step
  <2>2. h[p].mode # "reader"
    <3>1. h[p].pc \in {"ready", "appended"}
      BY <1>4 DEF LeaveWriteScope, Fsync, Step
    <3> QED BY <3>1, SafeFacts DEF LockPart
  <2>3. /\ x.mem = h[p].mem /\ x.consumed = h[p].consumed /\ x.must = h[p].must /\ x.pc \in {"ready", "idle"}
        /\ x.snapId = h[p].snapId /\ x.walId = h[p].walId
    <3>1. /\ x.mem = h[p].mem /\ x.consumed = h[p].consumed /\ x.must = h[p].must
          /\ h[p].mode = "owner" => x.pc = "ready"
          /\ h[p].mode = "shared" => x.pc = "idle"
          /\ x.snapId = h[p].snapId /\ x.walId = h[p].walId
      BY ONLY <1>2, <2>1, <2>2, LeftFacts, Zenon
    <3>2. h[p].mode \in {"owner", "shared"}
      BY <1>2, <2>2 DEF Handle
    <3> QED BY <3>1, <3>2
  <2>4. Following(x, wal) /\ x.must \subseteq acked
    BY <2>3, <1>2, GrowFacts DEF Following, LoadPcs
  <2> QED BY <2>1, <2>4, <1>1, GrowLocal
<1> QED BY <1>3, <1>4

LEMMA OpenGrows ==
  ASSUME SafeInv, GrowInv, OnlyGrows, NEW p \in Proc,
         \/ Kill(p) \/ Close(p) \/ OpenOwner(p)
         \/ \E m \in {"shared", "reader"} : OpenUnlocked(p, m)
  PROVE  GrowInv'
<1>1. h \in [Proc -> Handle] /\ UNCHANGED <<wal, ino, snap, next, acked, dropped>>
  BY DEF SafeInv, TypeOK, Kill, Close, OpenOwner, OpenUnlocked
<1>2. Whole(wal) \in Nat /\ 1..0 = {}
  BY SafeFacts, WholeFacts
<1>3. CASE Kill(p) \/ Close(p)
  <2>1. PICK x : x = Down
    OBVIOUS
  <2>2. h' = [h EXCEPT ![p] = x]
    BY <2>1, <1>3 DEF Kill, Close
  <2>3. Following(x, wal) /\ x.must \subseteq acked
    BY <2>1, <1>2, DownFacts DEF Following, LoadPcs
  <2> QED BY <2>2, <2>3, <1>1, GrowLocal
<1>4. CASE OpenOwner(p) \/ \E m \in {"shared", "reader"} : OpenUnlocked(p, m)
  <2>1. PICK m \in {"shared", "owner", "reader"} : h' = [h EXCEPT ![p] = Loading(m)]
    BY <1>4 DEF OpenOwner, OpenUnlocked, Step
  <2>2. PICK x : x = Loading(m)
    OBVIOUS
  <2>3. /\ x.pc = "loadSnap" /\ x.opening = TRUE /\ x.walId = 0 /\ x.snapId = 0 /\ x.loaded = 0 /\ x.mem = {}
        /\ x.consumed = 0 /\ x.must = {}
    BY <2>2, LoadingFacts
  <2>4. Following(x, wal) /\ x.must \subseteq acked
    BY <2>3, <1>2 DEF Following, LoadPcs
  <2>5. h' = [h EXCEPT ![p] = x]
    BY <2>1, <2>2
  <2> QED BY <2>4, <2>5, <1>1, GrowLocal
<1> QED BY <1>3, <1>4

\* The WAL grows by what its writer appends.
LEMMA GrowFile ==
  ASSUME GrowInv, wal \in Seq(Nat), h \in [Proc -> Handle], NEW p \in Proc, NEW x, h' = [h EXCEPT ![p] = x],
         NEW v \in Seq(Nat), wal' = v, Whole(wal) <= Whole(v), next' = Len(v) + 1,
         \A i \in 1..Whole(v) : v[i] = i, UNCHANGED <<ino, snap, acked, dropped>>,
         Following(x, v), x.must \subseteq acked
  PROVE  GrowInv'
<1>1. h'[p] = x /\ \A q \in Proc \ {p} : h'[q] = h[q]
  OBVIOUS
<1>2. Whole(wal) \in Nat /\ Whole(v) \in Nat
  BY WholeFacts
<1>3. ASSUME NEW q \in Proc PROVE Following(h'[q], v) /\ h'[q].must \subseteq acked
  <2>1. CASE q = p
    BY <1>1, <2>1
  <2>2. CASE q # p
    <3>1. Following(h[q], wal) /\ h[q].must \subseteq acked /\ h[q].consumed \in Nat /\ h'[q] = h[q]
      BY <1>1, <2>2 DEF GrowInv, Handle
    <3> QED BY <3>1, <1>2 DEF Following
  <2> QED BY <2>1, <2>2
<1> QED BY <1>3 DEF GrowInv

LEMMA AppendGrows ==
  ASSUME SafeInv, GrowInv, OnlyGrows, NEW p \in Proc, BeginAppend(p) \/ EndAppend(p)
  PROVE  GrowInv'
<1>1. /\ h \in [Proc -> Handle] /\ UNCHANGED <<ino, snap, acked, dropped>> /\ wal \in Seq(Nat) /\ TornLast(wal)
      /\ next = Len(wal) + 1 /\ \A i \in 1..Whole(wal) : wal[i] = i
  BY SafeFacts DEF SafeInv, TypeOK, BeginAppend, EndAppend, GrowInv
<1>2. h[p] \in Handle /\ Following(h[p], wal)
  BY SafeFacts DEF GrowInv
<1>3. lock = p
  BY SafeFacts DEF BeginAppend, EndAppend, Step, LockPart
<1>4. PICK l \in Nat : l = Len(wal)
  BY SafeFacts
<1>5. CASE BeginAppend(p)
  <2>1. PICK x : x = [h[p] EXCEPT !.pre = l, !.file = ino, !.pc = "appending"] /\ h' = [h EXCEPT ![p] = x]
    BY <1>4, <1>5 DEF BeginAppend, Step
  <2>2. PICK v : v = Append(wal, Torn) /\ wal' = v
    BY <1>5 DEF BeginAppend
  <2>3. Whole(wal) = l
    BY <1>3, <1>4, <1>5, HolderIsCoherent DEF BeginAppend, Step
  <2>4. v \in Seq(Nat) /\ Len(v) = l + 1 /\ Whole(v) = l
    BY <2>2, <2>3, <1>1, <1>4, AppendBegun
  <2>5. \A i \in 1..Whole(v) : v[i] = i
    BY <2>2, <2>3, <2>4, <1>1, <1>4
  <2>6. next' = Len(v) + 1
    BY <2>4, <1>1, <1>4, <1>5 DEF BeginAppend
  <2>7. Following(x, v) /\ x.must \subseteq acked
    BY <2>1, <2>3, <2>4, <1>2, GrowFacts DEF Following, Handle, LoadPcs
  <2>8. Whole(wal) <= Whole(v)
    BY <2>3, <2>4
  <2> QED BY <2>1, <2>2, <2>4, <2>5, <2>6, <2>7, <2>8, <1>1, GrowFile
<1>6. CASE EndAppend(p)
  <2>1. /\ Len(wal) > 0 /\ wal[Len(wal)] = Torn /\ h[p].file = ino
        /\ AtCursor(h[p], Len(wal) - 1, wal, snap)
    BY <1>3, <1>6, SafeFacts DEF EndAppend, Step, HolderPart
  <2>2. next - 1 = l /\ l # Torn /\ h[p].consumed + 1 = l
    BY <2>1, <1>1, <1>4 DEF AtCursor, Torn
  <2>3. PICK v : v = [wal EXCEPT ![l] = l] /\ wal' = v
    BY <2>1, <2>2, <1>4, <1>6 DEF EndAppend
  <2>4. v \in Seq(Nat) /\ Len(v) = l /\ v[l] = l /\ \A i \in 1..l - 1 : v[i] = wal[i]
    BY <2>1, <2>3, <1>1, <1>4
  <2>5. Whole(v) = l /\ Whole(wal) = l - 1
    BY <2>1, <2>2, <2>4, <1>1, <1>4, AppendEnded
  <2>6. \A i \in 1..Whole(v) : v[i] = i
    <3>1. ASSUME NEW i \in 1..l PROVE v[i] = i
      <4>1. CASE i = l
        BY <4>1, <2>4
      <4>2. CASE i # l
        BY <4>2, <2>4, <2>5, <1>1
      <4> QED BY <4>1, <4>2
    <3> QED BY <3>1, <2>5
  <2>7. next' = Len(v) + 1
    BY <2>4, <1>1, <1>4, <1>6 DEF EndAppend
  <2>8. PICK m : m = 1..l
    OBVIOUS
  <2>9. h[p].mem \cup {next - 1} = m
    BY <2>2, <2>8, GrowFacts
  <2>10. PICK x : x = [h[p] EXCEPT !.mem = m, !.consumed = l, !.pc = "appended"] /\ h' = [h EXCEPT ![p] = x]
    <3>1. h' = [h EXCEPT ![p] = [h[p] EXCEPT !.mem = h[p].mem \cup {next - 1},
                                             !.consumed = h[p].consumed + 1, !.pc = "appended"]]
      BY <1>2, <1>6 DEF EndAppend, Step, Handle
    <3> QED BY <3>1, <2>2, <2>9
  <2>11. /\ x.mem = m /\ x.consumed = l /\ x.pc = "appended" /\ x.must = h[p].must
         /\ x.snapId = h[p].snapId /\ x.walId = h[p].walId
    BY <2>10, <1>2 DEF Handle
  <2>12. Following(x, v) /\ x.must \subseteq acked
    BY <2>5, <2>8, <2>11, <1>2, GrowFacts DEF Following, LoadPcs
  <2>13. Whole(wal) <= Whole(v)
    BY <2>5
  <2> QED BY <2>3, <2>4, <2>6, <2>7, <2>10, <2>12, <2>13, <1>1, GrowFile
<1> QED BY <1>5, <1>6

LEMMA InitGrows ==
  ASSUME Init
  PROVE  GrowInv
<1>1. Len(wal) = 0 /\ Whole(wal) = 0
  BY EmptyWal DEF Init
<1>2. ASSUME NEW p \in Proc PROVE Following(h[p], wal) /\ h[p].must \subseteq acked
  <2>1. h[p] = Down \/ h[p] = Fresh
    BY DEF Init
  <2>2. /\ h[p].pc \in {"idle", "down"} /\ h[p].mem = {} /\ h[p].consumed = 0 /\ h[p].walId = 0
        /\ h[p].snapId = 0 /\ h[p].must = {}
    BY <2>1, DownFacts DEF Fresh
  <2> QED BY <1>1, <2>2 DEF Following, LoadPcs
<1> QED BY <1>1, <1>2 DEF Init, GrowInv

LEMMA NextGrows ==
  ASSUME SafeInv, GrowInv, OnlyGrows, [Next]_vars
  PROVE  GrowInv'
<1>1. CASE UNCHANGED vars
  BY <1>1 DEF vars, GrowInv
<1>2. ASSUME NEW p \in Proc, RepairWal(p) \/ FsyncFails(p) \/ WriteSnapshot(p) \/ ReplaceWal(p)
      PROVE  FALSE
  <2>1. ~FsyncFails(p)
    BY DEF FsyncFails, OnlyGrows
  <2> QED BY <1>2, <2>1, GrowFacts DEF RepairWal, WriteSnapshot, ReplaceWal, Step
<1> QED BY <1>1, <1>2, ReadGrows, LoadGrows, ScopeGrows, OpenGrows, AppendGrows DEF Next

LEMMA GrowAlways ==
  Spec => [](OnlyGrows => SafeInv /\ GrowInv)
<1>1. Init => (OnlyGrows => GrowInv)
  BY InitGrows
<1>2. OnlyGrows => Safe
  BY DEF OnlyGrows, Safe
<1>3. (Safe => SafeInv) /\ (OnlyGrows => GrowInv) /\ [Next]_vars => (OnlyGrows => GrowInv)'
  <2> SUFFICES ASSUME Safe => SafeInv, OnlyGrows => GrowInv, [Next]_vars, OnlyGrows' PROVE GrowInv'
    OBVIOUS
  <2>1. OnlyGrows
    BY SameWorld DEF OnlyGrows
  <2> QED BY <1>2, <2>1, NextGrows
<1> QED BY <1>1, <1>2, <1>3, SafeAlways, PTL DEF Spec

\* While the WAL only grows, a read that started after a peer's commit was acknowledged
\* sees it: whatever it saw of a frame half-written, and wherever a writer died.
THEOREM ReadsAreCurrent ==
  Spec => []ReadIsCurrent
<1>1. (OnlyGrows => SafeInv /\ GrowInv) => ReadIsCurrent
  BY DEF GrowInv, Following, ReadIsCurrent, ReadIsAlwaysCurrent
<1> QED BY <1>1, GrowAlways, PTL

\* While the WAL only grows, a handle has every commit before the last one it has.
THEOREM HandlesSkipNothing ==
  Spec => []HandleIsPrefix
<1>1. ASSUME OnlyGrows, SafeInv, GrowInv, NEW p \in Proc, NEW c \in h[p].mem, NEW d \in StoreState, d < c
      PROVE  d \in h[p].mem
  <2>1. h[p].mem = 1..h[p].consumed /\ h[p].consumed \in Nat /\ Whole(wal) \in Nat
    BY <1>1, GrowFacts
  <2>2. d \in 1..Whole(wal)
    BY <1>1, GrowFacts, SafeFacts, StoreStateIs DEF GrowInv
  <2> QED BY <1>1, <2>1, <2>2
<1>2. (OnlyGrows => SafeInv /\ GrowInv) => HandleIsPrefix
  BY <1>1 DEF HandleIsPrefix
<1> QED BY <1>2, GrowAlways, PTL
=============================================================================
