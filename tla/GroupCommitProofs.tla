------------------------- MODULE GroupCommitProofs -------------------------
(***************************************************************************)
(* Proofs about GroupCommit, for any callers and any size of a group: the  *)
(* events follow the durable WAL, a compare-and-set lands on the version   *)
(* it named, and the write path implements the promise of CommitLog.       *)
(***************************************************************************)
EXTENDS GroupCommit, SequenceTheorems, TLAPS

-----------------------------------------------------------------------------
(* The inductive invariant.                                                *)

Pc == {"checking", "asleep", "done", "grouped", "locked", "applying", "applied", "synced",
       "flushed", "unlocked", "failed", "degraded", "failing", "gaveUp"}

Drain == [pc : Pc, group : Seq(Sub), run : Seq(Sub), results : Seq({"ok", "err"}), pre : Nat]

\* A group is being applied, or was and is not answered.
Open == {"applying", "applied", "synced", "flushed", "unlocked"}

Injective(s) == \A i, j \in 1..Len(s) : s[i] = s[j] => i = j

\* Each caller takes the steps of its kind.
Kinds ==
  /\ drain \in Drain
  /\ \A s \in Sub : st[s] \notin {"locked", "written"}
  /\ \A d \in Direct : st[d] \notin {"checked", "pushed", "waiting"}

\* A batch is once in the queue or in the group, and its caller waits.
Queued ==
  /\ Injective(pending) /\ Injective(drain.group)
  /\ \A i \in 1..Len(pending) : st[pending[i]] \in {"pushed", "waiting"}
  /\ \A i \in 1..Len(drain.group) : st[drain.group[i]] \in {"pushed", "waiting"}
  /\ \A i \in 1..Len(pending), j \in 1..Len(drain.group) : pending[i] # drain.group[j]

\* How far the thread is with its group.
Progress ==
  /\ drain.pc \in {"checking", "asleep", "done", "gaveUp"} => drain.group = <<>>
  /\ drain.pc \in {"checking", "asleep", "done", "gaveUp", "grouped", "locked"} =>
       drain.run = <<>> /\ drain.results = <<>>
  /\ Len(drain.results) + Len(drain.run) <= Len(drain.group)
  /\ \A i \in 1..Len(drain.run) : /\ drain.run[i] = drain.group[Len(drain.results) + i]
                                  /\ Gathers(drain.run[i])
  /\ drain.pc \in {"applied", "synced", "flushed", "unlocked"} =>
       drain.run = <<>> /\ Len(drain.results) = Len(drain.group)

\* wal_mu has one holder.
Exclusion ==
  /\ drain.pc \in {"locked", "applying", "applied", "synced", "flushed", "failed", "degraded"}
       <=> walMu = "drain"
  /\ \A d \in Direct : st[d] \in {"locked", "written"} <=> walMu = d

\* The group's fsync failed and the group is not answered.
Ended == {"failed", "degraded", "failing"}

\* The frame is one the open group has appended, or one a failed cut left.
OfGroup(k) ==
  /\ drain.pc \in Open \cup Ended /\ drain.pre < k
  /\ \E i \in 1..Len(drain.results) : drain.results[i] = "ok" /\ drain.group[i] = wal[k]

\* A caller has one frame.  It stands once the caller is, or is about to be, told
\* "ok"; a caller told "err" has none, and has only begun when none is applied.
Frames ==
  /\ Injective(wal)
  /\ \A k \in 1..Len(wal) : st[wal[k]] \in {"ok", "written", "unsure"} \/ OfGroup(k)
  /\ \A c \in Caller : st[c] \in {"ok", "written"} => \E k \in 1..synced : wal[k] = c
  /\ drain.pc \in {"applying", "applied"} =>
       \A i \in 1..Len(drain.results) :
         drain.results[i] = "ok" => \E k \in 1..Len(wal) : wal[k] = drain.group[i]
  /\ drain.pc \in {"synced", "flushed", "unlocked"} =>
       \A i \in 1..Len(drain.results) :
         drain.results[i] = "ok" => \E k \in 1..synced : wal[k] = drain.group[i]
  /\ \A k \in 1..Len(mem) : st[mem[k]] \notin {"start", "checked", "locked"}

\* What is applied and not delivered is deferred, unless the handle is degraded.
Delivered ==
  /\ \A k \in 1..Len(events) : events[k] = mem[k]
  /\ Len(events) <= Len(mem)
  /\ drain.pc \in {"applying", "applied", "synced"} =>
       /\ Len(events) + Len(deferred) = Len(mem)
       /\ \A k \in 1..Len(deferred) : deferred[k] = mem[Len(events) + k]
  /\ drain.pc \notin {"applying", "applied", "synced", "failed"} => deferred = <<>>
  /\ drain.pc \notin {"applying", "applied", "synced", "failed", "degraded", "failing", "gaveUp"} =>
       Len(events) = Len(mem)
  /\ drain.pc \in {"degraded", "failing", "gaveUp"} => degraded

\* The frame applied as the i-th is the l-th of the WAL, and those applied before it
\* come before it there.
Lies(i, l) ==
  wal[l] = mem[i] /\ \A h \in 1..i - 1 : \E k \in 1..l - 1 : wal[k] = mem[h]

\* What is applied lies in the WAL in the same order, and durably once it is
\* delivered or the group's fsync is through.
Placed ==
  /\ \A i \in 1..Len(events) : \E l \in 1..synced : Lies(i, l)
  /\ drain.pc \in {"applying", "applied"} =>
       /\ \A i \in 1..Len(mem) : \E l \in 1..Len(wal) : Lies(i, l)
       /\ synced <= drain.pre /\ drain.pre <= Len(wal)
       /\ Len(events) < Len(mem) => AnyOk
  /\ drain.pc = "synced" => \A i \in 1..Len(mem) : \E l \in 1..synced : Lies(i, l)

GroupInv ==
  /\ TypeOK /\ Kinds /\ Queued /\ Progress /\ Exclusion /\ Frames /\ Delivered /\ Placed
  /\ CasOnUnchanged

-----------------------------------------------------------------------------
(* Sequences.                                                              *)

\* The length and the elements of a sequence.
LEMMA SeqFacts ==
  ASSUME NEW S, NEW s \in Seq(S)
  PROVE  Len(s) \in Nat /\ \A i \in 1..Len(s) : s[i] \in S
BY LenProperties, ElementOfSeq

\* A sequence and one more element.
LEMMA Appended ==
  ASSUME NEW S, NEW s \in Seq(S), NEW x \in S
  PROVE  /\ Append(s, x) \in Seq(S) /\ Len(Append(s, x)) = Len(s) + 1
         /\ \A i \in 1..Len(s) : Append(s, x)[i] = s[i]
         /\ Append(s, x)[Len(s) + 1] = x
OBVIOUS

\* A sequence stays without repetition when an element it lacks is appended.
LEMMA AppendedInjective ==
  ASSUME NEW S, NEW s \in Seq(S), NEW x \in S, Injective(s), \A i \in 1..Len(s) : s[i] # x
  PROVE  Injective(Append(s, x))
<1>1. Len(s) \in Nat
  BY SeqFacts
<1>2. \A i \in 1..Len(s) + 1 : i \in 1..Len(s) \/ i = Len(s) + 1
  BY <1>1
<1> QED BY <1>1, <1>2, Appended DEF Injective

\* The rest of a sequence.
LEMMA SuffixFacts ==
  ASSUME NEW S, NEW s \in Seq(S), NEW n \in 0..Len(s)
  PROVE  /\ SubSeq(s, n + 1, Len(s)) \in Seq(S) /\ Len(SubSeq(s, n + 1, Len(s))) = Len(s) - n
         /\ \A i \in 1..Len(s) - n : SubSeq(s, n + 1, Len(s))[i] = s[n + i]
<1>1. Len(s) \in Nat
  BY SeqFacts
<1>2. \A i \in n + 1..Len(s) : s[i] \in S
  BY SeqFacts
<1>3. /\ SubSeq(s, n + 1, Len(s)) \in Seq(S)
      /\ Len(SubSeq(s, n + 1, Len(s))) = IF n + 1 <= Len(s) THEN Len(s) - (n + 1) + 1 ELSE 0
      /\ \A i \in 1..Len(s) - (n + 1) + 1 : SubSeq(s, n + 1, Len(s))[i] = s[n + 1 + i - 1]
  BY <1>1, <1>2, SubSeqProperties
<1>4. Len(s) - (n + 1) + 1 = Len(s) - n /\ \A i \in 1..Len(s) - n : n + 1 + i - 1 = n + i
  BY <1>1
<1>5. (IF n + 1 <= Len(s) THEN Len(s) - (n + 1) + 1 ELSE 0) = Len(s) - n
  BY <1>1
<1>6. \A i \in 1..Len(s) - n : SubSeq(s, n + 1, Len(s))[i] = s[n + 1 + i - 1]
  BY ONLY <1>3, <1>4
<1> QED BY <1>3, <1>4, <1>5, <1>6

\* A prefix of a sequence.
LEMMA PrefixFacts ==
  ASSUME NEW S, NEW s \in Seq(S), NEW n \in 0..Len(s)
  PROVE  /\ SubSeq(s, 1, n) \in Seq(S) /\ Len(SubSeq(s, 1, n)) = n
         /\ \A i \in 1..n : SubSeq(s, 1, n)[i] = s[i]
<1>1. Len(s) \in Nat /\ \A i \in 1..n : s[i] \in S
  BY SeqFacts
<1> QED BY <1>1, SubSeqProperties

-----------------------------------------------------------------------------
(* The invariant holds initially, and is kept.                             *)

\* The parts of the drain thread's state.
LEMMA DrainFacts ==
  ASSUME GroupInv
  PROVE  /\ drain \in Drain
         /\ drain.group \in Seq(Sub) /\ drain.run \in Seq(Sub)
         /\ drain.results \in Seq({"ok", "err"}) /\ drain.pre \in Nat
         /\ Len(drain.group) \in Nat /\ Len(drain.run) \in Nat /\ Len(drain.results) \in Nat
         /\ \A i \in 1..Len(drain.group) : drain.group[i] \in Sub
         /\ \A i \in 1..Len(drain.run) : drain.run[i] \in Sub
         /\ Len(wal) \in Nat /\ Len(pending) \in Nat /\ Len(events) \in Nat /\ Len(deferred) \in Nat
         /\ Len(mem) \in Nat /\ \A i \in 1..Len(mem) : mem[i] \in Caller
         /\ \A i \in 1..Len(wal) : wal[i] \in Caller
         /\ \A i \in 1..Len(pending) : pending[i] \in Sub
         /\ synced \in Nat /\ synced <= Len(wal)
<1>1. drain \in Drain
  BY DEF GroupInv, Kinds
<1>2. /\ drain.group \in Seq(Sub) /\ drain.run \in Seq(Sub)
      /\ drain.results \in Seq({"ok", "err"}) /\ drain.pre \in Nat
  BY <1>1 DEF Drain
<1>3. pending \in Seq(Sub) /\ wal \in Seq(Caller) /\ mem \in Seq(Caller) /\ deferred \in Seq(Caller) /\ events \in Seq(Caller)
  BY DEF GroupInv, TypeOK
<1>4. /\ Len(drain.group) \in Nat /\ Len(drain.run) \in Nat /\ Len(drain.results) \in Nat
      /\ \A i \in 1..Len(drain.group) : drain.group[i] \in Sub
      /\ \A i \in 1..Len(drain.run) : drain.run[i] \in Sub
      /\ Len(wal) \in Nat /\ Len(pending) \in Nat /\ Len(events) \in Nat /\ Len(deferred) \in Nat
      /\ Len(mem) \in Nat /\ \A i \in 1..Len(mem) : mem[i] \in Caller
      /\ \A i \in 1..Len(wal) : wal[i] \in Caller
      /\ \A i \in 1..Len(pending) : pending[i] \in Sub
  BY <1>2, <1>3, SeqFacts
<1>5. synced \in 0..Len(wal)
  BY DEF GroupInv, TypeOK
<1> QED BY <1>1, <1>2, <1>4, <1>5

\* Initially nothing is queued or written.
LEMMA InitInv == Init => GroupInv
<1> SUFFICES ASSUME Init PROVE GroupInv
  OBVIOUS
<1>1. Len(<<>>) = 0 /\ \A S : <<>> \in Seq(S)
  OBVIOUS
<1>2. drain \in Drain /\ drain.pc = "checking" /\ drain.group = <<>> /\ drain.run = <<>>
      /\ drain.results = <<>> /\ drain.pre = 0
  BY <1>1 DEF Init, Drain, Pc
<1>3. TypeOK
  <2>1. {qDegraded, shutdown, degraded} \subseteq BOOLEAN
    BY DEF Init
  <2>2. synced \in 0..Len(wal)
    BY <1>1 DEF Init
  <2> QED BY <1>1, <1>2, <2>1, <2>2 DEF Init, TypeOK
<1>4. Kinds /\ Queued /\ Progress
  BY <1>1, <1>2 DEF Init, Kinds, Queued, Progress, Injective, Caller
<1>5. Exclusion
  BY <1>2, GroupCommitAssumption DEF Init, Exclusion, Caller
<1>6. Frames /\ Delivered /\ Placed /\ CasOnUnchanged
  BY <1>1, <1>2 DEF Init, Frames, Delivered, Placed, CasOnUnchanged, Injective, Caller
<1> QED BY <1>3, <1>4, <1>5, <1>6 DEF GroupInv

\* A frame is of a caller that was told "ok", or is about to be.
LEMMA FrameOwner ==
  ASSUME GroupInv
  PROVE  /\ \A i \in 1..Len(drain.results) : i \in 1..Len(drain.group)
         /\ \A k \in 1..Len(wal) : st[wal[k]] \in {"ok", "written", "unsure", "pushed", "waiting"}
<1>1. \A i \in 1..Len(drain.results) : i \in 1..Len(drain.group)
  <2>1. Len(drain.results) + Len(drain.run) <= Len(drain.group)
    BY DEF GroupInv, Progress
  <2>2. Len(drain.results) \in Nat /\ Len(drain.run) \in Nat /\ Len(drain.group) \in Nat
    BY DrainFacts
  <2>3. \A a, b, c \in Nat : a + b <= c => 1..a \subseteq 1..c
    OBVIOUS
  <2>4. 1..Len(drain.results) \subseteq 1..Len(drain.group)
    BY <2>1, <2>2, <2>3
  <2> QED BY <2>4
<1>2. \A i \in 1..Len(drain.group) : st[drain.group[i]] \in {"pushed", "waiting"}
  BY DEF GroupInv, Queued
<1>3. \A k \in 1..Len(wal) : st[wal[k]] \in {"ok", "written", "unsure"} \/ OfGroup(k)
  BY DEF GroupInv, Frames
<1> QED BY <1>1, <1>2, <1>3 DEF OfGroup

\* Callers that wait go on waiting.
LEMMA QueuedKept ==
  ASSUME GroupInv, UNCHANGED pending, drain'.group = drain.group,
         \A c \in Caller : st[c] \in {"pushed", "waiting"} => st'[c] \in {"pushed", "waiting"}
  PROVE  Queued'
<1>1. \A i \in 1..Len(drain.group) : drain.group[i] \in Caller
  BY DrainFacts DEF Caller
<1>2. \A i \in 1..Len(pending) : pending[i] \in Caller
  BY DrainFacts DEF Caller
<1> QED BY <1>1, <1>2 DEF GroupInv, Queued, Injective

\* The frames stay, and so does what is said of their callers.
LEMMA FramesKept ==
  ASSUME GroupInv, UNCHANGED <<wal, mem>>, synced \in Nat, synced' \in Nat, synced <= synced',
         drain'.group = drain.group, drain'.results = drain.results, drain'.pre = drain.pre,
         drain'.pc \in Open \cup Ended <=> drain.pc \in Open \cup Ended,
         drain'.pc \in {"applying", "applied"} => drain.pc \in {"applying", "applied"},
         drain'.pc \in {"synced", "flushed", "unlocked"} =>
           \/ drain.pc \in {"synced", "flushed", "unlocked"}
           \/ drain.pc = "applied" /\ (AnyOk => synced' = Len(wal)),
         \A c \in Caller : /\ st'[c] \in {"ok", "written"} <=> st[c] \in {"ok", "written"}
                           /\ st'[c] = "unsure" <=> st[c] = "unsure"
                           /\ st'[c] \in {"start", "checked", "locked"} => st[c] \in {"start", "checked", "locked"}
  PROVE  Frames'
<1>1. \A k \in 1..Len(wal) : OfGroup(k)' <=> OfGroup(k)
  BY DEF OfGroup
<1>2. (\A k \in 1..Len(wal) : wal[k] \in Caller) /\ \A k \in 1..Len(mem) : mem[k] \in Caller
  BY DrainFacts
<1>3. \A k \in 1..synced : k \in 1..synced'
  OBVIOUS
<1>4. \A c \in Caller : st'[c] \in {"ok", "written"} => \E k \in 1..synced' : wal[k] = c
  BY <1>3 DEF GroupInv, Frames
<1>5. \A k \in 1..Len(wal) : st'[wal[k]] \in {"ok", "written", "unsure"} \/ OfGroup(k)'
  BY <1>1, <1>2 DEF GroupInv, Frames
<1>6. \A k \in 1..Len(mem) : st'[mem[k]] \notin {"start", "checked", "locked"}
  BY <1>2 DEF GroupInv, Frames
<1>7. drain'.pc \in {"applying", "applied"} =>
        \A i \in 1..Len(drain.results) :
          drain.results[i] = "ok" => \E k \in 1..Len(wal) : wal[k] = drain.group[i]
  BY DEF GroupInv, Frames
<1>8. drain'.pc \in {"synced", "flushed", "unlocked"} =>
        \A i \in 1..Len(drain.results) :
          drain.results[i] = "ok" => \E k \in 1..synced' : wal[k] = drain.group[i]
  <2>1. CASE drain.pc \in {"synced", "flushed", "unlocked"}
    BY <1>3, <2>1 DEF GroupInv, Frames
  <2>2. CASE drain.pc = "applied" /\ (AnyOk => synced' = Len(wal))
    BY <2>2 DEF GroupInv, Frames, AnyOk
  <2> QED BY <2>1, <2>2
<1>9. Injective(wal)
  BY DEF GroupInv, Frames
<1> QED BY <1>4, <1>5, <1>6, <1>7, <1>8, <1>9 DEF Frames, Injective

\* The files stay.
LEMMA DeliveredKept ==
  ASSUME GroupInv, UNCHANGED <<wal, synced, mem, events, deferred>>, degraded => degraded',
         drain'.pre = drain.pre, drain'.results = drain.results,
         \/ drain'.pc = drain.pc
         \/ {drain.pc, drain'.pc} \cap
              {"applying", "applied", "synced", "failed", "degraded", "failing", "gaveUp"} = {}
  PROVE  Delivered' /\ Placed'
<1>1. AnyOk' <=> AnyOk
  BY DEF AnyOk
<1>2. \A i, l : Lies(i, l)' <=> Lies(i, l)
  BY DEF Lies
<1>3. Delivered'
  BY DEF GroupInv, Delivered
<1>4. Placed'
  BY <1>1, <1>2 DEF GroupInv, Placed
<1> QED BY <1>3, <1>4

\* wal_mu goes from nobody to the thread and back.
LEMMA MuFacts ==
  /\ "drain" # Nobody /\ \A d \in Direct : d # "drain" /\ d # Nobody
BY GroupCommitAssumption DEF Caller

\* Frames stay where they are as long as the WAL up to them does.
LEMMA LiesKept ==
  ASSUME NEW n \in Nat, UNCHANGED mem, \A k \in 1..n : wal'[k] = wal[k],
         NEW i \in Nat, NEW l \in 1..n, Lies(i, l)
  PROVE  Lies(i, l)'
<1>1. \A k \in 1..l - 1 : k \in 1..n
  OBVIOUS
<1> QED BY <1>1 DEF Lies

\* A frame appended to the WAL and applied comes after all the others.
LEMMA LiesAppended ==
  ASSUME GroupInv, NEW c \in Caller, wal' = Append(wal, c), mem' = Append(mem, c),
         NEW n \in Nat, n <= Len(wal), \A i \in 1..Len(mem) : \E l \in 1..n : Lies(i, l)
  PROVE  \A i \in 1..Len(mem') : \E l \in 1..Len(wal) + 1 : Lies(i, l)'
<1>1. /\ Len(wal') = Len(wal) + 1 /\ wal'[Len(wal) + 1] = c /\ \A k \in 1..Len(wal) : wal'[k] = wal[k]
      /\ Len(mem') = Len(mem) + 1 /\ mem'[Len(mem) + 1] = c /\ \A k \in 1..Len(mem) : mem'[k] = mem[k]
  BY Appended DEF GroupInv, TypeOK
<1>2. Len(wal) \in Nat /\ Len(mem) \in Nat
  BY DrainFacts
<1> SUFFICES ASSUME NEW i \in 1..Len(mem') PROVE \E l \in 1..Len(wal) + 1 : Lies(i, l)'
  OBVIOUS
<1>3. CASE i \in 1..Len(mem)
  <2>1. PICK l \in 1..n : Lies(i, l)
    BY <1>3
  <2>2. l \in 1..Len(wal) /\ l \in 1..Len(wal) + 1 /\ (\A k \in 1..l - 1 : k \in 1..Len(wal))
        /\ \A h \in 1..i - 1 : h \in 1..Len(mem)
    BY <1>2, <1>3
  <2>3. Lies(i, l)'
    BY <1>1, <1>3, <2>1, <2>2 DEF Lies
  <2> QED BY <2>2, <2>3
<1>4. CASE i = Len(mem) + 1
  <2>1. \A h \in 1..i - 1 : h \in 1..Len(mem)
    BY <1>2, <1>4
  <2>2. \A l \in 1..n : l \in 1..Len(wal) + 1 - 1 /\ l \in 1..Len(wal)
    BY <1>2
  <2>3. \A h \in 1..i - 1 : \E k \in 1..Len(wal) + 1 - 1 : wal'[k] = mem'[h]
    BY <1>1, <2>1, <2>2 DEF Lies
  <2>4. PICK m \in 1..Len(wal) + 1 : m = Len(wal) + 1
    BY <1>2
  <2>5. \A h \in 1..i - 1 : \E k \in 1..m - 1 : wal'[k] = mem'[h]
    BY <2>3, <2>4
  <2>6. Lies(i, m)'
    BY <1>1, <1>4, <2>4, <2>5 DEF Lies
  <2> QED BY <2>6
<1> QED BY <1>1, <1>2, <1>3, <1>4

\* A submission looks at the queue.
LEMMA CheckDegradedInv ==
  ASSUME GroupInv, NEW s \in Sub, CheckDegraded(s)
  PROVE  GroupInv'
<1>1. st \in [Caller -> {"start", "checked", "pushed", "waiting", "locked", "written", "ok", "err", "unsure"}]
      /\ base \in [Caller -> Nat] /\ s \in Caller /\ s \notin Direct
  BY GroupCommitAssumption DEF GroupInv, TypeOK, Caller, Sub
<1>2. PICK a \in {"checked", "err"} : st' = [st EXCEPT ![s] = a]
  BY DEF CheckDegraded
<1>3. PICK n \in Nat : base' = [base EXCEPT ![s] = n]
  BY DrainFacts DEF CheckDegraded
<1>4. UNCHANGED <<pending, qDegraded, shutdown, drain, walMu, wal, synced, mem, degraded, deferred, events>>
      /\ st[s] = "start"
  BY DEF CheckDegraded, queueVars, fileVars
<1>5. \A k \in 1..Len(mem) : mem[k] # s
  BY <1>4 DEF GroupInv, Frames
<1>6. /\ st'[s] = a /\ base'[s] = n /\ \A c \in Caller \ {s} : st'[c] = st[c] /\ base'[c] = base[c]
  BY <1>1, <1>2, <1>3
<1>7. TypeOK'
  BY <1>1, <1>2, <1>3, <1>4 DEF GroupInv, TypeOK
<1>8. Kinds'
  BY <1>1, <1>4, <1>6 DEF GroupInv, Kinds, Caller
<1>9. Queued'
  BY <1>4, <1>6, QueuedKept
<1>10. Progress'
  BY <1>4 DEF GroupInv, Progress
<1>11. Exclusion'
  BY <1>1, <1>4, <1>6 DEF GroupInv, Exclusion, Caller
<1>12. Frames'
  BY <1>4, <1>6, DrainFacts, FramesKept
<1>13. Delivered' /\ Placed'
  BY <1>4, DeliveredKept
<1>14. CasOnUnchanged'
  BY <1>4, <1>5, <1>6, DrainFacts DEF GroupInv, CasOnUnchanged
<1> QED BY <1>7, <1>8, <1>9, <1>10, <1>11, <1>12, <1>13, <1>14 DEF GroupInv

\* A submission joins the queue.
LEMMA EnqueueInv ==
  ASSUME GroupInv, NEW s \in Sub, Enqueue(s)
  PROVE  GroupInv'
<1>1. st \in [Caller -> {"start", "checked", "pushed", "waiting", "locked", "written", "ok", "err", "unsure"}]
      /\ pending \in Seq(Sub) /\ s \in Caller /\ s \notin Direct
  BY GroupCommitAssumption DEF GroupInv, TypeOK, Caller, Sub
<1>2. /\ st' = [st EXCEPT ![s] = "pushed"] /\ pending' = Append(pending, s) /\ st[s] = "checked"
      /\ UNCHANGED <<base, qDegraded, shutdown, drain, walMu, wal, synced, mem, degraded, deferred, events>>
  BY DEF Enqueue, fileVars
<1>3. st'[s] = "pushed" /\ \A c \in Caller \ {s} : st'[c] = st[c]
  BY <1>1, <1>2
<1>4. pending' \in Seq(Sub) /\ Len(pending') = Len(pending) + 1 /\ pending'[Len(pending) + 1] = s
      /\ \A i \in 1..Len(pending) : pending'[i] = pending[i]
  BY <1>1, <1>2, Appended
<1>5. (\A i \in 1..Len(pending) : pending[i] # s) /\ \A i \in 1..Len(drain.group) : drain.group[i] # s
  BY <1>2 DEF GroupInv, Queued
<1>6. TypeOK'
  BY <1>1, <1>2, <1>4 DEF GroupInv, TypeOK
<1>7. Kinds'
  BY <1>1, <1>2, <1>3 DEF GroupInv, Kinds, Caller
<1>8. Queued'
  <2>1. Injective(pending')
    BY <1>1, <1>2, <1>5, AppendedInjective DEF GroupInv, Queued
  <2>2. \A i \in 1..Len(pending') : i \in 1..Len(pending) \/ i = Len(pending) + 1
    BY <1>4, DrainFacts
  <2>3. \A i \in 1..Len(pending) : st'[pending[i]] \in {"pushed", "waiting"}
    BY <1>3, <1>5, DrainFacts DEF GroupInv, Queued, Caller
  <2>4. \A i \in 1..Len(drain.group) : st'[drain.group[i]] \in {"pushed", "waiting"}
    BY <1>3, <1>5, DrainFacts DEF GroupInv, Queued, Caller
  <2>5. \A i \in 1..Len(pending'), j \in 1..Len(drain.group) : pending'[i] # drain.group[j]
    BY <1>4, <1>5, <2>2 DEF GroupInv, Queued
  <2>6. \A i \in 1..Len(pending') : st'[pending'[i]] \in {"pushed", "waiting"}
    BY <1>3, <1>4, <2>2, <2>3
  <2>7. Injective(drain.group)
    BY DEF GroupInv, Queued
  <2> QED BY <1>2, <2>1, <2>4, <2>5, <2>6, <2>7 DEF Queued, Injective
<1>9. Progress'
  BY <1>2 DEF GroupInv, Progress
<1>10. Exclusion'
  BY <1>1, <1>2, <1>3 DEF GroupInv, Exclusion, Caller
<1>11. Frames'
  BY <1>2, <1>3, DrainFacts, FramesKept
<1>12. Delivered' /\ Placed'
  BY <1>2, DeliveredKept
<1>13. CasOnUnchanged'
  BY <1>2 DEF GroupInv, CasOnUnchanged
<1> QED BY <1>6, <1>7, <1>8, <1>9, <1>10, <1>11, <1>12, <1>13 DEF GroupInv

\* The thread is woken, or was not asleep.
LEMMA Woken ==
  ASSUME GroupInv, drain' = [drain EXCEPT !.pc = IF @ = "asleep" THEN "checking" ELSE @]
  PROVE  /\ drain' \in Drain /\ drain'.group = drain.group /\ drain'.run = drain.run
         /\ drain'.results = drain.results /\ drain'.pre = drain.pre
         /\ drain'.pc = drain.pc \/ (drain.pc = "asleep" /\ drain'.pc = "checking")
<1>1. PICK d \in Drain : d = drain
  BY DrainFacts
<1>2. PICK p \in {d.pc, "checking"} : /\ drain' = [d EXCEPT !.pc = p]
                                      /\ p = d.pc \/ (d.pc = "asleep" /\ p = "checking")
  BY <1>1
<1>3. [d EXCEPT !.pc = p] \in Drain
  BY <1>2 DEF Drain, Pc
<1>4. /\ drain'.group = d.group /\ drain'.run = d.run /\ drain'.results = d.results
      /\ drain'.pre = d.pre /\ drain'.pc = p
  BY <1>2 DEF Drain
<1> QED BY <1>1, <1>2, <1>3, <1>4

\* A submitter has notified the thread.
LEMMA NotifyInv ==
  ASSUME GroupInv, NEW s \in Sub, Notify(s)
  PROVE  GroupInv'
<1>1. st \in [Caller -> {"start", "checked", "pushed", "waiting", "locked", "written", "ok", "err", "unsure"}]
      /\ s \in Caller /\ s \notin Direct
  BY GroupCommitAssumption DEF GroupInv, TypeOK, Caller, Sub
<1>2. /\ st' = [st EXCEPT ![s] = "waiting"] /\ st[s] = "pushed"
      /\ drain' = [drain EXCEPT !.pc = IF @ = "asleep" THEN "checking" ELSE @]
      /\ UNCHANGED <<base, pending, qDegraded, shutdown, walMu, wal, synced, mem, degraded, deferred, events>>
  BY DEF Notify, queueVars, fileVars
<1>3. st'[s] = "waiting" /\ \A c \in Caller \ {s} : st'[c] = st[c]
  BY <1>1, <1>2
<1>4. /\ drain' \in Drain /\ drain'.group = drain.group /\ drain'.run = drain.run
      /\ drain'.results = drain.results /\ drain'.pre = drain.pre
      /\ drain'.pc = drain.pc \/ (drain.pc = "asleep" /\ drain'.pc = "checking")
  BY <1>2, Woken
<1>5. TypeOK'
  BY <1>1, <1>2, <1>4 DEF GroupInv, TypeOK, Drain
<1>6. Kinds'
  BY <1>1, <1>3, <1>4 DEF GroupInv, Kinds, Caller
<1>7. Queued'
  BY <1>2, <1>3, <1>4, QueuedKept
<1>8. Progress'
  BY <1>4 DEF GroupInv, Progress
<1>9. Exclusion'
  BY <1>1, <1>2, <1>3, <1>4 DEF GroupInv, Exclusion, Caller
<1>10. Frames'
  BY <1>2, <1>3, <1>4, DrainFacts, FramesKept DEF Open, Ended
<1>11. Delivered' /\ Placed'
  BY <1>2, <1>4, DeliveredKept
<1>12. CasOnUnchanged'
  BY <1>2 DEF GroupInv, CasOnUnchanged
<1> QED BY <1>5, <1>6, <1>7, <1>8, <1>9, <1>10, <1>11, <1>12 DEF GroupInv

\* The last handle is dropped.
LEMMA SignalShutdownInv ==
  ASSUME GroupInv, SignalShutdown
  PROVE  GroupInv'
<1>1. /\ shutdown' = TRUE
      /\ drain' = [drain EXCEPT !.pc = IF @ = "asleep" THEN "checking" ELSE @]
      /\ UNCHANGED <<st, base, pending, qDegraded, walMu, wal, synced, mem, degraded, deferred, events>>
  BY DEF SignalShutdown, fileVars
<1>2. /\ drain' \in Drain /\ drain'.group = drain.group /\ drain'.run = drain.run
      /\ drain'.results = drain.results /\ drain'.pre = drain.pre
      /\ drain'.pc = drain.pc \/ (drain.pc = "asleep" /\ drain'.pc = "checking")
  BY <1>1, Woken
<1>3. TypeOK'
  BY <1>1, <1>2 DEF GroupInv, TypeOK, Drain
<1>4. Kinds' /\ Progress' /\ Exclusion' /\ CasOnUnchanged'
  BY <1>1, <1>2 DEF GroupInv, Kinds, Progress, Exclusion, CasOnUnchanged
<1>5. Queued'
  BY <1>1, <1>2, QueuedKept
<1>6. Frames'
  BY <1>1, <1>2, DrainFacts, FramesKept DEF Open, Ended
<1>7. Delivered' /\ Placed'
  BY <1>1, <1>2, DeliveredKept
<1> QED BY <1>3, <1>4, <1>5, <1>6, <1>7 DEF GroupInv

\* A direct writer takes wal_mu.
LEMMA DirectLockInv ==
  ASSUME GroupInv, NEW d \in Direct, DirectLock(d)
  PROVE  GroupInv'
<1>1. st \in [Caller -> {"start", "checked", "pushed", "waiting", "locked", "written", "ok", "err", "unsure"}]
      /\ d \in Caller /\ d \notin Sub /\ d # "drain" /\ d # Nobody
  BY GroupCommitAssumption DEF GroupInv, TypeOK, Caller, Sub
<1>2. /\ st[d] = "start" /\ walMu = Nobody /\ st' = [st EXCEPT ![d] = "locked"] /\ walMu' = d
      /\ UNCHANGED <<base, pending, qDegraded, shutdown, drain, wal, synced, mem, degraded, deferred, events>>
  BY DEF DirectLock, queueVars, fileVars
<1>3. st'[d] = "locked" /\ \A c \in Caller \ {d} : st'[c] = st[c]
  BY <1>1, <1>2
<1>4. TypeOK'
  BY <1>1, <1>2 DEF GroupInv, TypeOK
<1>5. Kinds'
  BY <1>1, <1>2, <1>3 DEF GroupInv, Kinds, Caller
<1>6. Queued'
  BY <1>2, <1>3, QueuedKept
<1>7. Progress'
  BY <1>2 DEF GroupInv, Progress
<1>8. Exclusion'
  <2>1. \A e \in Direct : e \in Caller /\ e # Nobody
    BY GroupCommitAssumption DEF Caller
  <2>2. "drain" # Nobody
    BY GroupCommitAssumption
  <2> QED BY <1>1, <1>2, <1>3, <2>1, <2>2 DEF GroupInv, Exclusion
<1>9. Frames'
  BY <1>2, <1>3, DrainFacts, FramesKept
<1>10. Delivered' /\ Placed'
  BY <1>2, DeliveredKept
<1>11. CasOnUnchanged'
  BY <1>2 DEF GroupInv, CasOnUnchanged
<1> QED BY <1>4, <1>5, <1>6, <1>7, <1>8, <1>9, <1>10, <1>11 DEF GroupInv

\* Nothing is undelivered while the drain thread does not have wal_mu and the handle is not
\* degraded.
LEMMA NotHeld ==
  ASSUME GroupInv, walMu # "drain", ~degraded
  PROVE  /\ drain.pc \notin {"locked", "applying", "applied", "synced", "flushed", "failed", "degraded",
                             "failing", "gaveUp"}
         /\ deferred = <<>> /\ Len(events) = Len(mem)
BY DEF GroupInv, Exclusion, Delivered

\* The WAL has one more frame, of a direct writer that is past its own.
LEMMA DirectFrame ==
  ASSUME GroupInv, NEW d \in Direct, walMu = d, st[d] = "locked", ~degraded,
         NEW a \in {"written", "unsure"}, st' = [st EXCEPT ![d] = a], wal' = Append(wal, d),
         synced' \in Nat, synced <= synced', a = "written" => synced' = Len(wal) + 1,
         UNCHANGED drain, mem' = mem \/ (mem' = Append(mem, d) /\ a = "written")
  PROVE  Frames'
<1>1. st \in [Caller -> {"start", "checked", "pushed", "waiting", "locked", "written", "ok", "err", "unsure"}]
      /\ wal \in Seq(Caller) /\ mem \in Seq(Caller) /\ d \in Caller /\ d # "drain"
  BY GroupCommitAssumption DEF GroupInv, TypeOK, Caller, Sub
<1>2. st'[d] = a /\ \A c \in Caller \ {d} : st'[c] = st[c]
  BY <1>1
<1>3. wal' \in Seq(Caller) /\ Len(wal') = Len(wal) + 1 /\ wal'[Len(wal) + 1] = d
      /\ \A i \in 1..Len(wal) : wal'[i] = wal[i]
  BY <1>1, Appended
<1>4. drain.pc \notin {"locked", "applying", "applied", "synced", "flushed", "failed", "degraded", "failing"}
  BY <1>1, NotHeld
<1>5. \A k \in 1..Len(wal) : wal[k] # d
  BY FrameOwner
<1>6. /\ \A k \in 1..Len(wal') : k \in 1..Len(wal) \/ k = Len(wal) + 1
      /\ \A k \in 1..Len(wal) : k \in 1..Len(wal')
      /\ \A k \in 1..synced : k \in 1..synced' /\ k \in 1..Len(wal)
      /\ a = "written" => Len(wal) + 1 \in 1..synced'
  BY <1>3, DrainFacts
<1>7. Injective(wal')
  BY <1>1, <1>5, AppendedInjective DEF GroupInv, Frames
<1>8. \A k \in 1..Len(wal) : OfGroup(k)' <=> OfGroup(k)
  BY <1>3 DEF OfGroup
<1>9. \A k \in 1..Len(wal) : st'[wal[k]] = st[wal[k]]
  BY <1>2, <1>5, DrainFacts
<1>10. \A k \in 1..Len(wal') : st'[wal'[k]] \in {"ok", "written", "unsure"} \/ OfGroup(k)'
  BY <1>2, <1>3, <1>6, <1>8, <1>9 DEF GroupInv, Frames
<1>11. \A c \in Caller : st'[c] \in {"ok", "written"} => \E k \in 1..synced' : wal'[k] = c
  <2> SUFFICES ASSUME NEW c \in Caller, st'[c] \in {"ok", "written"}
               PROVE  \E k \in 1..synced' : wal'[k] = c
    OBVIOUS
  <2>1. CASE c = d
    BY <1>2, <1>3, <1>6, <2>1
  <2>2. CASE c # d
    <3>1. PICK k \in 1..synced : wal[k] = c
      BY <1>2, <2>2 DEF GroupInv, Frames
    <3> QED BY <1>3, <1>6, <3>1
  <2> QED BY <2>1, <2>2
<1>12. drain.pc \in {"synced", "flushed", "unlocked"} => \A i \in 1..Len(drain.results) :
         drain.results[i] = "ok" => \E k \in 1..synced' : wal'[k] = drain.group[i]
  <2> SUFFICES ASSUME drain.pc \in {"synced", "flushed", "unlocked"},
                      NEW i \in 1..Len(drain.results), drain.results[i] = "ok"
               PROVE  \E k \in 1..synced' : wal'[k] = drain.group[i]
    OBVIOUS
  <2>1. PICK k \in 1..synced : wal[k] = drain.group[i]
    BY DEF GroupInv, Frames
  <2> QED BY <1>3, <1>6, <2>1
<1>13. \A k \in 1..Len(mem') : st'[mem'[k]] \notin {"start", "checked", "locked"}
  <2>1. \A k \in 1..Len(mem) : mem[k] \in Caller /\ st'[mem[k]] \notin {"start", "checked", "locked"}
    BY <1>2, DrainFacts DEF GroupInv, Frames
  <2>2. CASE mem' = mem
    BY <2>1, <2>2
  <2>3. CASE mem' = Append(mem, d)
    <3>1. Len(mem') = Len(mem) + 1 /\ mem'[Len(mem) + 1] = d /\ \A k \in 1..Len(mem) : mem'[k] = mem[k]
      BY <1>1, <2>3, Appended
    <3>2. \A k \in 1..Len(mem') : k \in 1..Len(mem) \/ k = Len(mem) + 1
      BY <3>1, DrainFacts
    <3> QED BY <1>2, <2>1, <3>1, <3>2
  <2> QED BY <2>2, <2>3
<1> QED BY <1>4, <1>7, <1>10, <1>11, <1>12, <1>13 DEF Frames, Injective

\* A direct write: frame, fsync, apply and event.
LEMMA DirectWriteInv ==
  ASSUME GroupInv, NEW d \in Direct, DirectWrite(d)
  PROVE  GroupInv'
<1>1. st \in [Caller -> {"start", "checked", "pushed", "waiting", "locked", "written", "ok", "err", "unsure"}]
      /\ wal \in Seq(Caller) /\ mem \in Seq(Caller) /\ events \in Seq(Caller) /\ d \in Caller /\ d \notin Sub
      /\ d \notin Cas /\ d # "drain" /\ d # Nobody
  BY GroupCommitAssumption DEF GroupInv, TypeOK, Caller, Sub
<1>2. /\ st[d] = "locked" /\ ~degraded /\ st' = [st EXCEPT ![d] = "written"]
      /\ wal' = Append(wal, d) /\ synced' = Len(wal) + 1
      /\ mem' = Append(mem, d) /\ events' = Append(events, d)
      /\ UNCHANGED <<base, pending, qDegraded, shutdown, drain, walMu, degraded, deferred>>
  BY DEF DirectWrite, queueVars
<1>3. st'[d] = "written" /\ \A c \in Caller \ {d} : st'[c] = st[c]
  BY <1>1, <1>2
<1>4. wal' \in Seq(Caller) /\ Len(wal') = Len(wal) + 1 /\ wal'[Len(wal) + 1] = d
      /\ \A i \in 1..Len(wal) : wal'[i] = wal[i]
  BY <1>1, <1>2, Appended
<1>5. events' \in Seq(Caller) /\ Len(events') = Len(events) + 1 /\ events'[Len(events) + 1] = d
      /\ \A i \in 1..Len(events) : events'[i] = events[i]
  BY <1>1, <1>2, Appended
<1>6. mem' \in Seq(Caller) /\ Len(mem') = Len(mem) + 1 /\ mem'[Len(mem) + 1] = d
      /\ \A i \in 1..Len(mem) : mem'[i] = mem[i]
  BY <1>1, <1>2, Appended
<1>7. walMu = d
  BY <1>2 DEF GroupInv, Exclusion
<1>8. /\ drain.pc \notin {"locked", "applying", "applied", "synced", "flushed", "failed", "degraded",
                          "failing", "gaveUp"}
      /\ deferred = <<>> /\ Len(events) = Len(mem)
  BY <1>1, <1>2, <1>7, NotHeld
<1>9. \A k \in 1..Len(mem') : k \in 1..Len(mem) \/ k = Len(mem) + 1
  BY <1>6, DrainFacts
<1>10. TypeOK'
  <2>1. synced' \in 0..Len(wal')
    BY <1>2, <1>4, DrainFacts
  <2> QED BY <1>1, <1>2, <1>4, <1>5, <1>6, <2>1 DEF GroupInv, TypeOK
<1>11. Kinds'
  BY <1>1, <1>2, <1>3 DEF GroupInv, Kinds, Caller
<1>12. Queued'
  BY <1>2, <1>3, QueuedKept
<1>13. Progress'
  BY <1>2 DEF GroupInv, Progress
<1>14. Exclusion'
  BY <1>2, <1>3, <1>7 DEF GroupInv, Exclusion, Caller
<1>15. Frames'
  <2>1. synced' \in Nat /\ synced <= synced'
    BY <1>2, DrainFacts
  <2> QED BY <1>2, <1>7, <2>1, DirectFrame
<1>16. Delivered' /\ Placed'
  <2>1. Len(events') = Len(mem') /\ Len(events') <= Len(mem')
    BY <1>5, <1>6, <1>8, DrainFacts
  <2>2. \A k \in 1..Len(mem) : events[k] = mem[k]
    BY <1>8 DEF GroupInv, Delivered
  <2>3. \A k \in 1..Len(events') : events'[k] = mem'[k]
    BY <1>5, <1>6, <1>8, <1>9, <2>1, <2>2
  <2>4. \A i \in 1..Len(mem') : \E l \in 1..synced' : Lies(i, l)'
    <3>1. /\ synced \in Nat /\ synced <= Len(wal)
          /\ \A i \in 1..Len(mem) : \E l \in 1..synced : Lies(i, l)
      BY <1>8, DrainFacts DEF GroupInv, Placed
    <3>2. \A i \in 1..Len(mem') : \E l \in 1..Len(wal) + 1 : Lies(i, l)'
      BY <1>1, <1>2, <3>1, LiesAppended
    <3> QED BY <1>2, <3>2
  <2> QED BY <1>2, <1>8, <2>1, <2>3, <2>4 DEF Delivered, Placed
<1>17. CasOnUnchanged'
  BY <1>1, <1>2, <1>6, <1>9 DEF GroupInv, CasOnUnchanged
<1> QED BY <1>10, <1>11, <1>12, <1>13, <1>14, <1>15, <1>16, <1>17 DEF GroupInv

\* A direct write whose fsync fails: its frame stays, and is not applied.
LEMMA DirectSyncFailsInv ==
  ASSUME GroupInv, NEW d \in Direct, DirectSyncFails(d)
  PROVE  GroupInv'
<1>1. st \in [Caller -> {"start", "checked", "pushed", "waiting", "locked", "written", "ok", "err", "unsure"}]
      /\ wal \in Seq(Caller) /\ d \in Caller /\ d \notin Sub /\ d # "drain" /\ d # Nobody
  BY GroupCommitAssumption DEF GroupInv, TypeOK, Caller, Sub
<1>2. /\ st[d] = "locked" /\ ~degraded /\ st' = [st EXCEPT ![d] = "unsure"]
      /\ wal' = Append(wal, d) /\ walMu' = Nobody
      /\ UNCHANGED <<base, pending, qDegraded, shutdown, drain, synced, mem, degraded, deferred, events>>
  BY DEF DirectSyncFails, queueVars
<1>3. st'[d] = "unsure" /\ \A c \in Caller \ {d} : st'[c] = st[c]
  BY <1>1, <1>2
<1>4. wal' \in Seq(Caller) /\ Len(wal') = Len(wal) + 1 /\ \A i \in 1..Len(wal) : wal'[i] = wal[i]
  BY <1>1, <1>2, Appended
<1>5. walMu = d
  BY <1>2 DEF GroupInv, Exclusion
<1>6. drain.pc \notin {"locked", "applying", "applied", "synced", "flushed", "failed", "degraded"}
  BY <1>1, <1>2, <1>5, NotHeld
<1>7. TypeOK'
  <2>1. synced' \in 0..Len(wal')
    BY <1>2, <1>4, DrainFacts
  <2> QED BY <1>1, <1>2, <1>4, <2>1 DEF GroupInv, TypeOK
<1>8. Kinds'
  BY <1>1, <1>2, <1>3 DEF GroupInv, Kinds, Caller
<1>9. Queued'
  BY <1>2, <1>3, QueuedKept
<1>10. Progress'
  BY <1>2 DEF GroupInv, Progress
<1>11. Exclusion'
  <2>1. \A e \in Direct : e \in Caller
    BY DEF Caller
  <2> QED BY <1>1, <1>2, <1>3, <1>5, <2>1, MuFacts DEF GroupInv, Exclusion
<1>12. Frames'
  <2>1. synced' \in Nat /\ synced <= synced'
    BY <1>2, DrainFacts
  <2> QED BY <1>2, <1>5, <2>1, DirectFrame
<1>13. Delivered'
  BY <1>2 DEF GroupInv, Delivered
<1>14. Placed'
  <2>1. \A i \in 1..Len(events) : \E l \in 1..synced : Lies(i, l)'
    <3> SUFFICES ASSUME NEW i \in 1..Len(events) PROVE \E l \in 1..synced : Lies(i, l)'
      OBVIOUS
    <3>1. PICK l \in 1..synced : Lies(i, l)
      BY DEF GroupInv, Placed
    <3>2. i \in Nat /\ synced \in Nat /\ \A k \in 1..synced : wal'[k] = wal[k]
      BY <1>4, DrainFacts
    <3>3. Lies(i, l)'
      BY <1>2, <3>1, <3>2, LiesKept
    <3> QED BY <3>3
  <2> QED BY <1>2, <1>6, <2>1 DEF Placed
<1>15. CasOnUnchanged'
  BY <1>2 DEF GroupInv, CasOnUnchanged
<1> QED BY <1>7, <1>8, <1>9, <1>10, <1>11, <1>12, <1>13, <1>14, <1>15 DEF GroupInv

\* A direct writer returns, with its write or refused, and wal_mu is free.
LEMMA DirectReturnInv ==
  ASSUME GroupInv, NEW d \in Direct, DirectUnlock(d) \/ DirectRefused(d)
  PROVE  GroupInv'
<1>1. st \in [Caller -> {"start", "checked", "pushed", "waiting", "locked", "written", "ok", "err", "unsure"}]
      /\ d \in Caller /\ d \notin Sub /\ d # "drain" /\ d # Nobody
  BY GroupCommitAssumption DEF GroupInv, TypeOK, Caller, Sub
<1>2. PICK a \in {"ok", "err"} : /\ st' = [st EXCEPT ![d] = a]
                                 /\ st[d] = IF a = "ok" THEN "written" ELSE "locked"
  BY DEF DirectUnlock, DirectRefused
<1>3. /\ walMu' = Nobody
      /\ UNCHANGED <<base, pending, qDegraded, shutdown, drain, wal, synced, mem, degraded, deferred, events>>
  BY DEF DirectUnlock, DirectRefused, queueVars, fileVars
<1>4. st'[d] = a /\ \A c \in Caller \ {d} : st'[c] = st[c]
  BY <1>1, <1>2
<1>5. walMu = d
  BY <1>2 DEF GroupInv, Exclusion
<1>6. TypeOK'
  BY <1>1, <1>2, <1>3 DEF GroupInv, TypeOK
<1>7. Kinds'
  BY <1>1, <1>3, <1>4 DEF GroupInv, Kinds, Caller
<1>8. Queued'
  BY <1>2, <1>3, <1>4, QueuedKept
<1>9. Progress'
  BY <1>3 DEF GroupInv, Progress
<1>10. Exclusion'
  <2>1. \A e \in Direct : e \in Caller /\ e # Nobody
    BY GroupCommitAssumption DEF Caller
  <2>2. "drain" # Nobody
    BY GroupCommitAssumption
  <2> QED BY <1>1, <1>3, <1>4, <1>5, <2>1, <2>2 DEF GroupInv, Exclusion
<1>11. Frames'
  BY <1>2, <1>3, <1>4, DrainFacts, FramesKept
<1>12. Delivered' /\ Placed'
  BY <1>3, DeliveredKept
<1>13. CasOnUnchanged'
  BY <1>3 DEF GroupInv, CasOnUnchanged
<1> QED BY <1>6, <1>7, <1>8, <1>9, <1>10, <1>11, <1>12, <1>13 DEF GroupInv

\* A step of the thread that moves its pc, and holds or lets go of wal_mu.
LEMMA DrainMoves ==
  ASSUME GroupInv, NEW p \in Pc, drain' = [drain EXCEPT !.pc = p]
  PROVE  /\ drain' \in Drain /\ drain'.pc = p /\ drain'.group = drain.group /\ drain'.run = drain.run
         /\ drain'.results = drain.results /\ drain'.pre = drain.pre
<1>1. PICK d \in Drain : d = drain
  BY DrainFacts
<1>2. [d EXCEPT !.pc = p] \in Drain
  BY DEF Drain
<1>3. /\ drain'.group = d.group /\ drain'.run = d.run /\ drain'.results = d.results
      /\ drain'.pre = d.pre /\ drain'.pc = p
  BY <1>1 DEF Drain
<1> QED BY <1>1, <1>2, <1>3

\* The thread takes wal_mu.
LEMMA LockWalMuInv ==
  ASSUME GroupInv, LockWalMu
  PROVE  GroupInv'
<1>1. /\ drain.pc = "grouped" /\ walMu = Nobody /\ walMu' = "drain"
      /\ drain' = [drain EXCEPT !.pc = "locked"]
      /\ UNCHANGED <<st, base, pending, qDegraded, shutdown, wal, synced, mem, degraded, deferred, events>>
  BY DEF LockWalMu, queueVars, fileVars
<1>2. /\ drain' \in Drain /\ drain'.pc = "locked" /\ drain'.group = drain.group
      /\ drain'.run = drain.run /\ drain'.results = drain.results /\ drain'.pre = drain.pre
  BY <1>1, DrainMoves DEF Pc
<1>3. TypeOK'
  BY <1>1, <1>2 DEF GroupInv, TypeOK, Drain
<1>4. Kinds' /\ Progress' /\ CasOnUnchanged'
  BY <1>1, <1>2 DEF GroupInv, Kinds, Progress, CasOnUnchanged
<1>5. Exclusion'
  BY <1>1, <1>2, MuFacts DEF GroupInv, Exclusion
<1>6. Queued'
  BY <1>1, <1>2, QueuedKept
<1>7. Frames'
  BY <1>1, <1>2, DrainFacts, FramesKept DEF Open, Ended
<1>8. Delivered' /\ Placed'
  BY <1>1, <1>2, DeliveredKept
<1> QED BY <1>3, <1>4, <1>5, <1>6, <1>7, <1>8 DEF GroupInv

\* The thread lets go of wal_mu when the events are out.
LEMMA UnlockWalMuInv ==
  ASSUME GroupInv, UnlockWalMu
  PROVE  GroupInv'
<1>1. /\ drain.pc = "flushed" /\ walMu' = Nobody
      /\ drain' = [drain EXCEPT !.pc = "unlocked"]
      /\ UNCHANGED <<st, base, pending, qDegraded, shutdown, wal, synced, mem, degraded, deferred, events>>
  BY DEF UnlockWalMu, queueVars, fileVars
<1>2. /\ drain' \in Drain /\ drain'.pc = "unlocked" /\ drain'.group = drain.group
      /\ drain'.run = drain.run /\ drain'.results = drain.results /\ drain'.pre = drain.pre
  BY <1>1, DrainMoves DEF Pc
<1>3. TypeOK'
  BY <1>1, <1>2 DEF GroupInv, TypeOK, Drain
<1>4. Kinds' /\ Progress' /\ CasOnUnchanged'
  BY <1>1, <1>2 DEF GroupInv, Kinds, Progress, CasOnUnchanged
<1>5. Exclusion'
  BY <1>1, <1>2, MuFacts DEF GroupInv, Exclusion
<1>6. Queued'
  BY <1>1, <1>2, QueuedKept
<1>7. Frames'
  BY <1>1, <1>2, DrainFacts, FramesKept DEF Open, Ended
<1>8. Delivered' /\ Placed'
  BY <1>1, <1>2, DeliveredKept
<1> QED BY <1>3, <1>4, <1>5, <1>6, <1>7, <1>8 DEF GroupInv

\* The whole group is applied.
LEMMA EndApplyInv ==
  ASSUME GroupInv, EndApply
  PROVE  GroupInv'
<1>1. /\ drain.pc = "applying" /\ drain.run = <<>> /\ Taken = Len(drain.group)
      /\ drain' = [drain EXCEPT !.pc = "applied"]
      /\ UNCHANGED <<st, base, pending, qDegraded, shutdown, walMu, wal, synced, mem, degraded, deferred, events>>
  BY DEF EndApply, queueVars, fileVars
<1>2. /\ drain' \in Drain /\ drain'.pc = "applied" /\ drain'.group = drain.group
      /\ drain'.run = drain.run /\ drain'.results = drain.results /\ drain'.pre = drain.pre
  BY <1>1, DrainMoves DEF Pc
<1>3. TypeOK'
  BY <1>1, <1>2 DEF GroupInv, TypeOK, Drain
<1>4. Kinds' /\ Exclusion' /\ CasOnUnchanged'
  BY <1>1, <1>2 DEF GroupInv, Kinds, Exclusion, CasOnUnchanged
<1>5. Progress'
  <2>1. Len(drain.results) = Len(drain.group)
    BY <1>1, DrainFacts DEF Taken
  <2> QED BY <1>1, <1>2, <2>1 DEF GroupInv, Progress
<1>6. Queued'
  BY <1>1, <1>2, QueuedKept
<1>7. Frames'
  BY <1>1, <1>2, DrainFacts, FramesKept DEF Open, Ended
<1>8. Delivered' /\ Placed'
  <2>1. AnyOk' <=> AnyOk
    BY <1>2 DEF AnyOk
  <2>2. \A h, l : Lies(h, l)' <=> Lies(h, l)
    BY <1>1 DEF Lies
  <2>3. Placed'
    BY <1>1, <1>2, <2>1, <2>2 DEF GroupInv, Placed
  <2>4. Delivered'
    BY <1>1, <1>2 DEF GroupInv, Delivered
  <2> QED BY <2>3, <2>4
<1> QED BY <1>3, <1>4, <1>5, <1>6, <1>7, <1>8 DEF GroupInv

\* The group's fsync.
LEMMA SyncGroupInv ==
  ASSUME GroupInv, SyncGroup
  PROVE  GroupInv'
<1>1. /\ drain.pc = "applied" /\ synced' = IF AnyOk THEN Len(wal) ELSE synced
      /\ drain' = [drain EXCEPT !.pc = "synced"]
      /\ UNCHANGED <<st, base, pending, qDegraded, shutdown, walMu, wal, mem, degraded, deferred, events>>
  BY DEF SyncGroup, queueVars
<1>2. /\ drain' \in Drain /\ drain'.pc = "synced" /\ drain'.group = drain.group
      /\ drain'.run = drain.run /\ drain'.results = drain.results /\ drain'.pre = drain.pre
  BY <1>1, DrainMoves DEF Pc
<1>3. synced' \in Nat /\ synced <= synced' /\ synced' <= Len(wal)
  BY <1>1, DrainFacts
<1>4. TypeOK'
  <2>1. synced' \in 0..Len(wal)
    BY <1>3, DrainFacts
  <2> QED BY <1>1, <1>2, <2>1 DEF GroupInv, TypeOK, Drain
<1>5. Kinds' /\ Exclusion' /\ CasOnUnchanged' /\ Progress'
  <2>1. Kinds' /\ Exclusion' /\ CasOnUnchanged'
    BY <1>1, <1>2 DEF GroupInv, Kinds, Exclusion, CasOnUnchanged
  <2>2. Progress'
    BY <1>1, <1>2 DEF GroupInv, Progress
  <2> QED BY <2>1, <2>2
<1>6. Queued'
  BY <1>1, <1>2, QueuedKept
<1>7. Frames'
  BY <1>1, <1>2, <1>3, DrainFacts, FramesKept DEF Open, Ended
<1>8. Delivered'
  BY <1>1, <1>2 DEF GroupInv, Delivered
<1>9. Placed'
  <2>1. \A l \in 1..synced : l \in 1..synced'
    BY <1>3, DrainFacts
  <2>2. \A h, l : Lies(h, l)' <=> Lies(h, l)
    BY <1>1 DEF Lies
  <2>3. \A h \in 1..Len(events) : \E l \in 1..synced' : Lies(h, l)
    BY <2>1 DEF GroupInv, Placed
  <2>4. \A h \in 1..Len(mem) : \E l \in 1..synced' : Lies(h, l)
    <3>1. CASE AnyOk
      BY <1>1, <3>1 DEF GroupInv, Placed
    <3>2. CASE ~AnyOk
      <4>1. Len(events) = Len(mem)
        BY <1>1, <3>2, DrainFacts DEF GroupInv, Placed, Delivered
      <4> QED BY <2>3, <4>1
    <3> QED BY <3>1, <3>2
  <2> QED BY <1>1, <1>2, <2>2, <2>3, <2>4 DEF Placed
<1> QED BY <1>4, <1>5, <1>6, <1>7, <1>8, <1>9 DEF GroupInv

\* The deferred events go out.
LEMMA FlushInv ==
  ASSUME GroupInv, FlushDeferredEvents
  PROVE  GroupInv'
<1>1. /\ drain.pc = "synced" /\ events' = events \o deferred /\ deferred' = <<>>
      /\ drain' = [drain EXCEPT !.pc = "flushed"]
      /\ UNCHANGED <<st, base, pending, qDegraded, shutdown, walMu, wal, synced, mem, degraded>>
  BY DEF FlushDeferredEvents, queueVars
<1>2. /\ drain' \in Drain /\ drain'.pc = "flushed" /\ drain'.group = drain.group
      /\ drain'.run = drain.run /\ drain'.results = drain.results /\ drain'.pre = drain.pre
  BY <1>1, DrainMoves DEF Pc
<1>3. /\ events' \in Seq(Caller) /\ Len(events') = Len(events) + Len(deferred)
      /\ \A i \in 1..Len(events') : events'[i] = IF i <= Len(events) THEN events[i]
                                                  ELSE deferred[i - Len(events)]
  BY <1>1, ConcatProperties DEF GroupInv, TypeOK
<1>4. TypeOK'
  <2>1. deferred' \in Seq(Caller)
    BY <1>1
  <2> QED BY <1>1, <1>2, <1>3, <2>1 DEF GroupInv, TypeOK, Drain
<1>5. Kinds' /\ Exclusion' /\ CasOnUnchanged' /\ Progress'
  <2>1. Kinds' /\ Exclusion' /\ CasOnUnchanged'
    BY <1>1, <1>2 DEF GroupInv, Kinds, Exclusion, CasOnUnchanged
  <2>2. Progress'
    BY <1>1, <1>2 DEF GroupInv, Progress
  <2> QED BY <2>1, <2>2
<1>6. Queued'
  BY <1>1, <1>2, QueuedKept
<1>7. Frames'
  BY <1>1, <1>2, DrainFacts, FramesKept DEF Open, Ended
<1>8. Delivered' /\ Placed'
  <2>1. /\ Len(events) + Len(deferred) = Len(mem)
        /\ \A k \in 1..Len(deferred) : deferred[k] = mem[Len(events) + k]
        /\ \A k \in 1..Len(events) : events[k] = mem[k]
    BY <1>1 DEF GroupInv, Delivered
  <2>2. Len(events') = Len(mem) /\ Len(events') <= Len(mem)
    BY <1>3, <2>1, DrainFacts
  <2>3. ASSUME NEW k \in 1..Len(events') PROVE events'[k] = mem[k]
    <3>1. CASE k <= Len(events)
      BY <1>3, <2>1, <3>1, DrainFacts
    <3>2. CASE k > Len(events)
      <4>1. k - Len(events) \in 1..Len(deferred) /\ Len(events) + (k - Len(events)) = k
        BY <1>3, <3>2, DrainFacts
      <4>2. deferred[k - Len(events)] = mem[k]
        BY <2>1, <4>1
      <4>3. ~(k <= Len(events))
        BY <3>2, DrainFacts
      <4> QED BY <1>3, <4>2, <4>3
    <3> QED BY <3>1, <3>2, DrainFacts
  <2>4. \A h, l : Lies(h, l)' <=> Lies(h, l)
    BY <1>1 DEF Lies
  <2>5. \A h \in 1..Len(mem) : \E l \in 1..synced : Lies(h, l)
    BY <1>1 DEF GroupInv, Placed
  <2>6. Placed'
    BY <1>1, <1>2, <2>2, <2>4, <2>5 DEF Placed
  <2>7. Delivered'
    BY <1>1, <1>2, <2>2, <2>3 DEF Delivered
  <2> QED BY <2>6, <2>7
<1> QED BY <1>4, <1>5, <1>6, <1>7, <1>8 DEF GroupInv

\* The first callers of the queue become the group.
LEMMA WaitAndDrainInv ==
  ASSUME GroupInv, WaitAndDrain
  PROVE  GroupInv'
<1>1. pending \in Seq(Sub) /\ Len(pending) \in Nat /\ MaxGroup \in Nat
  BY DrainFacts, GroupCommitAssumption DEF GroupInv, TypeOK
<1>2. PICK n \in 0..Len(pending), p \in {"grouped", "done", "asleep"} :
        /\ drain' = [drain EXCEPT !.pc = p, !.group = SubSeq(pending, 1, n)]
        /\ pending' = SubSeq(pending, n + 1, Len(pending))
        /\ p # "grouped" => n = 0
  <2> DEFINE n == IF Len(pending) < MaxGroup THEN Len(pending) ELSE MaxGroup
             p == IF n > 0 THEN "grouped" ELSE IF shutdown THEN "done" ELSE "asleep"
  <2>1. n \in 0..Len(pending) /\ (~(n > 0) => n = 0)
    BY <1>1
  <2>2. p \in {"grouped", "done", "asleep"} /\ (p # "grouped" => n = 0)
    BY <2>1
  <2>3. /\ drain' = [drain EXCEPT !.pc = p, !.group = SubSeq(pending, 1, n)]
        /\ pending' = SubSeq(pending, n + 1, Len(pending))
    BY DEF WaitAndDrain
  <2> HIDE DEF n, p
  <2> QED BY <2>1, <2>2, <2>3
<1>3. /\ drain.pc = "checking"
      /\ UNCHANGED <<st, base, qDegraded, shutdown, walMu, wal, synced, mem, degraded, deferred, events>>
  BY DEF WaitAndDrain, fileVars
<1>4. PICK g \in Seq(Sub) : /\ g = SubSeq(pending, 1, n) /\ Len(g) = n
                            /\ \A i \in 1..n : g[i] = pending[i]
  BY <1>1, PrefixFacts
<1>5. /\ pending' \in Seq(Sub) /\ Len(pending') = Len(pending) - n
      /\ \A i \in 1..Len(pending) - n : pending'[i] = pending[n + i]
  BY <1>1, <1>2, SuffixFacts
<1>6. /\ drain' \in Drain /\ drain'.pc = p /\ drain'.group = g /\ drain'.run = drain.run
      /\ drain'.results = drain.results /\ drain'.pre = drain.pre
  <2>1. PICK d \in Drain : d = drain
    BY DrainFacts
  <2>2. drain' = [d EXCEPT !.pc = p, !.group = g]
    BY <1>2, <1>4, <2>1
  <2>3. [d EXCEPT !.pc = p, !.group = g] \in Drain
    BY DEF Drain, Pc
  <2>4. /\ drain'.pc = p /\ drain'.group = g /\ drain'.run = d.run
        /\ drain'.results = d.results /\ drain'.pre = d.pre
    BY <2>2 DEF Drain
  <2> QED BY <2>1, <2>2, <2>3, <2>4
<1>7. drain.run = <<>> /\ drain.results = <<>>
  BY <1>3 DEF GroupInv, Progress
<1>8. \A i \in 1..Len(pending) - n : n + i \in 1..Len(pending)
  BY <1>1
<1>9. \A i \in 1..n : i \in 1..Len(pending)
  BY <1>1
<1>10. TypeOK'
  BY <1>3, <1>5, <1>6 DEF GroupInv, TypeOK, Drain
<1>11. Kinds' /\ CasOnUnchanged'
  BY <1>3, <1>6 DEF GroupInv, Kinds, CasOnUnchanged
<1>12. Exclusion'
  BY <1>3, <1>6 DEF GroupInv, Exclusion
<1>13. Progress'
  <2>1. p # "grouped" => g = <<>>
    BY <1>2, <1>4, EmptySeq
  <2>2. Len(<<>>) = 0
    OBVIOUS
  <2> QED BY <1>4, <1>6, <1>7, <2>1, <2>2 DEF Progress
<1>14. Queued'
  <2>1. Injective(g)
    BY <1>4, <1>9 DEF Injective, GroupInv, Queued
  <2>2. Injective(pending')
    <3>1. SUFFICES ASSUME NEW i \in 1..Len(pending'), NEW j \in 1..Len(pending'),
                          pending'[i] = pending'[j]
                   PROVE  i = j
      BY DEF Injective
    <3>2. n + i = n + j
      BY <1>5, <1>8, <3>1 DEF Injective, GroupInv, Queued
    <3> QED BY <1>1, <1>5, <3>2
  <2>3. \A i \in 1..Len(pending') : st[pending'[i]] \in {"pushed", "waiting"}
    BY <1>5, <1>8 DEF GroupInv, Queued
  <2>4. \A i \in 1..Len(g) : st[g[i]] \in {"pushed", "waiting"}
    BY <1>4, <1>9 DEF GroupInv, Queued
  <2>5. ASSUME NEW i \in 1..Len(pending'), NEW j \in 1..Len(g) PROVE pending'[i] # g[j]
    <3>1. n + i # j /\ n + i \in 1..Len(pending) /\ j \in 1..Len(pending)
      BY <1>1, <1>4, <1>5
    <3>2. pending[n + i] # pending[j]
      BY <3>1 DEF Injective, GroupInv, Queued
    <3> QED BY <1>4, <1>5, <3>2
  <2> QED BY <1>3, <1>6, <2>1, <2>2, <2>3, <2>4, <2>5 DEF Queued, Injective
<1>15. Frames'
  <2>1. drain.pc \notin Open \cup Ended /\ drain'.pc \notin Open \cup Ended
    BY <1>3, <1>6 DEF Open, Ended
  <2>2. \A k \in 1..Len(wal) : st[wal[k]] \in {"ok", "written", "unsure"}
    BY <2>1 DEF GroupInv, Frames, OfGroup
  <2> QED BY <1>3, <1>6, <2>1, <2>2 DEF GroupInv, Frames, Injective, Open
<1>16. Delivered' /\ Placed'
  BY <1>3, <1>6, DeliveredKept
<1> QED BY <1>10, <1>11, <1>12, <1>13, <1>14, <1>15, <1>16 DEF GroupInv

\* Each caller of the group gets its answer.
LEMMA ToldFacts ==
  ASSUME GroupInv, NEW answer
  PROVE  /\ \A i \in 1..Len(drain.group) : Told(answer)[drain.group[i]] = answer[i]
         /\ \A c \in Caller : (\A i \in 1..Len(drain.group) : drain.group[i] # c) => Told(answer)[c] = st[c]
<1>1. ASSUME NEW i \in 1..Len(drain.group) PROVE Told(answer)[drain.group[i]] = answer[i]
  <2>1. drain.group[i] \in Caller
    BY DrainFacts DEF Caller
  <2>2. \A j \in 1..Len(drain.group) : drain.group[j] = drain.group[i] => j = i
    BY DEF GroupInv, Queued, Injective
  <2>3. (CHOOSE j \in 1..Len(drain.group) : drain.group[j] = drain.group[i]) = i
    BY <2>2
  <2> QED BY <2>1, <2>3 DEF Told
<1>2. ASSUME NEW c \in Caller, \A i \in 1..Len(drain.group) : drain.group[i] # c
      PROVE  Told(answer)[c] = st[c]
  BY <1>2 DEF Told
<1> QED BY <1>1, <1>2

\* A batch of the group has no frame before it is committed, and none if it is not.
LEMMA NoFrameOfRefused ==
  ASSUME GroupInv, NEW i \in 1..Len(drain.group),
         i \in 1..Len(drain.results) => drain.results[i] # "ok"
  PROVE  \A k \in 1..Len(wal) : wal[k] # drain.group[i]
<1> SUFFICES ASSUME NEW k \in 1..Len(wal), wal[k] = drain.group[i] PROVE FALSE
  OBVIOUS
<1>1. st[wal[k]] \in {"pushed", "waiting"}
  BY DEF GroupInv, Queued
<1>2. OfGroup(k)
  BY <1>1 DEF GroupInv, Frames
<1>3. PICK j \in 1..Len(drain.results) : drain.results[j] = "ok" /\ drain.group[j] = wal[k]
  BY <1>2 DEF OfGroup
<1>4. j \in 1..Len(drain.group)
  BY FrameOwner
<1>5. j = i
  BY <1>3, <1>4 DEF GroupInv, Queued, Injective
<1> QED BY <1>3, <1>5

\* A group that is not begun has no frames.
LEMMA NoFrameYet ==
  ASSUME GroupInv, drain.pc = "locked"
  PROVE  \A i \in 1..Len(drain.group), k \in 1..Len(wal) : wal[k] # drain.group[i]
<1>1. drain.results = <<>> /\ Len(<<>>) = 0
  BY DEF GroupInv, Progress
<1>2. \A i : i \notin 1..Len(drain.results)
  BY <1>1
<1> QED BY <1>2, NoFrameOfRefused

\* The thread without a group.
LEMMA IdleFacts ==
  ASSUME NEW p \in Pc
  PROVE  /\ Idle(p) \in Drain /\ Idle(p).pc = p /\ Idle(p).group = <<>> /\ Idle(p).run = <<>>
         /\ Idle(p).results = <<>> /\ Idle(p).pre = 0
<1>1. <<>> \in Seq(Sub) /\ <<>> \in Seq({"ok", "err"})
  OBVIOUS
<1> QED BY <1>1 DEF Idle, Drain

\* A group is answered, and the thread has no group: each is told "ok" whose frame is durable,
\* "unsure" whose frame was left, and "err" that has none.
LEMMA AnswerInv ==
  ASSUME GroupInv, NEW answer, NEW p \in {"checking", "gaveUp"},
         st' = Told(answer), drain' = Idle(p), walMu' = IF walMu = "drain" THEN Nobody ELSE walMu,
         UNCHANGED <<base, pending, shutdown, wal, synced, mem, events>>,
         {qDegraded', degraded'} \subseteq BOOLEAN, deferred' = <<>>,
         drain.pc \notin {"applying", "applied", "synced"},
         \A i \in 1..Len(drain.group) :
           \/ answer[i] = "ok" /\ drain.pc = "unlocked" /\ drain.results[i] = "ok"
                               /\ i \in 1..Len(drain.results)
           \/ answer[i] = "unsure" /\ \E k \in 1..Len(wal) : wal[k] = drain.group[i]
           \/ answer[i] = "err" /\ \A k \in 1..Len(wal) : wal[k] # drain.group[i],
         p = "gaveUp" => degraded', p = "checking" => drain.pc \notin Ended \cup {"gaveUp"},
         degraded => degraded'
  PROVE  GroupInv'
<1>1. st \in [Caller -> {"start", "checked", "pushed", "waiting", "locked", "written", "ok", "err", "unsure"}]
      /\ \A i \in 1..Len(drain.group) : drain.group[i] \in Sub /\ drain.group[i] \in Caller
                                         /\ drain.group[i] \notin Direct
  BY DrainFacts, GroupCommitAssumption DEF GroupInv, TypeOK, Caller, Sub
<1>2. p \in Pc
  BY DEF Pc
<1>3. /\ drain' \in Drain /\ drain'.pc = p /\ drain'.group = <<>> /\ drain'.run = <<>>
      /\ drain'.results = <<>> /\ drain'.pre = 0
  BY <1>2, IdleFacts
<1>4. /\ \A i \in 1..Len(drain.group) : st'[drain.group[i]] = answer[i]
      /\ \A c \in Caller : (\A i \in 1..Len(drain.group) : drain.group[i] # c) => st'[c] = st[c]
  BY ToldFacts
<1>5. \A i \in 1..Len(drain.group) : st[drain.group[i]] \in {"pushed", "waiting"}
  BY DEF GroupInv, Queued
<1>6. \A c \in Caller : st'[c] = st[c] \/ /\ st[c] \in {"pushed", "waiting"} /\ c \in Sub /\ c \notin Direct
                                          /\ st'[c] \in {"ok", "err", "unsure"}
  BY <1>1, <1>4, <1>5
<1>7. Len(<<>>) = 0
  OBVIOUS
<1>8. \A h, l : Lies(h, l)' <=> Lies(h, l)
  BY DEF Lies
<1>9. TypeOK'
  <2>1. st' \in [Caller -> {"start", "checked", "pushed", "waiting", "locked", "written", "ok", "err", "unsure"}]
    <3>1. \A c \in Caller : st'[c] \in {"start", "checked", "pushed", "waiting", "locked", "written", "ok", "err", "unsure"}
      BY <1>1, <1>6
    <3>2. st' = [c \in Caller |-> st'[c]]
      BY DEF Told
    <3> QED BY <3>1, <3>2
  <2>2. walMu' \in Caller \cup {"drain", Nobody}
    BY DEF GroupInv, TypeOK
  <2>3. deferred' \in Seq(Caller)
    OBVIOUS
  <2>4. {qDegraded', shutdown', degraded'} \subseteq BOOLEAN
    BY DEF GroupInv, TypeOK
  <2>5. drain'.group \in Seq(Sub) /\ drain'.run \in Seq(Sub) /\ drain'.results \in Seq({"ok", "err"})
        /\ drain'.pre \in Nat
    BY <1>3 DEF Drain
  <2> QED BY <2>1, <2>2, <2>3, <2>4, <2>5 DEF GroupInv, TypeOK
<1>10. Kinds'
  BY <1>3, <1>6 DEF GroupInv, Kinds, Caller
<1>11. Exclusion'
  <2>1. \A d \in Direct : st'[d] = st[d]
    BY <1>6 DEF Caller
  <2> QED BY <1>3, <2>1, MuFacts DEF GroupInv, Exclusion
<1>12. Progress'
  BY <1>3, <1>7 DEF Progress
<1>13. Queued'
  <2>1. \A i \in 1..Len(pending) : pending[i] \in Caller /\ st'[pending[i]] = st[pending[i]]
    BY <1>4, DrainFacts DEF GroupInv, Queued, Caller
  <2> QED BY <1>3, <1>7, <2>1 DEF GroupInv, Queued, Injective
<1>14. Frames'
  <2>1. \A k \in 1..Len(wal) : st'[wal[k]] \in {"ok", "written", "unsure"}
    <3> SUFFICES ASSUME NEW k \in 1..Len(wal) PROVE st'[wal[k]] \in {"ok", "written", "unsure"}
      OBVIOUS
    <3>1. CASE st[wal[k]] \in {"ok", "written", "unsure"}
      BY <1>6, <3>1, DrainFacts
    <3>2. CASE OfGroup(k)
      <4>1. PICK i \in 1..Len(drain.results) : drain.results[i] = "ok" /\ drain.group[i] = wal[k]
        BY <3>2 DEF OfGroup
      <4>2. i \in 1..Len(drain.group)
        BY FrameOwner
      <4>3. answer[i] \in {"ok", "unsure"}
        BY <4>1, <4>2
      <4> QED BY <1>4, <4>1, <4>2, <4>3
    <3> QED BY <3>1, <3>2 DEF GroupInv, Frames
  <2>2. ASSUME NEW c \in Caller, st'[c] \in {"ok", "written"}
        PROVE  \E k \in 1..synced : wal[k] = c
    <3>1. CASE \A i \in 1..Len(drain.group) : drain.group[i] # c
      BY <1>4, <2>2, <3>1 DEF GroupInv, Frames
    <3>2. ASSUME NEW i \in 1..Len(drain.group), drain.group[i] = c
          PROVE  \E k \in 1..synced : wal[k] = c
      <4>1. answer[i] \notin {"err", "unsure"}
        BY <1>4, <2>2, <3>2
      <4>2. drain.pc = "unlocked" /\ drain.results[i] = "ok" /\ i \in 1..Len(drain.results)
        BY <4>1
      <4> QED BY <3>2, <4>2 DEF GroupInv, Frames
    <3> QED BY <3>1, <3>2
  <2>3. drain'.pc \notin {"applying", "applied", "synced", "flushed", "unlocked"}
    BY <1>3
  <2>4. \A k \in 1..Len(mem) : st'[mem[k]] \notin {"start", "checked", "locked"}
    BY <1>6, DrainFacts DEF GroupInv, Frames
  <2> QED BY <2>1, <2>2, <2>3, <2>4 DEF GroupInv, Frames, Injective
<1>15. Delivered' /\ Placed'
  <2>1. Delivered'
    BY <1>3 DEF GroupInv, Delivered, Ended
  <2>2. Placed'
    BY <1>3, <1>8 DEF GroupInv, Placed
  <2> QED BY <2>1, <2>2
<1>16. CasOnUnchanged'
  BY DEF GroupInv, CasOnUnchanged
<1> QED BY <1>9, <1>10, <1>11, <1>12, <1>13, <1>14, <1>15, <1>16 DEF GroupInv

\* The four ways in which a group is answered.
LEMMA AnswersInv ==
  ASSUME GroupInv, GroupRefused \/ RefreshFails \/ Answer \/ AnswerFailed
  PROVE  GroupInv'
<1>1. \A i \in 1..Len(drain.group) : AllErr[i] = "err"
  BY DEF AllErr
<1>2. {qDegraded, degraded} \subseteq BOOLEAN
  BY DEF GroupInv, TypeOK
<1>3. CASE GroupRefused
  <2>1. drain.pc = "locked" /\ walMu = "drain" /\ deferred = <<>>
    BY <1>3 DEF GroupRefused, GroupInv, Exclusion, Delivered
  <2>2. \A i \in 1..Len(drain.group), k \in 1..Len(wal) : wal[k] # drain.group[i]
    BY <2>1, NoFrameYet
  <2> QED BY <1>1, <1>2, <1>3, <2>1, <2>2, AnswerInv DEF GroupRefused, queueVars, fileVars, Ended
<1>4. CASE RefreshFails
  <2>1. drain.pc = "locked" /\ walMu = "drain"
    BY <1>4 DEF RefreshFails, GroupInv, Exclusion
  <2>2. \A i \in 1..Len(drain.group), k \in 1..Len(wal) : wal[k] # drain.group[i]
    BY <2>1, NoFrameYet
  <2> QED BY <1>1, <1>2, <1>4, <2>1, <2>2, AnswerInv DEF RefreshFails, Ended
<1>5. CASE Answer
  <2>1. drain.pc = "unlocked" /\ walMu # "drain" /\ deferred = <<>>
    BY <1>5 DEF Answer, GroupInv, Exclusion, Delivered
  <2>2. Len(drain.results) = Len(drain.group)
    BY <2>1 DEF GroupInv, Progress
  <2>3. \A i \in 1..Len(drain.results) : drain.results[i] \in {"ok", "err"}
    BY DrainFacts, SeqFacts
  <2>4. \A i \in 1..Len(drain.results) :
          drain.results[i] # "ok" => \A k \in 1..Len(wal) : wal[k] # drain.group[i]
    BY <2>2, NoFrameOfRefused
  <2> QED BY <1>2, <1>5, <2>1, <2>2, <2>3, <2>4, AnswerInv DEF Answer, queueVars, fileVars, Ended
<1>6. CASE AnswerFailed
  <2>1. drain.pc = "failing" /\ walMu # "drain" /\ deferred = <<>> /\ degraded
    BY <1>6 DEF AnswerFailed, GroupInv, Exclusion, Delivered
  <2>2. \A i \in 1..Len(drain.group) :
          \/ Failure[i] = "unsure" /\ \E k \in 1..Len(wal) : wal[k] = drain.group[i]
          \/ Failure[i] = "err" /\ \A k \in 1..Len(wal) : wal[k] # drain.group[i]
    BY DEF Failure
  <2> QED BY <1>2, <1>6, <2>1, <2>2, AnswerInv DEF AnswerFailed, queueVars, fileVars
<1> QED BY <1>3, <1>4, <1>5, <1>6

\* The thread takes the write guard.
LEMMA BeginApplyInv ==
  ASSUME GroupInv, BeginApply
  PROVE  GroupInv'
<1>1. /\ drain.pc = "locked" /\ drain' = [drain EXCEPT !.pc = "applying", !.pre = Len(wal)]
      /\ UNCHANGED <<st, base, pending, qDegraded, shutdown, walMu, wal, synced, mem, degraded, deferred, events>>
  BY DEF BeginApply, queueVars, fileVars
<1>2. /\ drain' \in Drain /\ drain'.pc = "applying" /\ drain'.group = drain.group
      /\ drain'.run = drain.run /\ drain'.results = drain.results /\ drain'.pre = Len(wal)
  <2>1. PICK d \in Drain, n \in Nat : d = drain /\ n = Len(wal)
    BY DrainFacts
  <2>2. drain' = [d EXCEPT !.pc = "applying", !.pre = n]
    BY <1>1, <2>1
  <2>3. [d EXCEPT !.pc = "applying", !.pre = n] \in Drain
    BY DEF Drain, Pc
  <2>4. /\ drain'.pc = "applying" /\ drain'.group = d.group /\ drain'.run = d.run
        /\ drain'.results = d.results /\ drain'.pre = n
    BY <2>2 DEF Drain
  <2> QED BY <2>1, <2>2, <2>3, <2>4
<1>3. /\ drain.run = <<>> /\ drain.results = <<>> /\ Len(<<>>) = 0
      /\ deferred = <<>> /\ Len(events) = Len(mem)
  BY <1>1 DEF GroupInv, Progress, Delivered
<1>4. TypeOK'
  BY <1>1, <1>2 DEF GroupInv, TypeOK, Drain
<1>5. Kinds' /\ CasOnUnchanged'
  BY <1>1, <1>2 DEF GroupInv, Kinds, CasOnUnchanged
<1>6. Exclusion'
  BY <1>1, <1>2 DEF GroupInv, Exclusion
<1>7. Progress'
  BY <1>1, <1>2 DEF GroupInv, Progress
<1>8. Queued'
  BY <1>1, <1>2, QueuedKept
<1>9. Frames'
  <2>1. \A k \in 1..Len(wal) : st[wal[k]] \in {"ok", "written", "unsure"}
    BY <1>1 DEF GroupInv, Frames, OfGroup, Open, Ended
  <2>2. Len(drain'.results) = 0
    BY <1>2, <1>3
  <2> QED BY <1>1, <1>2, <2>1, <2>2 DEF GroupInv, Frames, Injective
<1>10. Delivered'
  <2>1. Len(events) + Len(deferred) = Len(mem) /\ Len(deferred) = 0
    BY <1>3, DrainFacts
  <2> QED BY <1>1, <1>2, <1>3, <2>1 DEF GroupInv, Delivered
<1>11. Placed'
  <2>1. \A h, l : Lies(h, l)' <=> Lies(h, l)
    BY <1>1 DEF Lies
  <2>2. \A l \in 1..synced : l \in 1..Len(wal)
    BY DrainFacts
  <2>3. \A h \in 1..Len(events) : \E l \in 1..synced : Lies(h, l)
    BY DEF GroupInv, Placed
  <2>4. \A h \in 1..Len(mem) : \E l \in 1..Len(wal) : Lies(h, l)
    BY <1>3, <2>2, <2>3
  <2>5. synced <= Len(wal) /\ Len(wal) <= Len(wal) /\ ~(Len(events) < Len(mem))
    BY <1>3, DrainFacts
  <2> QED BY <1>1, <1>2, <2>1, <2>3, <2>4, <2>5 DEF Placed
<1> QED BY <1>4, <1>5, <1>6, <1>7, <1>8, <1>9, <1>10, <1>11 DEF GroupInv

\* The next batch joins the run.
LEMMA GatherInv ==
  ASSUME GroupInv, Gather
  PROVE  GroupInv'
<1>0. PICK a \in Nat, b \in Nat, n \in Nat :
        a = Len(drain.results) /\ b = Len(drain.run) /\ n = Len(drain.group)
  BY DrainFacts
<1> DEFINE x == drain.group[a + b + 1]
<1>1. /\ drain.pc = "applying" /\ a + b < n /\ Gathers(x)
      /\ drain' = [drain EXCEPT !.run = Append(@, x)]
      /\ UNCHANGED <<st, base, pending, qDegraded, shutdown, walMu, wal, synced, mem, degraded, deferred, events>>
  BY <1>0 DEF Gather, Taken, NextUp, queueVars, fileVars
<1>2. x \in Sub
  <2>1. a + b + 1 \in 1..n
    BY <1>1
  <2> QED BY <1>0, <2>1, DrainFacts
<1> HIDE DEF x
<1>3. PICK r \in Seq(Sub) : /\ r = Append(drain.run, x) /\ Len(r) = b + 1
                            /\ \A i \in 1..b : r[i] = drain.run[i]
                            /\ r[b + 1] = x
  <2>1. drain.run \in Seq(Sub)
    BY DrainFacts
  <2> QED BY <1>0, <1>2, <2>1, Appended
<1>4. /\ drain' \in Drain /\ drain'.pc = "applying" /\ drain'.group = drain.group
      /\ drain'.run = r /\ drain'.results = drain.results /\ drain'.pre = drain.pre
  <2>1. PICK d \in Drain : d = drain
    BY DrainFacts
  <2>2. drain' = [d EXCEPT !.run = r]
    BY <1>1, <1>3, <2>1
  <2>3. [d EXCEPT !.run = r] \in Drain
    BY DEF Drain
  <2>4. /\ drain'.pc = d.pc /\ drain'.group = d.group /\ drain'.run = r
        /\ drain'.results = d.results /\ drain'.pre = d.pre
    BY <2>2 DEF Drain
  <2> QED BY <1>1, <2>1, <2>2, <2>3, <2>4
<1>5. TypeOK'
  BY <1>1, <1>4 DEF GroupInv, TypeOK, Drain
<1>6. Kinds' /\ CasOnUnchanged'
  BY <1>1, <1>4 DEF GroupInv, Kinds, CasOnUnchanged
<1>7. Exclusion'
  BY <1>1, <1>4 DEF GroupInv, Exclusion
<1>8. Progress'
  <2>1. a + Len(r) <= n
    BY <1>1, <1>3
  <2>2. ASSUME NEW i \in 1..Len(r)
        PROVE  r[i] = drain.group[a + i] /\ Gathers(r[i])
    <3>1. CASE i \in 1..b
      BY <1>0, <1>3, <3>1 DEF GroupInv, Progress
    <3>2. CASE i = b + 1
      <4>1. a + i = a + b + 1
        BY <3>2
      <4> QED BY <1>1, <1>3, <3>2, <4>1 DEF x
    <3> QED BY <1>3, <3>1, <3>2
  <2> QED BY <1>0, <1>4, <2>1, <2>2 DEF Progress, Gathers
<1>9. Queued'
  BY <1>1, <1>4, QueuedKept
<1>10. Frames'
  <2>1. /\ UNCHANGED <<wal, mem, synced, st>> /\ drain'.pc = drain.pc /\ drain'.group = drain.group
        /\ drain'.results = drain.results /\ drain'.pre = drain.pre /\ synced \in Nat
    BY <1>1, <1>4, DrainFacts
  <2> QED BY <2>1, FramesKept
<1>11. Delivered' /\ Placed'
  BY <1>1, <1>4, DeliveredKept
<1> QED BY <1>5, <1>6, <1>7, <1>8, <1>9, <1>10, <1>11 DEF GroupInv

\* The next batch of the group is committed, with its event deferred, or is not.
LEMMA CommitInv ==
  ASSUME GroupInv, NEW s, NEW ok \in BOOLEAN, CommitNosync(s, ok),
         drain.pc = "applying", Len(drain.results) < Len(drain.group),
         s = drain.group[Len(drain.results) + 1],
         ok /\ s \in Cas => base[s] = Len(mem),
         drain' \in Drain, drain'.pc = "applying", drain'.group = drain.group, drain'.pre = drain.pre,
         drain'.results = Append(drain.results, Result(ok)), Progress',
         UNCHANGED <<st, base, pending, qDegraded, shutdown, walMu>>
  PROVE  GroupInv'
<1> DEFINE m == Len(drain.results) + 1
<1>1. /\ s \in Sub /\ s \in Caller /\ st[s] \in {"pushed", "waiting"} /\ m \in 1..Len(drain.group)
  <2>1. m \in 1..Len(drain.group)
    BY DrainFacts
  <2> QED BY <2>1, DrainFacts DEF GroupInv, Queued, Caller
<1>2. wal \in Seq(Caller) /\ mem \in Seq(Caller) /\ deferred \in Seq(Caller) /\ events \in Seq(Caller)
  BY DEF GroupInv, TypeOK
<1>3. /\ wal' = IF ok THEN Append(wal, s) ELSE wal
      /\ mem' = IF ok THEN Append(mem, s) ELSE mem
      /\ deferred' = IF ok THEN Append(deferred, s) ELSE deferred
      /\ UNCHANGED <<synced, degraded, events>>
  BY DEF CommitNosync
<1>4. Result(ok) \in {"ok", "err"} /\ (Result(ok) = "ok" <=> ok)
  BY DEF Result
<1>5. /\ Len(drain'.results) = m /\ drain'.results[m] = Result(ok)
      /\ \A i \in 1..Len(drain.results) : drain'.results[i] = drain.results[i]
  BY <1>4, Appended, DrainFacts
<1>6. /\ \A i \in 1..m : i \in 1..Len(drain.results) \/ i = m
      /\ \A i \in 1..Len(drain.results) : i \in 1..m /\ i # m
      /\ m \in 1..m
  BY DrainFacts
<1>7. \A k \in 1..Len(wal) : wal[k] # s
  <2>1. m \in 1..Len(drain.results) => drain.results[m] # "ok"
    BY <1>6
  <2> QED BY <1>1, <2>1, NoFrameOfRefused
<1>8. \A k \in 1..Len(wal) : /\ k \in 1..Len(wal') /\ wal'[k] = wal[k] /\ wal[k] \in Caller
  BY <1>1, <1>2, <1>3, Appended, DrainFacts
<1>9. ok => /\ wal' \in Seq(Caller) /\ Len(wal') = Len(wal) + 1 /\ wal'[Len(wal) + 1] = s
            /\ deferred' \in Seq(Caller) /\ Len(deferred') = Len(deferred) + 1
            /\ deferred'[Len(deferred) + 1] = s
            /\ \A k \in 1..Len(deferred) : deferred'[k] = deferred[k]
  BY <1>1, <1>2, <1>3, Appended
<1>mem. ok => /\ mem' \in Seq(Caller) /\ Len(mem') = Len(mem) + 1 /\ mem'[Len(mem) + 1] = s
              /\ \A k \in 1..Len(mem) : mem'[k] = mem[k]
  BY <1>1, <1>2, <1>3, Appended
<1>10. ~ok => wal' = wal /\ deferred' = deferred /\ mem' = mem
  BY <1>3
<1>len. /\ Len(wal) \in Nat /\ Len(mem) \in Nat /\ Len(events) \in Nat
        /\ Len(wal') = Len(wal) \/ (ok /\ Len(wal') = Len(wal) + 1)
        /\ Len(mem') = Len(mem) \/ (ok /\ Len(mem') = Len(mem) + 1)
  <2>1. Len(wal) \in Nat /\ Len(mem) \in Nat /\ Len(events) \in Nat
    BY DrainFacts
  <2>2. Len(wal') = Len(wal) \/ (ok /\ Len(wal') = Len(wal) + 1)
    BY ONLY <1>9, <1>10
  <2>3. Len(mem') = Len(mem) \/ (ok /\ Len(mem') = Len(mem) + 1)
    BY ONLY <1>mem, <1>10
  <2> QED BY ONLY <2>1, <2>2, <2>3
<1>11. \A k \in 1..Len(wal') : k \in 1..Len(wal) \/ (ok /\ k = Len(wal) + 1)
  BY ONLY <1>len
<1>at. \A k \in 1..Len(mem') : k \in 1..Len(mem) \/ (ok /\ k = Len(mem) + 1)
  BY ONLY <1>len
<1>12. Len(wal') \in Nat /\ Len(wal) <= Len(wal')
  BY <1>9, <1>10, DrainFacts
<1>13. TypeOK'
  <2>1. synced' \in 0..Len(wal')
    BY <1>3, <1>12, DrainFacts
  <2>2. wal' \in Seq(Caller) /\ mem' \in Seq(Caller) /\ deferred' \in Seq(Caller)
    BY <1>2, <1>9, <1>mem, <1>10
  <2> QED BY <1>2, <1>3, <2>1, <2>2 DEF GroupInv, TypeOK, Drain
<1>14. Kinds'
  BY DEF GroupInv, Kinds
<1>15. Exclusion'
  BY DEF GroupInv, Exclusion
<1>16. Queued'
  BY QueuedKept
<1>17. Frames'
  <2>1. Injective(wal')
    <3>1. CASE ok
      BY <1>1, <1>2, <1>3, <1>7, <3>1, AppendedInjective DEF GroupInv, Frames
    <3>2. CASE ~ok
      BY <1>10, <3>2 DEF GroupInv, Frames
    <3> QED BY <3>1, <3>2
  <2>2. ASSUME NEW k \in 1..Len(wal') PROVE st[wal'[k]] \in {"ok", "written", "unsure"} \/ OfGroup(k)'
    <3>1. CASE k \in 1..Len(wal) /\ st[wal[k]] \in {"ok", "written", "unsure"}
      BY <1>8, <3>1
    <3>2. CASE k \in 1..Len(wal) /\ OfGroup(k)
      <4>1. PICK i \in 1..Len(drain.results) : drain.results[i] = "ok" /\ drain.group[i] = wal[k]
        BY <3>2 DEF OfGroup
      <4>2. i \in 1..Len(drain'.results) /\ drain'.results[i] = "ok" /\ drain'.group[i] = wal'[k]
        BY <1>5, <1>6, <1>8, <3>2, <4>1
      <4> QED BY <3>2, <4>2 DEF OfGroup, Open
    <3>3. CASE ok /\ k = Len(wal) + 1
      <4>1. m \in 1..Len(drain'.results) /\ drain'.results[m] = "ok" /\ drain'.group[m] = wal'[k]
        BY <1>4, <1>5, <1>6, <1>9, <3>3
      <4>2. drain.pre <= Len(wal) /\ drain.pre < k
        BY <3>3, DrainFacts DEF GroupInv, Placed
      <4> QED BY <4>1, <4>2 DEF OfGroup, Open
    <3> QED BY <1>11, <3>1, <3>2, <3>3 DEF GroupInv, Frames
  <2>3. \A k \in 1..synced : k \in 1..Len(wal)
    BY DrainFacts
  <2>4. \A c \in Caller : st[c] \in {"ok", "written"} => \E k \in 1..synced : wal'[k] = c
    BY <1>8, <2>3 DEF GroupInv, Frames
  <2>5. ASSUME NEW i \in 1..Len(drain'.results), drain'.results[i] = "ok"
        PROVE  \E k \in 1..Len(wal') : wal'[k] = drain.group[i]
    <3>1. CASE i \in 1..Len(drain.results)
      <4>1. drain.results[i] = "ok"
        BY <1>5, <2>5, <3>1
      <4> QED BY <1>8, <3>1, <4>1 DEF GroupInv, Frames
    <3>2. CASE i = m
      <4>1. ok
        BY <1>4, <1>5, <2>5, <3>2
      <4>2. Len(wal) + 1 \in 1..Len(wal')
        BY <1>9, <4>1, DrainFacts
      <4> QED BY <1>9, <3>2, <4>1, <4>2
    <3> QED BY <1>5, <1>6, <3>1, <3>2
  <2>6. \A k \in 1..Len(wal') : st'[wal'[k]] \in {"ok", "written", "unsure"} \/ OfGroup(k)'
    BY <2>2
  <2>7. \A c \in Caller : st'[c] \in {"ok", "written"} => \E k \in 1..synced' : wal'[k] = c
    BY <1>3, <2>4
  <2>8. \A i \in 1..Len(drain'.results) :
          drain'.results[i] = "ok" => \E k \in 1..Len(wal') : wal'[k] = drain'.group[i]
    BY <2>5
  <2>9. \A k \in 1..Len(mem') : st'[mem'[k]] \notin {"start", "checked", "locked"}
    <3>1. \A k \in 1..Len(mem) : st[mem[k]] \notin {"start", "checked", "locked"}
      BY DEF GroupInv, Frames
    <3> QED BY <1>1, <1>mem, <1>10, <1>at, <3>1
  <2>10. drain'.pc = "applying"
    OBVIOUS
  <2> QED BY ONLY <2>1, <2>6, <2>7, <2>8, <2>9, <2>10 DEF Frames, Injective
<1>18. Delivered'
  <2>1. /\ Len(events) + Len(deferred) = Len(mem) /\ Len(events) <= Len(mem)
        /\ \A k \in 1..Len(deferred) : deferred[k] = mem[Len(events) + k]
        /\ \A k \in 1..Len(events) : events[k] = mem[k]
    BY DEF GroupInv, Delivered
  <2>2. \A k \in 1..Len(mem) : mem'[k] = mem[k]
    BY <1>mem, <1>10
  <2>3. Len(events) <= Len(mem')
    BY <1>mem, <1>10, <2>1, DrainFacts
  <2>6. \A k \in 1..Len(events) : events[k] = mem'[k]
    BY ONLY <1>len, <2>1, <2>2
  <2>4. Len(events) + Len(deferred') = Len(mem')
    <3>1. \A a, b, c \in Nat : a + b = c => a + (b + 1) = c + 1
      OBVIOUS
    <3>2. Len(events) \in Nat /\ Len(deferred) \in Nat /\ Len(mem) \in Nat
      BY DrainFacts
    <3> QED BY <1>9, <1>mem, <1>10, <2>1, <3>1, <3>2
  <2>5. ASSUME NEW k \in 1..Len(deferred') PROVE deferred'[k] = mem'[Len(events) + k]
    <3>1. CASE k \in 1..Len(deferred)
      <4>1. Len(events) + k \in 1..Len(mem)
        BY <2>1, <3>1, DrainFacts
      <4> QED BY <1>9, <1>10, <2>1, <2>2, <3>1, <4>1
    <3>2. CASE ok /\ k = Len(deferred) + 1
      <4>1. Len(events) + k = Len(mem) + 1
        <5>1. \A a, b, c \in Nat : a + b = c => a + (b + 1) = c + 1
          OBVIOUS
        <5>2. Len(events) \in Nat /\ Len(deferred) \in Nat /\ Len(mem) \in Nat
          BY DrainFacts
        <5> QED BY <2>1, <3>2, <5>1, <5>2
      <4> QED BY <1>9, <1>mem, <3>2, <4>1
    <3>3. k \in 1..Len(deferred) \/ (ok /\ k = Len(deferred) + 1)
      BY <1>9, <1>10, DrainFacts
    <3> QED BY <3>1, <3>2, <3>3
  <2> QED BY <1>3, <2>3, <2>4, <2>5, <2>6 DEF Delivered
<1>19. Placed'
  <2>1. /\ \A i \in 1..Len(events) : \E l \in 1..synced : Lies(i, l)
        /\ \A i \in 1..Len(mem) : \E l \in 1..Len(wal) : Lies(i, l)
        /\ synced <= drain.pre /\ drain.pre <= Len(wal) /\ (Len(events) < Len(mem) => AnyOk)
    BY DEF GroupInv, Placed
  <2>2. drain.pre <= Len(wal')
    BY <1>12, <2>1, DrainFacts
  <2>3. AnyOk' \/ ((AnyOk <=> AnyOk') /\ ~ok)
    <3>1. CASE ok
      BY <1>4, <1>5, <1>6, <3>1 DEF AnyOk
    <3>2. CASE ~ok
      BY <1>4, <1>5, <1>6, <3>2 DEF AnyOk
    <3> QED BY <3>1, <3>2
  <2>4. Len(events) < Len(mem') => AnyOk'
    BY <1>10, <2>1, <2>3
  <2>5. \A i \in 1..Len(events) : \E l \in 1..synced : Lies(i, l)'
    <3> SUFFICES ASSUME NEW i \in 1..Len(events) PROVE \E l \in 1..synced : Lies(i, l)'
      OBVIOUS
    <3>1. PICK l \in 1..synced : Lies(i, l)
      BY <2>1
    <3>2. /\ l \in 1..Len(wal) /\ i \in 1..Len(mem)
          /\ (\A k \in 1..l - 1 : k \in 1..Len(wal)) /\ \A h \in 1..i - 1 : h \in 1..Len(mem)
      BY <3>1, DrainFacts DEF GroupInv, Delivered
    <3>3. \A k \in 1..Len(mem) : mem'[k] = mem[k]
      BY <1>mem, <1>10
    <3>4. Lies(i, l)'
      BY <1>8, <3>1, <3>2, <3>3 DEF Lies
    <3> QED BY <3>4
  <2>6. \A i \in 1..Len(mem') : \E l \in 1..Len(wal') : Lies(i, l)'
    <3>1. CASE ok
      <4>1. wal' = Append(wal, s) /\ mem' = Append(mem, s) /\ Len(wal') = Len(wal) + 1
        BY <1>3, <1>9, <3>1
      <4>2. Len(wal) \in Nat /\ Len(wal) <= Len(wal)
        BY DrainFacts
      <4>3. \A i \in 1..Len(mem') : \E l \in 1..Len(wal) + 1 : Lies(i, l)'
        BY <1>1, <2>1, <4>1, <4>2, LiesAppended
      <4> QED BY <4>1, <4>3
    <3>2. CASE ~ok
      <4>1. \A i, l : Lies(i, l)' <=> Lies(i, l)
        BY <1>10, <3>2 DEF Lies
      <4> QED BY <1>10, <2>1, <3>2, <4>1
    <3> QED BY <3>1, <3>2
  <2> QED BY <1>3, <2>1, <2>2, <2>4, <2>5, <2>6 DEF Placed
<1>20. CasOnUnchanged'
  <2> SUFFICES ASSUME NEW k \in 1..Len(mem'), mem'[k] \in Cas PROVE base[mem'[k]] = k - 1
    BY DEF CasOnUnchanged
  <2>1. CASE k \in 1..Len(mem)
    BY <1>mem, <1>10, <2>1 DEF GroupInv, CasOnUnchanged
  <2>2. CASE ok /\ k = Len(mem) + 1
    BY <1>mem, <2>2, DrainFacts
  <2> QED BY <1>at, <2>1, <2>2
<1> QED BY <1>13, <1>14, <1>15, <1>16, <1>17, <1>18, <1>19, <1>20 DEF GroupInv

\* The next batch of the run is committed.
LEMMA CommitRunInv ==
  ASSUME GroupInv, CommitRun
  PROVE  GroupInv'
<1>0. PICK a \in Nat, b \in Nat, n \in Nat :
        a = Len(drain.results) /\ b = Len(drain.run) /\ n = Len(drain.group)
  BY DrainFacts
<1> DEFINE s == drain.run[1]
<1>1. PICK ok \in BOOLEAN :
        /\ drain.pc = "applying" /\ drain.run # <<>> /\ CommitNosync(s, ok)
        /\ drain' = [drain EXCEPT !.run = Tail(@), !.results = Append(@, Result(ok))]
        /\ UNCHANGED <<st, base, pending, qDegraded, shutdown, walMu>>
  <2>1. Head(drain.run) = drain.run[1]
    BY DrainFacts
  <2>2. Outcomes(s) \subseteq BOOLEAN
    BY DEF Outcomes
  <2> QED BY <2>1, <2>2 DEF CommitRun, queueVars
<1>2. PICK t \in Seq(Sub) : t = Tail(drain.run) /\ Len(t) = b - 1 /\ \A i \in 1..b - 1 : t[i] = drain.run[i + 1]
  <2>1. drain.run \in Seq(Sub)
    BY DrainFacts
  <2>2. /\ Tail(drain.run) \in Seq(Sub) /\ Len(Tail(drain.run)) = Len(drain.run) - 1
        /\ \A i \in 1..Len(Tail(drain.run)) : Tail(drain.run)[i] = drain.run[i + 1]
    BY <1>1, <2>1, HeadTailProperties
  <2> QED BY <1>0, <2>2
<1>3. b >= 1 /\ 1 \in 1..b
  <2>1. b # 0
    BY <1>0, <1>1, EmptySeq, DrainFacts
  <2> QED BY <2>1
<1>4. a + b <= n
  BY <1>0 DEF GroupInv, Progress
<1>5. s = drain.group[a + 1] /\ Gathers(s)
  BY <1>0, <1>3 DEF GroupInv, Progress
<1>6. ok \in BOOLEAN /\ Result(ok) \in {"ok", "err"}
  BY DEF Result
<1>7. s \notin Cas
  BY <1>5, GroupCommitAssumption DEF Gathers
<1> HIDE DEF s
<1>8. PICK r \in Seq({"ok", "err"}) : r = Append(drain.results, Result(ok)) /\ Len(r) = a + 1
  <2>1. drain.results \in Seq({"ok", "err"})
    BY DrainFacts
  <2> QED BY <1>0, <1>6, <2>1, Appended
<1>9. /\ drain' \in Drain /\ drain'.pc = "applying" /\ drain'.group = drain.group
      /\ drain'.run = t /\ drain'.results = r /\ drain'.pre = drain.pre
  <2>1. PICK d \in Drain : d = drain
    BY DrainFacts
  <2>2. drain' = [d EXCEPT !.run = t, !.results = r]
    BY <1>1, <1>2, <1>8, <2>1
  <2>3. [d EXCEPT !.run = t, !.results = r] \in Drain
    BY DEF Drain
  <2>4. /\ drain'.pc = d.pc /\ drain'.group = d.group /\ drain'.run = t
        /\ drain'.results = r /\ drain'.pre = d.pre
    BY <2>2 DEF Drain
  <2> QED BY <1>1, <2>1, <2>2, <2>3, <2>4
<1>10. Progress'
  <2>1. Len(r) + Len(t) <= n
    <3>1. a + 1 + (b - 1) <= n
      BY <1>3, <1>4
    <3> QED BY <1>2, <1>8, <3>1
  <2>2. ASSUME NEW i \in 1..Len(t)
        PROVE  t[i] = drain.group[Len(r) + i] /\ Gathers(t[i])
    <3>1. \A j \in 1..b - 1 : j + 1 \in 1..b /\ a + 1 + j = a + (j + 1)
      BY <1>3
    <3>2. i \in 1..b - 1 /\ Len(r) + i = a + 1 + i
      BY <1>2, <1>8
    <3>3. i + 1 \in 1..b /\ Len(r) + i = a + (i + 1)
      BY <3>1, <3>2
    <3> QED BY <1>0, <1>2, <3>2, <3>3 DEF GroupInv, Progress
  <2> QED BY <1>0, <1>9, <2>1, <2>2 DEF Progress, Gathers
<1>11. a < n
  BY <1>3, <1>4
<1> QED BY <1>0, <1>1, <1>5, <1>6, <1>7, <1>8, <1>9, <1>10, <1>11, CommitInv

\* A compare-and-set or a role-scoped batch is committed on its own.
LEMMA CommitAloneInv ==
  ASSUME GroupInv, CommitAlone
  PROVE  GroupInv'
<1>0. PICK a \in Nat, n \in Nat : a = Len(drain.results) /\ n = Len(drain.group)
  BY DrainFacts
<1> DEFINE s == drain.group[a + 1]
<1>1. Taken = a /\ NextUp = s
  <2>1. drain.run = <<>> /\ Len(<<>>) = 0
    BY DEF CommitAlone
  <2>2. Taken = a
    BY <1>0, <2>1 DEF Taken
  <2> QED BY <2>2 DEF NextUp
<1>2. PICK ok \in BOOLEAN :
        /\ drain.pc = "applying" /\ drain.run = <<>> /\ a < n /\ CommitNosync(s, ok) /\ (ok => Holds(s))
        /\ drain' = [drain EXCEPT !.results = Append(@, Result(ok))]
        /\ UNCHANGED <<st, base, pending, qDegraded, shutdown, walMu>>
  <2>1. Outcomes(s) \subseteq BOOLEAN
    BY DEF Outcomes
  <2>2. PICK ok \in IF Holds(s) THEN Outcomes(s) ELSE {FALSE} :
          CommitNosync(s, ok) /\ drain' = [drain EXCEPT !.results = Append(@, Result(ok))]
    BY <1>1 DEF CommitAlone
  <2>3. ok \in BOOLEAN /\ (ok => Holds(s))
    BY <2>1, <2>2
  <2> QED BY <1>0, <1>1, <2>2, <2>3 DEF CommitAlone, queueVars
<1>3. ok \in BOOLEAN /\ Result(ok) \in {"ok", "err"} /\ (ok /\ s \in Cas => base[s] = Len(mem))
  BY <1>2 DEF Holds, Result
<1> HIDE DEF s
<1>4. PICK r \in Seq({"ok", "err"}) : r = Append(drain.results, Result(ok)) /\ Len(r) = a + 1
  <2>1. drain.results \in Seq({"ok", "err"})
    BY DrainFacts
  <2>2. PICK x \in {"ok", "err"} : x = Result(ok)
    BY <1>3
  <2> QED BY <1>0, <2>1, <2>2, Appended
<1>5. /\ drain' \in Drain /\ drain'.pc = "applying" /\ drain'.group = drain.group
      /\ drain'.run = <<>> /\ drain'.results = r /\ drain'.pre = drain.pre
  <2>1. PICK d \in Drain : d = drain
    BY DrainFacts
  <2>2. drain' = [d EXCEPT !.results = r]
    BY <1>2, <1>4, <2>1
  <2>3. [d EXCEPT !.results = r] \in Drain
    BY DEF Drain
  <2>4. /\ drain'.pc = d.pc /\ drain'.group = d.group /\ drain'.run = d.run
        /\ drain'.results = r /\ drain'.pre = d.pre
    BY <2>2 DEF Drain
  <2> QED BY <1>2, <2>1, <2>2, <2>3, <2>4
<1>6. Progress'
  <2>1. Len(<<>>) = 0 /\ Len(r) + 0 <= n
    BY <1>2, <1>4
  <2> QED BY <1>0, <1>5, <2>1 DEF Progress
<1>7. s = drain.group[Len(drain.results) + 1]
  BY <1>0 DEF s
<1> QED BY <1>0, <1>2, <1>3, <1>4, <1>5, <1>6, <1>7, CommitInv

\* The group's fsync fails, and its frames are cut off or left.
LEMMA SyncFailsInv ==
  ASSUME GroupInv, SyncFails
  PROVE  GroupInv'
<1>1. /\ drain.pc = "applied" /\ (wal' = SubSeq(wal, 1, drain.pre) \/ wal' = wal)
      /\ drain' = [drain EXCEPT !.pc = "failed"]
      /\ UNCHANGED <<st, base, pending, qDegraded, shutdown, walMu, synced, mem, degraded, deferred, events>>
  BY DEF SyncFails, queueVars
<1>2. /\ drain' \in Drain /\ drain'.pc = "failed" /\ drain'.group = drain.group
      /\ drain'.run = drain.run /\ drain'.results = drain.results /\ drain'.pre = drain.pre
  BY <1>1, DrainMoves DEF Pc
<1>3. synced \in Nat /\ synced <= drain.pre /\ drain.pre \in 0..Len(wal) /\ wal \in Seq(Caller)
      /\ Len(wal) \in Nat
  BY <1>1, DrainFacts DEF GroupInv, TypeOK, Placed
<1>4. /\ wal' \in Seq(Caller) /\ Len(wal') \in Nat /\ synced <= Len(wal') /\ Len(wal') <= Len(wal)
      /\ \A k \in 1..Len(wal') : wal'[k] = wal[k]
  <2>1. CASE wal' = wal
    BY <1>3, <2>1
  <2>2. CASE wal' = SubSeq(wal, 1, drain.pre)
    BY <1>3, <2>2, PrefixFacts
  <2> QED BY <1>1, <2>1, <2>2
<1>5. /\ \A k \in 1..Len(wal') : k \in 1..Len(wal)
      /\ \A k \in 1..synced : k \in 1..Len(wal')
  BY <1>3, <1>4
<1>6. TypeOK'
  <2>1. synced' \in 0..Len(wal')
    BY <1>1, <1>3, <1>4
  <2> QED BY <1>1, <1>2, <1>4, <2>1 DEF GroupInv, TypeOK, Drain
<1>7. Kinds'
  BY <1>1, <1>2 DEF GroupInv, Kinds
<1>8. Exclusion'
  BY <1>1, <1>2 DEF GroupInv, Exclusion
<1>9. Progress'
  BY <1>1, <1>2 DEF GroupInv, Progress
<1>10. Queued'
  BY <1>1, <1>2, QueuedKept
<1>11. Frames'
  <2>1. \A k \in 1..Len(wal') : OfGroup(k) => OfGroup(k)'
    BY <1>1, <1>2, <1>4 DEF OfGroup, Ended
  <2>2. \A k \in 1..Len(wal') : st'[wal'[k]] \in {"ok", "written", "unsure"} \/ OfGroup(k)'
    BY <1>1, <1>4, <1>5, <2>1 DEF GroupInv, Frames
  <2>3. Injective(wal')
    BY <1>4, <1>5 DEF GroupInv, Frames, Injective
  <2>4. \A c \in Caller : st'[c] \in {"ok", "written"} => \E k \in 1..synced' : wal'[k] = c
    BY <1>1, <1>4, <1>5 DEF GroupInv, Frames
  <2>5. \A k \in 1..Len(mem) : st[mem[k]] \notin {"start", "checked", "locked"}
    BY DEF GroupInv, Frames
  <2> QED BY <1>1, <1>2, <2>2, <2>3, <2>4, <2>5 DEF Frames, Injective
<1>12. Delivered'
  BY <1>1, <1>2 DEF GroupInv, Delivered
<1>13. Placed'
  <2>1. \A i \in 1..Len(events) : \E l \in 1..synced : Lies(i, l)'
    <3> SUFFICES ASSUME NEW i \in 1..Len(events) PROVE \E l \in 1..synced : Lies(i, l)'
      OBVIOUS
    <3>1. PICK l \in 1..synced : Lies(i, l)
      BY DEF GroupInv, Placed
    <3>2. i \in Nat /\ synced \in Nat /\ \A k \in 1..synced : wal'[k] = wal[k]
      BY <1>3, <1>4, <1>5
    <3>3. Lies(i, l)'
      BY <1>1, <3>1, <3>2, LiesKept
    <3> QED BY <3>3
  <2> QED BY <1>1, <1>2, <2>1 DEF Placed
<1>14. CasOnUnchanged'
  BY <1>1 DEF GroupInv, CasOnUnchanged
<1> QED BY <1>6, <1>7, <1>8, <1>9, <1>10, <1>11, <1>12, <1>13, <1>14 DEF GroupInv

\* After a failed fsync the handle is degraded.
LEMMA DegradeHandleInv ==
  ASSUME GroupInv, DegradeHandle
  PROVE  GroupInv'
<1>1. /\ drain.pc = "failed" /\ degraded' = TRUE /\ deferred' = <<>>
      /\ drain' = [drain EXCEPT !.pc = "degraded"]
      /\ UNCHANGED <<st, base, pending, qDegraded, shutdown, walMu, wal, synced, mem, events>>
  BY DEF DegradeHandle, queueVars
<1>2. /\ drain' \in Drain /\ drain'.pc = "degraded" /\ drain'.group = drain.group
      /\ drain'.run = drain.run /\ drain'.results = drain.results /\ drain'.pre = drain.pre
  BY <1>1, DrainMoves DEF Pc
<1>3. TypeOK'
  <2>1. deferred' \in Seq(Caller)
    BY <1>1
  <2>2. {qDegraded', shutdown', degraded'} \subseteq BOOLEAN
    BY <1>1 DEF GroupInv, TypeOK
  <2> QED BY <1>1, <1>2, <2>1, <2>2 DEF GroupInv, TypeOK, Drain
<1>4. Kinds' /\ CasOnUnchanged'
  BY <1>1, <1>2 DEF GroupInv, Kinds, CasOnUnchanged
<1>5. Exclusion'
  BY <1>1, <1>2 DEF GroupInv, Exclusion
<1>6. Progress'
  BY <1>1, <1>2 DEF GroupInv, Progress
<1>7. Queued'
  BY <1>1, <1>2, QueuedKept
<1>8. Frames'
  BY <1>1, <1>2, DrainFacts, FramesKept DEF Open, Ended
<1>9. Delivered' /\ Placed'
  <2>1. \A h, l : Lies(h, l)' <=> Lies(h, l)
    BY <1>1 DEF Lies
  <2>2. Placed'
    BY <1>1, <1>2, <2>1 DEF GroupInv, Placed
  <2>3. Delivered'
    BY <1>1, <1>2 DEF GroupInv, Delivered
  <2> QED BY <2>2, <2>3
<1> QED BY <1>3, <1>4, <1>5, <1>6, <1>7, <1>8, <1>9 DEF GroupInv

\* Then the queue is, and wal_mu is free.
LEMMA DegradeQueueInv ==
  ASSUME GroupInv, DegradeQueue
  PROVE  GroupInv'
<1>1. /\ drain.pc = "degraded" /\ qDegraded' = TRUE /\ walMu' = Nobody
      /\ drain' = [drain EXCEPT !.pc = "failing"]
      /\ UNCHANGED <<st, base, pending, shutdown, wal, synced, mem, degraded, deferred, events>>
  BY DEF DegradeQueue, fileVars
<1>2. /\ drain' \in Drain /\ drain'.pc = "failing" /\ drain'.group = drain.group
      /\ drain'.run = drain.run /\ drain'.results = drain.results /\ drain'.pre = drain.pre
  BY <1>1, DrainMoves DEF Pc
<1>3. TypeOK'
  <2>1. {qDegraded', shutdown', degraded'} \subseteq BOOLEAN
    BY <1>1 DEF GroupInv, TypeOK
  <2> QED BY <1>1, <1>2, <2>1 DEF GroupInv, TypeOK, Drain
<1>4. Kinds' /\ CasOnUnchanged'
  BY <1>1, <1>2 DEF GroupInv, Kinds, CasOnUnchanged
<1>5. Exclusion'
  BY <1>1, <1>2, MuFacts DEF GroupInv, Exclusion
<1>6. Progress'
  BY <1>1, <1>2 DEF GroupInv, Progress
<1>7. Queued'
  BY <1>1, <1>2, QueuedKept
<1>8. Frames'
  BY <1>1, <1>2, DrainFacts, FramesKept DEF Open, Ended
<1>9. Delivered' /\ Placed'
  <2>1. \A h, l : Lies(h, l)' <=> Lies(h, l)
    BY <1>1 DEF Lies
  <2>2. Placed'
    BY <1>1, <1>2, <2>1 DEF GroupInv, Placed
  <2>3. Delivered'
    BY <1>1, <1>2 DEF GroupInv, Delivered
  <2> QED BY <2>2, <2>3
<1> QED BY <1>3, <1>4, <1>5, <1>6, <1>7, <1>8, <1>9 DEF GroupInv

\* A read that fails half-way degrades the handle and the queue, and nothing else.
LEMMA FollowFailsInv ==
  ASSUME GroupInv, FollowFails \/ UNCHANGED vars
  PROVE  GroupInv'
<1>1. UNCHANGED <<st, base, pending, shutdown, drain, walMu, wal, synced, mem, deferred, events>>
      /\ {qDegraded', degraded'} \subseteq BOOLEAN /\ (degraded => degraded')
  <2>1. CASE FollowFails
    BY <2>1 DEF FollowFails
  <2>2. CASE UNCHANGED vars
    BY <2>2 DEF vars, GroupInv, TypeOK
  <2> QED BY <2>1, <2>2
<1>2. TypeOK'
  BY <1>1 DEF GroupInv, TypeOK
<1>3. Kinds' /\ CasOnUnchanged'
  BY <1>1 DEF GroupInv, Kinds, CasOnUnchanged
<1>4. Exclusion' /\ Progress'
  BY <1>1 DEF GroupInv, Exclusion, Progress
<1>5. Queued'
  BY <1>1, QueuedKept
<1>6. Frames'
  BY <1>1, DrainFacts, FramesKept
<1>7. Delivered' /\ Placed'
  BY <1>1, DeliveredKept
<1> QED BY <1>2, <1>3, <1>4, <1>5, <1>6, <1>7 DEF GroupInv

\* Every step keeps the invariant.
LEMMA NextInv == GroupInv /\ [Next]_vars => GroupInv'
<1> SUFFICES ASSUME GroupInv, [Next]_vars PROVE GroupInv'
  OBVIOUS
<1>1. ASSUME NEW s \in Sub, SubmitterNext(s) PROVE GroupInv'
  BY <1>1, CheckDegradedInv, EnqueueInv, NotifyInv DEF SubmitterNext
<1>2. ASSUME NEW d \in Direct, DirectNext(d) PROVE GroupInv'
  BY <1>2, DirectLockInv, DirectWriteInv, DirectSyncFailsInv, DirectReturnInv DEF DirectNext
<1>3. CASE DrainNext
  BY <1>3, WaitAndDrainInv, LockWalMuInv, AnswersInv, BeginApplyInv, GatherInv, CommitRunInv,
     CommitAloneInv, EndApplyInv, SyncGroupInv, FlushInv, UnlockWalMuInv, SyncFailsInv,
     DegradeHandleInv, DegradeQueueInv DEF DrainNext
<1>4. CASE SignalShutdown
  BY <1>4, SignalShutdownInv
<1>5. CASE FollowFails \/ UNCHANGED vars
  BY <1>5, FollowFailsInv
<1> QED BY <1>1, <1>2, <1>3, <1>4, <1>5 DEF Next

\* The inductive invariant holds throughout.
THEOREM GroupInvariant == Spec => []GroupInv
BY InitInv, NextInv, PTL DEF Spec

\* The durable part of the WAL, frame by frame.
LEMMA DurableFacts ==
  ASSUME GroupInv
  PROVE  /\ Durable \in Seq(Caller) /\ Len(Durable) = synced /\ Durable = SubSeq(wal, 1, synced)
         /\ \A k \in 1..synced : Durable[k] = wal[k] /\ k \in 1..Len(wal)
<1>1. synced \in 0..Len(wal) /\ wal \in Seq(Caller) /\ Len(wal) \in Nat
  BY DrainFacts DEF GroupInv, TypeOK
<1>2. (IF synced < Len(wal) THEN synced ELSE Len(wal)) = synced
  BY <1>1
<1>3. Durable = SubSeq(wal, 1, synced)
  BY <1>2 DEF Durable
<1>4. \A k \in 1..synced : k \in 1..Len(wal)
  BY <1>1
<1> QED BY <1>1, <1>3, <1>4, PrefixFacts

\* The same after a step.
LEMMA DurableNext ==
  ASSUME GroupInv'
  PROVE  /\ Durable' \in Seq(Caller) /\ Len(Durable') = synced' /\ synced' \in Nat
         /\ \A k \in 1..synced' : Durable'[k] = wal'[k] /\ k \in 1..Len(wal')
<1>1. synced' \in 0..Len(wal') /\ wal' \in Seq(Caller) /\ Len(wal') \in Nat
  BY SeqFacts DEF GroupInv, TypeOK
<1>2. (IF synced' < Len(wal') THEN synced' ELSE Len(wal')) = synced'
  BY <1>1
<1>3. Durable' = SubSeq(wal', 1, synced')
  BY <1>2 DEF Durable
<1>4. \A k \in 1..synced' : k \in 1..Len(wal')
  BY <1>1
<1>5. /\ SubSeq(wal', 1, synced') \in Seq(Caller) /\ Len(SubSeq(wal', 1, synced')) = synced'
        /\ \A i \in 1..synced' : SubSeq(wal', 1, synced')[i] = wal'[i]
  BY <1>1, PrefixFacts
<1>6. synced' \in Nat
  BY <1>1
<1> QED BY <1>3, <1>4, <1>5, <1>6

\* The durable part is the same as long as its frames are.
LEMMA DurableKept ==
  ASSUME GroupInv, GroupInv', UNCHANGED synced, \A k \in 1..synced : wal'[k] = wal[k]
  PROVE  Durable' = Durable
<1>1. PICK x \in Seq(Caller) : x = Durable
  BY DurableFacts
<1>2. PICK y \in Seq(Caller) : y = Durable'
  BY DurableNext
<1>3. Len(x) = synced /\ Len(y) = synced /\ \A k \in 1..synced : x[k] = y[k]
  BY <1>1, <1>2, DurableFacts, DurableNext
<1> QED BY <1>1, <1>2, <1>3, SeqEqual

\* The WAL, the queue and the threads are what they should be, and an fsynced frame is never
\* cut off the WAL.
THEOREM WellTyped == Spec => []TypeOK
<1>1. GroupInv => TypeOK
  BY DEF GroupInv
<1> QED BY <1>1, GroupInvariant, PTL

\* Subscribers are told of durable commits only, in the WAL's order and leaving out none that
\* the handle applied, whichever of the two write paths committed it and whatever fails.
THEOREM EventsInOrder == Spec => []EventsFollowWal
<1>1. ASSUME GroupInv PROVE EventsFollowWal
  <2>1. /\ events \in Seq(Caller) /\ mem \in Seq(Caller) /\ Len(events) \in Nat /\ Len(mem) \in Nat
        /\ Len(events) <= Len(mem) /\ \A k \in 1..Len(events) : events[k] = mem[k]
    BY <1>1, DrainFacts DEF GroupInv, TypeOK, Delivered
  <2>2. Len(events) \in 0..Len(events) /\ Len(events) \in 0..Len(mem)
    BY <2>1
  <2>3. /\ SubSeq(events, 1, Len(events)) \in Seq(Caller) /\ Len(SubSeq(events, 1, Len(events))) = Len(events)
        /\ \A k \in 1..Len(events) : SubSeq(events, 1, Len(events))[k] = events[k]
    BY <2>1, <2>2, PrefixFacts
  <2>4. /\ SubSeq(mem, 1, Len(events)) \in Seq(Caller) /\ Len(SubSeq(mem, 1, Len(events))) = Len(events)
        /\ \A k \in 1..Len(events) : SubSeq(mem, 1, Len(events))[k] = mem[k]
    BY <2>1, <2>2, PrefixFacts
  <2>5. \A k \in 1..Len(events) : SubSeq(events, 1, Len(events))[k] = SubSeq(mem, 1, Len(events))[k]
    BY <2>1, <2>3, <2>4
  <2>6. SubSeq(events, 1, Len(events)) = SubSeq(mem, 1, Len(events))
    BY <2>3, <2>4, <2>5, SeqEqual
  <2>7. IsPrefix(events, mem)
    BY <2>1, <2>6 DEF IsPrefix
  <2>8. ASSUME NEW j \in 1..Len(events)
        PROVE  \E l \in 1..Len(Durable) :
                 /\ Durable[l] = events[j]
                 /\ \A i \in 1..j - 1 : \E k \in 1..l - 1 : Durable[k] = events[i]
    <3>1. PICK l \in 1..synced : Lies(j, l)
      BY <1>1 DEF GroupInv, Placed
    <3>2. /\ \A k \in 1..l - 1 : k \in 1..synced
          /\ \A i \in 1..j - 1 : i \in 1..Len(events)
      BY <1>1, <2>1, DrainFacts
    <3>3. Len(Durable) = synced /\ \A k \in 1..synced : Durable[k] = wal[k]
      BY <1>1, DurableFacts
    <3>4. Durable[l] = events[j]
      BY <2>1, <3>1, <3>3 DEF Lies
    <3>5. \A i \in 1..j - 1 : \E k \in 1..l - 1 : Durable[k] = events[i]
      BY <2>1, <3>1, <3>2, <3>3 DEF Lies
    <3> QED BY <3>3, <3>4, <3>5
  <2> QED BY <2>7, <2>8 DEF EventsFollowWal
<1> QED BY <1>1, GroupInvariant, PTL

\* A compare-and-set lands directly on the version it named, for any number of submitters and
\* direct writers and any size of a group.
THEOREM CasLandsOnNamed == Spec => []CasOnUnchanged
<1>1. GroupInv => CasOnUnchanged
  BY DEF GroupInv
<1> QED BY <1>1, GroupInvariant, PTL

-----------------------------------------------------------------------------
(* The write path implements CommitLog.                                    *)

\* The answer a caller has.
Has(c) == IF st[c] \in {"ok", "err", "unsure"} THEN st[c] ELSE "none"

\* Neither the durable log nor an answer changes.
LEMMA Stutters ==
  ASSUME Durable' = Durable, \A c \in Caller : Has(c)' = Has(c)
  PROVE  UNCHANGED Promise!logVars
BY DEF Promise!logVars, Has

\* Callers are answered with what the log has of them.
LEMMA Tells ==
  ASSUME GroupInv, Durable' = Durable,
         \A c \in Caller : Has(c)' # Has(c) =>
           /\ Has(c) = "none"
           /\ Has(c)' = "ok" => \E k \in 1..synced : wal[k] = c
           /\ Has(c)' = "err" => \A k \in 1..synced : wal[k] # c
  PROVE  Promise!LogNext
<1>1. Promise!Logged = {wal[k] : k \in 1..synced}
  BY DurableFacts DEF Promise!Logged
<1> DEFINE T == [c \in Caller |-> IF st[c] \in {"ok", "err", "unsure"} THEN st[c] ELSE "none"]
<1>2. \A c \in Caller : T[c] = Has(c) /\ T'[c] = Has(c)'
  BY DEF Has
<1>3. PICK t, u : t = T /\ u = T'
  OBVIOUS
<1>4. PICK who \in SUBSET Caller : who = {c \in Caller : t[c] # u[c]}
  OBVIOUS
<1>5. ASSUME NEW c \in who
      PROVE  /\ t[c] = "none" /\ u[c] \in {"ok", "err", "unsure"}
             /\ u[c] = "ok" => c \in Promise!Logged
             /\ u[c] = "err" => c \notin Promise!Logged
  <2>1. c \in Caller /\ t[c] = Has(c) /\ u[c] = Has(c)' /\ Has(c)' # Has(c)
    BY <1>2, <1>3, <1>4
  <2>2. Has(c)' \in {"ok", "err", "unsure", "none"}
    BY DEF Has
  <2> QED BY <1>1, <2>1, <2>2
<1>6. u = [c \in Caller |-> IF c \in who THEN u[c] ELSE t[c]]
  <2>1. \A c \in Caller : u[c] = IF c \in who THEN u[c] ELSE t[c]
    BY <1>4
  <2>2. u = [c \in Caller |-> u[c]]
    BY <1>3
  <2> QED BY <2>1, <2>2
<1>7. Promise!Tell({c \in Caller : T[c] # T'[c]})
  <2>1. who = {c \in Caller : T[c] # T'[c]}
    BY <1>3, <1>4
  <2> QED BY <1>3, <1>5, <1>6, <2>1 DEF Promise!Tell
<1> QED BY ONLY <1>7, Zenon DEF Promise!LogNext

\* A frame not yet durable is of a caller that was not told "ok" or "err".
LEMMA Unsynced ==
  ASSUME GroupInv, NEW k \in 1..Len(wal), k \notin 1..synced
  PROVE  Has(wal[k]) \in {"none", "unsure"}
<1>1. wal[k] \in Caller
  BY DrainFacts
<1>2. st[wal[k]] \notin {"ok", "written"}
  <2> SUFFICES ASSUME st[wal[k]] \in {"ok", "written"} PROVE FALSE
    OBVIOUS
  <2>1. PICK l \in 1..synced : wal[l] = wal[k]
    BY <1>1 DEF GroupInv, Frames
  <2>2. l \in 1..Len(wal)
    BY DurableFacts
  <2>3. l = k
    BY <2>1, <2>2 DEF GroupInv, Frames, Injective
  <2> QED BY <2>3
<1>3. st[wal[k]] \in {"unsure", "pushed", "waiting"}
  BY <1>2, FrameOwner
<1> QED BY <1>3 DEF Has

\* Frames become durable that were not, of callers not yet answered.
LEMMA Grows ==
  ASSUME GroupInv, GroupInv', synced <= synced',
         \A k \in 1..synced : wal'[k] = wal[k],
         \A k \in synced + 1..synced' : Has(wal'[k]) \in {"none", "unsure"},
         \A c \in Caller : Has(c)' = Has(c)
  PROVE  Promise!LogNext
<1>1. /\ Durable \in Seq(Caller) /\ Len(Durable) = synced /\ synced \in Nat
      /\ \A k \in 1..synced : Durable[k] = wal[k]
  BY DurableFacts, DrainFacts
<1>2. /\ Durable' \in Seq(Caller) /\ Len(Durable') = synced' /\ synced' \in Nat
      /\ \A k \in 1..synced' : Durable'[k] = wal'[k] /\ k \in 1..Len(wal')
  BY DurableNext
<1>3. PICK a \in Nat, b \in Nat : a = synced /\ b = synced'
  BY <1>1, <1>2
<1>4. PICK x \in Seq(Caller) : x = Durable
  BY <1>1
<1>5. PICK y \in Seq(Caller) : y = Durable'
  BY <1>2
<1>6. PICK g \in Seq(Caller) : /\ g = SubSeq(y, a + 1, b) /\ Len(g) = b - a
                               /\ \A i \in 1..b - a : g[i] = y[a + i]
  <2>1. a \in 0..Len(y) /\ Len(y) = b
    BY <1>2, <1>3, <1>5
  <2>2. /\ SubSeq(y, a + 1, Len(y)) \in Seq(Caller) /\ Len(SubSeq(y, a + 1, Len(y))) = Len(y) - a
        /\ \A i \in 1..Len(y) - a : SubSeq(y, a + 1, Len(y))[i] = y[a + i]
    BY <2>1, SuffixFacts
  <2> QED BY <2>1, <2>2
<1>7. \A i \in 1..b - a : a + i \in a + 1..b /\ a + i \in 1..b
  OBVIOUS
<1>8. \A i, j \in 1..b : y[i] = y[j] => i = j
  BY <1>2, <1>3, <1>5 DEF GroupInv, Frames, Injective
<1>9. \A i \in 1..a : x[i] = y[i] /\ i \in 1..b
  BY <1>1, <1>2, <1>3, <1>4, <1>5
<1>10. Len(x) = a /\ Len(y) = b /\ a <= b
  BY <1>1, <1>2, <1>3, <1>4, <1>5
<1>11. y = x \o g
  <2>1. x = SubSeq(y, 1, a)
    <3>1. /\ SubSeq(y, 1, a) \in Seq(Caller) /\ Len(SubSeq(y, 1, a)) = a
          /\ \A i \in 1..a : SubSeq(y, 1, a)[i] = y[i]
      BY <1>10, PrefixFacts
    <3> QED BY <1>9, <1>10, <3>1, SeqEqual
  <2>2. y = SubSeq(y, 1, b)
    <3>1. /\ SubSeq(y, 1, b) \in Seq(Caller) /\ Len(SubSeq(y, 1, b)) = b
          /\ \A i \in 1..b : SubSeq(y, 1, b)[i] = y[i]
      BY <1>10, PrefixFacts
    <3> QED BY <1>10, <3>1, SeqEqual
  <2>3. SubSeq(y, 1, a) \o SubSeq(y, a + 1, b) = SubSeq(y, 1, b)
    <3>1. 1 \in 1..Len(y) + 1 /\ a \in 1 - 1..Len(y) /\ b \in a..Len(y)
      BY <1>10
    <3> QED BY <3>1, ConcatAdjacentSubSeq
  <2> QED BY <1>6, <2>1, <2>2, <2>3
<1>12. ASSUME NEW i \in 1..Len(g) PROVE g[i] \notin {x[k] : k \in 1..a} /\ Has(g[i]) \in {"none", "unsure"}
  <2>1. a + i \in a + 1..b /\ a + i \in 1..b /\ \A k \in 1..a : k # a + i
    BY <1>6, <1>7
  <2>2. g[i] = y[a + i]
    BY <1>6
  <2>3. Has(y[a + i]) \in {"none", "unsure"}
    BY <1>2, <1>3, <1>5, <2>1
  <2> QED BY <1>8, <1>9, <2>1, <2>2, <2>3
<1>13. \A i, j \in 1..Len(g) : g[i] = g[j] => i = j
  <2> SUFFICES ASSUME NEW i \in 1..Len(g), NEW j \in 1..Len(g), g[i] = g[j] PROVE i = j
    OBVIOUS
  <2>1. a + i = a + j
    BY <1>6, <1>7, <1>8
  <2> QED BY <1>6, <2>1
<1>14. \A i \in 1..Len(g) : g[i] \in Caller
  BY SeqFacts
<1>15. Promise!Grow(g)
  <2>1. Promise!Logged = {x[k] : k \in 1..a}
    BY <1>4, <1>10 DEF Promise!Logged
  <2>2. \A i \in 1..Len(g) : g[i] \notin Promise!Logged
    BY <1>12, <2>1
  <2> QED BY <1>4, <1>5, <1>11, <1>12, <1>13, <1>14, <2>2 DEF Promise!Grow, Has
<1> QED BY <1>4, <1>5, <1>6, <1>10, <1>15 DEF Promise!LogNext

\* A step of a submitter: at most, it is refused.
LEMMA SubmitterImplements ==
  ASSUME GroupInv, GroupInv', NEW s \in Sub, SubmitterNext(s)
  PROVE  [Promise!LogNext]_(Promise!logVars)
<1>1. st \in [Caller -> {"start", "checked", "pushed", "waiting", "locked", "written", "ok", "err", "unsure"}]
      /\ s \in Caller
  BY DEF GroupInv, TypeOK, Caller
<1>2. UNCHANGED <<wal, synced>>
  BY DEF SubmitterNext, CheckDegraded, Enqueue, Notify, fileVars
<1>3. Durable' = Durable
  BY <1>2, DurableKept
<1>4. CASE CheckDegraded(s)
  <2>1. PICK a \in {"checked", "err"} : st' = [st EXCEPT ![s] = a]
    BY <1>4 DEF CheckDegraded
  <2>2. st[s] = "start" /\ st'[s] = a /\ \A c \in Caller \ {s} : st'[c] = st[c]
    BY <1>1, <1>4, <2>1 DEF CheckDegraded
  <2>3. \A k \in 1..synced : wal[k] # s
    BY <2>2, FrameOwner, DurableFacts
  <2>4. \A c \in Caller : Has(c)' # Has(c) => c = s /\ Has(c) = "none" /\ Has(c)' = "err"
    BY <2>2 DEF Has
  <2> QED BY <1>3, <2>3, <2>4, Tells
<1>5. CASE Enqueue(s) \/ Notify(s)
  <2>1. PICK a \in {"pushed", "waiting"} : st' = [st EXCEPT ![s] = a]
    BY <1>5 DEF Enqueue, Notify
  <2>2. st[s] \in {"checked", "pushed"} /\ st'[s] = a /\ \A c \in Caller \ {s} : st'[c] = st[c]
    BY <1>1, <1>5, <2>1 DEF Enqueue, Notify
  <2>3. \A c \in Caller : Has(c)' = Has(c)
    BY <2>2 DEF Has
  <2> QED BY <1>3, <2>3, Stutters
<1> QED BY <1>4, <1>5 DEF SubmitterNext

\* A step of a direct writer: its frame becomes durable, with those failed fsyncs left, or its
\* own does not, and it is answered.
LEMMA DirectImplements ==
  ASSUME GroupInv, GroupInv', NEW d \in Direct, DirectNext(d)
  PROVE  [Promise!LogNext]_(Promise!logVars)
<1>1. st \in [Caller -> {"start", "checked", "pushed", "waiting", "locked", "written", "ok", "err", "unsure"}]
      /\ wal \in Seq(Caller) /\ d \in Caller
  BY DEF GroupInv, TypeOK, Caller
<1>2. CASE DirectLock(d)
  <2>1. /\ st[d] = "start" /\ st' = [st EXCEPT ![d] = "locked"] /\ UNCHANGED <<wal, synced>>
    BY <1>2 DEF DirectLock, fileVars
  <2>2. st'[d] = "locked" /\ \A c \in Caller \ {d} : st'[c] = st[c]
    BY <1>1, <2>1
  <2>3. \A c \in Caller : Has(c)' = Has(c)
    BY <2>1, <2>2 DEF Has
  <2>4. Durable' = Durable
    BY <2>1, DurableKept
  <2> QED BY <2>3, <2>4, Stutters
<1>3. CASE DirectWrite(d)
  <2>1. /\ st[d] = "locked" /\ st' = [st EXCEPT ![d] = "written"]
        /\ wal' = Append(wal, d) /\ synced' = Len(wal) + 1
    BY <1>3 DEF DirectWrite
  <2>2. st'[d] = "written" /\ \A c \in Caller \ {d} : st'[c] = st[c]
    BY <1>1, <2>1
  <2>3. \A c \in Caller : Has(c)' = Has(c)
    BY <2>1, <2>2 DEF Has
  <2>4. synced \in Nat /\ synced <= Len(wal) /\ Len(wal) \in Nat
    BY DrainFacts
  <2>5. wal'[Len(wal) + 1] = d /\ \A k \in 1..Len(wal) : wal'[k] = wal[k]
    BY <1>1, <2>1, Appended
  <2>6. Has(d) = "none"
    BY <2>1 DEF Has
  <2>7. /\ synced <= synced' /\ \A k \in 1..synced : k \in 1..Len(wal)
        /\ \A k \in synced + 1..synced' : k = Len(wal) + 1 \/ (k \in 1..Len(wal) /\ k \notin 1..synced)
    BY <2>1, <2>4
  <2>8. \A k \in synced + 1..synced' : Has(wal'[k]) \in {"none", "unsure"}
    BY <2>5, <2>6, <2>7, Unsynced
  <2> QED BY <2>3, <2>5, <2>7, <2>8, Grows
<1>5. CASE DirectSyncFails(d)
  <2>1. /\ st[d] = "locked" /\ st' = [st EXCEPT ![d] = "unsure"]
        /\ wal' = Append(wal, d) /\ synced' = synced
    BY <1>5 DEF DirectSyncFails
  <2>2. st'[d] = "unsure" /\ \A c \in Caller \ {d} : st'[c] = st[c]
    BY <1>1, <2>1
  <2>3. \A k \in 1..synced : wal'[k] = wal[k]
    BY <1>1, <2>1, Appended, DrainFacts
  <2>4. Durable' = Durable
    BY <2>1, <2>3, DurableKept
  <2>5. \A c \in Caller : Has(c)' # Has(c) => c = d /\ Has(c) = "none" /\ Has(c)' = "unsure"
    BY <2>1, <2>2 DEF Has
  <2> QED BY <2>4, <2>5, Tells
<1>4. CASE DirectUnlock(d) \/ DirectRefused(d)
  <2>1. PICK a \in {"ok", "err"} : /\ st' = [st EXCEPT ![d] = a]
                                   /\ st[d] = IF a = "ok" THEN "written" ELSE "locked"
    BY <1>4 DEF DirectUnlock, DirectRefused
  <2>2. UNCHANGED <<wal, synced>>
    BY <1>4 DEF DirectUnlock, DirectRefused, fileVars
  <2>3. st'[d] = a /\ \A c \in Caller \ {d} : st'[c] = st[c]
    BY <1>1, <2>1
  <2>4. Durable' = Durable
    BY <2>2, DurableKept
  <2>5. \A c \in Caller : Has(c)' # Has(c) => c = d /\ Has(c) = "none" /\ Has(c)' = a
    BY <2>1, <2>3 DEF Has
  <2>6. CASE a = "ok"
    <3>1. \E k \in 1..synced : wal[k] = d
      BY <1>1, <2>1, <2>6 DEF GroupInv, Frames
    <3> QED BY <2>4, <2>5, <2>6, <3>1, Tells
  <2>7. CASE a = "err"
    <3>1. \A k \in 1..synced : wal[k] # d
      BY <2>1, <2>7, FrameOwner, DurableFacts
    <3> QED BY <2>4, <2>5, <2>7, <3>1, Tells
  <2> QED BY <2>6, <2>7
<1> QED BY <1>2, <1>3, <1>4, <1>5 DEF DirectNext

\* A group is answered: "ok" for the frames that are durable, an error for the others.
LEMMA AnswersImplement ==
  ASSUME GroupInv, GroupInv', GroupRefused \/ RefreshFails \/ Answer \/ AnswerFailed
  PROVE  Promise!LogNext
<1>1. PICK answer : /\ st' = Told(answer)
                    /\ \A i \in 1..Len(drain.group) :
                         \/ answer[i] = "ok" /\ drain.pc = "unlocked" /\ drain.results[i] = "ok"
                                             /\ i \in 1..Len(drain.results)
                         \/ answer[i] = "unsure"
                         \/ answer[i] = "err" /\ \A k \in 1..Len(wal) : wal[k] # drain.group[i]
  <2>1. CASE GroupRefused \/ RefreshFails
    <3>1. drain.pc = "locked" /\ st' = Told(AllErr)
      BY <2>1 DEF GroupRefused, RefreshFails
    <3>2. \A i \in 1..Len(drain.group) : AllErr[i] = "err" /\ \A k \in 1..Len(wal) : wal[k] # drain.group[i]
      BY <3>1, NoFrameYet DEF AllErr
    <3> QED BY <3>1, <3>2
  <2>2. CASE AnswerFailed
    <3>1. st' = Told(Failure)
      BY <2>2 DEF AnswerFailed
    <3>2. \A i \in 1..Len(drain.group) :
            Failure[i] = "unsure" \/ (Failure[i] = "err" /\ \A k \in 1..Len(wal) : wal[k] # drain.group[i])
      BY DEF Failure
    <3> QED BY <3>1, <3>2
  <2>3. CASE Answer
    <3>1. drain.pc = "unlocked" /\ st' = Told(drain.results)
      BY <2>3 DEF Answer
    <3>2. Len(drain.results) = Len(drain.group)
      BY <3>1 DEF GroupInv, Progress
    <3>3. \A i \in 1..Len(drain.results) : drain.results[i] \in {"ok", "err"}
      BY DrainFacts, SeqFacts
    <3>4. \A i \in 1..Len(drain.results) :
            drain.results[i] # "ok" => \A k \in 1..Len(wal) : wal[k] # drain.group[i]
      BY <3>2, NoFrameOfRefused
    <3> QED BY <3>1, <3>2, <3>3, <3>4
  <2> QED BY <2>1, <2>2, <2>3
<1>2. UNCHANGED <<wal, synced>>
  BY DEF GroupRefused, RefreshFails, Answer, AnswerFailed, fileVars
<1>3. Durable' = Durable
  BY <1>2, DurableKept
<1>4. /\ \A i \in 1..Len(drain.group) : st'[drain.group[i]] = answer[i]
      /\ \A c \in Caller : (\A i \in 1..Len(drain.group) : drain.group[i] # c) => st'[c] = st[c]
  BY <1>1, ToldFacts
<1>5. ASSUME NEW c \in Caller, Has(c)' # Has(c)
      PROVE  /\ Has(c) = "none"
             /\ Has(c)' = "ok" => \E k \in 1..synced : wal[k] = c
             /\ Has(c)' = "err" => \A k \in 1..synced : wal[k] # c
  <2>1. PICK i \in 1..Len(drain.group) : drain.group[i] = c
    BY <1>4, <1>5 DEF Has
  <2>2. st[c] \in {"pushed", "waiting"} /\ st'[c] = answer[i]
    BY <1>4, <2>1 DEF GroupInv, Queued
  <2>3. Has(c) = "none" /\ Has(c)' = answer[i]
    BY <1>1, <2>2 DEF Has
  <2>4. CASE answer[i] = "ok"
    <3>1. drain.pc = "unlocked" /\ drain.results[i] = "ok" /\ i \in 1..Len(drain.results)
      BY <1>1, <2>4
    <3>2. \E k \in 1..synced : wal[k] = c
      BY <2>1, <3>1 DEF GroupInv, Frames
    <3> QED BY <2>3, <2>4, <3>2
  <2>5. CASE answer[i] = "err"
    <3>1. \A k \in 1..Len(wal) : wal[k] # c
      BY <1>1, <2>1, <2>5
    <3>2. \A k \in 1..synced : k \in 1..Len(wal)
      BY DrainFacts
    <3> QED BY <2>3, <2>5, <3>1, <3>2
  <2> QED BY <1>1, <2>3, <2>4, <2>5
<1> QED BY <1>3, <1>5, Tells

\* A group's fsync makes its frames durable; no other step of the thread adds to the durable
\* log or takes from it.
LEMMA DrainImplements ==
  ASSUME GroupInv, GroupInv', DrainNext
  PROVE  [Promise!LogNext]_(Promise!logVars)
<1>1. CASE GroupRefused \/ RefreshFails \/ Answer \/ AnswerFailed
  BY <1>1, AnswersImplement
<1>2. CASE SyncGroup
  <2>1. /\ drain.pc = "applied" /\ UNCHANGED <<wal, st>>
        /\ synced' = IF AnyOk THEN Len(wal) ELSE synced
    BY <1>2 DEF SyncGroup
  <2>2. synced \in Nat /\ synced <= Len(wal) /\ Len(wal) \in Nat
    BY DrainFacts
  <2>3. synced <= synced' /\ \A k \in synced + 1..synced' : k \in 1..Len(wal) /\ k \notin 1..synced
    BY <2>1, <2>2
  <2>4. \A c \in Caller : Has(c)' = Has(c)
    BY <2>1 DEF Has
  <2>5. \A k \in synced + 1..synced' : Has(wal[k]) \in {"none", "unsure"}
    BY <2>3, Unsynced
  <2> QED BY <2>1, <2>3, <2>4, <2>5, Grows
<1>3. CASE CommitRun \/ CommitAlone \/ SyncFails
  <2>1. UNCHANGED <<st, synced>>
    BY <1>3 DEF CommitRun, CommitAlone, CommitNosync, SyncFails
  <2>2. \A k \in 1..synced : wal'[k] = wal[k]
    <3>1. wal \in Seq(Caller) /\ synced \in 0..Len(wal) /\ \A k \in 1..synced : k \in 1..Len(wal)
      BY DurableFacts DEF GroupInv, TypeOK
    <3>2. CASE SyncFails
      <4>1. /\ wal' = SubSeq(wal, 1, drain.pre) \/ wal' = wal
            /\ drain.pre \in 0..Len(wal) /\ synced <= drain.pre
        BY <3>2, DrainFacts DEF SyncFails, GroupInv, Placed
      <4>2. \A k \in 1..synced : k \in 1..drain.pre
        BY <4>1, DrainFacts
      <4> QED BY <3>1, <4>1, <4>2, PrefixFacts
    <3>3. ASSUME NEW s \in Caller, NEW ok \in BOOLEAN, CommitNosync(s, ok)
          PROVE  \A k \in 1..synced : wal'[k] = wal[k]
      BY <3>1, <3>3, Appended DEF CommitNosync
    <3>4. CASE CommitRun
      <4>1. Head(drain.run) \in Caller
        <5>1. drain.run \in Seq(Sub) /\ drain.run # <<>>
          BY <3>4, DrainFacts DEF CommitRun
        <5> QED BY <5>1, HeadTailProperties DEF Caller
      <4> QED BY <3>3, <3>4, <4>1 DEF CommitRun, Outcomes
    <3>5. CASE CommitAlone
      <4>1. PICK a \in Nat, n \in Nat : a = Len(drain.results) /\ n = Len(drain.group)
        BY DrainFacts
      <4>2. Taken = a /\ a < n
        BY <3>5, <4>1 DEF CommitAlone, Taken
      <4>3. a + 1 \in 1..n
        BY <4>2
      <4>4. NextUp \in Caller
        BY <4>1, <4>2, <4>3, DrainFacts DEF NextUp, Caller
      <4> QED BY <3>3, <3>5, <4>4 DEF CommitAlone, Outcomes
    <3> QED BY <1>3, <3>2, <3>4, <3>5
  <2>3. Durable' = Durable
    BY <2>1, <2>2, DurableKept
  <2>4. \A c \in Caller : Has(c)' = Has(c)
    BY <2>1 DEF Has
  <2> QED BY <2>3, <2>4, Stutters
<1>4. CASE WaitAndDrain \/ LockWalMu \/ BeginApply \/ Gather \/ EndApply \/ FlushDeferredEvents
           \/ UnlockWalMu \/ DegradeHandle \/ DegradeQueue
  <2>1. UNCHANGED <<st, wal, synced>>
    BY <1>4 DEF WaitAndDrain, LockWalMu, BeginApply, Gather, EndApply, FlushDeferredEvents, UnlockWalMu,
                DegradeHandle, DegradeQueue, fileVars
  <2>2. Durable' = Durable
    BY <2>1, DurableKept
  <2>3. \A c \in Caller : Has(c)' = Has(c)
    BY <2>1 DEF Has
  <2> QED BY <2>2, <2>3, Stutters
<1> QED BY <1>1, <1>2, <1>3, <1>4 DEF DrainNext

\* Every step keeps the promise or does not touch it.
LEMMA StepImplements == GroupInv /\ GroupInv' /\ [Next]_vars => [Promise!LogNext]_(Promise!logVars)
<1> SUFFICES ASSUME GroupInv, GroupInv', [Next]_vars PROVE [Promise!LogNext]_(Promise!logVars)
  OBVIOUS
<1>1. CASE SignalShutdown \/ FollowFails \/ UNCHANGED vars
  <2>1. UNCHANGED <<st, wal, synced>>
    BY <1>1 DEF SignalShutdown, FollowFails, vars, fileVars
  <2>2. Durable' = Durable
    BY <2>1, DurableKept
  <2>3. \A c \in Caller : Has(c)' = Has(c)
    BY <2>1 DEF Has
  <2> QED BY <2>2, <2>3, Stutters
<1> QED BY <1>1, SubmitterImplements, DirectImplements, DrainImplements DEF Next

\* Initially the log is empty and nobody has an answer.
LEMMA InitImplements == Init => Promise!LogInit
<1> SUFFICES ASSUME Init PROVE Promise!LogInit
  OBVIOUS
<1>1. Durable = <<>>
  <2>1. Durable \in Seq(Caller) /\ Len(Durable) = 0
    BY InitInv, DurableFacts DEF Init
  <2> QED BY <2>1, EmptySeq
<1> QED BY <1>1 DEF Init, Promise!LogInit

\* The queue, the group's fsync and its failure keep what the callers are promised: the durable
\* log only grows, by commits not answered or left in doubt, "ok" is told only of what is in it,
\* and an error other than those of a failed direct fsync and of a failed cut only of what never
\* gets there.
THEOREM KeepsPromise == Spec => Implements
BY InitImplements, StepImplements, GroupInvariant, PTL DEF Spec, Implements, Promise!LogSpec
=============================================================================
