------------------------------- MODULE Bucket -------------------------------
(***************************************************************************)
(* The backup prefix and the workers that write it (BackupWorker's resume, *)
(* upload_base, ship_segments, write_manifest, apply_retention, and        *)
(* restore on boot).                                                       *)
(*                                                                         *)
(* One worker at a time holds the bucket lease (module Lease); a tenure    *)
(* ends at any request, and the request may still reach the service long   *)
(* after.  Each request that changes the bucket is an action.  What a      *)
(* worker reads of its store holds together (module Ship): an upload reads *)
(* the snapshot, the archives and the WAL in one action.                   *)
(*                                                                         *)
(* A frame of a log is the directory it was committed in, so two stores    *)
(* that went different ways differ.  A local snapshot archives the WAL.    *)
(* One file, roles.json, stands for the side files.  A version of an       *)
(* object is its content.                                                  *)
(***************************************************************************)
EXTENDS Integers, Sequences, FiniteSets, TLC, SequencesExt, FiniteSetsExt, Functions

CONSTANTS
  Instances,   \* the servers, each with its worker and its data directory
  First,       \* the one that has the first tenure
  Worlds,      \* the deployments, one of which a behaviour is in:
               \*   others, how the other instances come to this prefix:
               \*     "none"   they do not (a tenure forgets all it knew, so the tenures of
               \*              one instance are those of several on one directory)
               \*     "boot"   they restore on boot into an empty one
               \*     "other"  they have a store of their own, by mistake
               \*     "copy"   they have a copy of the directory, from after its first backup
               \*   faults, the requests that can reach the service after their tenure,
               \*     and "timeout"
               \*   edits, how often roles.json may change
               \*   calm, whether the store takes no snapshot between the start of a base
               \*     upload and its first manifest
               \*   commits, snaps, tenures, how many there are at most
  RetainN,     \* BackupConfig::retain_n
  MaxLate, MaxTimeouts

ASSUME BucketAssumption ==
  /\ First \in Instances
  /\ Worlds \subseteq [others : {"none", "boot", "other", "copy"}, calm : BOOLEAN,
                      edits : Nat, commits : Nat, snaps : Nat, tenures : Nat,
                      faults : SUBSET {"create", "file", "manifest", "latest", "delete", "timeout"}]
  /\ RetainN \in Nat \ {0} /\ MaxLate \in Nat /\ MaxTimeouts \in Nat

VARIABLES
  world,     \* the deployment this is; it never changes
  dir,       \* the data directories
  bucket,    \* the objects, the manifests by commit count, and LATEST
  holder,    \* who holds the lease: at most one
  w,         \* the workers' memory
  late,      \* requests the service has not applied yet, their sender gone
  used       \* what was used of the bounds

vars == <<world, dir, bucket, holder, w, late, used>>

Nobody == "nobody"
NoKey == -1    \* no manifest has this commit count
NoParent == [lin |-> Nobody, seq |-> NoKey]
NoStore == [lin |-> Nobody, parent |-> NoParent, log |-> <<>>, cuts |-> <<>>, roles |-> 0]
NoGen == [gen |-> -1, cuts |-> 0, pos |-> 0, base |-> 0, names |-> {}]
NoPlan == [kept |-> {}, dropped |-> {}, foreign |-> {}]
\* reset_tenure: another writer may have changed the bucket since.
NoTenure == [pc |-> "off", lin |-> Nobody, parent |-> Nobody, pkeys |-> {}, seen |-> NoKey,
             wrote |-> {}, allocated |-> {}, next |-> 0, archives |-> {}, cur |-> NoGen,
             dirty |-> FALSE, due |-> FALSE, side |-> {}, todo |-> <<>>, plan |-> NoPlan,
             drops |-> {}, doomed |-> {}]

Init ==
  /\ world \in Worlds
  /\ dir = [i \in Instances |->
              CASE i = First \/ world.others = "other" -> [NoStore EXCEPT !.log = <<i>>]
                [] i # First /\ world.others = "copy" ->
                     [NoStore EXCEPT !.lin = First, !.log = <<First>>]
                [] OTHER -> NoStore]
  /\ bucket = [objs |-> <<>>, manifests |-> <<>>, latest |-> NoKey]
  /\ holder = Nobody /\ w = [i \in Instances |-> NoTenure] /\ late = {}
  /\ used = [commits |-> 0, snaps |-> 0, edits |-> 0, tenures |-> 0, lates |-> 0, timeouts |-> 0]

-----------------------------------------------------------------------------
(* The store: what a directory holds.                                      *)

Base(d) == IF d.cuts = <<>> THEN 0 ELSE Last(d.cuts)
ArchiveFrames(d, n) == SubSeq(d.log, (IF n = 1 THEN 0 ELSE d.cuts[n - 1]) + 1, d.cuts[n])

SnapshotKey(gen, seq) == <<"snapshots", gen, seq, 0>>
ArchiveKey(gen, n) == <<"archives", gen, n, 0>>
SegmentKey(gen, start, end) == <<"wal", gen, start, end>>
SideKey(roles) == <<"side", roles, 0, 0>>
Side(roles) == [key |-> SideKey(roles), val |-> <<>>]

Commit(i) ==
  /\ dir[i].log # <<>> /\ used.commits < world.commits
  /\ used' = [used EXCEPT !.commits = @ + 1]
  /\ dir' = [dir EXCEPT ![i].log = Append(@, i)]
  /\ UNCHANGED <<world, bucket, holder, w, late>>

\* The generation has no manifest yet: not even one that was not needed, its commit
\* count being that of the parent's.
Unlisted(i) ==
  /\ w[i].cur # NoGen /\ w[i].cur.pos \notin w[i].pkeys
  /\ \A x \in w[i].wrote : x.m.gen # w[i].cur.gen

Snapshot(i) ==
  /\ Len(dir[i].log) > Base(dir[i]) /\ used.snaps < world.snaps
  /\ world.calm => ~Unlisted(i)
  /\ used' = [used EXCEPT !.snaps = @ + 1]
  /\ dir' = [dir EXCEPT ![i].cuts = Append(@, Len(dir[i].log))]
  /\ UNCHANGED <<world, bucket, holder, w, late>>

\* Between tenures an edit is like one at the start of the next.
EditRoles(i) ==
  /\ holder = i /\ used.edits < world.edits
  /\ used' = [used EXCEPT !.edits = @ + 1]
  /\ dir' = [dir EXCEPT ![i].roles = 1 - @]
  /\ UNCHANGED <<world, bucket, holder, w, late>>

-----------------------------------------------------------------------------
(* The service: what a request does to the bucket.                         *)

Has(f, k) == k \in DOMAIN f
Put(f, k, v) == (k :> v) @@ f
Drop(f, k) == Restrict(f, DOMAIN f \ {k})
At(f, k) == IF Has(f, k) THEN {f[k]} ELSE {}

\* Mutant of Refused: LATEST is written without a condition.
RefusedOnlyObjects(b, r) ==
  \/ r.op = "create" /\ Has(b.objs, r.key)
  \/ r.op = "manifest" /\ At(b.manifests, r.seq) # r.exp

\* The precondition of a conditional request: `exp` is the set of versions it expects.
Refused(b, r) ==
  \/ r.op = "create" /\ Has(b.objs, r.key)
  \/ r.op = "manifest" /\ At(b.manifests, r.seq) # r.exp
  \/ r.op = "latest" /\ b.latest # r.exp

Accepted(b, r) ==
  CASE r.op \in {"create", "file"} -> [b EXCEPT !.objs = Put(@, r.key, r.val)]
    [] r.op = "manifest" -> [b EXCEPT !.manifests = Put(@, r.seq, r.m)]
    [] r.op = "latest" -> [b EXCEPT !.latest = r.seq]
    [] r.op = "delete" -> [b EXCEPT !.objs = Drop(@, r.key)]
    [] r.op = "drop" -> [b EXCEPT !.manifests = Drop(@, r.seq)]
    [] OTHER -> b

Applied(b, r) == IF Refused(b, r) THEN b ELSE Accepted(b, r)

LandLate(r) ==
  /\ r \in late
  /\ late' = late \ {r} /\ bucket' = Applied(bucket, r)
  /\ UNCHANGED <<world, dir, holder, w, used>>

-----------------------------------------------------------------------------
(* What the worker sends next.                                             *)

Idle == [op |-> "none"]
Manifest(i) == [lin |-> w[i].lin, gen |-> w[i].cur.gen, names |-> w[i].cur.names \cup w[i].side]
Count(i) == w[i].cur.pos

\* put_manifest: If-Match the version this tenure wrote; otherwise a create, and over
\* one of this lineage with the version just read.
Mode(i) ==
  LET mine == {x \in w[i].wrote : x.seq = Count(i)} IN
  IF mine # {} THEN {x.m : x \in mine}
  ELSE {m \in At(bucket.manifests, Count(i)) : m.lin = w[i].lin}

\* The segment that is not shipped yet: nothing once the WAL was replaced.
Unshipped(i) ==
  LET d == dir[i] IN
  IF Len(d.cuts) = w[i].cur.cuts /\ w[i].cur.pos < Len(d.log)
  THEN SubSeq(d.log, w[i].cur.pos + 1, Len(d.log)) ELSE <<>>

Request(i) ==
  LET me == w[i] g == me.cur IN
  CASE me.pc \in {"put", "side"} -> Head(me.todo)
    [] me.pc = "ship" /\ Unshipped(i) # <<>> ->
         [op |-> "create", val |-> Unshipped(i),
          key |-> SegmentKey(g.gen, g.pos - g.base, g.pos - g.base + Len(Unshipped(i)))]
    [] me.pc = "manifest" ->
         [op |-> "manifest", seq |-> Count(i), m |-> Manifest(i), exp |-> Mode(i)]
    [] me.pc = "latest" -> [op |-> "latest", seq |-> Count(i), exp |-> me.seen]
    [] me.pc = "drop" -> [op |-> "drop", seq |-> Min(me.drops)]
    [] me.pc = "doom" -> [op |-> "delete", key |-> CHOOSE k \in me.doomed : TRUE]
    [] OTHER -> Idle

-----------------------------------------------------------------------------
(* A tenure.                                                               *)

\* LATEST, and what restoring the manifest it names gives: its objects, and then the
\* segments of its generation that no manifest names yet, in the order of their keys,
\* up to the first that does not start where the last one ended (tail_segments).
Newest(b) == {b.manifests[s] : s \in {b.latest} \cap DOMAIN b.manifests}
Frames(m, kind) ==
  LET es == {e \in m.names : e.key[1] = kind}
      ordered == SetToSortSeq(es, LAMBDA x, y : x.key[3] < y.key[3])
  IN FlattenSeq([k \in 1..Len(ordered) |-> ordered[k].val])
TailSegments(b, m) ==
  LET wal == {k \in DOMAIN b.objs : k[1] = "wal" /\ k[2] = m.gen}
      From[end \in Nat] ==
        LET here == {k \in wal : k[3] = end}
            k == CHOOSE k \in here : \A j \in here : k[4] <= j[4]
        IN IF here = {} THEN <<>>
           ELSE b.objs[k] \o (IF Cardinality(here) > 1 THEN <<>> ELSE From[k[4]])
  IN From[Len(Frames(m, "wal"))]
Named(m) == Frames(m, "archives") \o Frames(m, "wal")
Restored(b, m) == Named(m) \o TailSegments(b, m)
RestoredCuts(m) ==
  LET es == {e \in m.names : e.key[1] = "archives"}
  IN [n \in 1..Cardinality(es) |->
        MapThenSumSet(LAMBDA e : Len(e.val), {e \in es : e.key[3] <= n})]

RestoredRoles(m) == CHOOSE r \in 0..1 : Side(r) \in m.names

\* Mutant of Adopts: the prefix may have moved on since the restore.
AdoptsMoved(i) ==
  LET d == dir[i] IN
  \E m \in Newest(bucket) : d.lin # Nobody /\ d.lin # m.lin /\ d.parent.lin = m.lin

\* resume: whose prefix is this?
Adopts(i) ==
  LET d == dir[i] IN
  \E m \in Newest(bucket) :
    d.lin # Nobody /\ d.lin # m.lin /\ d.parent = [lin |-> m.lin, seq |-> bucket.latest]

RefusesPrefix(i) ==
  LET d == dir[i] IN
  \E m \in Newest(bucket) :
    \/ d.lin # m.lin /\ ~Adopts(i)
    \/ Len(d.log) < bucket.latest

Generations == {k[2] : k \in {x \in DOMAIN bucket.objs : x[1] # "side"}}
               \cup {m.gen : m \in Newest(bucket)}

\* The lease is taken, and the bucket read.
TakeLease(i) ==
  /\ holder = Nobody /\ used.tenures + used.timeouts < world.tenures /\ dir[i].log # <<>>
  /\ used.tenures = 0 => i = First
  /\ used' = [used EXCEPT !.tenures = @ + 1]

Refuse(i) ==
  /\ TakeLease(i) /\ RefusesPrefix(i)
  /\ UNCHANGED <<world, dir, bucket, holder, w, late>>

Resume(i) ==
  LET d == dir[i]
      lineage == IF d.lin = Nobody THEN i ELSE d.lin
  IN
  /\ TakeLease(i) /\ ~RefusesPrefix(i)
  /\ holder' = i
  /\ dir' = [dir EXCEPT ![i].lin = lineage]
  /\ w' = [w EXCEPT ![i] =
       [NoTenure EXCEPT !.pc = "ready", !.lin = lineage, !.parent = d.parent.lin,
          !.seen = bucket.latest,
          !.next = IF Generations = {} THEN 0 ELSE Max(Generations) + 1,
          !.archives = UNION {{e \in m.names : e.key[1] = "archives" /\ m.lin = lineage} :
                                m \in Newest(bucket)}]]
  /\ UNCHANGED <<world, bucket, late>>

-----------------------------------------------------------------------------
(* A restore point.                                                        *)

\* A new generation: burn a number, then the archives that cannot be reused, the chain
\* file, and the snapshot, each under a key of its own.
Reused(i, n) == {e \in w[i].archives : e.key[3] = n /\ e.val = ArchiveFrames(dir[i], n)}

File(key, val) == [op |-> "file", key |-> key, val |-> val]

SideRequest(roles) == [op |-> "create", key |-> SideKey(roles), val |-> <<>>]

UploadBase(i) ==
  LET me == w[i] d == dir[i] number == me.next
      new == SelectSeq([n \in 1..Len(d.cuts) |-> n], LAMBDA n : Reused(i, n) = {})
      snap == [key |-> SnapshotKey(number, Base(d)), val |-> SubSeq(d.log, 1, Base(d))]
      fresh == {[key |-> ArchiveKey(number, n), val |-> ArchiveFrames(d, n)] : n \in Range(new)}
      reused == UNION {Reused(i, n) : n \in 1..Len(d.cuts)}
  IN
  /\ me.pc = "ready" /\ (me.cur = NoGen \/ me.cur.cuts # Len(d.cuts))
  /\ w' = [w EXCEPT ![i] =
       [me EXCEPT !.pc = "put", !.next = number + 1, !.allocated = @ \cup {number}, !.due = TRUE,
          !.cur = [gen |-> number, cuts |-> Len(d.cuts), pos |-> Base(d), base |-> Base(d),
                   names |-> fresh \cup reused \cup (IF d.cuts = <<>> THEN {} ELSE {snap})],
          !.todo = [k \in 1..Len(new) |->
                      File(ArchiveKey(number, new[k]), ArchiveFrames(d, new[k]))]
                   \o <<SideRequest(d.roles)>>
                   \o (IF d.cuts = <<>> THEN <<>> ELSE <<File(snap.key, snap.val)>>)]]
  /\ UNCHANGED <<world, dir, bucket, holder, late, used>>

\* ship_segments, and the end of a step: a manifest when one is due, which it always is
\* for a new generation.
ShipSegments(i) ==
  /\ w[i].pc = "ready" /\ w[i].cur # NoGen /\ w[i].cur.cuts = Len(dir[i].cuts)
  /\ w[i].dirty \/ Unshipped(i) # <<>>
  /\ w' = [w EXCEPT ![i].pc = "ship"]
  /\ UNCHANGED <<world, dir, bucket, holder, late, used>>

NotDue(i) ==
  /\ w[i].pc = "ship" /\ Unshipped(i) = <<>> /\ ~w[i].due
  /\ w' = [w EXCEPT ![i].pc = "ready"]
  /\ UNCHANGED <<world, dir, bucket, holder, late, used>>

\* The parent's restore point at this commit count is not written over.
ParentsKey(i) ==
  \/ Count(i) \in w[i].pkeys
  \/ \E m \in At(bucket.manifests, Count(i)) :
       m.lin = w[i].parent /\ m.lin # Nobody /\ ~\E x \in w[i].wrote : x.seq = Count(i)

\* sync_side_files: a side file that changed since it was uploaded goes first.
SideIsSynced(i) == w[i].side = {Side(dir[i].roles)}
SyncSideFiles(i) ==
  /\ w[i].pc = "ship" /\ Unshipped(i) = <<>> /\ w[i].dirty /\ ~SideIsSynced(i)
  /\ w' = [w EXCEPT ![i].pc = "side", ![i].todo = <<SideRequest(dir[i].roles)>>]
  /\ UNCHANGED <<world, dir, bucket, holder, late, used>>

WriteManifest(i) ==
  LET me == w[i] IN
  /\ me.pc = "ship" /\ Unshipped(i) = <<>> /\ me.dirty /\ SideIsSynced(i)
  /\ w' = [w EXCEPT ![i] =
       IF ParentsKey(i) THEN [me EXCEPT !.pc = "ready", !.due = FALSE, !.pkeys = @ \cup {Count(i)}]
       ELSE [me EXCEPT !.pc = "manifest", !.due = FALSE]]
  /\ UNCHANGED <<world, dir, bucket, holder, late, used>>

-----------------------------------------------------------------------------
(* A request and its answer.                                               *)

\* An object that is already there is accepted with the same content.
Conflicts(i) ==
  LET r == Request(i) IN
  \/ r.op = "create" /\ Has(bucket.objs, r.key) /\ bucket.objs[r.key] # r.val
  \/ r.op = "file" /\ Has(bucket.objs, r.key)
  \/ r.op \in {"manifest", "latest"} /\ Refused(bucket, r)

NamedBy(ms) == UNION {{e.key : e \in m.names} : m \in ms}

\* The end of apply_retention, once nothing is left to delete.
Retained(i) == [w[i] EXCEPT !.pc = "ready", !.doomed = {}, !.plan = NoPlan,
                            !.archives = {e \in @ : e.key \in NamedBy(w[i].plan.kept)}]

\* The worker's memory once the request has been answered.
Answered(i) ==
  LET me == w[i] r == Request(i) g == me.cur IN
  CASE me.pc = "put" ->
         [me EXCEPT !.todo = Tail(@), !.pc = IF Len(me.todo) = 1 THEN "ship" ELSE "put",
                    !.dirty = @ \/ Len(me.todo) = 1,
                    !.archives = IF r.op = "file" /\ r.key[1] = "archives"
                                 THEN {e \in @ : e.key[3] # r.key[3]}
                                      \cup {[key |-> r.key, val |-> r.val]}
                                 ELSE @,
                    !.side = IF r.op = "create" THEN {[key |-> r.key, val |-> r.val]} ELSE @]
    [] me.pc = "side" ->
         [me EXCEPT !.pc = "ship", !.todo = <<>>, !.side = {[key |-> r.key, val |-> r.val]}]
    [] me.pc = "ship" ->
         [me EXCEPT !.dirty = TRUE, !.cur.pos = @ + Len(r.val),
                    !.cur.names = @ \cup {[key |-> r.key, val |-> r.val]}]
    [] me.pc = "manifest" ->
         [me EXCEPT !.pc = "latest",
                    !.wrote = {x \in @ : x.seq # r.seq} \cup {[seq |-> r.seq, m |-> r.m]}]
    [] me.pc = "latest" -> [me EXCEPT !.pc = "retain", !.seen = r.seq, !.dirty = FALSE]
    [] me.pc = "drop" ->
         [me EXCEPT !.drops = @ \ {r.seq}, !.pc = IF me.drops = {r.seq} THEN "sweep" ELSE "drop"]
    [] me.pc = "doom" ->
         IF me.doomed = {r.key} THEN Retained(i) ELSE [me EXCEPT !.doomed = @ \ {r.key}]
    [] OTHER -> me

Send(i) ==
  /\ Request(i) # Idle /\ ~Conflicts(i)
  /\ bucket' = Applied(bucket, Request(i))
  /\ w' = [w EXCEPT ![i] = Answered(i)]
  /\ UNCHANGED <<world, dir, holder, late, used>>

\* Another writer got there first: the lease is dropped.
Conflict(i) ==
  /\ Request(i) # Idle /\ Conflicts(i)
  /\ holder' = Nobody /\ w' = [w EXCEPT ![i] = NoTenure]
  /\ UNCHANGED <<world, dir, bucket, late, used>>

\* Nobody waits for the answer any more: the request is lost, done, or done later.
CanBeLate(r) ==
  used.lates < MaxLate /\ (IF r.op = "drop" THEN "delete" ELSE r.op) \in world.faults
GivenUp(r, spent) ==
  \/ late' = late /\ bucket' \in {bucket, Applied(bucket, r)} /\ used' = spent
  \/ /\ CanBeLate(r) /\ late' = late \cup {r} /\ bucket' = bucket
     /\ used' = [spent EXCEPT !.lates = @ + 1]

\* The deadline passes: the step fails and the next one starts over, while the request
\* may still be on its way.
TimesOut(i) ==
  /\ "timeout" \in world.faults /\ used.timeouts < MaxTimeouts /\ Request(i) # Idle
  /\ GivenUp(Request(i), [used EXCEPT !.timeouts = @ + 1])
  /\ w' = [w EXCEPT ![i] = [@ EXCEPT !.pc = "ready", !.todo = <<>>, !.plan = NoPlan, !.drops = {},
                                   !.doomed = {}, !.due = FALSE,
                                   !.cur = IF w[i].pc = "put" THEN NoGen ELSE @]]
  /\ UNCHANGED <<world, dir, holder>>

\* The process dies, or its lease is lost.
TenureEnds(i) ==
  /\ holder = i
  /\ GivenUp(Request(i), used)
  /\ holder' = Nobody /\ w' = [w EXCEPT ![i] = NoTenure]
  /\ UNCHANGED <<world, dir>>

-----------------------------------------------------------------------------
(* Retention.                                                              *)

Mine(i) == {s \in DOMAIN bucket.manifests : bucket.manifests[s].lin = w[i].lin}
Surplus(i) ==
  {s \in Mine(i) : /\ Cardinality({t \in Mine(i) : t >= s}) > RetainN
                   /\ s # w[i].seen}

\* What the manifests of the prefix say, read once: other lineages name objects too.
Retain(i) ==
  LET me == w[i] ms == bucket.manifests
      kept == {ms[s] : s \in Mine(i) \ Surplus(i)}
      dropped == {ms[s] : s \in Surplus(i)}
      foreign == {ms[s] : s \in DOMAIN ms \ Mine(i)}
  IN
  /\ me.pc = "retain"
  /\ w' = [w EXCEPT ![i] =
       IF dropped = {} THEN [me EXCEPT !.pc = "ready"]
       ELSE [me EXCEPT !.pc = "drop", !.drops = Surplus(i),
                       !.plan = [kept |-> kept, dropped |-> dropped, foreign |-> foreign]]]
  /\ UNCHANGED <<world, dir, bucket, holder, late, used>>

\* Mutant of Doomed: a snapshot or an archive goes with the generation it was uploaded for.
DoomedByAge(i) ==
  LET plan == w[i].plan
      owned == w[i].allocated \cup {m.gen : m \in plan.kept \cup plan.dropped}
      retiring == {g \in owned : (\A m \in plan.kept : g < m.gen) /\ g # w[i].cur.gen}
  IN {k \in DOMAIN bucket.objs : k[1] # "side" /\ k[2] \in retiring} \ NamedBy(plan.foreign)

\* Mutant of Doomed: what other lineages' manifests name is not looked at.
DoomedAlone(i) ==
  LET plan == w[i].plan
  IN {k \in NamedBy(plan.dropped) : k[1] = "side"} \ NamedBy(plan.kept)

\* The surplus manifests are gone: list what only they named.
Doomed(i) ==
  LET me == w[i] plan == me.plan
      owned == me.allocated \cup {m.gen : m \in plan.kept \cup plan.dropped}
      retiring == {g \in owned : (\A m \in plan.kept : g < m.gen) /\ g # me.cur.gen}
      candidates ==
        {k \in DOMAIN bucket.objs : k[1] \in {"snapshots", "archives"} /\ k[2] \in owned}
        \cup {k \in NamedBy(plan.dropped) : k[1] = "side"}
        \cup {k \in DOMAIN bucket.objs : k[1] = "wal" /\ k[2] \in retiring}
  IN (candidates \ NamedBy(plan.kept)) \ NamedBy(plan.foreign)

Sweep(i) ==
  /\ w[i].pc = "sweep"
  /\ w' = [w EXCEPT ![i] = IF Doomed(i) = {} THEN Retained(i)
                           ELSE [@ EXCEPT !.pc = "doom", !.doomed = Doomed(i)]]
  /\ UNCHANGED <<world, dir, bucket, holder, late, used>>

-----------------------------------------------------------------------------
(* restore_on_boot: under the lease, into an empty directory.  The store   *)
(* gets a lineage of its own, and remembers where it came from.            *)

Verifies(b, m) == \A e \in m.names : e.key \in DOMAIN b.objs /\ b.objs[e.key] = e.val

RestoreOnBoot(i) ==
  /\ world.others = "boot" /\ i # First /\ dir[i] = NoStore
  /\ holder = Nobody /\ used.tenures + used.timeouts < world.tenures
  /\ \E m \in Newest(bucket) :
       /\ Verifies(bucket, m)
       /\ dir' = [dir EXCEPT ![i] = [lin |-> i, parent |-> [lin |-> m.lin, seq |-> bucket.latest],
                                     log |-> Restored(bucket, m), cuts |-> RestoredCuts(m),
                                     roles |-> RestoredRoles(m)]]
  /\ used' = [used EXCEPT !.tenures = @ + 1]
  /\ UNCHANGED <<world, bucket, holder, w, late>>

-----------------------------------------------------------------------------
Next ==
  \/ \E i \in Instances :
       \/ Commit(i) \/ Snapshot(i) \/ EditRoles(i) \/ RestoreOnBoot(i)
       \/ Refuse(i) \/ Resume(i)
       \/ UploadBase(i) \/ ShipSegments(i) \/ NotDue(i) \/ SyncSideFiles(i) \/ WriteManifest(i)
       \/ Send(i) \/ Conflict(i) \/ TimesOut(i) \/ TenureEnds(i)
       \/ Retain(i) \/ Sweep(i)
  \/ \E r \in late : LandLate(r)

Spec == Init /\ [][Next]_vars

-----------------------------------------------------------------------------
(* Properties.                                                             *)

\* LATEST names a manifest, and every object it names is there with the content it
\* says: the newest restore point can be restored at any moment, between any two
\* requests of any worker (worker.rs: "`LATEST` names one of them").
LatestVerifies ==
  bucket.latest # NoKey => /\ Has(bucket.manifests, bucket.latest)
                       /\ Verifies(bucket, bucket.manifests[bucket.latest])

\* The same of every manifest, a parent lineage's included, as long as no request is
\* applied after its sender gave it up.
ManifestsVerify ==
  used.lates = 0 => \A s \in DOMAIN bucket.manifests : Verifies(bucket, bucket.manifests[s])

NewestNamed(b) == IF Newest(b) = {} THEN <<>> ELSE Named(CHOOSE m \in Newest(b) : TRUE)
NewestLog(b) == IF Newest(b) = {} THEN <<>> ELSE Restored(b, CHOOSE m \in Newest(b) : TRUE)

\* LATEST stays on one history: it never passes to a store that went another way, be it
\* a child of an older restore point, the parent of a child that went on, or a stranger.
OneHistory ==
  [][\/ IsPrefix(NewestNamed(bucket), NewestNamed(bucket'))
     \/ IsPrefix(NewestNamed(bucket'), NewestNamed(bucket))]_bucket

\* No write takes back what was backed up: what a restore of the newest restore point
\* gave, it still gives, whoever writes next.
BuriesNothing == [][IsPrefix(NewestLog(bucket), NewestLog(bucket'))]_bucket

\* The same where the store takes no snapshot between the start of a base upload and
\* the generation's first manifest, whatever is retried in between: of what the manifest
\* names, and with the segments after it where no request lands late and LATEST stays
\* with its lineage (a child's adoption compares no segment).
CalmlyBuriesNothing ==
  [][world.calm =>
       /\ IsPrefix(NewestNamed(bucket), NewestNamed(bucket'))
       /\ /\ used'.lates = 0
          /\ \A m \in Newest(bucket), n \in Newest(bucket') : m.lin = n.lin
          => IsPrefix(NewestLog(bucket), NewestLog(bucket'))]_bucket

\* A segment the worker has shipped is restored, in a manifest or after it.
ShippedIsRestored ==
  \A i \in Instances, m \in Newest(bucket) :
    holder = i /\ w[i].pc # "put" /\ w[i].cur # NoGen /\ w[i].cur.gen = m.gen /\ w[i].lin = m.lin
      => Len(NewestLog(bucket)) >= w[i].cur.pos

=============================================================================
