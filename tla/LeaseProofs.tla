---------------------------- MODULE LeaseProofs ----------------------------
(***************************************************************************)
(* Theorems about Lease, for any instances, TTLs, clocks, faults and       *)
(* numbers of late requests.                                               *)
(***************************************************************************)
EXTENDS Lease, TLAPS

\* Wall clocks are within a third of every TTL of each other, and no TTL is absurd.
SafeTtls == \A i \in Instance : 3 * MaxSkew <= Ttl[i] /\ Ttl[i] <= MaxSane

-----------------------------------------------------------------------------
(* The invariant of a service that honours conditional PUTs.               *)

Rec == [id : Instance, at : Nat, ttl : Nat]
Requests == [body : Rec \cup {NoLease}, match : Rec \cup {NoLease, Anything, ProbeTag}, age : Nat]

LeaseTyped ==
  /\ now \in Nat /\ skew \in [Instance -> 0..MaxSkew]
  /\ obj \in Rec \cup {NoLease}
  /\ pc \in [Instance -> Pc]
  /\ seen \in [Instance -> Rec \cup {NoLease}]
  /\ req \in [Instance -> Requests]
  /\ late \in SUBSET [by : Instance, req : Requests]
  /\ handle \in [Instance -> [version : Rec \cup {NoLease}, age : Nat]]

\* A record has its writer's TTL and a time that the writer's clock has shown.
RecTrue(rec) == rec # NoLease => rec.ttl = Ttl[rec.id] /\ rec.at <= Wall(rec.id)

\* Instance i may put its own record in the place of this one: there is none, it is its
\* own, or its TTL has passed on i's clock.
Replaceable(rec, i) == rec = NoLease \/ rec.id = i \/ Wall(i) >= rec.at + rec.ttl

\* A PUT of i carries a record of i, and names a version that i may replace; if that is i's
\* own it is no newer.
ReqTrue(r, i) ==
  /\ RecTrue(r.body)
  /\ r.body = NoLease => r.match \in {NoLease, Anything}
  /\ r.body # NoLease =>
       /\ r.body.id = i /\ r.match # Anything
       /\ r.match \in Rec => Replaceable(r.match, i) /\ (r.match.id = i => r.match.at <= r.body.at)

\* What an instance read and asks for.
Informed(i) == RecTrue(seen[i]) /\ Replaceable(seen[i], i) /\ ReqTrue(req[i], i)

\* What an instance is waiting for is the newest of its records, wherever the others are.
AwaitsNewest(i) ==
  req[i].body # NoLease =>
    /\ obj.id = i => obj.at <= req[i].body.at
    /\ \A m \in late : m.by = i /\ m.req.body # NoLease => m.req.body.at <= req[i].body.at

\* Its place in acquire, renew and release tells what it waits for and what it has.
Placed(i) ==
  /\ pc[i] \in {"acquiring", "probe_create", "probe_match", "renewing", "reconcile", "swapping"}
       => req[i].body # NoLease
  /\ pc[i] \in {"handback", "releasing"} => req[i].body = NoLease
  /\ RecTrue(handle[i].version)
  /\ handle[i].version # NoLease => handle[i].version.id = i

\* Until a holder's fence the object is the holder's, and as new as the holder knows.
Fenced(i) ==
  pc[i] \in Taken /\ Wall(i) < handle[i].version.at + Fence(i)
    => obj.id = i /\ handle[i].version.at <= obj.at

InstanceInv(i) == Informed(i) /\ AwaitsNewest(i) /\ Placed(i) /\ Fenced(i)

ServiceInv == RecTrue(obj) /\ \A m \in late : ReqTrue(m.req, m.by)

LeaseInv == LeaseTyped /\ ServiceInv /\ \A i \in Instance : InstanceInv(i)

\* The hypotheses of the theorems about such a service.
Sound == service = "conditional" /\ SafeTtls /\ "overtaken" \notin Faults

-----------------------------------------------------------------------------
(* Facts about the operators.                                              *)

\* The fence leaves room for the clocks to differ.
LEMMA FenceFacts ==
  ASSUME SafeTtls, NEW i \in Instance
  PROVE  Ttl[i] \in Nat /\ Fence(i) \in Nat /\ Fence(i) + MaxSkew <= Ttl[i]
<1>1. PICK n \in 1..10 : Ttl[i] = 3 * n
  BY LeaseAssumption
<1>2. Fence(i) = 2 * n
  BY <1>1 DEF Fence
<1> QED BY <1>1, <1>2, LeaseAssumption DEF SafeTtls

\* A record of a sane TTL is never suspect: no clock is that far ahead.
LEMMA NeverSuspect ==
  ASSUME LeaseTyped, SafeTtls, NEW rec \in Rec, RecTrue(rec), NEW i \in Instance
  PROVE  ~IsSuspect(rec, i)
<1>1. rec.id \in Instance /\ rec # NoLease /\ rec.at \in Nat /\ rec.ttl \in Nat
  BY LeaseAssumption DEF Rec, NoLease
<1>2. rec.ttl = Ttl[rec.id] /\ rec.at <= now + skew[rec.id]
  BY <1>1 DEF RecTrue, Wall
<1>3. now \in Nat /\ skew[rec.id] \in 0..MaxSkew /\ skew[i] \in 0..MaxSkew
  BY <1>1 DEF LeaseTyped
<1>4. 3 * MaxSkew <= rec.ttl /\ rec.ttl <= MaxSane /\ MaxSkew \in Nat
  BY <1>1, <1>2, LeaseAssumption DEF SafeTtls
<1> QED BY <1>1, <1>2, <1>3, <1>4, LeaseAssumption DEF IsSuspect, Wall

\* A reader that foreign_blocks lets through may replace what it read.
LEMMA NotBlocked ==
  ASSUME LeaseTyped, SafeTtls, RecTrue(obj), NEW i \in Instance, ~ForeignBlocks(obj, i)
  PROVE  Replaceable(obj, i)
<1>1. CASE obj = NoLease
  BY <1>1 DEF Replaceable
<1>2. CASE obj \in Rec
  <2>1. ~IsSuspect(obj, i)
    BY <1>2, NeverSuspect
  <2>2. obj.at \in Nat /\ obj.ttl \in Nat /\ Wall(i) \in Nat
    BY <1>2 DEF Rec, LeaseTyped, Wall
  <2> QED BY <2>1, <2>2 DEF ForeignBlocks, Replaceable, IsFresh
<1> QED BY <1>1, <1>2 DEF LeaseTyped

\* The service accepts a PUT only over the version it names.
LEMMA Swaps ==
  ASSUME service = "conditional", NEW r, Accepts(r)
  PROVE  r.match = Anything \/ r.match = obj
BY DEF Accepts

\* Where a request lands: nothing changes, or the lease is deleted in time, or a record of
\* the sender takes the place of one that it may replace.
LEMMA Landing ==
  ASSUME LeaseTyped, service = "conditional", "overtaken" \notin Faults,
         NEW i \in Instance, NEW r \in Requests, ReqTrue(r, i), InTime(r, i)
  PROVE  \/ Landed(r) = obj
         \/ Landed(r) = NoLease /\ (obj = NoLease \/ (obj.id = i /\ pc[i] \notin Taken))
         \/ /\ Landed(r) = r.body /\ r.body \in Rec /\ r.body.id = i
            /\ obj \in Rec => Replaceable(obj, i) /\ (obj.id = i => obj.at <= r.body.at)
<1>0. /\ r.body \in Rec \cup {NoLease} /\ r.match \in Rec \cup {NoLease, Anything, ProbeTag}
      /\ obj \in Rec \cup {NoLease}
  BY DEF Requests, LeaseTyped
<1>1. CASE ~Accepts(r)
  BY <1>1 DEF Landed
<1>2. CASE Accepts(r) /\ r.body = NoLease
  <2>1. Landed(r) = NoLease
    BY <1>2 DEF Landed
  <2>2. CASE r.match = obj
    <3>1. CASE r.match = Anything
      BY <1>0, <2>2, <3>1, LeaseAssumption DEF Rec, Anything, NoLease
    <3>2. CASE r.match # Anything /\ obj # NoLease
      BY <1>2, <2>1, <2>2, <3>2 DEF ReqTrue
    <3> QED BY <2>1, <3>1, <3>2
  <2>3. CASE r.match = Anything
    <3>1. obj.id = "none" \/ (obj.id = i /\ pc[i] \notin Taken)
      BY <1>2, <2>3 DEF InTime, IsDelete
    <3>2. obj.id = "none" => obj = NoLease
      BY <1>0, LeaseAssumption DEF Rec
    <3> QED BY <2>1, <3>1, <3>2
  <2> QED BY <1>2, <2>2, <2>3, Swaps
<1>3. CASE Accepts(r) /\ r.body # NoLease
  <2>1. r.body \in Rec /\ r.body.id = i /\ r.match # Anything /\ Landed(r) = r.body
    BY <1>0, <1>3 DEF ReqTrue, Landed
  <2>2. r.match = obj
    BY <1>3, <2>1, Swaps
  <2> QED BY <1>3, <2>1, <2>2 DEF ReqTrue
<1> QED BY <1>1, <1>2, <1>3

-----------------------------------------------------------------------------
(* The invariant holds at first, and every step keeps it.                  *)

\* No lease, no request.
LEMMA InitLeaseInv == Init => LeaseInv
<1> SUFFICES ASSUME Init PROVE LeaseInv
  OBVIOUS
<1>1. LeaseTyped
  BY DEF Init, LeaseTyped, Pc, Requests, NoReq, NoHandle
<1>2. ServiceInv
  BY DEF Init, ServiceInv, RecTrue
<1>3. \A i \in Instance : InstanceInv(i)
  BY DEF Init, InstanceInv, Informed, AwaitsNewest, Placed, Fenced, RecTrue, Replaceable, ReqTrue,
         NoReq, NoHandle, Taken, Holding
<1> QED BY <1>1, <1>2, <1>3 DEF LeaseInv

\* Until a holder's fence no other instance may replace its record: the record's TTL passes on
\* the other's clock after two thirds of it have passed on the holder's.
LEMMA NotReplaceable ==
  ASSUME LeaseInv, Sound, NEW j \in Instance, NEW i \in Instance, i # j,
         pc[j] \in Taken, Wall(j) < handle[j].version.at + Fence(j)
  PROVE  obj \in Rec /\ obj.id = j /\ handle[j].version.at <= obj.at /\ ~Replaceable(obj, i)
<1>0. LeaseTyped /\ ServiceInv /\ Fenced(j) /\ SafeTtls
  BY DEF LeaseInv, InstanceInv, Sound
<1>1. obj.id = j /\ handle[j].version.at <= obj.at
  BY <1>0 DEF Fenced
<1>2. obj \in Rec /\ obj # NoLease
  BY <1>0, <1>1, LeaseAssumption DEF LeaseTyped, NoLease
<1>3. obj.ttl = Ttl[j]
  BY <1>0, <1>1, <1>2 DEF ServiceInv, RecTrue
<1>4. Ttl[j] \in Nat /\ Fence(j) \in Nat /\ Fence(j) + MaxSkew <= Ttl[j] /\ MaxSkew \in Nat
  BY <1>0, FenceFacts, LeaseAssumption
<1>5. now \in Nat /\ skew[i] \in 0..MaxSkew /\ skew[j] \in 0..MaxSkew
  BY <1>0 DEF LeaseTyped
<1>6. obj.at \in Nat /\ handle[j].version.at \in Nat
  BY <1>0, <1>2 DEF Rec, LeaseTyped, NoLease
<1>7. now + skew[j] < handle[j].version.at + Fence(j)
  BY DEF Wall
<1>8. ~Replaceable(obj, i)
  BY <1>1, <1>2, <1>3, <1>4, <1>5, <1>6, <1>7 DEF Replaceable, Wall
<1> QED BY <1>1, <1>2, <1>8

\* A step of instance i, in which its request may land or be left behind, does not disturb
\* what is true of the service and of the others.
LEMMA OthersKept ==
  ASSUME LeaseInv, Sound, LeaseTyped', UNCHANGED <<now, skew>>, NEW i \in Instance,
         \A j \in Instance \ {i} : /\ req'[j] = req[j] /\ pc'[j] = pc[j]
                                   /\ seen'[j] = seen[j] /\ handle'[j] = handle[j],
         obj' = obj \/ (InTime(req[i], i) /\ obj' = Landed(req[i])),
         \A m \in late' \ late : m.by = i /\ m.req.body = req[i].body /\ m.req.match = req[i].match
  PROVE  ServiceInv' /\ \A j \in Instance \ {i} : InstanceInv(j)'
<1>0. /\ LeaseTyped /\ ServiceInv /\ \A j \in Instance : InstanceInv(j)
      /\ service = "conditional" /\ SafeTtls /\ "overtaken" \notin Faults
  BY DEF LeaseInv, Sound
<1>1. req[i] \in Requests /\ ReqTrue(req[i], i)
  BY <1>0 DEF LeaseTyped, InstanceInv, Informed
<1>2. \/ obj' = obj
      \/ obj' = NoLease /\ (obj = NoLease \/ (obj.id = i /\ pc[i] \notin Taken))
      \/ /\ obj' = req[i].body /\ obj' \in Rec /\ obj'.id = i
         /\ obj \in Rec => Replaceable(obj, i) /\ (obj.id = i => obj.at <= obj'.at)
  BY <1>0, <1>1, Landing
<1>3. RecTrue(obj)'
  BY <1>0, <1>1, <1>2 DEF RecTrue, ReqTrue, ServiceInv, Wall
<1>4. \A m \in late' : ReqTrue(m.req, m.by)'
  BY <1>0, <1>1 DEF ServiceInv, ReqTrue, RecTrue, Replaceable, Wall
<1>5. ASSUME NEW j \in Instance \ {i} PROVE InstanceInv(j)'
  <2>0. Informed(j) /\ AwaitsNewest(j) /\ Placed(j) /\ Fenced(j)
    BY <1>0 DEF InstanceInv
  <2>1. /\ req'[j] = req[j] /\ pc'[j] = pc[j] /\ seen'[j] = seen[j] /\ handle'[j] = handle[j]
        /\ now' = now /\ skew' = skew
    OBVIOUS
  <2>2. Informed(j)'
    BY <2>0, <2>1 DEF Informed, ReqTrue, RecTrue, Replaceable, Wall
  <2>3. AwaitsNewest(j)'
    BY <1>2, <2>0, <2>1, LeaseAssumption DEF AwaitsNewest, NoLease
  <2>4. Placed(j)'
    BY <2>0, <2>1 DEF Placed, RecTrue, Wall
  <2>5. Fenced(j)'
    <3> SUFFICES ASSUME pc[j] \in Taken, Wall(j) < handle[j].version.at + Fence(j)
                 PROVE  obj'.id = j /\ handle[j].version.at <= obj'.at
      BY <2>1 DEF Fenced, Wall
    <3>1. obj \in Rec /\ obj.id = j /\ handle[j].version.at <= obj.at /\ ~Replaceable(obj, i)
      BY NotReplaceable
    <3>2. obj # NoLease
      BY <3>1, LeaseAssumption DEF NoLease
    <3> QED BY <1>2, <3>1, <3>2
  <2> QED BY <2>2, <2>3, <2>4, <2>5 DEF InstanceInv
<1> QED BY <1>3, <1>4, <1>5 DEF ServiceInv

\* An instance that stops holding or acquiring, or asks for nothing but its record's deletion.
LEMMA LeavesInv ==
  ASSUME LeaseInv, Sound, UNCHANGED <<now, skew>>, NEW i \in Instance,
         NEW p \in Pc \ (Taken \cup {"acquiring"}), pc' = [pc EXCEPT ![i] = p],
         NEW q \in Requests, q.body = NoLease, q.match \in {NoLease, Anything},
         req' = [req EXCEPT ![i] = q],
         handle' = handle \/ handle' = [handle EXCEPT ![i] = NoHandle],
         seen' = seen \/ seen' = [seen EXCEPT ![i] = NoLease],
         obj' = obj \/ (InTime(req[i], i) /\ obj' = Landed(req[i])),
         late' \in SUBSET [by : Instance, req : Requests],
         \A m \in late' \ late : m.by = i /\ m.req.body = req[i].body /\ m.req.match = req[i].match
  PROVE  LeaseInv'
<1>0. LeaseTyped /\ ServiceInv /\ \A j \in Instance : InstanceInv(j)
  BY DEF LeaseInv
<1>1. obj' \in Rec \cup {NoLease}
  BY <1>0 DEF LeaseTyped, Landed, Requests
<1>2. handle' \in [Instance -> [version : Rec \cup {NoLease}, age : Nat]]
  BY <1>0 DEF LeaseTyped, NoHandle
<1>3. seen' \in [Instance -> Rec \cup {NoLease}]
  BY <1>0 DEF LeaseTyped
<1>4. LeaseTyped'
  BY <1>0, <1>1, <1>2, <1>3 DEF LeaseTyped
<1>5. \A j \in Instance \ {i} : /\ req'[j] = req[j] /\ pc'[j] = pc[j]
                                 /\ seen'[j] = seen[j] /\ handle'[j] = handle[j]
  BY <1>0 DEF LeaseTyped
<1>6. ServiceInv' /\ \A j \in Instance \ {i} : InstanceInv(j)'
  BY <1>4, <1>5, OthersKept
<1>7. InstanceInv(i)'
  <2>0. Informed(i) /\ Placed(i)
    BY <1>0 DEF InstanceInv
  <2>1. req'[i] = q /\ pc'[i] = p /\ now' = now /\ skew' = skew
    BY <1>0 DEF LeaseTyped
  <2>2. seen'[i] = seen[i] \/ seen'[i] = NoLease
    BY <1>0 DEF LeaseTyped
  <2>3. handle'[i] = handle[i] \/ handle'[i] = NoHandle
    BY <1>0 DEF LeaseTyped
  <2>4. Informed(i)'
    BY <2>0, <2>1, <2>2 DEF Informed, RecTrue, ReqTrue, Replaceable, Wall
  <2>5. AwaitsNewest(i)'
    BY <2>1 DEF AwaitsNewest
  <2>6. Placed(i)'
    BY <2>0, <2>1, <2>3 DEF Placed, RecTrue, NoHandle, Wall, Taken, Holding
  <2>7. Fenced(i)'
    BY <2>1 DEF Fenced
  <2> QED BY <2>4, <2>5, <2>6, <2>7 DEF InstanceInv
<1> QED BY <1>4, <1>6, <1>7 DEF LeaseInv

\* The kinds of step that leave.
LEMMA LeavingInv ==
  ASSUME LeaseInv, Sound, NEW i \in Instance,
         LostRace(i) \/ ProbeAccepted(i) \/ Lose(i) \/ Released(i) \/ ReleaseOwnRecord(i)
  PROVE  LeaseInv'
<1>0. LeaseTyped /\ Placed(i) /\ late \in SUBSET [by : Instance, req : Requests]
  BY DEF LeaseInv, InstanceInv, LeaseTyped
<1>1. NoReq \in Requests /\ NoReq.body = NoLease /\ NoReq.match \in {NoLease, Anything}
  BY DEF Requests, NoReq
<1>2. CASE LostRace(i)
  BY <1>0, <1>1, <1>2, LeavesInv DEF LostRace, Answered, clocks, Pc, Taken, Holding
<1>3. CASE ProbeAccepted(i)
  BY <1>0, <1>1, <1>3, LeavesInv DEF ProbeAccepted, Answered, clocks, Pc, Taken, Holding
<1>4. CASE Lose(i)
  BY <1>0, <1>1, <1>4, LeavesInv DEF Lose, Answered, clocks, Pc, Taken, Holding
<1>5. CASE Released(i)
  <2>1. PICK p \in {"idle", "stopped"} : pc' = [pc EXCEPT ![i] = p]
    BY <1>0, <1>5 DEF Released, LeaseTyped
  <2> QED BY <1>0, <1>1, <1>5, <2>1, LeavesInv DEF Released, Answered, clocks, Pc, Taken, Holding
<1>6. CASE ReleaseOwnRecord(i)
  <2>1. UNCHANGED <<now, skew, obj, late, seen, handle>>
    BY <1>6 DEF ReleaseOwnRecord, clocks
  <2>2. PICK p \in {"idle", "stopped", "returning", "deleting"} : pc' = [pc EXCEPT ![i] = p]
    BY <1>0, <1>6 DEF ReleaseOwnRecord, LeaseTyped
  <2>3. CASE obj.id = i
    <3>1. PICK q : q = Request(NoLease, Anything, Fence(i))
      OBVIOUS
    <3>2. q \in Requests /\ q.body = NoLease /\ q.match = Anything
      <4>1. Fence(i) \in Nat
        BY FenceFacts DEF Sound
      <4> QED BY <3>1, <4>1 DEF Request, Requests
    <3>3. req' = [req EXCEPT ![i] = q]
      BY <1>6, <2>3, <3>1 DEF ReleaseOwnRecord
    <3> QED BY <1>0, <2>1, <2>2, <3>2, <3>3, LeavesInv DEF Pc, Taken, Holding
  <2>4. CASE obj.id # i
    <3>1. PICK q \in Requests : q = req[i]
      BY <1>0 DEF LeaseTyped
    <3>2. q.body = NoLease /\ q.match \in {NoLease, Anything}
      <4>1. req[i].body = NoLease
        BY <1>0, <1>6 DEF Placed, ReleaseOwnRecord
      <4>2. ReqTrue(req[i], i)
        BY DEF LeaseInv, InstanceInv, Informed
      <4> QED BY <3>1, <4>1, <4>2 DEF ReqTrue
    <3>3. req' = [req EXCEPT ![i] = q]
      BY <1>0, <1>6, <2>4, <3>1 DEF ReleaseOwnRecord, LeaseTyped
    <3> QED BY <1>0, <2>1, <2>2, <3>2, <3>3, LeavesInv DEF Pc, Taken, Holding
  <2> QED BY <2>3, <2>4
<1> QED BY <1>2, <1>3, <1>4, <1>5, <1>6

\* A sender that stops waiting: its request is lost, has landed, or is among the late ones.
LEMMA AbandonFacts ==
  ASSUME LeaseTyped, NEW i \in Instance, Abandon(i)
  PROVE  /\ req' = [req EXCEPT ![i] = NoReq]
         /\ obj' = obj \/ (InTime(req[i], i) /\ obj' = Landed(req[i]))
         /\ late' \in SUBSET [by : Instance, req : Requests]
         /\ \A m \in late' \ late : m.by = i /\ m.req.body = req[i].body /\ m.req.match = req[i].match
<1>1. req' = [req EXCEPT ![i] = NoReq] /\ (obj' = obj \/ (InTime(req[i], i) /\ obj' = Landed(req[i])))
  BY DEF Abandon
<1>2. PICK q \in Requests : /\ q = [req[i] EXCEPT !.age = 0]
                            /\ q.body = req[i].body /\ q.match = req[i].match
  <2>1. PICK w \in Requests : w = req[i]
    BY DEF LeaseTyped
  <2>2. [w EXCEPT !.age = 0] \in Requests
    BY DEF Requests
  <2>3. [w EXCEPT !.age = 0].body = w.body /\ [w EXCEPT !.age = 0].match = w.match
    BY DEF Requests
  <2> QED BY <2>1, <2>2, <2>3
<1>3. late' = late \/ late' = late \cup {[by |-> i, req |-> q]}
  BY <1>2 DEF Abandon
<1>4. PICK m \in [by : Instance, req : Requests] : m = [by |-> i, req |-> q]
  BY <1>2
<1>5. m.by = i /\ m.req.body = req[i].body /\ m.req.match = req[i].match
  BY <1>2, <1>4
<1>6. late \in SUBSET [by : Instance, req : Requests]
  BY DEF LeaseTyped
<1> QED BY ONLY <1>1, <1>3, <1>4, <1>5, <1>6

\* Timeouts of what is not a renewal, shutdown and crash.
LEMMA AbandoningInv ==
  ASSUME LeaseInv, Sound, NEW i \in Instance,
         \/ Timeout(i) /\ pc[i] \notin {"renewing", "swapping"}
         \/ Shutdown(i) \/ Crash(i)
  PROVE  LeaseInv'
<1>0. LeaseTyped
  BY DEF LeaseInv
<1>1. NoReq \in Requests /\ NoReq.body = NoLease /\ NoReq.match \in {NoLease, Anything}
  BY DEF Requests, NoReq
<1>2. /\ req' = [req EXCEPT ![i] = NoReq]
      /\ obj' = obj \/ (InTime(req[i], i) /\ obj' = Landed(req[i]))
      /\ late' \in SUBSET [by : Instance, req : Requests]
      /\ \A m \in late' \ late : m.by = i /\ m.req.body = req[i].body /\ m.req.match = req[i].match
  BY <1>0, AbandonFacts DEF Timeout, Shutdown, Crash
<1>3. PICK p \in {"idle", "stopped", "releasing"} : pc' = [pc EXCEPT ![i] = p]
  BY <1>0 DEF Timeout, Shutdown, Crash, LeaseTyped
<1>4. /\ handle' = handle \/ handle' = [handle EXCEPT ![i] = NoHandle]
      /\ seen' = seen \/ seen' = [seen EXCEPT ![i] = NoLease]
      /\ UNCHANGED <<now, skew>>
  BY DEF Timeout, Shutdown, Crash, clocks
<1>5. p \in Pc \ (Taken \cup {"acquiring"})
  BY <1>3 DEF Pc, Taken, Holding
<1> HIDE DEF Pc
<1> QED BY <1>1, <1>2, <1>3, <1>4, <1>5, LeavesInv

\* A request of i's own that lands and is answered, or not: its record is in the bucket.
LEMMA OwnLanded ==
  ASSUME LeaseInv, Sound, NEW i \in Instance, req[i].body # NoLease, Accepts(req[i])
  PROVE  Landed(req[i]) = req[i].body /\ req[i].body \in Rec /\ req[i].body.id = i
BY DEF LeaseInv, InstanceInv, Informed, ReqTrue, Landed, LeaseTyped, Requests

\* acquire reads what it may replace.
LEMMA ReadLeaseInv ==
  ASSUME LeaseInv, Sound, NEW i \in Instance, ReadLease(i)
  PROVE  LeaseInv'
<1>0. /\ LeaseTyped /\ RecTrue(obj) /\ Informed(i) /\ AwaitsNewest(i) /\ Placed(i) /\ SafeTtls
  BY DEF LeaseInv, ServiceInv, InstanceInv, Sound
<1>1. /\ pc' = [pc EXCEPT ![i] = "checked"] /\ seen' = [seen EXCEPT ![i] = obj]
      /\ UNCHANGED <<now, skew, obj, late, req, handle>> /\ ~ForeignBlocks(obj, i)
  BY DEF ReadLease, clocks
<1>2. Replaceable(obj, i)
  BY <1>0, <1>1, NotBlocked
<1>3. LeaseTyped'
  BY <1>0, <1>1 DEF LeaseTyped, Pc
<1>4. pc'[i] = "checked" /\ seen'[i] = obj
  BY <1>0, <1>1 DEF LeaseTyped
<1>5. \A j \in Instance \ {i} : /\ req'[j] = req[j] /\ pc'[j] = pc[j]
                                 /\ seen'[j] = seen[j] /\ handle'[j] = handle[j]
  BY <1>0, <1>1 DEF LeaseTyped
<1>6. ServiceInv' /\ \A j \in Instance \ {i} : InstanceInv(j)'
  BY <1>1, <1>3, <1>5, OthersKept
<1>7. Informed(i)'
  BY <1>0, <1>1, <1>2, <1>4 DEF Informed, RecTrue, ReqTrue, Replaceable, Wall
<1>8. AwaitsNewest(i)' /\ Placed(i)' /\ Fenced(i)'
  BY <1>0, <1>1, <1>4 DEF AwaitsNewest, Placed, Fenced, RecTrue, Wall, Taken, Holding
<1> QED BY <1>3, <1>6, <1>7, <1>8 DEF LeaseInv, InstanceInv

\* A stamp is the sender's own, and newer than any it made before.
LEMMA StampedFacts ==
  ASSUME LeaseTyped, SafeTtls, NEW i \in Instance
  PROVE  /\ Stamped(i) \in Rec /\ Stamped(i) # NoLease /\ RecTrue(Stamped(i))
         /\ Stamped(i).id = i /\ Stamped(i).at = Wall(i) /\ Stamped(i).ttl = Ttl[i]
<1>1. Wall(i) \in Nat /\ Ttl[i] \in Nat
  BY FenceFacts, LeaseAssumption DEF Wall, LeaseTyped
<1>2. PICK w \in Nat : w = Wall(i)
  BY <1>1
<1>3. Stamped(i) = [id |-> i, at |-> w, ttl |-> Ttl[i]]
  BY <1>2 DEF Stamped
<1>4. Stamped(i) \in Rec /\ Stamped(i) # NoLease
  BY <1>1, <1>3, LeaseAssumption DEF Rec, NoLease
<1> QED BY <1>1, <1>2, <1>3, <1>4 DEF RecTrue

\* acquire and renew send a new stamp over a version that the sender may replace.
LEMMA SendsInv ==
  ASSUME LeaseInv, Sound, NEW i \in Instance, NEW p \in Pc, pc' = [pc EXCEPT ![i] = p],
         NEW v \in Rec \cup {NoLease}, RecTrue(v), Replaceable(v, i),
         req' = [req EXCEPT ![i] = Request(Stamped(i), v, 0)],
         seen' = seen \/ seen' = [seen EXCEPT ![i] = NoLease],
         p \in {"acquiring", "renewing"}, p \in Taken => pc[i] \in Taken,
         UNCHANGED <<now, skew, obj, late, handle>>
  PROVE  LeaseInv'
<1>0. /\ LeaseTyped /\ ServiceInv /\ Informed(i) /\ AwaitsNewest(i) /\ Placed(i) /\ Fenced(i) /\ SafeTtls
  BY DEF LeaseInv, InstanceInv, Sound
<1>1. PICK stamp \in Rec : /\ stamp = Stamped(i) /\ stamp # NoLease /\ RecTrue(stamp)
                           /\ stamp.id = i /\ stamp.at = Wall(i)
  BY <1>0, StampedFacts
<1>2. PICK q \in Requests : /\ q = Request(Stamped(i), v, 0)
                            /\ q.body = stamp /\ q.match = v
  <2>1. PICK q : q = Request(stamp, v, 0)
    OBVIOUS
  <2>2. q \in Requests /\ q.body = stamp /\ q.match = v
    BY <2>1 DEF Request, Requests
  <2> QED BY <1>1, <2>1, <2>2
<1>3. LeaseTyped'
  BY <1>0, <1>2 DEF LeaseTyped
<1>4. req'[i] = q /\ pc'[i] = p /\ (seen'[i] = seen[i] \/ seen'[i] = NoLease)
  BY <1>0, <1>2 DEF LeaseTyped
<1>5. \A j \in Instance \ {i} : /\ req'[j] = req[j] /\ pc'[j] = pc[j]
                                 /\ seen'[j] = seen[j] /\ handle'[j] = handle[j]
  BY <1>0 DEF LeaseTyped
<1>6. ServiceInv' /\ \A j \in Instance \ {i} : InstanceInv(j)'
  BY <1>3, <1>5, OthersKept
<1>7. Informed(i)'
  <2>1. RecTrue(seen[i])' /\ Replaceable(seen[i], i)'
    BY <1>0, <1>4 DEF Informed, RecTrue, Replaceable, Wall
  <2>2. v.id = i /\ v # NoLease => v.at <= stamp.at
    BY <1>1 DEF RecTrue
  <2>3. v # Anything /\ (v \in Rec => v # NoLease)
    BY LeaseAssumption DEF Rec, NoLease, Anything
  <2>4. ReqTrue(req[i], i)'
    BY <1>1, <1>2, <1>4, <2>2, <2>3 DEF ReqTrue, RecTrue, Replaceable, Wall
  <2> QED BY <2>1, <2>4 DEF Informed
<1>8. AwaitsNewest(i)'
  <2>1. obj.id = i => obj.at <= Wall(i)
    BY <1>0, LeaseAssumption DEF ServiceInv, RecTrue, LeaseTyped, NoLease
  <2>2. \A m \in late : m.by = i /\ m.req.body # NoLease => m.req.body.at <= Wall(i)
    BY <1>0 DEF ServiceInv, ReqTrue, RecTrue
  <2> QED BY <1>1, <1>2, <1>4, <2>1, <2>2 DEF AwaitsNewest
<1>9. Placed(i)'
  BY <1>0, <1>1, <1>2, <1>4 DEF Placed, RecTrue, Wall
<1>10. Fenced(i)'
  BY <1>0, <1>4 DEF Fenced, Wall
<1> QED BY <1>3, <1>6, <1>7, <1>8, <1>9, <1>10 DEF LeaseInv, InstanceInv

\* The PUT of acquire, and the renewal.
LEMMA SendingInv ==
  ASSUME LeaseInv, Sound, NEW i \in Instance, PutLease(i) \/ Renew(i)
  PROVE  LeaseInv'
<1>0. LeaseTyped /\ Informed(i) /\ Placed(i) /\ service = "conditional"
  BY DEF LeaseInv, InstanceInv, Sound
<1>1. CASE PutLease(i)
  <2>1. PICK v \in Rec \cup {NoLease} : v = seen[i] /\ RecTrue(v) /\ Replaceable(v, i)
    BY <1>0 DEF LeaseTyped, Informed
  <2> QED BY <1>0, <1>1, <2>1, SendsInv DEF PutLease, clocks, Pc, Taken, Holding
<1>2. CASE Renew(i)
  <2>1. PICK v \in Rec \cup {NoLease} : v = handle[i].version /\ RecTrue(v) /\ Replaceable(v, i)
    BY <1>0 DEF LeaseTyped, Placed, Replaceable
  <2> QED BY <1>0, <1>2, <2>1, SendsInv DEF Renew, clocks, Pc, Taken, Holding
<1> QED BY <1>1, <1>2

\* A PUT of i's that landed and was answered: i has the lease until its fence.
LEMMA ObtainsInv ==
  ASSUME LeaseInv, Sound, NEW i \in Instance, req[i].body # NoLease, Accepts(req[i]),
         InTime(req[i], i), obj' = Landed(req[i]),
         handle' = [handle EXCEPT ![i] = [version |-> req[i].body, age |-> req[i].age]],
         NEW p \in {"probe_create", "held"}, pc' = [pc EXCEPT ![i] = p],
         NEW q \in Requests, req' = [req EXCEPT ![i] = q],
         \/ p = "held" /\ q = NoReq
         \/ p = "probe_create" /\ q.body = req[i].body /\ q.match = NoLease,
         UNCHANGED <<now, skew, late, seen>>
  PROVE  LeaseInv'
<1>0. /\ LeaseTyped /\ ServiceInv /\ Informed(i) /\ AwaitsNewest(i)
  BY DEF LeaseInv, InstanceInv
<1>1. PICK rec \in Rec : rec = req[i].body /\ rec.id = i /\ obj' = rec /\ RecTrue(rec) /\ rec # NoLease
  BY <1>0, OwnLanded DEF Informed, ReqTrue
<1>2. PICK h \in [version : Rec \cup {NoLease}, age : Nat] :
        h = [version |-> req[i].body, age |-> req[i].age] /\ h.version = rec
  <2>1. PICK n \in Nat : n = req[i].age
    BY <1>0 DEF LeaseTyped, Requests
  <2>2. /\ [version |-> rec, age |-> n] \in [version : Rec \cup {NoLease}, age : Nat]
        /\ [version |-> rec, age |-> n].version = rec
    OBVIOUS
  <2> QED BY <1>1, <2>1, <2>2
<1>3. LeaseTyped'
  BY <1>0, <1>1, <1>2 DEF LeaseTyped, Pc
<1>4. req'[i] = q /\ pc'[i] = p /\ handle'[i] = h /\ seen'[i] = seen[i]
  BY <1>0, <1>2 DEF LeaseTyped
<1>5. \A j \in Instance \ {i} : /\ req'[j] = req[j] /\ pc'[j] = pc[j]
                                 /\ seen'[j] = seen[j] /\ handle'[j] = handle[j]
  BY <1>0 DEF LeaseTyped
<1>6. ServiceInv' /\ \A j \in Instance \ {i} : InstanceInv(j)'
  BY <1>3, <1>5, OthersKept
<1>a. q.body \in {rec, NoLease} /\ q.match = NoLease /\ (p = "probe_create" => q.body = rec)
  BY <1>1 DEF NoReq
<1>b. NoLease \notin Rec /\ NoLease # Anything
  BY LeaseAssumption DEF Rec, NoLease, Anything
<1>c. now' = now /\ skew' = skew /\ late' = late
  OBVIOUS
<1>7. Informed(i)'
  BY ONLY <1>0, <1>1, <1>4, <1>a, <1>b, <1>c DEF Informed, RecTrue, ReqTrue, Replaceable, Wall
<1>8. AwaitsNewest(i)'
  <2>1. obj'.at <= rec.at
    BY <1>1 DEF Rec
  <2>2. \A m \in late : m.by = i /\ m.req.body # NoLease => m.req.body.at <= rec.at
    BY <1>0, <1>1 DEF AwaitsNewest
  <2> QED BY ONLY <1>1, <1>4, <1>a, <1>c, <2>1, <2>2 DEF AwaitsNewest
<1>9. Placed(i)'
  BY ONLY <1>1, <1>2, <1>4, <1>a, <1>c, p \in {"probe_create", "held"} DEF Placed, RecTrue, Wall
<1>10. Fenced(i)'
  BY ONLY <1>1, <1>2, <1>4 DEF Fenced, Rec
<1> QED BY <1>3, <1>6, <1>7, <1>8, <1>9, <1>10 DEF LeaseInv, InstanceInv

\* acquire's PUT, and a renewal, answered.
LEMMA ObtainingInv ==
  ASSUME LeaseInv, Sound, NEW i \in Instance, Acquired(i) \/ Renewed(i)
  PROVE  LeaseInv'
<1>0. LeaseTyped /\ Placed(i) /\ service = "conditional" /\ Informed(i)
  BY DEF LeaseInv, InstanceInv, Sound
<1>1. req[i].body # NoLease
  BY <1>0 DEF Placed, Acquired, Renewed
<1>2. CASE Acquired(i)
  <2>1. PICK q : q = Request(req[i].body, NoLease, Fence(i))
    OBVIOUS
  <2>2. q \in Requests /\ q.body = req[i].body /\ q.match = NoLease
    <3>1. Fence(i) \in Nat
      BY FenceFacts DEF Sound
    <3>2. PICK b \in Rec \cup {NoLease} : b = req[i].body
      BY <1>0 DEF LeaseTyped, Requests
    <3> QED BY <2>1, <3>1, <3>2 DEF Request, Requests
  <2> QED BY <1>0, <1>1, <1>2, <2>1, <2>2, ObtainsInv DEF Acquired, Answered, clocks
<1>3. CASE Renewed(i)
  <2>1. NoReq \in Requests
    BY DEF Requests, NoReq
  <2> QED BY <1>0, <1>1, <1>3, <2>1, ObtainsInv DEF Renewed, Answered, clocks
<1> QED BY <1>2, <1>3

\* A request that was refused changes nothing in the bucket; the client stays where it has the
\* lease, and keeps its record for the next request.
LEMMA StaysInv ==
  ASSUME LeaseInv, Sound, NEW i \in Instance, pc[i] \in Taken,
         NEW p \in Taken, pc' = [pc EXCEPT ![i] = p],
         NEW q \in Requests, req' = [req EXCEPT ![i] = q],
         q.body \in {req[i].body, NoLease}, p # "held" => q.body # NoLease,
         q.body = NoLease => q.match \in {NoLease, Anything},
         q.match = req[i].match \/ q.match \in {NoLease, ProbeTag} \/ (q.match = obj /\ obj.id = i),
         UNCHANGED <<now, skew, obj, late, seen, handle>>
  PROVE  LeaseInv'
<1>0. /\ LeaseTyped /\ ServiceInv /\ Informed(i) /\ AwaitsNewest(i) /\ Placed(i) /\ Fenced(i)
  BY DEF LeaseInv, InstanceInv
<1>3. LeaseTyped'
  BY <1>0 DEF LeaseTyped, Pc, Taken, Holding
<1>4. req'[i] = q /\ pc'[i] = p
  BY <1>0 DEF LeaseTyped
<1>5. \A j \in Instance \ {i} : /\ req'[j] = req[j] /\ pc'[j] = pc[j]
                                 /\ seen'[j] = seen[j] /\ handle'[j] = handle[j]
  BY <1>0 DEF LeaseTyped
<1>6. ServiceInv' /\ \A j \in Instance \ {i} : InstanceInv(j)'
  BY <1>3, <1>5, OthersKept
<1>a. NoLease \notin Rec /\ ProbeTag \notin Rec /\ NoLease # Anything /\ ProbeTag # Anything
      /\ Anything \notin Rec
  BY LeaseAssumption DEF Rec, NoLease, Anything, ProbeTag
<1>b. now' = now /\ skew' = skew /\ late' = late /\ obj' = obj /\ seen' = seen /\ handle' = handle
  OBVIOUS
<1>7. Informed(i)'
  <2>1. RecTrue(seen[i])' /\ Replaceable(seen[i], i)'
    BY ONLY <1>0, <1>b DEF Informed, RecTrue, Replaceable, Wall
  <2>2. CASE q.body = NoLease
    BY ONLY <1>4, <2>1, <2>2, q.body = NoLease => q.match \in {NoLease, Anything}
    DEF Informed, RecTrue, ReqTrue
  <2>3. CASE q.body = req[i].body /\ q.body # NoLease
    <3>1. RecTrue(q.body) /\ q.body.id = i
      BY <1>0, <2>3 DEF Informed, ReqTrue
    <3>2. q.match # Anything
      BY <1>0, <1>a, <2>3 DEF Informed, ReqTrue, LeaseTyped
    <3>3. q.match \in Rec => Replaceable(q.match, i) /\ (q.match.id = i => q.match.at <= q.body.at)
      <4>1. CASE q.match = req[i].match
        BY ONLY <1>0, <2>3, <4>1 DEF Informed, ReqTrue
      <4>2. CASE q.match \in {NoLease, ProbeTag}
        BY <1>a, <4>2
      <4>3. CASE q.match = obj /\ obj.id = i
        BY <1>0, <2>3, <4>3 DEF AwaitsNewest, Replaceable
      <4> QED BY <4>1, <4>2, <4>3
    <3> QED BY ONLY <1>4, <1>b, <2>1, <2>3, <3>1, <3>2, <3>3
            DEF Informed, ReqTrue, RecTrue, Replaceable, Wall
  <2> QED BY <2>2, <2>3
<1>8. AwaitsNewest(i)'
  BY <1>0, <1>4, <1>b DEF AwaitsNewest
<1>9. Placed(i)'
  BY <1>0, <1>4, <1>b DEF Placed, RecTrue, Wall, Taken, Holding
<1>10. Fenced(i)'
  BY <1>0, <1>4, <1>b DEF Fenced, Wall
<1> QED BY <1>3, <1>6, <1>7, <1>8, <1>9, <1>10 DEF LeaseInv, InstanceInv

\* The probes and a renewal refused, and the second swap of reconcile.
LEMMA StayingInv ==
  ASSUME LeaseInv, Sound, NEW i \in Instance,
         ProbeCreateRefused(i) \/ ProbeMatchRefused(i) \/ RenewRefused(i) \/ Reconcile(i)
  PROVE  LeaseInv'
<1>0. LeaseTyped /\ Placed(i) /\ Informed(i)
  BY DEF LeaseInv, InstanceInv
<1>1. PICK w \in Requests : w = req[i] /\ (w.body = NoLease => w.match \in {NoLease, Anything})
  BY <1>0 DEF LeaseTyped, Informed, ReqTrue
<1>2. PICK b \in Rec \cup {NoLease} : b = w.body
  BY DEF Requests
<1>3. UNCHANGED <<now, skew, obj, late, seen, handle>>
  BY DEF ProbeCreateRefused, ProbeMatchRefused, RenewRefused, Reconcile, clocks, Answered, Landed
<1>4. CASE ProbeCreateRefused(i)
  <2>1. PICK q : q = Request(b, ProbeTag, Fence(i))
    OBVIOUS
  <2>2. q \in Requests /\ q.body = b /\ q.match = ProbeTag
    <3>1. Fence(i) \in Nat
      BY FenceFacts DEF Sound
    <3> QED BY <2>1, <3>1 DEF Request, Requests
  <2>3. b # NoLease
    BY <1>0, <1>1, <1>2, <1>4 DEF Placed, ProbeCreateRefused
  <2>4. /\ pc[i] = "probe_create" /\ pc' = [pc EXCEPT ![i] = "probe_match"]
        /\ req' = [req EXCEPT ![i] = q]
    BY <1>1, <1>2, <1>4, <2>1 DEF ProbeCreateRefused
  <2> QED BY <1>1, <1>2, <1>3, <2>2, <2>3, <2>4, StaysInv DEF Taken
<1>5. CASE ProbeMatchRefused(i)
  <2>1. NoReq \in Requests /\ NoReq.body = NoLease /\ NoReq.match = NoLease
    BY DEF Requests, NoReq
  <2> QED BY <1>3, <1>5, <2>1, StaysInv DEF ProbeMatchRefused, Taken, Holding
<1>6. CASE RenewRefused(i)
  <2>1. req' = [req EXCEPT ![i] = w] /\ pc[i] = "renewing" /\ pc' = [pc EXCEPT ![i] = "reconcile"]
    BY <1>0, <1>1, <1>6 DEF RenewRefused, LeaseTyped
  <2>2. w.body # NoLease
    BY <1>0, <1>1, <2>1 DEF Placed
  <2> QED BY <1>1, <1>3, <2>1, <2>2, StaysInv DEF Taken, Holding
<1>7. CASE Reconcile(i)
  <2>1. PICK v \in Rec \cup {NoLease} : v = obj
    BY <1>0 DEF LeaseTyped
  <2>2. PICK q : q = [w EXCEPT !.match = v]
    OBVIOUS
  <2>3. q \in Requests /\ q.body = w.body /\ q.match = v
    BY <2>2 DEF Requests
  <2>4. /\ req' = [req EXCEPT ![i] = q] /\ pc[i] = "reconcile" /\ obj.id = i
        /\ pc' = [pc EXCEPT ![i] = "swapping"]
    BY <1>0, <1>1, <1>7, <2>1, <2>2 DEF Reconcile, LeaseTyped
  <2>5. w.body # NoLease
    BY <1>0, <1>1, <2>4 DEF Placed
  <2> QED BY <1>1, <1>3, <2>1, <2>3, <2>4, <2>5, StaysInv DEF Taken, Holding
<1> QED BY <1>4, <1>5, <1>6, <1>7

\* A renewal that timed out: the lease is as it was, or newer than the holder knows.
LEMMA RenewalTimeoutInv ==
  ASSUME LeaseInv, Sound, NEW i \in Instance, Timeout(i), pc[i] \in {"renewing", "swapping"}
  PROVE  LeaseInv'
<1>0. /\ LeaseTyped /\ ServiceInv /\ Informed(i) /\ Placed(i) /\ Fenced(i)
      /\ service = "conditional" /\ "overtaken" \notin Faults
  BY DEF LeaseInv, InstanceInv, Sound
<1>1. /\ req' = [req EXCEPT ![i] = NoReq]
      /\ obj' = obj \/ (InTime(req[i], i) /\ obj' = Landed(req[i]))
      /\ late' \in SUBSET [by : Instance, req : Requests]
      /\ \A m \in late' \ late : m.by = i /\ m.req.body = req[i].body /\ m.req.match = req[i].match
  BY <1>0, AbandonFacts DEF Timeout
<1>2. /\ pc' = [pc EXCEPT ![i] = "held"] /\ handle' = handle /\ UNCHANGED <<now, skew, seen>>
  BY <1>0 DEF Timeout, clocks, LeaseTyped
<1>3. LeaseTyped'
  <2>1. obj' \in Rec \cup {NoLease}
    BY <1>0, <1>1 DEF LeaseTyped, Landed, Requests
  <2>2. NoReq \in Requests
    BY DEF Requests, NoReq
  <2> QED BY <1>0, <1>1, <1>2, <2>1, <2>2 DEF LeaseTyped, Pc
<1>4. req'[i] = NoReq /\ pc'[i] = "held"
  BY <1>0, <1>1, <1>2 DEF LeaseTyped
<1>5. \A j \in Instance \ {i} : /\ req'[j] = req[j] /\ pc'[j] = pc[j]
                                 /\ seen'[j] = seen[j] /\ handle'[j] = handle[j]
  BY <1>0, <1>1, <1>2 DEF LeaseTyped
<1>6. ServiceInv' /\ \A j \in Instance \ {i} : InstanceInv(j)'
  BY <1>1, <1>2, <1>3, <1>5, OthersKept
<1>7. Informed(i)' /\ AwaitsNewest(i)' /\ Placed(i)'
  BY <1>0, <1>2, <1>4 DEF Informed, AwaitsNewest, Placed, RecTrue, ReqTrue, Replaceable, Wall, NoReq
<1>8. Fenced(i)'
  <2> SUFFICES ASSUME Wall(i) < handle[i].version.at + Fence(i)
               PROVE  obj'.id = i /\ handle[i].version.at <= obj'.at
    BY <1>2 DEF Fenced, Wall
  <2>1. pc[i] \in Taken
    BY DEF Taken, Holding
  <2>2. obj.id = i /\ handle[i].version.at <= obj.at
    BY <1>0, <2>1 DEF Fenced
  <2>3. obj \in Rec /\ obj # NoLease
    BY <1>0, <2>2, LeaseAssumption DEF LeaseTyped, NoLease
  <2>4. req[i] \in Requests /\ ReqTrue(req[i], i)
    BY <1>0 DEF LeaseTyped, Informed
  <2>5. \/ obj' = obj
        \/ obj' = NoLease /\ (obj = NoLease \/ (obj.id = i /\ pc[i] \notin Taken))
        \/ /\ obj' = req[i].body /\ obj' \in Rec /\ obj'.id = i
           /\ obj \in Rec => Replaceable(obj, i) /\ (obj.id = i => obj.at <= obj'.at)
    BY <1>0, <1>1, <2>4, Landing
  <2>6. handle[i].version.at \in Nat /\ obj.at \in Nat
    BY <1>0, <2>3 DEF LeaseTyped, Rec, NoLease
  <2>7. CASE obj' # obj
    <3>1. obj' \in Rec /\ obj'.id = i /\ obj.at <= obj'.at
      BY ONLY <2>1, <2>2, <2>3, <2>5, <2>7
    <3> QED BY <2>2, <2>6, <3>1 DEF Rec
  <2> QED BY <2>2, <2>7
<1> QED BY <1>3, <1>6, <1>7, <1>8 DEF LeaseInv, InstanceInv

\* A request lands whose sender no longer waits for it.
LEMMA LandLateInv ==
  ASSUME LeaseInv, Sound, NEW m \in late, LandLate(m)
  PROVE  LeaseInv'
<1>0. /\ LeaseTyped /\ ServiceInv /\ \A j \in Instance : InstanceInv(j)
      /\ service = "conditional" /\ "overtaken" \notin Faults
  BY DEF LeaseInv, Sound
<1>1. PICK i \in Instance : i = m.by
  BY <1>0 DEF LeaseTyped
<1>2. PICK r \in Requests : r = m.req
  BY <1>0 DEF LeaseTyped
<1>3. ReqTrue(r, i) /\ InTime(r, i) /\ obj' = Landed(r)
  BY <1>0, <1>1, <1>2 DEF ServiceInv, LandLate
<1>4. late' \subseteq late /\ UNCHANGED <<now, skew, pc, seen, req, handle>>
  BY DEF LandLate, clocks
<1>5. \/ obj' = obj
      \/ obj' = NoLease /\ (obj = NoLease \/ (obj.id = i /\ pc[i] \notin Taken))
      \/ /\ obj' = r.body /\ obj' \in Rec /\ obj'.id = i
         /\ obj \in Rec => Replaceable(obj, i) /\ (obj.id = i => obj.at <= obj'.at)
  BY <1>0, <1>3, Landing
<1>6. LeaseTyped'
  BY <1>0, <1>4, <1>5 DEF LeaseTyped
<1>7. ServiceInv'
  <2>1. RecTrue(obj)'
    BY <1>0, <1>3, <1>4, <1>5 DEF RecTrue, ReqTrue, ServiceInv, Wall
  <2>2. \A n \in late' : ReqTrue(n.req, n.by)'
    BY <1>0, <1>4 DEF ServiceInv, ReqTrue, RecTrue, Replaceable, Wall
  <2> QED BY <2>1, <2>2 DEF ServiceInv
<1>8. ASSUME NEW j \in Instance PROVE InstanceInv(j)'
  <2>0. Informed(j) /\ AwaitsNewest(j) /\ Placed(j) /\ Fenced(j)
    BY <1>0 DEF InstanceInv
  <2>1. Informed(j)' /\ Placed(j)'
    BY <1>4, <2>0 DEF Informed, Placed, ReqTrue, RecTrue, Replaceable, Wall
  <2>2. AwaitsNewest(j)'
    <3> SUFFICES ASSUME req[j].body # NoLease
                 PROVE  /\ obj'.id = j => obj'.at <= req[j].body.at
                        /\ \A n \in late' : n.by = j /\ n.req.body # NoLease
                                              => n.req.body.at <= req[j].body.at
      BY <1>4 DEF AwaitsNewest
    <3>1. obj.id = j => obj.at <= req[j].body.at
      BY <2>0 DEF AwaitsNewest
    <3>2. \A n \in late : n.by = j /\ n.req.body # NoLease => n.req.body.at <= req[j].body.at
      BY <2>0 DEF AwaitsNewest
    <3>3. obj' = r.body /\ obj'.id = j /\ obj' \in Rec => i = j /\ r.body # NoLease
      BY <1>3, LeaseAssumption DEF ReqTrue, NoLease, Rec
    <3>4. NoLease.id # j
      BY LeaseAssumption DEF NoLease
    <3> QED BY <1>1, <1>2, <1>4, <1>5, <3>1, <3>2, <3>3, <3>4
  <2>3. Fenced(j)'
    <3> SUFFICES ASSUME pc[j] \in Taken, Wall(j) < handle[j].version.at + Fence(j)
                 PROVE  obj'.id = j /\ handle[j].version.at <= obj'.at
      BY <1>4 DEF Fenced, Wall
    <3>1. obj.id = j /\ handle[j].version.at <= obj.at
      BY <2>0 DEF Fenced
    <3>2. obj \in Rec /\ obj # NoLease
      BY <1>0, <3>1, LeaseAssumption DEF LeaseTyped, NoLease
    <3>3. CASE i # j
      <4>1. ~Replaceable(obj, i)
        BY <3>3, NotReplaceable
      <4> QED BY <1>5, <3>1, <3>2, <3>3, <4>1
    <3>4. CASE i = j /\ obj' # obj
      <4>1. obj' \in Rec /\ obj'.id = i /\ obj.at <= obj'.at
        BY <1>5, <3>1, <3>2, <3>4
      <4>2. handle[j].version.at \in Nat /\ obj.at \in Nat /\ obj'.at \in Nat
        BY <1>0, <3>2, <4>1 DEF LeaseTyped, Rec, NoLease
      <4> QED BY <3>1, <3>4, <4>1, <4>2
    <3> QED BY <3>1, <3>3, <3>4
  <2> QED BY <2>1, <2>2, <2>3 DEF InstanceInv
<1> QED BY <1>6, <1>7, <1>8 DEF LeaseInv

\* A unit of time passes: requests and leases age, and are otherwise what they were.
LEMMA TickFacts ==
  ASSUME LeaseTyped, Tick
  PROVE  /\ LeaseTyped'
         /\ \A i \in Instance : /\ req'[i].body = req[i].body /\ req'[i].match = req[i].match
                                /\ handle'[i].version = handle[i].version
<1>1. PICK frozen :
        /\ req' = [i \in Instance |->
                     IF i \in Instance \ frozen THEN Older(req[i], NoReq, Fence(i)) ELSE req[i]]
        /\ handle' = [i \in Instance |->
                        IF i \in Instance \ frozen THEN Older(handle[i], NoHandle, Fence(i))
                        ELSE handle[i]]
  BY DEF Tick
<1>2. ASSUME NEW i \in Instance
      PROVE  /\ req'[i] \in Requests
             /\ req'[i].body = req[i].body /\ req'[i].match = req[i].match
  <2>1. PICK w \in Requests : w = req[i]
    BY DEF LeaseTyped
  <2>2. /\ [w EXCEPT !.age = @ + 1] \in Requests
        /\ [w EXCEPT !.age = @ + 1].body = w.body /\ [w EXCEPT !.age = @ + 1].match = w.match
    BY DEF Requests
  <2> QED BY <1>1, <2>1, <2>2 DEF Older
<1>3. ASSUME NEW i \in Instance
      PROVE  /\ handle'[i] \in [version : Rec \cup {NoLease}, age : Nat]
             /\ handle'[i].version = handle[i].version
  <2>1. PICK h \in [version : Rec \cup {NoLease}, age : Nat] : h = handle[i]
    BY DEF LeaseTyped
  <2>2. /\ [h EXCEPT !.age = @ + 1] \in [version : Rec \cup {NoLease}, age : Nat]
        /\ [h EXCEPT !.age = @ + 1].version = h.version
    OBVIOUS
  <2> QED BY <1>1, <2>1, <2>2 DEF Older
<1>4. req' \in [Instance -> Requests] /\ handle' \in [Instance -> [version : Rec \cup {NoLease}, age : Nat]]
  BY <1>1, <1>2, <1>3
<1>5. now' \in Nat /\ UNCHANGED <<skew, obj, late, pc, seen>>
  BY DEF Tick, LeaseTyped
<1> QED BY <1>2, <1>3, <1>4, <1>5 DEF LeaseTyped

\* Time passes, up to what an instance must still notice.
LEMMA TickInv ==
  ASSUME LeaseInv, Tick
  PROVE  LeaseInv'
<1>0. LeaseTyped /\ ServiceInv /\ \A i \in Instance : InstanceInv(i)
  BY DEF LeaseInv
<1>1. /\ LeaseTyped'
      /\ \A i \in Instance : /\ req'[i].body = req[i].body /\ req'[i].match = req[i].match
                             /\ handle'[i].version = handle[i].version
  BY <1>0, TickFacts
<1>2. now \in Nat /\ now' = now + 1 /\ UNCHANGED <<skew, obj, late, pc, seen>>
  BY <1>0 DEF Tick, LeaseTyped
<1>3. \A i \in Instance : skew[i] \in Nat
  BY <1>0, LeaseAssumption DEF LeaseTyped
<1>a. ASSUME NEW rec \in Rec \cup {NoLease}, RecTrue(rec) PROVE RecTrue(rec)'
  BY <1>2, <1>3, <1>a DEF RecTrue, Wall, Rec
<1>b. ASSUME NEW rec \in Rec \cup {NoLease}, NEW i \in Instance, Replaceable(rec, i)
      PROVE  Replaceable(rec, i)'
  BY <1>2, <1>3, <1>b, LeaseAssumption DEF Replaceable, Wall, Rec
<1>c. ASSUME NEW r \in Requests, NEW i \in Instance, ReqTrue(r, i) PROVE ReqTrue(r, i)'
  <2>1. r.body \in Rec \cup {NoLease} /\ r.match \in Rec \cup {NoLease, Anything, ProbeTag}
    BY DEF Requests
  <2>2. RecTrue(r.body)' /\ (r.match \in Rec => (Replaceable(r.match, i) => Replaceable(r.match, i)'))
    BY <1>a, <1>b, <1>c, <2>1 DEF ReqTrue
  <2> QED BY <1>c, <2>2 DEF ReqTrue
<1>4. ServiceInv'
  <2>1. RecTrue(obj)'
    BY <1>0, <1>2, <1>3 DEF ServiceInv, RecTrue, Wall, LeaseTyped, Rec
  <2>2. ASSUME NEW m \in late PROVE ReqTrue(m.req, m.by)'
    BY <1>0, <1>c DEF ServiceInv, LeaseTyped
  <2> QED BY <1>2, <2>1, <2>2 DEF ServiceInv
<1>5. ASSUME NEW i \in Instance PROVE InstanceInv(i)'
  <2>0. Informed(i) /\ AwaitsNewest(i) /\ Placed(i) /\ Fenced(i)
    BY <1>0 DEF InstanceInv
  <2>1. seen[i] \in Rec \cup {NoLease} /\ req[i] \in Requests
    BY <1>0 DEF LeaseTyped
  <2>2. Informed(i)'
    <3>1. RecTrue(seen[i])' /\ Replaceable(seen[i], i)'
      BY <1>2, <1>3, <2>0, <2>1 DEF Informed, RecTrue, Replaceable, Wall, Rec
    <3>2. PICK r \in Requests : r = req[i]
      BY <2>1
    <3>3. ReqTrue(r, i)'
      BY <1>c, <2>0, <3>2 DEF Informed
    <3>4. ReqTrue(req[i], i)'
      BY <1>1, <3>2, <3>3 DEF ReqTrue, RecTrue, Replaceable
    <3> QED BY <3>1, <3>4 DEF Informed
  <2>3. AwaitsNewest(i)'
    BY <1>1, <1>2, <2>0 DEF AwaitsNewest
  <2>4. Placed(i)'
    <3>1. PICK v \in Rec \cup {NoLease} : v = handle[i].version
      BY <1>0 DEF LeaseTyped
    <3>2. RecTrue(v)'
      BY <1>a, <2>0, <3>1 DEF Placed
    <3> QED BY <1>1, <1>2, <2>0, <3>1, <3>2 DEF Placed, RecTrue
  <2>5. Fenced(i)'
    <3>1. handle[i].version.at \in Nat /\ Fence(i) \in Nat
      <4>1. PICK n \in 1..10 : Ttl[i] = 3 * n
        BY LeaseAssumption
      <4> QED BY <1>0, <4>1 DEF LeaseTyped, Rec, NoLease, Fence
    <3> QED BY <1>1, <1>2, <1>3, <2>0, <3>1 DEF Fenced, Wall
  <2> QED BY <2>2, <2>3, <2>4, <2>5 DEF InstanceInv
<1> QED BY <1>1, <1>4, <1>5 DEF LeaseInv

\* Every step of a service that honours conditional PUTs keeps the invariant.
LEMMA NextLeaseInv ==
  ASSUME LeaseInv, Sound, [Next]_vars
  PROVE  LeaseInv'
<1>0. LeaseTyped /\ ServiceInv /\ \A i \in Instance : InstanceInv(i)
  BY DEF LeaseInv
<1>1. ASSUME UNCHANGED <<now, skew, obj, late, pc, seen, req, handle>> PROVE LeaseInv'
  <2>1. LeaseTyped' /\ ServiceInv'
    BY <1>0, <1>1 DEF LeaseTyped, ServiceInv, RecTrue, ReqTrue, Replaceable, Wall
  <2>2. \A j \in Instance : InstanceInv(j)'
    BY <1>0, <1>1 DEF InstanceInv, Informed, AwaitsNewest, Placed, Fenced, RecTrue, ReqTrue,
                      Replaceable, Wall
  <2> QED BY <2>1, <2>2 DEF LeaseInv
<1>2. ASSUME NEW i \in Instance, Blocked(i) PROVE LeaseInv'
  BY <1>1, <1>2 DEF Blocked, clocks
<1>a. CASE UNCHANGED vars
  BY <1>1, <1>a DEF vars
<1>3. ASSUME NEW i \in Instance, ReadLease(i) PROVE LeaseInv'
  BY <1>3, ReadLeaseInv
<1>4. ASSUME NEW i \in Instance, PutLease(i) \/ Renew(i) PROVE LeaseInv'
  BY <1>4, SendingInv
<1>5. ASSUME NEW i \in Instance, Acquired(i) \/ Renewed(i) PROVE LeaseInv'
  BY <1>5, ObtainingInv
<1>6. ASSUME NEW i \in Instance,
             LostRace(i) \/ ProbeAccepted(i) \/ Lose(i) \/ Released(i) \/ ReleaseOwnRecord(i)
      PROVE  LeaseInv'
  BY <1>6, LeavingInv
<1>7. ASSUME NEW i \in Instance,
             ProbeCreateRefused(i) \/ ProbeMatchRefused(i) \/ RenewRefused(i) \/ Reconcile(i)
      PROVE  LeaseInv'
  BY <1>7, StayingInv
<1>8. ASSUME NEW i \in Instance, Timeout(i) \/ Shutdown(i) \/ Crash(i) PROVE LeaseInv'
  BY <1>8, AbandoningInv, RenewalTimeoutInv
<1>9. ASSUME NEW i \in Instance, RenewBestEffort(i) PROVE LeaseInv'
  BY <1>9 DEF RenewBestEffort, Sound
<1>10. ASSUME NEW m \in late, LandLate(m) PROVE LeaseInv'
  BY <1>10, LandLateInv
<1>11. CASE Tick
  BY <1>11, TickInv
<1> QED BY <1>2, <1>3, <1>4, <1>5, <1>6, <1>7, <1>8, <1>9, <1>10, <1>11, <1>a DEF Next

\* The service is what it is.
LEMMA ServiceFixed == [Next]_vars => service' = service
BY DEF Next, vars, Blocked, ReadLease, PutLease, Acquired, LostRace, ProbeCreateRefused,
       ProbeMatchRefused, ProbeAccepted, Renew, RenewBestEffort, Renewed, RenewRefused, Reconcile,
       Lose, Timeout, Shutdown, ReleaseOwnRecord, Released, Crash, LandLate, Tick

\* With a service that honours conditions, the invariant holds throughout.
LEMMA InvariantLeaseInv ==
  ASSUME SafeTtls, "overtaken" \notin Faults
  PROVE  Spec => [](service = "conditional" => LeaseInv)
<1>1. Init => (service = "conditional" => LeaseInv)
  BY InitLeaseInv
<1>2. (service = "conditional" => LeaseInv) /\ [Next]_vars => (service = "conditional" => LeaseInv)'
  BY NextLeaseInv, ServiceFixed DEF Sound
<1> QED BY <1>1, <1>2, PTL DEF Spec

-----------------------------------------------------------------------------
(* What follows.                                                           *)

\* At no moment may two instances upload to one prefix, while wall clocks are within a third
\* of every TTL and no DELETE overtakes: the write fence of BucketLease.
THEOREM OneWriterHolds ==
  ASSUME SafeTtls, "overtaken" \notin Faults
  PROVE  Spec => []OneWriter
<1>1. (service = "conditional" => LeaseInv) => OneWriter
  <2> SUFFICES ASSUME service = "conditional", LeaseInv, NEW i \in Instance, NEW j \in Instance,
                      MayWrite(i), MayWrite(j)
               PROVE  i = j
    BY DEF OneWriter
  <2>1. Fenced(i) /\ Fenced(j)
    BY DEF LeaseInv, InstanceInv
  <2> QED BY <2>1 DEF Fenced, MayWrite, Taken
<1> QED BY <1>1, InvariantLeaseInv, PTL

\* A record gives way to another instance's only once its own TTL has passed on the other's
\* clock, whatever the other's TTL: foreign_blocks and the conditional PUT between them.
THEOREM HolderGovernsHolds ==
  ASSUME SafeTtls, "overtaken" \notin Faults
  PROVE  Spec => HolderGoverns
<1>1. (service = "conditional" => LeaseInv) /\ [Next]_vars =>
        [service = "conditional" =>
           \A i \in Instance :
             obj.id = i /\ obj'.id \in Instance \ {i} => Wall(obj'.id) >= obj.at + obj.ttl]_vars
  <2> SUFFICES ASSUME LeaseInv, service = "conditional", Next, NEW i \in Instance,
                      obj.id = i, obj'.id \in Instance \ {i}
               PROVE  Wall(obj'.id) >= obj.at + obj.ttl
    OBVIOUS
  <2>0. LeaseTyped /\ ServiceInv /\ \A j \in Instance : req[j] \in Requests /\ ReqTrue(req[j], j)
    BY DEF LeaseInv, InstanceInv, Informed, LeaseTyped
  <2>1. obj \in Rec /\ obj # NoLease /\ obj' # obj /\ obj' # NoLease
    BY <2>0, LeaseAssumption DEF LeaseTyped, NoLease
  <2>2. PICK j \in Instance, r \in Requests : ReqTrue(r, j) /\ InTime(r, j) /\ obj' = Landed(r)
    <3>1. CASE \E j \in Instance : InTime(req[j], j) /\ obj' = Landed(req[j])
      BY <2>0, <3>1
    <3>2. CASE \E m \in late : InTime(m.req, m.by) /\ obj' = Landed(m.req)
      BY <2>0, <3>2 DEF ServiceInv, LeaseTyped
    <3> QED BY <2>1, <3>1, <3>2
            DEF Next, Blocked, ReadLease, PutLease, Acquired, LostRace, ProbeCreateRefused,
                ProbeMatchRefused, ProbeAccepted, Renew, RenewBestEffort, Renewed, RenewRefused,
                Reconcile, Lose, Timeout, Shutdown, ReleaseOwnRecord, Released, Crash, LandLate,
                Tick, Abandon, Answered
  <2>3. obj' = r.body /\ r.body.id = j /\ Replaceable(obj, j)
    BY <2>0, <2>1, <2>2, Landing
  <2> QED BY <2>1, <2>3 DEF Replaceable
<1> QED BY <1>1, InvariantLeaseInv, PTL DEF HolderGoverns, Spec

-----------------------------------------------------------------------------
(* A service that ignores a precondition.                                  *)

\* Requests keep their form, whatever the service.
ReqsTyped ==
  pc \in [Instance -> Pc] /\ \A i \in Instance : "match" \in DOMAIN req[i]
  /\ DOMAIN req = Instance

\* The probe that such a service would pass is never passed: the first is not refused, or the
\* second is not.
ProbesFail ==
  service \in {"ignores_create", "ignores_match"} =>
    \A i \in Instance :
      /\ pc[i] \notin Holding
      /\ pc[i] = "probe_create" => req[i].match = NoLease
      /\ pc[i] = "probe_match" => service # "ignores_create" /\ req[i].match = ProbeTag

ProbeInv == ReqsTyped /\ ProbesFail

\* One instance's request and place change; the others' do not.
LEMMA ProbeStep ==
  ASSUME ProbeInv, service' = service, NEW i \in Instance,
         NEW p \in Pc, pc' = [pc EXCEPT ![i] = p],
         NEW q, req' = [req EXCEPT ![i] = q] \/ (req' = req /\ q = req[i]), "match" \in DOMAIN q,
         service \in {"ignores_create", "ignores_match"} =>
           /\ p \notin Holding
           /\ p = "probe_create" => q.match = NoLease
           /\ p = "probe_match" => service # "ignores_create" /\ q.match = ProbeTag
  PROVE  ProbeInv'
<1>1. /\ pc' \in [Instance -> Pc] /\ DOMAIN req' = Instance
      /\ pc'[i] = p /\ req'[i] = q
      /\ \A j \in Instance \ {i} : pc'[j] = pc[j] /\ req'[j] = req[j]
  BY DEF ProbeInv, ReqsTyped
<1>2. ReqsTyped'
  BY <1>1 DEF ProbeInv, ReqsTyped
<1>3. ProbesFail'
  BY <1>1 DEF ProbeInv, ProbesFail
<1> QED BY <1>2, <1>3 DEF ProbeInv

\* Every step keeps what the probes have shown.
LEMMA NextProbeInv == ProbeInv /\ [Next]_vars => ProbeInv'
<1> SUFFICES ASSUME ProbeInv, [Next]_vars PROVE ProbeInv'
  OBVIOUS
<1>0. ReqsTyped /\ ProbesFail /\ service' = service
  BY ServiceFixed DEF ProbeInv
<1>a. "match" \in DOMAIN NoReq
  BY DEF NoReq
<1>b. ASSUME NEW body, NEW match, NEW age
      PROVE  "match" \in DOMAIN Request(body, match, age) /\ Request(body, match, age).match = match
  BY DEF Request
<1>c. NoLease # ProbeTag
  BY DEF NoLease, ProbeTag
<1>1. ASSUME NEW i \in Instance, Blocked(i) \/ ReadLease(i) PROVE ProbeInv'
  <2>1. req' = req /\ (pc' = pc \/ pc' = [pc EXCEPT ![i] = "checked"])
    BY <1>1 DEF Blocked, ReadLease
  <2> QED BY <1>0, <2>1 DEF ProbeInv, ReqsTyped, ProbesFail, Pc, Holding
<1>2. ASSUME NEW i \in Instance, PutLease(i) PROVE ProbeInv'
  <2>1. PICK q : req' = [req EXCEPT ![i] = q] /\ "match" \in DOMAIN q
    BY <1>2, <1>b DEF PutLease
  <2>2. pc' = [pc EXCEPT ![i] = "acquiring"]
    BY <1>2 DEF PutLease
  <2> QED BY <1>0, <2>1, <2>2, ProbeStep DEF Pc, Holding
<1>3. ASSUME NEW i \in Instance, Acquired(i) PROVE ProbeInv'
  <2>1. CASE service = "off"
    BY <1>0, <1>3, <1>a, <2>1, ProbeStep DEF Acquired, Pc
  <2>2. CASE service # "off"
    <3>a. PICK q : q = Request(req[i].body, NoLease, Fence(i))
      OBVIOUS
    <3>b. "match" \in DOMAIN q /\ q.match = NoLease
      BY <1>b, <3>a
    <3>1. req' = [req EXCEPT ![i] = q] /\ "match" \in DOMAIN q /\ q.match = NoLease
      BY <1>3, <2>2, <3>a, <3>b DEF Acquired
    <3>2. pc' = [pc EXCEPT ![i] = "probe_create"]
      BY <1>3, <2>2 DEF Acquired
    <3> QED BY <1>0, <3>1, <3>2, ProbeStep DEF Pc, Holding
  <2> QED BY <2>1, <2>2
<1>4. ASSUME NEW i \in Instance, LostRace(i) \/ ProbeAccepted(i) \/ Lose(i) PROVE ProbeInv'
  <2>1. PICK p \in {"idle", "handback"} : pc' = [pc EXCEPT ![i] = p]
    BY <1>4 DEF LostRace, ProbeAccepted, Lose
  <2>2. req' = [req EXCEPT ![i] = NoReq]
    BY <1>4 DEF LostRace, ProbeAccepted, Lose
  <2> QED BY <1>0, <1>a, <2>1, <2>2, ProbeStep DEF Pc, Holding
<1>5. ASSUME NEW i \in Instance, ProbeCreateRefused(i) PROVE ProbeInv'
  <2>1. service # "ignores_create"
    <3>1. ~Accepts(req[i]) /\ pc[i] = "probe_create"
      BY <1>5 DEF ProbeCreateRefused, Answered
    <3> QED BY <1>0, <3>1 DEF ProbesFail, Accepts
  <2>2. PICK q : q = Request(req[i].body, ProbeTag, Fence(i))
    OBVIOUS
  <2>3. "match" \in DOMAIN q /\ q.match = ProbeTag
    BY <1>b, <2>2
  <2>4. req' = [req EXCEPT ![i] = q] /\ pc' = [pc EXCEPT ![i] = "probe_match"]
    BY <1>5, <2>2 DEF ProbeCreateRefused
  <2> QED BY <1>0, <2>1, <2>3, <2>4, ProbeStep DEF Pc, Holding
<1>6. ASSUME NEW i \in Instance, ProbeMatchRefused(i) PROVE ProbeInv'
  <2>1. service \notin {"ignores_create", "ignores_match"}
    <3>1. ~Accepts(req[i]) /\ pc[i] = "probe_match"
      BY <1>6 DEF ProbeMatchRefused, Answered
    <3> QED BY <1>0, <1>c, <3>1 DEF ProbesFail, Accepts
  <2> QED BY <1>0, <1>6, <1>a, <2>1, ProbeStep DEF ProbeMatchRefused, Pc
<1>7. ASSUME NEW i \in Instance,
             Renew(i) \/ RenewBestEffort(i) \/ Renewed(i) \/ RenewRefused(i) \/ Reconcile(i)
      PROVE  ProbeInv'
  <2>1. service \notin {"ignores_create", "ignores_match"}
    <3>1. pc[i] \in Holding
      BY <1>7 DEF Renew, RenewBestEffort, Renewed, RenewRefused, Reconcile, Holding
    <3> QED BY <1>0, <3>1 DEF ProbesFail
  <2>2. PICK p \in {"renewing", "swapping", "held", "reconcile"} : pc' = [pc EXCEPT ![i] = p]
    BY <1>7 DEF Renew, RenewBestEffort, Renewed, RenewRefused, Reconcile
  <2>3. PICK q : (req' = [req EXCEPT ![i] = q] \/ (req' = req /\ q = req[i])) /\ "match" \in DOMAIN q
    <3>1. CASE Renew(i)
      BY <1>b, <3>1 DEF Renew
    <3>2. CASE RenewBestEffort(i)
      BY <1>b, <3>2 DEF RenewBestEffort
    <3>3. CASE Renewed(i)
      BY <1>a, <3>3 DEF Renewed
    <3>4. CASE RenewRefused(i)
      <4>1. req' = req
        BY <3>4 DEF RenewRefused
      <4> QED BY <1>0, <4>1 DEF ReqsTyped
    <3>5. CASE Reconcile(i)
      <4>1. req' = [req EXCEPT ![i] = [req[i] EXCEPT !.match = obj]]
        BY <3>5 DEF Reconcile
      <4>2. "match" \in DOMAIN [req[i] EXCEPT !.match = obj]
        BY <1>0 DEF ReqsTyped
      <4> QED BY <4>1, <4>2
    <3> QED BY <1>7, <3>1, <3>2, <3>3, <3>4, <3>5
  <2> QED BY <1>0, <2>1, <2>2, <2>3, ProbeStep DEF Pc
<1>8. ASSUME NEW i \in Instance, Timeout(i) \/ Shutdown(i) \/ Crash(i) \/ Released(i)
      PROVE  ProbeInv'
  <2>1. req' = [req EXCEPT ![i] = NoReq]
    BY <1>8 DEF Timeout, Shutdown, Crash, Released, Abandon
  <2>2. PICK p \in {"held", "stopped", "idle", "releasing"} :
          /\ pc' = [pc EXCEPT ![i] = p]
          /\ p = "held" => pc[i] \in Holding
    BY <1>0, <1>8 DEF Timeout, Shutdown, Crash, Released, Holding, ReqsTyped
  <2>3. service \in {"ignores_create", "ignores_match"} => p # "held"
    BY <1>0, <2>2 DEF ProbesFail
  <2> QED BY <1>0, <1>a, <2>1, <2>2, <2>3, ProbeStep DEF Pc, Holding
<1>9. ASSUME NEW i \in Instance, ReleaseOwnRecord(i) PROVE ProbeInv'
  <2>1. PICK p \in {"returning", "deleting", "idle", "stopped"} : pc' = [pc EXCEPT ![i] = p]
    BY <1>0, <1>9 DEF ReleaseOwnRecord, ReqsTyped
  <2>2. PICK q : (req' = [req EXCEPT ![i] = q] \/ (req' = req /\ q = req[i])) /\ "match" \in DOMAIN q
    <3>1. CASE obj.id = i
      BY <1>9, <1>b, <3>1 DEF ReleaseOwnRecord
    <3>2. CASE obj.id # i
      <4>1. req' = req
        BY <1>9, <3>2 DEF ReleaseOwnRecord
      <4> QED BY <1>0, <4>1 DEF ReqsTyped
    <3> QED BY <3>1, <3>2
  <2> QED BY <1>0, <2>1, <2>2, ProbeStep DEF Pc, Holding
<1>10. ASSUME NEW m \in late, LandLate(m) PROVE ProbeInv'
  BY <1>0, <1>10 DEF LandLate, ProbeInv, ReqsTyped, ProbesFail
<1>11. CASE Tick
  <2>1. PICK frozen :
          req' = [i \in Instance |->
                    IF i \in Instance \ frozen THEN Older(req[i], NoReq, Fence(i)) ELSE req[i]]
    BY <1>11 DEF Tick
  <2>2. \A i \in Instance : "match" \in DOMAIN req'[i] /\ req'[i].match = req[i].match
    BY <1>0, <2>1 DEF Older, ReqsTyped
  <2>3. pc' = pc /\ DOMAIN req' = Instance
    BY <1>11, <2>1 DEF Tick
  <2> QED BY <1>0, <2>2, <2>3 DEF ProbeInv, ReqsTyped, ProbesFail
<1>12. CASE UNCHANGED vars
  BY <1>0, <1>12 DEF vars, ProbeInv, ReqsTyped, ProbesFail
<1> QED BY <1>1, <1>2, <1>3, <1>4, <1>5, <1>6, <1>7, <1>8, <1>9, <1>10, <1>11, <1>12 DEF Next

\* No instance ever holds a lease on a service that ignores one of the preconditions: acquire's
\* probes, whatever requests time out, land late or are repeated.
THEOREM FailClosedHolds == Spec => []FailClosed
<1>1. Init => ProbeInv
  BY DEF Init, ProbeInv, ReqsTyped, ProbesFail, Pc, Holding, NoReq
<1>2. ProbeInv /\ [Next]_vars => ProbeInv'
  BY NextProbeInv
<1>3. ProbeInv => FailClosed
  BY DEF ProbeInv, ProbesFail, FailClosed
<1> QED BY <1>1, <1>2, <1>3, PTL DEF Spec
=============================================================================
