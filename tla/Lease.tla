------------------------------- MODULE Lease -------------------------------
(***************************************************************************)
(* The bucket lease of the backup workers: one object, LEASE, that names   *)
(* the instance which may upload to a prefix, taken and renewed by         *)
(* conditional PUTs, and the fence each holder puts on itself.             *)
(*                                                                         *)
(* A request is sent in one step and lands on the service in another,      *)
(* which answers it.  A client may stop waiting: its request is then lost, *)
(* lands unanswered, or lands later.  An object's version is its contents: *)
(* an ETag is a digest of them, and no two renewals have the same stamp.   *)
(*                                                                         *)
(* `now` is real time.  An instance's wall clock is ahead of it by `skew`; *)
(* its monotonic clock stands still while the process is frozen, and shows *)
(* as the `age` of what it is compared with.  A TTL is a multiple of       *)
(* three: a holder fences itself at two thirds of one.                     *)
(***************************************************************************)
EXTENDS Naturals, FiniteSets

CONSTANTS
  Instance,   \* processes, each with an instance id of its own
  Ttl,        \* the TTL each was configured with
  MaxSane,    \* MAX_SANE_TTL_S
  MaxSkew,    \* how far apart two wall clocks may be
  Services,   \* the kinds of service the prefix may be on
  Faults,     \* what may happen: "timeout", "freeze", "crash", "overtaken"
  MaxTime,    \* bound on now
  MaxLate     \* bound on the abandoned requests that may still land

ASSUME LeaseAssumption ==
  /\ IsFiniteSet(Instance) /\ Instance \cap {"none", "any", "probe"} = {}
  /\ Ttl \in [Instance -> {3 * n : n \in 1..10}]
  /\ MaxSane \in Nat /\ MaxSkew \in Nat /\ MaxTime \in Nat /\ MaxLate \in Nat
  /\ Services \subseteq {"conditional", "ignores_create", "ignores_match", "off"}
  /\ Faults \subseteq {"timeout", "freeze", "crash", "overtaken"}

VARIABLES
  now,      \* real time
  skew,     \* how far each wall clock is ahead
  service,  \* what the service does with a conditional PUT
  obj,      \* the LEASE object
  late,     \* requests abandoned by their senders that may still land
  pc,       \* where each instance is
  seen,     \* what an acquire last read
  req,      \* the request each instance is waiting for
  handle,   \* BucketLease::held
  watch     \* LeaseWatch::seen

vars == <<now, skew, service, obj, late, pc, seen, req, handle, watch>>

NoLease == [id |-> "none", at |-> 0, ttl |-> 0]
Anything == [id |-> "any", at |-> 0, ttl |-> 0]    \* no precondition
ProbeTag == [id |-> "probe", at |-> 0, ttl |-> 0]  \* PROBE_ETAG
NoReq == [body |-> NoLease, match |-> NoLease, age |-> 0]
NoHandle == [version |-> NoLease, age |-> 0]
NoWatch == [tag |-> NoLease, age |-> 0]

Record == [id : Instance, at : 0..(MaxTime + MaxSkew), ttl : {Ttl[i] : i \in Instance}]
Pc == {"idle", "checked", "acquiring", "probe_create", "probe_match", "held", "renewing",
       "reconcile", "swapping", "handback", "returning", "releasing", "deleting", "stopped"}

\* Types.  A record in the bucket, late requests and the fields of a client hold together
\* with its place in BucketLease's acquire, renew and release.
TypeOK ==
  /\ now \in 0..MaxTime /\ service \in Services
  /\ skew \in [Instance -> 0..MaxSkew]
  /\ obj \in Record \cup {NoLease}
  /\ pc \in [Instance -> Pc]
  /\ seen \in [Instance -> Record \cup {NoLease}]
  /\ \A i \in Instance :
       /\ req[i].body \in Record \cup {NoLease}
       /\ req[i].match \in Record \cup {NoLease, Anything, ProbeTag}
       /\ req[i].age \in 0..Ttl[i]
       /\ handle[i].version \in Record \cup {NoLease} /\ handle[i].age \in 0..Ttl[i]
       /\ watch[i].tag \in Record \cup {NoLease} /\ watch[i].age \in 0..Ttl[i]
  /\ Cardinality(late) <= MaxLate

Init ==
  /\ now = 0 /\ skew \in [Instance -> 0..MaxSkew]
  /\ service \in Services /\ obj = NoLease /\ late = {}
  /\ pc = [i \in Instance |-> "idle"]
  /\ seen = [i \in Instance |-> NoLease] /\ req = [i \in Instance |-> NoReq]
  /\ handle = [i \in Instance |-> NoHandle] /\ watch = [i \in Instance |-> NoWatch]

Wall(i) == now + skew[i]
clocks == <<now, skew>>

(* The records, as a contender reads them.                                 *)
IsFresh(rec, i) == Wall(i) < rec.at + rec.ttl
IsSuspect(rec, i) == rec.ttl > MaxSane \/ rec.at > Wall(i) + rec.ttl

\* foreign_blocks: a fresh record keeps a contender out, unless it is suspect and
\* has sat unchanged for one of the contender's own TTLs.
SatUnchanged(rec, i) == watch[i].tag = rec /\ watch[i].age >= Ttl[i]
ForeignBlocks(rec, i) ==
  /\ rec # NoLease /\ rec.id # i /\ IsFresh(rec, i)
  /\ ~(IsSuspect(rec, i) /\ SatUnchanged(rec, i))
WatchAfter(rec, i) ==
  IF ~IsSuspect(rec, i) THEN NoWatch
  ELSE IF watch[i].tag = rec THEN watch[i]
  ELSE [tag |-> rec, age |-> 0]

Request(body, match, age) == [body |-> body, match |-> match, age |-> age]
\* Mutant of Fence: a holder writes for the whole of its TTL.
FenceWholeTtl(i) == Ttl[i]

Fence(i) == (2 * Ttl[i]) \div 3
Stamped(i) == [id |-> i, at |-> Wall(i), ttl |-> Ttl[i]]

\* a lease that may be written under; one whose PUT was answered
Holding == {"held", "renewing", "reconcile", "swapping"}
Taken == Holding \cup {"probe_create", "probe_match"}

-----------------------------------------------------------------------------
(* The service: what a PUT or DELETE does where it lands.                  *)

Accepts(r) ==
  \/ r.match = Anything
  \/ r.match = obj
  \/ r.match = NoLease /\ service = "ignores_create"
  \/ r.match # NoLease /\ service = "ignores_match"

\* The one request whose check and effect are two: a DELETE, sent after a read
\* that found the lease the sender's own.  Without "overtaken" no lease is taken
\* in between, by another or by the sender anew.
IsDelete(r) == r.match = Anything /\ r.body = NoLease
InTime(r, i) ==
  IsDelete(r) /\ "overtaken" \notin Faults => obj.id = "none" \/ (obj.id = i /\ pc[i] \notin Taken)

Landed(r) == IF Accepts(r) THEN r.body ELSE obj

LandLate(m) ==
  /\ InTime(m.req, m.by)
  /\ obj' = Landed(m.req)
  /\ late' = late \ {m}
  /\ UNCHANGED <<clocks, service, pc, seen, req, handle, watch>>

\* The sender stops waiting: the request is lost, has landed, or is on its way.
Abandon(i) ==
  /\ req' = [req EXCEPT ![i] = NoReq]
  /\ \/ late' = late /\ obj' = obj
     \/ req[i] # NoReq /\ InTime(req[i], i) /\ late' = late /\ obj' = Landed(req[i])
     \/ /\ req[i] # NoReq /\ Cardinality(late) < MaxLate
        /\ late' = late \cup {[by |-> i, req |-> [req[i] EXCEPT !.age = 0]]} /\ obj' = obj

\* The request instance i waits for lands and is answered.
Answered(i, ok) ==
  /\ req[i] # NoReq /\ InTime(req[i], i) /\ Accepts(req[i]) = ok
  /\ obj' = Landed(req[i])

-----------------------------------------------------------------------------
(* acquire_as: read, look at who holds it, PUT, probe.                     *)

Blocked(i) ==
  /\ pc[i] = "idle" /\ ForeignBlocks(obj, i)
  /\ watch' = [watch EXCEPT ![i] = WatchAfter(obj, i)]
  /\ UNCHANGED <<clocks, service, obj, late, pc, seen, req, handle>>

ReadLease(i) ==
  /\ pc[i] = "idle" /\ ~ForeignBlocks(obj, i)
  /\ seen' = [seen EXCEPT ![i] = obj]
  /\ pc' = [pc EXCEPT ![i] = "checked"]
  /\ UNCHANGED <<clocks, service, obj, late, req, handle, watch>>

\* Mutant of PutLease: the PUT does not name the version that was read.
PutLeaseOverwriting(i) ==
  /\ pc[i] = "checked"
  /\ req' = [req EXCEPT ![i] = Request(Stamped(i), Anything, 0)]
  /\ pc' = [pc EXCEPT ![i] = "acquiring"] /\ seen' = [seen EXCEPT ![i] = NoLease]
  /\ UNCHANGED <<clocks, service, obj, late, handle, watch>>

\* A client that cannot send conditional PUTs overwrites.
PutLease(i) ==
  /\ pc[i] = "checked"
  /\ req' = [req EXCEPT ![i] =
               Request(Stamped(i), IF service = "off" THEN Anything ELSE seen[i], 0)]
  /\ pc' = [pc EXCEPT ![i] = "acquiring"] /\ seen' = [seen EXCEPT ![i] = NoLease]
  /\ UNCHANGED <<clocks, service, obj, late, handle, watch>>

\* A lease taken by overwriting is held at once; the other is probed first.
Acquired(i) ==
  /\ pc[i] = "acquiring" /\ Answered(i, TRUE)
  /\ handle' = [handle EXCEPT ![i] = [version |-> req[i].body, age |-> req[i].age]]
  /\ IF service = "off"
     THEN /\ pc' = [pc EXCEPT ![i] = "held"] /\ req' = [req EXCEPT ![i] = NoReq]
          /\ watch' = [watch EXCEPT ![i] = NoWatch]
     ELSE /\ pc' = [pc EXCEPT ![i] = "probe_create"] /\ watch' = watch
          /\ req' = [req EXCEPT ![i] = Request(req[i].body, NoLease, Fence(i))]
  /\ UNCHANGED <<clocks, service, late, seen>>

\* Precondition or AlreadyExists: the loop looks again.
LostRace(i) ==
  /\ pc[i] = "acquiring" /\ Answered(i, FALSE)
  /\ pc' = [pc EXCEPT ![i] = "idle"] /\ req' = [req EXCEPT ![i] = NoReq]
  /\ UNCHANGED <<clocks, service, late, seen, handle, watch>>

\* Mutant of ProbeCreateRefused: the second header is not probed.
ProbeCreateOnly(i) ==
  /\ pc[i] = "probe_create" /\ Answered(i, FALSE)
  /\ pc' = [pc EXCEPT ![i] = "held"] /\ req' = [req EXCEPT ![i] = NoReq]
  /\ UNCHANGED <<clocks, service, late, seen, handle, watch>>

ProbeCreateRefused(i) ==
  /\ pc[i] = "probe_create" /\ Answered(i, FALSE)
  /\ pc' = [pc EXCEPT ![i] = "probe_match"]
  /\ req' = [req EXCEPT ![i] = Request(req[i].body, ProbeTag, Fence(i))]
  /\ UNCHANGED <<clocks, service, late, seen, handle, watch>>

ProbeMatchRefused(i) ==
  /\ pc[i] = "probe_match" /\ Answered(i, FALSE)
  /\ pc' = [pc EXCEPT ![i] = "held"] /\ req' = [req EXCEPT ![i] = NoReq]
  /\ watch' = [watch EXCEPT ![i] = NoWatch]
  /\ UNCHANGED <<clocks, service, late, seen, handle>>

\* PreconditionsIgnored: the lease excludes nobody, and is handed back.
ProbeAccepted(i) ==
  /\ pc[i] \in {"probe_create", "probe_match"} /\ Answered(i, TRUE)
  /\ pc' = [pc EXCEPT ![i] = "handback"] /\ req' = [req EXCEPT ![i] = NoReq]
  /\ handle' = [handle EXCEPT ![i] = NoHandle]
  /\ UNCHANGED <<clocks, service, late, seen, watch>>

-----------------------------------------------------------------------------
(* renew and the write fence.                                              *)

\* write_deadline: neither clock has seen two thirds of a TTL since the last
\* confirmed write was sent.
MayWrite(i) ==
  /\ pc[i] \in Holding
  /\ handle[i].age < Fence(i)
  /\ Wall(i) < handle[i].version.at + Fence(i)

Renew(i) ==
  /\ pc[i] = "held" /\ service # "off"
  /\ req' = [req EXCEPT ![i] = Request(Stamped(i), handle[i].version, 0)]
  /\ pc' = [pc EXCEPT ![i] = "renewing"]
  /\ UNCHANGED <<clocks, service, obj, late, seen, handle, watch>>

\* renew_best_effort: read, and overwrite what names this instance.
RenewBestEffort(i) ==
  /\ pc[i] = "held" /\ service = "off" /\ obj.id = i
  /\ req' = [req EXCEPT ![i] = Request(Stamped(i), Anything, 0)]
  /\ pc' = [pc EXCEPT ![i] = "swapping"]
  /\ UNCHANGED <<clocks, service, obj, late, seen, handle, watch>>

Renewed(i) ==
  /\ pc[i] \in {"renewing", "swapping"} /\ Answered(i, TRUE)
  /\ handle' = [handle EXCEPT ![i] = [version |-> req[i].body, age |-> req[i].age]]
  /\ pc' = [pc EXCEPT ![i] = "held"] /\ req' = [req EXCEPT ![i] = NoReq]
  /\ UNCHANGED <<clocks, service, late, seen, watch>>

RenewRefused(i) ==
  /\ pc[i] = "renewing" /\ Answered(i, FALSE)
  /\ pc' = [pc EXCEPT ![i] = "reconcile"]
  /\ UNCHANGED <<clocks, service, late, seen, req, handle, watch>>

\* reconcile: the lease still names this instance, so a write of its own landed;
\* swap again over what it left.
Reconcile(i) ==
  /\ pc[i] = "reconcile" /\ obj.id = i
  /\ req' = [req EXCEPT ![i].match = obj]
  /\ pc' = [pc EXCEPT ![i] = "swapping"]
  /\ UNCHANGED <<clocks, service, obj, late, seen, handle, watch>>

\* lose: the object was replaced or deleted.  The worker drops the lease and
\* goes back to taking one.
Lose(i) ==
  /\ \/ pc[i] = "reconcile" /\ obj.id # i
     \/ pc[i] = "swapping" /\ Answered(i, FALSE)
     \/ pc[i] = "held" /\ service = "off" /\ obj.id # i
  /\ pc' = [pc EXCEPT ![i] = "idle"] /\ req' = [req EXCEPT ![i] = NoReq]
  /\ handle' = [handle EXCEPT ![i] = NoHandle]
  /\ UNCHANGED <<clocks, service, obj, late, seen, watch>>

-----------------------------------------------------------------------------
(* A deadline passes; the lease is given up; the process dies.             *)

\* A renewal that timed out leaves the lease as it was.
Timeout(i) ==
  /\ "timeout" \in Faults /\ req[i] # NoReq /\ pc[i] # "reconcile"
  /\ Abandon(i)
  /\ LET renewal == pc[i] \in {"renewing", "swapping"}
     IN /\ pc' = [pc EXCEPT ![i] = IF renewal THEN "held"
                                   ELSE IF @ = "deleting" THEN "stopped" ELSE "idle"]
        /\ handle' = [handle EXCEPT ![i] = IF renewal THEN @ ELSE NoHandle]
  /\ UNCHANGED <<clocks, service, seen, watch>>

\* Shutdown: the renewer or the pending attempt is dropped, the record released.
Shutdown(i) ==
  /\ pc[i] \notin {"releasing", "deleting", "stopped"}
  /\ Abandon(i)
  /\ pc' = [pc EXCEPT ![i] = "releasing"] /\ seen' = [seen EXCEPT ![i] = NoLease]
  /\ handle' = [handle EXCEPT ![i] = NoHandle] /\ watch' = [watch EXCEPT ![i] = NoWatch]
  /\ UNCHANGED <<clocks, service>>

\* release_own_record: read, then delete what names this instance.
ReleaseOwnRecord(i) ==
  /\ pc[i] \in {"handback", "releasing"}
  /\ IF obj.id = i
     THEN /\ req' = [req EXCEPT ![i] = Request(NoLease, Anything, Fence(i))]
          /\ pc' = [pc EXCEPT ![i] = IF @ = "handback" THEN "returning" ELSE "deleting"]
     ELSE /\ req' = req
          /\ pc' = [pc EXCEPT ![i] = IF @ = "handback" THEN "idle" ELSE "stopped"]
  /\ UNCHANGED <<clocks, service, obj, late, seen, handle, watch>>

Released(i) ==
  /\ pc[i] \in {"returning", "deleting"} /\ Answered(i, TRUE)
  /\ pc' = [pc EXCEPT ![i] = IF @ = "returning" THEN "idle" ELSE "stopped"]
  /\ req' = [req EXCEPT ![i] = NoReq]
  /\ UNCHANGED <<clocks, service, late, seen, handle, watch>>

Crash(i) ==
  /\ "crash" \in Faults /\ pc[i] # "stopped"
  /\ Abandon(i)
  /\ pc' = [pc EXCEPT ![i] = "stopped"] /\ seen' = [seen EXCEPT ![i] = NoLease]
  /\ handle' = [handle EXCEPT ![i] = NoHandle] /\ watch' = [watch EXCEPT ![i] = NoWatch]
  /\ UNCHANGED <<clocks, service>>

-----------------------------------------------------------------------------
(* The clocks.                                                             *)

\* One more unit on the monotonic clock; past `limit` every age is the same.
Older(r, none, limit) == IF r = none \/ r.age = limit THEN r ELSE [r EXCEPT !.age = @ + 1]

Tick ==
  /\ now < MaxTime
  /\ now' = now + 1
  /\ \E frozen \in (IF "freeze" \in Faults THEN SUBSET Instance ELSE {{}}) :
       LET running == Instance \ frozen
       IN /\ req' = [i \in Instance |->
                        IF i \in running THEN Older(req[i], NoReq, Fence(i)) ELSE req[i]]
          /\ handle' = [i \in Instance |->
                           IF i \in running THEN Older(handle[i], NoHandle, Fence(i)) ELSE handle[i]]
          /\ watch' = [i \in Instance |->
                          IF i \in running THEN Older(watch[i], NoWatch, Ttl[i]) ELSE watch[i]]
  /\ UNCHANGED <<skew, service, obj, late, pc, seen>>

Next ==
  \/ \E i \in Instance :
       \/ Blocked(i) \/ ReadLease(i) \/ PutLease(i) \/ Acquired(i) \/ LostRace(i)
       \/ ProbeCreateRefused(i) \/ ProbeMatchRefused(i) \/ ProbeAccepted(i)
       \/ Renew(i) \/ RenewBestEffort(i) \/ Renewed(i) \/ RenewRefused(i)
       \/ Reconcile(i) \/ Lose(i) \/ Timeout(i) \/ Shutdown(i) \/ ReleaseOwnRecord(i)
       \/ Released(i) \/ Crash(i)
  \/ \E m \in late : LandLate(m)
  \/ Tick

Spec == Init /\ [][Next]_vars

\* At no moment may two instances upload to one prefix (lease.rs: the write fence
\* against the TTL), whatever requests are lost or late, whichever process is
\* frozen, while wall clocks differ by at most a third of a TTL.
OneWriter ==
  service = "conditional" => \A i, j \in Instance : MayWrite(i) /\ MayWrite(j) => i = j

\* No instance ever holds a lease on a service that accepts a PUT whose
\* precondition does not hold (probe: PreconditionsIgnored), unless the operator
\* turned conditional PUTs off.
FailClosed ==
  service \in {"ignores_create", "ignores_match"} => \A i \in Instance : pc[i] \notin Holding

\* An instance's record gives way to another's only once the record's own TTL has
\* passed on the contender's clock: "The holder's value governs, whatever a
\* contender's own TTL is" (LeaseRecord::is_fresh).
HolderGoverns ==
  [][service = "conditional" =>
       \A i \in Instance :
         obj.id = i /\ obj'.id \in Instance \ {i} => Wall(obj'.id) >= obj.at + obj.ttl]_vars

\* A holder that gives its lease up has really been replaced: "A request whose
\* answer was lost is not a lost lease" (the head of lease.rs).
LossIsReal ==
  [][\A i \in Instance : Lose(i) => obj.id # i]_vars
=============================================================================
