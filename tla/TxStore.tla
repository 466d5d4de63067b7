------------------------------ MODULE TxStore ------------------------------
(***************************************************************************)
(* The registry of open transactions of one HTTP server (server/src/tx.rs) *)
(* and the requests on them: begin, run, commit, rollback, info, the       *)
(* reaper thread, the shutdown, and time.                                  *)
(*                                                                         *)
(* A request takes the transaction's body out of its slot, works on a      *)
(* blocking thread without the registry's lock, and hands it back or ends  *)
(* it; each call that takes the lock is an action.  Module Transactions    *)
(* has what a body is; here it is where it is, and how it ended: a commit  *)
(* that is attempted lands or conflicts.  Requests of strangers are left   *)
(* out: they are answered 404 and change nothing.  A client that goes away *)
(* changes nothing either, as the blocking thread runs on without it.      *)
(***************************************************************************)
EXTENDS Integers, FiniteSets

CONSTANTS
  Txs,          \* transaction ids, each given out once
  Reqs,         \* requests at a time
  MaxOpen,      \* TxLimits::max_open
  Idle,         \* TxLimits::idle_timeout
  Lifetime,     \* TxLimits::max_lifetime
  MaxTime       \* the clock's bound: no transaction begins too late to outlive it

ASSUME TxStoreAssumption ==
  /\ MaxOpen \in Nat \ {0} /\ Idle \in Nat \ {0} /\ Lifetime \in Nat \ {0} /\ MaxTime \in Nat

VARIABLES
  now,
  open,     \* the slots, by id: when it began, its deadline, whether the body is in it
  expired,  \* the tombstones: why each id expired
  closed,   \* the server is shutting down
  req,      \* per request, what it is doing and to which transaction
  fate,     \* how each transaction ended
  told      \* which 410s its owner was answered

vars == <<now, open, expired, closed, req, fate, told>>

Whys == {"idle", "lifetime"}
NoReq == [at |-> "none"]

\* Types.  A slot's times are in order, and a tombstone's reason is one that Registry::expire
\* records.
TypeOK ==
  /\ now \in 0..MaxTime
  /\ DOMAIN open \subseteq Txs
  /\ \A t \in DOMAIN open :
       /\ open[t] \in [born : 0..MaxTime, deadline : 0..MaxTime, body : BOOLEAN]
       /\ open[t].deadline <= open[t].born + Lifetime
  /\ DOMAIN expired \subseteq Txs /\ \A t \in DOMAIN expired : expired[t] \in Whys
  /\ DOMAIN open \cap DOMAIN expired = {}
  /\ closed \in BOOLEAN
  /\ req \in [Reqs -> {NoReq} \cup [at : {"begin", "run", "commit", "finish", "rollback"}, id : Txs]]
  /\ fate \in [Txs -> {"unborn", "live", "committed", "conflict", "dropped"}]
  /\ told \in [Txs -> SUBSET Whys]

Init ==
  /\ now = 0 /\ open = <<>> /\ expired = <<>> /\ closed = FALSE
  /\ req = [r \in Reqs |-> NoReq]
  /\ fate = [t \in Txs |-> "unborn"]
  /\ told = [t \in Txs |-> {}]

-----------------------------------------------------------------------------
(* The registry, under its lock. *)

\* the idle deadline from now, never past the lifetime
NextDeadline(born) == IF now + Idle < born + Lifetime THEN now + Idle ELSE born + Lifetime

\* Mutant of Expiry: a slot a request holds is judged by its old deadline.
ExpiryByDeadline(slot) == IF slot.deadline >= slot.born + Lifetime THEN "lifetime" ELSE "idle"

\* which limit a due slot ran into; one that a request holds can only outlive its lifetime
Expiry(slot) ==
  IF ~slot.body \/ slot.deadline >= slot.born + Lifetime THEN "lifetime" ELSE "idle"

Without(f, ids) == [t \in DOMAIN f \ ids |-> f[t]]

\* Mutant of Due: a slot that a request holds is never due.
DueIdleOnly(slots) == {t \in DOMAIN slots : slots[t].body /\ slots[t].deadline <= now}

\* reap_locked: idle past the deadline, or past the lifetime even while a request holds it
Due(slots) == {t \in DOMAIN slots : \/ slots[t].body /\ slots[t].deadline <= now
                                    \/ slots[t].born + Lifetime <= now}

\* expire: the slots go, a tombstone each stays; a body that was in its slot is dropped,
\* one that a request holds is not
Expired(ids) ==
  /\ expired' = [t \in DOMAIN expired \cup ids |->
                   IF t \in ids THEN Expiry(open[t]) ELSE expired[t]]
  /\ fate' = [t \in Txs |-> IF t \in ids /\ open[t].body THEN "dropped" ELSE fate[t]]

\* finish: forget the slot, whatever is left of it
Finish(id) == open' = Without(open, {id})

Becomes(r, at, id) == req' = [req EXCEPT ![r] = [at |-> at, id |-> id]]
Done(r) == req' = [req EXCEPT ![r] = NoReq]
Tell(id, whys) == told' = [told EXCEPT ![id] = @ \cup whys]

-----------------------------------------------------------------------------
(* Requests. *)

\* the begin handler up to the frozen snapshot: has_room, which reaps first
HasRoom(r, id) ==
  /\ req[r] = NoReq /\ fate[id] = "unborn"
  /\ \A s \in Reqs : req[s] # NoReq => req[s].id # id
  /\ ~closed
  /\ open' = Without(open, Due(open)) /\ Expired(Due(open))
  /\ IF Cardinality(DOMAIN open') >= MaxOpen THEN UNCHANGED req ELSE Becomes(r, "begin", id)
  /\ UNCHANGED <<now, closed, told>>

\* Mutant of Begin: the room found before the snapshot was frozen is not looked for again.
BeginUnchecked(r) ==
  LET id == req[r].id
  IN /\ req[r].at = "begin" /\ now + Lifetime <= MaxTime
     /\ Done(r)
     /\ \/ closed /\ UNCHANGED <<open, expired, fate>>
        \/ /\ ~closed
           /\ expired' = expired
           /\ open' = [t \in DOMAIN open \cup {id} |->
                         IF t = id THEN [born |-> now, deadline |-> NextDeadline(now), body |-> TRUE]
                         ELSE open[t]]
           /\ fate' = [fate EXCEPT ![id] = "live"]
     /\ UNCHANGED <<now, closed, told>>

\* TxStore::begin: room is looked for again, under the lock that takes it
Begin(r) ==
  LET id == req[r].id
      due == Due(open)
      left == Without(open, due)
  IN /\ req[r].at = "begin" /\ now + Lifetime <= MaxTime
     /\ Done(r)
     /\ \/ closed /\ UNCHANGED <<open, expired, fate>>
        \/ ~closed /\ Cardinality(DOMAIN left) >= MaxOpen /\ open' = left /\ Expired(due)
        \/ /\ ~closed /\ Cardinality(DOMAIN left) < MaxOpen
           /\ open' = [t \in DOMAIN left \cup {id} |->
                         IF t = id THEN [born |-> now, deadline |-> NextDeadline(now), body |-> TRUE]
                         ELSE left[t]]
           /\ expired' = [t \in DOMAIN expired \cup due |->
                            IF t \in due THEN Expiry(open[t]) ELSE expired[t]]
           /\ fate' = [t \in Txs |-> IF t = id THEN "live"
                                     ELSE IF t \in due /\ open[t].body THEN "dropped" ELSE fate[t]]
     /\ UNCHANGED <<now, closed, told>>

\* Mutant of Checkout: the body is lent a second time.
CheckoutShared(r, id, at) ==
  /\ req[r] = NoReq /\ id \in DOMAIN open
  /\ open' = [open EXCEPT ![id].body = FALSE]
  /\ Becomes(r, at, id)
  /\ UNCHANGED <<now, expired, closed, fate, told>>

\* checkout, at the start of run, commit and rollback: 404 or 410 when there is no slot,
\* busy when a request holds it, 410 when it is due (it is rolled back here and now)
Checkout(r, id, at) ==
  /\ req[r] = NoReq
  /\ \/ /\ id \notin DOMAIN open /\ id \in DOMAIN expired
        /\ Tell(id, {expired[id]})
        /\ UNCHANGED <<open, expired, req, fate>>
     \/ /\ id \in DOMAIN open /\ open[id].body /\ open[id].deadline <= now
        /\ Tell(id, {Expiry(open[id])})
        /\ Finish(id) /\ Expired({id})
        /\ UNCHANGED req
     \/ /\ id \in DOMAIN open /\ open[id].body /\ open[id].deadline > now
        /\ open' = [open EXCEPT ![id].body = FALSE]
        /\ Becomes(r, at, id)
        /\ UNCHANGED <<expired, fate, told>>
  /\ UNCHANGED <<now, closed>>

\* Mutant of Checkin: a body is handed back while the server shuts down.
CheckinAnyway(r) ==
  LET id == req[r].id
  IN /\ req[r].at = "run" /\ Done(r)
     /\ id \in DOMAIN open
     /\ open' = [open EXCEPT ![id].body = TRUE, ![id].deadline = NextDeadline(open[id].born)]
     /\ UNCHANGED <<now, expired, closed, fate, told>>

\* the end of run: the statement ran, or failed; the body goes back and the idle timer
\* restarts, unless the server is closing or the slot was reaped meanwhile
Checkin(r) ==
  LET id == req[r].id
  IN /\ req[r].at = "run" /\ Done(r)
     /\ \/ /\ ~closed /\ id \in DOMAIN open
           /\ open' = [open EXCEPT ![id].body = TRUE,
                                   ![id].deadline = NextDeadline(open[id].born)]
           /\ UNCHANGED <<fate, told>>
        \/ /\ ~closed /\ id \notin DOMAIN open
           /\ fate' = [fate EXCEPT ![id] = "dropped"]
           /\ Tell(id, IF id \in DOMAIN expired THEN {expired[id]} ELSE {})
           /\ UNCHANGED open
        \/ /\ closed
           /\ Finish(id)
           /\ fate' = [fate EXCEPT ![id] = "dropped"]
           /\ UNCHANGED told
     /\ UNCHANGED <<now, expired, closed>>

\* the statement's thread panics: the drop guard ends the slot, the body is gone
Panic(r) ==
  /\ req[r].at = "run" /\ Done(r)
  /\ Finish(req[r].id)
  /\ fate' = [fate EXCEPT ![req[r].id] = "dropped"]
  /\ UNCHANGED <<now, expired, closed, told>>

\* commit consumes the body: it lands or conflicts, and then the drop guard ends the slot
Land(r) ==
  /\ req[r].at = "commit"
  /\ Becomes(r, "finish", req[r].id)
  /\ \E how \in {"committed", "conflict"} : fate' = [fate EXCEPT ![req[r].id] = how]
  /\ UNCHANGED <<now, open, expired, closed, told>>

Landed(r) ==
  /\ req[r].at = "finish" /\ Done(r)
  /\ Finish(req[r].id)
  /\ UNCHANGED <<now, expired, closed, fate, told>>

\* rollback: checked out, then finished and dropped
RolledBack(r) ==
  /\ req[r].at = "rollback" /\ Done(r)
  /\ Finish(req[r].id)
  /\ fate' = [fate EXCEPT ![req[r].id] = "dropped"]
  /\ UNCHANGED <<now, expired, closed, told>>

\* GET /tx/{id}: it takes nothing out; a due slot is expired by it, a held one is busy
Info(id) ==
  /\ \/ /\ id \notin DOMAIN open /\ id \in DOMAIN expired
        /\ Tell(id, {expired[id]})
        /\ UNCHANGED <<open, expired, fate>>
     \/ /\ id \in DOMAIN open /\ open[id].body /\ open[id].deadline <= now
        /\ Tell(id, {Expiry(open[id])})
        /\ Finish(id) /\ Expired({id})
  /\ UNCHANGED <<now, closed, req>>

-----------------------------------------------------------------------------
(* The reaper, the shutdown and the clock. *)

\* the reaper thread, until the server closes
Reap ==
  /\ ~closed /\ Due(open) # {}
  /\ open' = Without(open, Due(open)) /\ Expired(Due(open))
  /\ UNCHANGED <<now, closed, req, told>>

\* a tombstone outlives its retention, or makes room for another
Forget(id) ==
  /\ id \in DOMAIN expired
  /\ expired' = Without(expired, {id})
  /\ UNCHANGED <<now, open, closed, req, fate, told>>

\* close: the idle ones are rolled back; what a request holds is left to the request
Close ==
  LET idle == {t \in DOMAIN open : open[t].body}
  IN /\ ~closed /\ closed' = TRUE
     /\ open' = Without(open, idle)
     /\ fate' = [t \in Txs |-> IF t \in idle THEN "dropped" ELSE fate[t]]
     /\ UNCHANGED <<now, expired, req, told>>

Tick ==
  /\ now < MaxTime
  /\ now' = now + 1
  /\ UNCHANGED <<open, expired, closed, req, fate, told>>

Request(r) ==
  \/ \E id \in Txs : HasRoom(r, id)
  \/ \E id \in Txs, at \in {"run", "commit", "rollback"} : Checkout(r, id, at)
  \/ Begin(r) \/ Checkin(r) \/ Panic(r) \/ Land(r) \/ Landed(r) \/ RolledBack(r)

Next ==
  \/ \E r \in Reqs : Request(r)
  \/ \E id \in Txs : Info(id) \/ Forget(id)
  \/ Reap \/ Close \/ Tick

Spec == Init /\ [][Next]_vars

\* Time passes and the reaper thread runs.  Nothing is assumed of requests: a statement may
\* run for ever, and a client may never come back.
FairSpec == Spec /\ WF_vars(Tick) /\ WF_vars(Reap)

-----------------------------------------------------------------------------
(* Properties. *)

Holders(t) == {r \in Reqs : req[r] # NoReq /\ req[r].at \in {"run", "commit", "rollback"}
                            /\ req[r].id = t}

\* Two requests never work on one transaction at a time, and while one does no other copy
\* of the body is in the registry: through expiry, panics and shutdown, the body is in
\* exactly one place or gone.
BodyIsInOnePlace ==
  \A t \in Txs :
    Cardinality(Holders(t)) + (IF t \in DOMAIN open /\ open[t].body THEN 1 ELSE 0)
      = (IF fate[t] = "live" THEN 1 ELSE 0)

\* A transaction its owner was told went idle too long was rolled back, and so stays.
IdleIsRolledBack == \A t \in Txs : "idle" \in told[t] => fate[t] = "dropped"

\* The same of both 410s, "rolled back" being in the text of each.
ToldIsRolledBack ==
  \A t \in Txs : told[t] # {} => fate[t] # "committed"

\* There are never more slots than the limit, though room is found before the snapshot
\* is frozen and used after.
WithinLimit == Cardinality(DOMAIN open) <= MaxOpen

\* Once the server is closing and its requests have ended, no transaction is left.
DrainedIsEmpty == closed /\ (\A r \in Reqs : req[r] = NoReq) => DOMAIN open = {}

\* Every slot is freed, by its lifetime at the latest, even one whose request never ends;
\* a closing server leaves a held one to its request.
SlotsAreFreed == \A t \in Txs : t \in DOMAIN open ~> (t \notin DOMAIN open \/ closed)

=============================================================================
