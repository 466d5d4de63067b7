--------------------------- MODULE TxStoreProofs ---------------------------
(***************************************************************************)
(* Theorems about TxStore, for any number of transactions, requests and    *)
(* slots and any limits.                                                   *)
(***************************************************************************)
EXTENDS TxStore, FiniteSetTheorems, TLAPS

-----------------------------------------------------------------------------
(* The invariant.                                                          *)

Lent == {"run", "commit", "rollback"}     \* the request has the body
Busy == Lent \cup {"finish"}              \* the request will end the slot, or give it back

HasBody(r, t) == req[r].at \in Lent /\ req[r].id = t
InSlot(t)     == t \in DOMAIN open /\ open[t].body

\* A transaction is begun by one request and worked on by one request, which has its only
\* body; a commit has been decided when the drop guard is left to run.
RequestsAlone ==
  \A r \in Reqs :
    /\ req[r].at = "begin" =>
         /\ fate[req[r].id] = "unborn"
         /\ \A s \in Reqs \ {r} : req[s] # NoReq => req[s].id # req[r].id
    /\ req[r].at \in Lent =>
         /\ fate[req[r].id] = "live" /\ ~InSlot(req[r].id)
         /\ \A s \in Reqs \ {r} : ~HasBody(s, req[r].id)
    /\ req[r].at = "finish" => fate[req[r].id] \in {"committed", "conflict"}

\* A slot ends within the clock's bound; the body in it is live, and of a server that is not
\* closing; a slot without one is some request's to end.
SlotsOwned ==
  \A t \in DOMAIN open :
    /\ open[t].born + Lifetime <= MaxTime
    /\ open[t].body => fate[t] = "live" /\ ~closed
    /\ ~open[t].body => \E r \in Reqs : req[r].at \in Busy /\ req[r].id = t

\* Nothing is known of a transaction that has not begun; a live one has a body somewhere.
FatesTrue ==
  \A t \in Txs :
    /\ fate[t] = "unborn" => t \notin DOMAIN open /\ t \notin DOMAIN expired /\ told[t] = {}
    /\ fate[t] = "live" => InSlot(t) \/ \E r \in Reqs : HasBody(r, t)

\* Only what was rolled back is remembered as idle.
IdleIsDropped == \A t \in DOMAIN expired : expired[t] = "idle" => fate[t] = "dropped"

SlotsCounted == IsFiniteSet(DOMAIN open) /\ WithinLimit

TxInv ==
  /\ TypeOK
  /\ RequestsAlone /\ SlotsOwned /\ FatesTrue
  /\ IdleIsDropped /\ IdleIsRolledBack
  /\ SlotsCounted

Fates == {"unborn", "live", "committed", "conflict", "dropped"}

-----------------------------------------------------------------------------
(* Facts about the registry's operators.                                   *)

\* Removing ids from the slots or the tombstones.
LEMMA WithoutFacts ==
  ASSUME NEW f, NEW ids
  PROVE  /\ DOMAIN Without(f, ids) = DOMAIN f \ ids
         /\ \A t \in DOMAIN f \ ids : Without(f, ids)[t] = f[t]
BY DEF Without

\* Registry::expire: which slots and tombstones are left, and what becomes of the bodies.
LEMMA ExpiredFacts ==
  ASSUME TypeOK, NEW ids \in SUBSET DOMAIN open, Expired(ids)
  PROVE  /\ DOMAIN expired' = DOMAIN expired \cup ids
         /\ \A t \in DOMAIN expired : expired'[t] = expired[t]
         /\ \A t \in ids : expired'[t] \in Whys /\ (expired'[t] = "idle" => open[t].body)
         /\ fate' \in [Txs -> Fates]
         /\ \A t \in Txs : fate'[t] = IF t \in ids /\ open[t].body THEN "dropped" ELSE fate[t]
BY DEF TypeOK, Expired, Expiry, Whys, Fates

\* A request is a kind of work on one transaction, or nothing.
LEMMA ReqFacts ==
  ASSUME TypeOK, NEW r \in Reqs
  PROVE  \/ req[r] = NoReq /\ req[r].at = "none"
         \/ /\ req[r] # NoReq /\ req[r].id \in Txs
            /\ req[r].at \in {"begin", "run", "commit", "finish", "rollback"}
BY DEF TypeOK, NoReq

\* The new deadline is within the slot's lifetime.
LEMMA NextDeadlineFacts ==
  ASSUME TypeOK, NEW born \in Nat, born + Lifetime <= MaxTime
  PROVE  NextDeadline(born) \in 0..MaxTime /\ NextDeadline(born) <= born + Lifetime
BY TxStoreAssumption DEF TypeOK, NextDeadline

-----------------------------------------------------------------------------
(* The invariant holds at first, and every step keeps it.                  *)

\* An empty registry.
LEMMA InitTxInv == Init => TxInv
<1> SUFFICES ASSUME Init PROVE TxInv
  OBVIOUS
<1>1. DOMAIN open = {} /\ DOMAIN expired = {}
  BY DEF Init
<1>2. TypeOK
  <2>1. now \in 0..MaxTime
    BY TxStoreAssumption DEF Init
  <2>3. closed \in BOOLEAN
    BY DEF Init
  <2>2. /\ req \in [Reqs -> {NoReq}] /\ fate \in [Txs -> {"unborn"}]
        /\ told \in [Txs -> SUBSET Whys]
    BY DEF Init
  <2> QED BY <1>1, <2>1, <2>2, <2>3 DEF TypeOK
<1>3. RequestsAlone /\ SlotsOwned /\ FatesTrue /\ IdleIsDropped /\ IdleIsRolledBack
  BY <1>1 DEF Init, RequestsAlone, SlotsOwned, FatesTrue, IdleIsDropped, IdleIsRolledBack, NoReq,
              Lent, InSlot, HasBody
<1>4. SlotsCounted
  BY <1>1, FS_EmptySet, TxStoreAssumption DEF SlotsCounted, WithinLimit
<1> QED BY <1>2, <1>3, <1>4 DEF TxInv

\* Slots that are removed are counted no more.
LEMMA CountedWithout ==
  ASSUME SlotsCounted, NEW ids
  PROVE  IsFiniteSet(DOMAIN open \ ids) /\ Cardinality(DOMAIN open \ ids) <= MaxOpen
         /\ Cardinality(DOMAIN open \ ids) \in Nat
<1>1. IsFiniteSet(DOMAIN open) /\ Cardinality(DOMAIN open) <= MaxOpen
  BY DEF SlotsCounted, WithinLimit
<1>2. DOMAIN open \ ids \in SUBSET DOMAIN open
  OBVIOUS
<1>3. IsFiniteSet(DOMAIN open \ ids) /\ Cardinality(DOMAIN open \ ids) <= Cardinality(DOMAIN open)
  BY <1>1, <1>2, FS_Subset
<1>4. Cardinality(DOMAIN open \ ids) \in Nat /\ Cardinality(DOMAIN open) \in Nat
  BY <1>1, <1>3, FS_CardinalityType
<1> QED BY <1>1, <1>3, <1>4, TxStoreAssumption

\* Expiring slots while nothing else happens (reap_locked, and expire in checkout and info),
\* the owner of some of them being told why.
LEMMA ExpireTxInv ==
  ASSUME TxInv, NEW ids \in SUBSET DOMAIN open, open' = Without(open, ids), Expired(ids),
         UNCHANGED <<now, closed, req>>,
         told' \in [Txs -> SUBSET Whys],
         \A t \in Txs : told'[t] = told[t] \/ (t \in ids /\ told'[t] = told[t] \cup {expired'[t]})
  PROVE  TxInv'
<1>0. TypeOK /\ RequestsAlone /\ SlotsOwned /\ FatesTrue /\ IdleIsDropped /\ IdleIsRolledBack
      /\ SlotsCounted
  BY DEF TxInv
<1>1. /\ DOMAIN open' = DOMAIN open \ ids
      /\ \A t \in DOMAIN open \ ids : open'[t] = open[t]
  BY WithoutFacts
<1>2. /\ DOMAIN expired' = DOMAIN expired \cup ids
      /\ \A t \in DOMAIN expired : expired'[t] = expired[t]
      /\ \A t \in ids : expired'[t] \in Whys /\ (expired'[t] = "idle" => open[t].body)
      /\ fate' \in [Txs -> Fates]
      /\ \A t \in Txs : fate'[t] = IF t \in ids /\ open[t].body THEN "dropped" ELSE fate[t]
  BY <1>0, ExpiredFacts
<1>3. ids \subseteq Txs
  BY <1>0 DEF TypeOK
<1>4. TypeOK'
  BY <1>0, <1>1, <1>2, <1>3 DEF TypeOK, Fates
<1>5. RequestsAlone'
  BY <1>0, <1>1, <1>2, <1>3, ReqFacts DEF RequestsAlone, FatesTrue, SlotsOwned, HasBody, InSlot, Lent
<1>6. SlotsOwned'
  BY <1>0, <1>1, <1>2, <1>3 DEF SlotsOwned, TypeOK
<1>7. FatesTrue'
  BY <1>0, <1>1, <1>2, <1>3 DEF FatesTrue, SlotsOwned, InSlot, HasBody
<1>8. IdleIsDropped'
  BY <1>0, <1>1, <1>2, <1>3 DEF IdleIsDropped, TypeOK
<1>9. IdleIsRolledBack'
  BY <1>0, <1>1, <1>2, <1>3 DEF IdleIsRolledBack, SlotsOwned, TypeOK
<1>10. SlotsCounted'
  BY <1>0, <1>1, CountedWithout DEF SlotsCounted, WithinLimit
<1> QED BY <1>4, <1>5, <1>6, <1>7, <1>8, <1>9, <1>10 DEF TxInv

\* A request that finds no slot free, or starts to begin a transaction.
LEMMA HasRoomTxInv ==
  ASSUME TxInv, NEW r \in Reqs, NEW id \in Txs, HasRoom(r, id)
  PROVE  TxInv'
<1>0. TypeOK /\ RequestsAlone /\ SlotsOwned /\ FatesTrue /\ IdleIsDropped /\ IdleIsRolledBack
      /\ SlotsCounted
  BY DEF TxInv
<1>a. PICK ids \in SUBSET DOMAIN open : ids = Due(open)
  BY DEF Due
<1>b. /\ open' = Without(open, ids) /\ Expired(ids) /\ UNCHANGED <<now, closed, told>>
      /\ req[r] = NoReq /\ fate[id] = "unborn"
      /\ \A s \in Reqs : req[s] # NoReq => req[s].id # id
      /\ req' = req \/ req' = [req EXCEPT ![r] = [at |-> "begin", id |-> id]]
  BY <1>a DEF HasRoom, Becomes
<1>1. /\ DOMAIN open' = DOMAIN open \ ids
      /\ \A t \in DOMAIN open \ ids : open'[t] = open[t]
  <2>1. open' = Without(open, ids)
    BY <1>b
  <2> QED BY <2>1, WithoutFacts
<1>2. /\ DOMAIN expired' = DOMAIN expired \cup ids
      /\ \A t \in DOMAIN expired : expired'[t] = expired[t]
      /\ \A t \in ids : expired'[t] \in Whys /\ (expired'[t] = "idle" => open[t].body)
      /\ fate' \in [Txs -> Fates]
      /\ \A t \in Txs : fate'[t] = IF t \in ids /\ open[t].body THEN "dropped" ELSE fate[t]
  BY <1>0, <1>a, <1>b, ExpiredFacts
<1>3. ids \subseteq Txs
  BY <1>0, <1>a DEF TypeOK
<1>c. CASE req' = req
  <2>1. told' \in [Txs -> SUBSET Whys]
    BY <1>0, <1>b DEF TypeOK
  <2> QED BY <1>a, <1>b, <1>c, <2>1, ExpireTxInv
<1>d. CASE req' = [req EXCEPT ![r] = [at |-> "begin", id |-> id]]
  <2>1. /\ req'[r] = [at |-> "begin", id |-> id] /\ req'[r].at = "begin" /\ req'[r].id = id
        /\ \A s \in Reqs \ {r} : req'[s] = req[s]
        /\ id \notin DOMAIN open
    BY <1>0, <1>b, <1>d DEF TypeOK, FatesTrue
  <2>4. TypeOK'
    BY <1>0, <1>1, <1>2, <1>3, <1>a, <1>b, <1>d DEF TypeOK, Fates
  <2>5. RequestsAlone'
    BY <1>0, <1>1, <1>2, <1>3, <1>a, <1>b, <2>1, ReqFacts
    DEF RequestsAlone, FatesTrue, SlotsOwned, HasBody, InSlot, Lent
  <2>6. SlotsOwned'
    BY <1>0, <1>1, <1>2, <1>3, <1>a, <1>b, <2>1, ReqFacts DEF SlotsOwned, TypeOK, Busy, Lent
  <2>7. FatesTrue'
    BY <1>0, <1>1, <1>2, <1>3, <1>a, <1>b, <2>1, ReqFacts DEF FatesTrue, SlotsOwned, InSlot, HasBody, Lent
  <2>8. IdleIsDropped'
    BY <1>0, <1>1, <1>2, <1>3, <1>a DEF IdleIsDropped, TypeOK
  <2>9. IdleIsRolledBack'
    BY <1>0, <1>1, <1>2, <1>3, <1>a, <1>b DEF IdleIsRolledBack, SlotsOwned, TypeOK
  <2>10. SlotsCounted'
    BY <1>0, <1>1, CountedWithout DEF SlotsCounted, WithinLimit
  <2> QED BY <2>4, <2>5, <2>6, <2>7, <2>8, <2>9, <2>10 DEF TxInv
<1> QED BY <1>b, <1>c, <1>d

\* TxStore::begin: a slot with the body in it, where there is room for one.
LEMMA BeginTxInv ==
  ASSUME TxInv, NEW r \in Reqs, Begin(r)
  PROVE  TxInv'
<1>0. TypeOK /\ RequestsAlone /\ SlotsOwned /\ FatesTrue /\ IdleIsDropped /\ IdleIsRolledBack
      /\ SlotsCounted
  BY DEF TxInv
<1>a. PICK id \in Txs : id = req[r].id
  BY <1>0, ReqFacts DEF Begin
<1>b. /\ req[r].at = "begin" /\ now + Lifetime <= MaxTime /\ UNCHANGED <<now, closed, told>>
      /\ req' = [req EXCEPT ![r] = NoReq]
  BY DEF Begin, Done
<1>c. /\ req'[r] = NoReq /\ req'[r].at = "none" /\ \A s \in Reqs \ {r} : req'[s] = req[s]
      /\ req' \in [Reqs -> {NoReq} \cup [at : {"begin", "run", "commit", "finish", "rollback"}, id : Txs]]
  BY <1>0, <1>b DEF TypeOK, NoReq
<1>d. PICK due \in SUBSET DOMAIN open : due = Due(open)
  BY DEF Due
<1>e. PICK left : left = Without(open, due)
  OBVIOUS
<1>f. DOMAIN left = DOMAIN open \ due /\ \A t \in DOMAIN open \ due : left[t] = open[t]
  BY <1>e, WithoutFacts
<1>g. due \subseteq Txs
  BY <1>0 DEF TypeOK
<1>h. told' \in [Txs -> SUBSET Whys]
  BY <1>0, <1>b DEF TypeOK
<1>1. CASE closed /\ UNCHANGED <<open, expired, fate>>
  <2>1. TypeOK'
    BY <1>0, <1>1, <1>b, <1>c DEF TypeOK
  <2>2. RequestsAlone' /\ SlotsOwned' /\ FatesTrue'
    BY <1>0, <1>1, <1>b, <1>c, ReqFacts
    DEF RequestsAlone, SlotsOwned, FatesTrue, HasBody, InSlot, Lent, Busy
  <2>3. IdleIsDropped' /\ IdleIsRolledBack' /\ SlotsCounted'
    BY <1>0, <1>1, <1>b DEF IdleIsDropped, IdleIsRolledBack, SlotsCounted, WithinLimit
  <2> QED BY <2>1, <2>2, <2>3 DEF TxInv
<1>2. CASE ~closed /\ open' = left /\ Expired(due)
  <2>2. /\ DOMAIN expired' = DOMAIN expired \cup due
        /\ \A t \in DOMAIN expired : expired'[t] = expired[t]
        /\ \A t \in due : expired'[t] \in Whys /\ (expired'[t] = "idle" => open[t].body)
        /\ fate' \in [Txs -> Fates]
        /\ \A t \in Txs : fate'[t] = IF t \in due /\ open[t].body THEN "dropped" ELSE fate[t]
    BY <1>0, <1>2, ExpiredFacts
  <2>4. TypeOK'
    BY <1>0, <1>2, <1>b, <1>c, <1>f, <1>g, <2>2 DEF TypeOK, Fates
  <2>5. RequestsAlone'
    BY <1>0, <1>2, <1>b, <1>c, <1>f, <1>g, <2>2, ReqFacts
    DEF RequestsAlone, FatesTrue, SlotsOwned, HasBody, InSlot, Lent
  <2>6. SlotsOwned'
    BY <1>0, <1>2, <1>b, <1>c, <1>f, <1>g, <2>2, ReqFacts DEF SlotsOwned, TypeOK, Busy, Lent
  <2>7. FatesTrue'
    BY <1>0, <1>2, <1>b, <1>c, <1>f, <1>g, <2>2, ReqFacts DEF FatesTrue, SlotsOwned, InSlot, HasBody, Lent
  <2>8. IdleIsDropped'
    BY <1>0, <1>2, <1>f, <1>g, <2>2 DEF IdleIsDropped, TypeOK
  <2>9. IdleIsRolledBack'
    BY <1>0, <1>b, <1>g, <2>2 DEF IdleIsRolledBack, SlotsOwned, TypeOK
  <2>10. SlotsCounted'
    BY <1>0, <1>2, <1>f, CountedWithout DEF SlotsCounted, WithinLimit
  <2> QED BY <2>4, <2>5, <2>6, <2>7, <2>8, <2>9, <2>10 DEF TxInv
<1>3. CASE /\ ~closed /\ Cardinality(DOMAIN left) < MaxOpen
           /\ open' = [t \in DOMAIN left \cup {id} |->
                         IF t = id THEN [born |-> now, deadline |-> NextDeadline(now), body |-> TRUE]
                         ELSE left[t]]
           /\ expired' = [t \in DOMAIN expired \cup due |->
                            IF t \in due THEN Expiry(open[t]) ELSE expired[t]]
           /\ fate' = [t \in Txs |-> IF t = id THEN "live"
                                     ELSE IF t \in due /\ open[t].body THEN "dropped" ELSE fate[t]]
  <2>1. /\ fate[id] = "unborn" /\ id \notin DOMAIN open /\ id \notin DOMAIN expired /\ told[id] = {}
        /\ \A s \in Reqs \ {r} : req[s] # NoReq => req[s].id # id
    BY <1>0, <1>a, <1>b DEF RequestsAlone, FatesTrue
  <2>2. PICK slot \in [born : 0..MaxTime, deadline : 0..MaxTime, body : BOOLEAN] :
          /\ slot = [born |-> now, deadline |-> NextDeadline(now), body |-> TRUE]
          /\ slot.deadline <= slot.born + Lifetime /\ slot.born + Lifetime <= MaxTime /\ slot.body
    <3>1. NextDeadline(now) \in 0..MaxTime /\ NextDeadline(now) <= now + Lifetime
      BY <1>0, <1>b, NextDeadlineFacts DEF TypeOK
    <3>2. PICK d \in 0..MaxTime : d = NextDeadline(now) /\ d <= now + Lifetime
      BY <3>1
    <3>3. now \in 0..MaxTime
      BY <1>0 DEF TypeOK
    <3>4. [born |-> now, deadline |-> d, body |-> TRUE]
            \in [born : 0..MaxTime, deadline : 0..MaxTime, body : BOOLEAN]
      BY <3>2, <3>3
    <3> QED BY <1>b, <3>2, <3>3, <3>4
  <2>3. /\ DOMAIN open' = (DOMAIN open \ due) \cup {id}
        /\ open'[id] = slot /\ \A t \in DOMAIN open \ due : open'[t] = open[t]
    BY <1>3, <1>f, <2>1, <2>2
  <2>4. /\ DOMAIN expired' = DOMAIN expired \cup due
        /\ \A t \in DOMAIN expired : expired'[t] = expired[t]
        /\ \A t \in due : expired'[t] \in Whys /\ (expired'[t] = "idle" => open[t].body)
    BY <1>0, <1>3 DEF TypeOK, Expiry, Whys
  <2>5. /\ fate' \in [Txs -> Fates] /\ fate'[id] = "live"
        /\ \A t \in Txs \ {id} : fate'[t] = IF t \in due /\ open[t].body THEN "dropped" ELSE fate[t]
    BY <1>0, <1>3 DEF TypeOK, Fates
  <2>6. TypeOK'
    <3>1. \A t \in DOMAIN open' :
            /\ open'[t] \in [born : 0..MaxTime, deadline : 0..MaxTime, body : BOOLEAN]
            /\ open'[t].deadline <= open'[t].born + Lifetime
      BY <1>0, <2>2, <2>3 DEF TypeOK
    <3>2. DOMAIN open' \subseteq Txs /\ DOMAIN expired' \subseteq Txs /\ DOMAIN open' \cap DOMAIN expired' = {}
      BY <1>0, <1>g, <2>1, <2>3, <2>4 DEF TypeOK
    <3>3. \A t \in DOMAIN expired' : expired'[t] \in Whys
      BY <1>0, <2>4 DEF TypeOK
    <3> QED BY <1>0, <1>b, <1>c, <1>h, <2>5, <3>1, <3>2, <3>3 DEF TypeOK, Fates
  <2>7. RequestsAlone'
    BY <1>0, <1>c, <1>g, <2>1, <2>3, <2>5, ReqFacts
    DEF RequestsAlone, FatesTrue, SlotsOwned, HasBody, InSlot, Lent
  <2>8. SlotsOwned'
    <3>1. ASSUME NEW t \in DOMAIN open \ due
          PROVE  /\ open'[t].born + Lifetime <= MaxTime
                 /\ open'[t].body => fate'[t] = "live" /\ ~closed'
                 /\ ~open'[t].body => \E s \in Reqs : req'[s].at \in Busy /\ req'[s].id = t
      BY <1>0, <1>3, <1>b, <1>c, <1>g, <2>1, <2>3, <2>5, ReqFacts DEF SlotsOwned, TypeOK, Busy, Lent
    <3>2. open'[id].born + Lifetime <= MaxTime /\ open'[id].body /\ fate'[id] = "live" /\ ~closed'
      BY <1>3, <1>b, <2>2, <2>3, <2>5
    <3> QED BY <2>3, <3>1, <3>2 DEF SlotsOwned
  <2>9. FatesTrue'
    BY <1>0, <1>b, <1>c, <1>g, <2>1, <2>2, <2>3, <2>4, <2>5, ReqFacts
    DEF FatesTrue, SlotsOwned, InSlot, HasBody, Lent
  <2>10. IdleIsDropped'
    BY <1>0, <1>g, <2>1, <2>4, <2>5 DEF IdleIsDropped, TypeOK
  <2>11. IdleIsRolledBack'
    BY <1>0, <1>b, <1>g, <2>1, <2>5 DEF IdleIsRolledBack, SlotsOwned, TypeOK
  <2>12. SlotsCounted'
    <3>1. IsFiniteSet(DOMAIN left) /\ Cardinality(DOMAIN left) \in Nat
      BY <1>0, <1>f, CountedWithout
    <3>2. DOMAIN open' = DOMAIN left \cup {id}
      BY <1>f, <2>3
    <3>a. PICK S : S = DOMAIN left
      OBVIOUS
    <3>c. /\ IsFiniteSet(S \cup {id})
          /\ Cardinality(S \cup {id}) = IF id \in S THEN Cardinality(S) ELSE Cardinality(S) + 1
      BY <3>1, <3>a, FS_AddElement, Zenon
    <3>b. IsFiniteSet(S \cup {id}) /\ Cardinality(S \cup {id}) <= Cardinality(S) + 1
      BY <3>1, <3>a, <3>c
    <3>3. IsFiniteSet(DOMAIN open') /\ Cardinality(DOMAIN open') <= Cardinality(DOMAIN left) + 1
      BY <3>2, <3>a, <3>b
    <3>4. Cardinality(DOMAIN open') \in Nat
      BY <3>3, FS_CardinalityType
    <3> QED BY <1>3, <3>1, <3>3, <3>4, TxStoreAssumption DEF SlotsCounted, WithinLimit
  <2> QED BY <2>6, <2>7, <2>8, <2>9, <2>10, <2>11, <2>12 DEF TxInv
<1> QED BY <1>1, <1>2, <1>3, <1>a, <1>d, <1>e DEF Begin

\* checkout: refused, expired, or the body is lent.
LEMMA CheckoutTxInv ==
  ASSUME TxInv, NEW r \in Reqs, NEW id \in Txs, NEW at \in Lent, Checkout(r, id, at)
  PROVE  TxInv'
<1>0. TypeOK /\ RequestsAlone /\ SlotsOwned /\ FatesTrue /\ IdleIsDropped /\ IdleIsRolledBack
      /\ SlotsCounted
  BY DEF TxInv
<1>a. req[r] = NoReq /\ UNCHANGED <<now, closed>>
  BY DEF Checkout
<1>1. CASE /\ id \notin DOMAIN open /\ id \in DOMAIN expired
           /\ Tell(id, {expired[id]})
           /\ UNCHANGED <<open, expired, req, fate>>
  <2>1. /\ told' \in [Txs -> SUBSET Whys]
        /\ \A t \in Txs : told'[t] = IF t = id THEN told[t] \cup {expired[t]} ELSE told[t]
    BY <1>0, <1>1 DEF TypeOK, Tell
  <2>2. TypeOK'
    BY <1>0, <1>1, <1>a, <2>1 DEF TypeOK
  <2>3. RequestsAlone' /\ SlotsOwned' /\ IdleIsDropped' /\ SlotsCounted'
    BY <1>0, <1>1, <1>a DEF RequestsAlone, SlotsOwned, IdleIsDropped, SlotsCounted, WithinLimit,
                             HasBody, InSlot
  <2>4. FatesTrue' /\ IdleIsRolledBack'
    BY <1>0, <1>1, <1>a, <2>1 DEF FatesTrue, IdleIsRolledBack, IdleIsDropped, HasBody, InSlot
  <2> QED BY <2>2, <2>3, <2>4 DEF TxInv
<1>2. CASE /\ id \in DOMAIN open /\ open[id].body /\ open[id].deadline <= now
           /\ Tell(id, {Expiry(open[id])})
           /\ Finish(id) /\ Expired({id})
           /\ UNCHANGED req
  <2>1. PICK ids \in SUBSET DOMAIN open : ids = {id}
    BY <1>2
  <2>2. open' = Without(open, ids) /\ Expired(ids)
    BY <1>2, <2>1 DEF Finish
  <2>3. expired'[id] = Expiry(open[id]) /\ expired'[id] \in Whys
    BY <1>2, <2>1, <2>2 DEF Expired, Expiry, Whys
  <2>4. /\ told' \in [Txs -> SUBSET Whys]
        /\ \A t \in Txs : told'[t] = told[t] \/ (t \in ids /\ told'[t] = told[t] \cup {expired'[t]})
    BY <1>0, <1>2, <2>1, <2>3 DEF TypeOK, Tell
  <2> QED BY <1>2, <1>a, <2>1, <2>2, <2>4, ExpireTxInv
<1>3. CASE /\ id \in DOMAIN open /\ open[id].body /\ open[id].deadline > now
           /\ open' = [open EXCEPT ![id].body = FALSE]
           /\ Becomes(r, at, id)
           /\ UNCHANGED <<expired, fate, told>>
  <2>1. /\ req'[r] = [at |-> at, id |-> id] /\ req'[r].at = at /\ req'[r].id = id
        /\ \A s \in Reqs \ {r} : req'[s] = req[s]
        /\ req' \in [Reqs -> {NoReq} \cup [at : {"begin", "run", "commit", "finish", "rollback"}, id : Txs]]
    BY <1>0, <1>3 DEF TypeOK, Becomes, Lent
  <2>2. /\ DOMAIN open' = DOMAIN open /\ \A t \in DOMAIN open \ {id} : open'[t] = open[t]
        /\ open'[id] = [open[id] EXCEPT !.body = FALSE]
    BY <1>3
  <2>3. /\ open'[id].born = open[id].born /\ open'[id].deadline = open[id].deadline
        /\ ~open'[id].body
        /\ open'[id] \in [born : 0..MaxTime, deadline : 0..MaxTime, body : BOOLEAN]
    BY <1>0, <1>3, <2>2 DEF TypeOK
  <2>4. fate[id] = "live" /\ InSlot(id)
    BY <1>0, <1>3 DEF SlotsOwned, InSlot
  <2>5. TypeOK'
    BY <1>0, <1>3, <1>a, <2>1, <2>2, <2>3 DEF TypeOK
  <2>6. RequestsAlone'
    BY <1>0, <1>3, <1>a, <2>1, <2>2, <2>3, <2>4, ReqFacts DEF RequestsAlone, HasBody, InSlot, Lent
  <2>7. SlotsOwned'
    <3>1. \A s \in Reqs : req[s].at \in Busy => s # r
      BY <1>a DEF Busy, Lent, NoReq
    <3>2. ASSUME NEW t \in DOMAIN open \ {id}
          PROVE  /\ open'[t].born + Lifetime <= MaxTime
                 /\ open'[t].body => fate'[t] = "live" /\ ~closed'
                 /\ ~open'[t].body => \E s \in Reqs : req'[s].at \in Busy /\ req'[s].id = t
      BY <1>0, <1>3, <1>a, <2>1, <2>2, <3>1 DEF SlotsOwned
    <3>3. /\ open'[id].born + Lifetime <= MaxTime /\ ~open'[id].body
          /\ req'[r].at \in Busy /\ req'[r].id = id
      BY <1>0, <1>3, <2>1, <2>3 DEF SlotsOwned, Busy
    <3> QED BY <2>2, <3>2, <3>3 DEF SlotsOwned
  <2>8. FatesTrue'
    BY <1>0, <1>3, <1>a, <2>1, <2>2, <2>4, ReqFacts DEF FatesTrue, HasBody, InSlot, Lent
  <2>9. IdleIsDropped' /\ IdleIsRolledBack' /\ SlotsCounted'
    BY <1>0, <1>3, <2>2 DEF IdleIsDropped, IdleIsRolledBack, SlotsCounted, WithinLimit
  <2> QED BY <2>5, <2>6, <2>7, <2>8, <2>9 DEF TxInv
<1> QED BY <1>1, <1>2, <1>3 DEF Checkout

\* A request that has the body, or whose commit is decided, ends, and its slot with it.  The
\* fate of its transaction is then no longer live.
LEMMA EndTxInv ==
  ASSUME TxInv, NEW r \in Reqs, req[r].at \in Busy, NEW id \in Txs, id = req[r].id,
         Done(r), open' = Without(open, {id}), UNCHANGED <<now, expired, closed>>,
         told' = told \/ (id \in DOMAIN expired /\ Tell(id, {expired[id]})),
         \/ req[r].at = "finish" /\ fate' = fate
         \/ req[r].at \in Lent /\ fate' = [fate EXCEPT ![id] = "dropped"]
  PROVE  TxInv'
<1>0. TypeOK /\ RequestsAlone /\ SlotsOwned /\ FatesTrue /\ IdleIsDropped /\ IdleIsRolledBack
      /\ SlotsCounted
  BY DEF TxInv
<1>1. /\ req'[r] = NoReq /\ req'[r].at = "none" /\ \A s \in Reqs \ {r} : req'[s] = req[s]
      /\ req' \in [Reqs -> {NoReq} \cup [at : {"begin", "run", "commit", "finish", "rollback"}, id : Txs]]
  BY <1>0 DEF TypeOK, NoReq, Done
<1>2. /\ DOMAIN open' = DOMAIN open \ {id}
      /\ \A t \in DOMAIN open \ {id} : open'[t] = open[t]
  <2>1. open' = Without(open, {id})
    OBVIOUS
  <2> QED BY ONLY <2>1, WithoutFacts
<1>3. /\ fate' \in [Txs -> Fates] /\ \A t \in Txs \ {id} : fate'[t] = fate[t]
      /\ fate[id] # "unborn" /\ fate'[id] \notin {"unborn", "live"}
      /\ req[r].at = "finish" => fate[id] # "dropped" /\ fate'[id] = fate[id]
      /\ req[r].at \in Lent => fate[id] = "live" /\ fate'[id] = "dropped"
  BY <1>0 DEF TypeOK, Fates, RequestsAlone, Lent
<1>4. /\ told' \in [Txs -> SUBSET Whys] /\ \A t \in Txs \ {id} : told'[t] = told[t]
      /\ "idle" \in told'[id] => "idle" \in told[id] \/ (id \in DOMAIN expired /\ expired[id] = "idle")
  BY <1>0 DEF TypeOK, Tell
<1>5. TypeOK'
  BY <1>0, <1>1, <1>2, <1>3, <1>4 DEF TypeOK, Fates
<1>a. /\ UNCHANGED <<now, expired, closed>> /\ req[r].id = id /\ req[r].at \in Busy
      /\ \A s \in Reqs \ {r} : ~HasBody(s, id)
  BY <1>0, <1>3 DEF RequestsAlone, HasBody, Busy
<1>6. RequestsAlone'
  <2> SUFFICES ASSUME NEW s \in Reqs \ {r}
               PROVE  /\ req'[s].at = "begin" =>
                           /\ fate'[req'[s].id] = "unborn"
                           /\ \A q \in Reqs \ {s} : req'[q] # NoReq => req'[q].id # req'[s].id
                      /\ req'[s].at \in Lent =>
                           /\ fate'[req'[s].id] = "live" /\ ~InSlot(req[s].id)'
                           /\ \A q \in Reqs \ {s} : ~HasBody(q, req[s].id)'
                      /\ req'[s].at = "finish" => fate'[req'[s].id] \in {"committed", "conflict"}
    BY <1>1 DEF RequestsAlone, Lent
  <2>1. req'[s] = req[s]
    BY <1>1
  <2>2. req[s].at = "begin" => req[s].id # id
    BY <1>0, <1>3 DEF RequestsAlone
  <2>3. req[s].at \in Lent => req[s].id # id
    BY <1>a DEF HasBody
  <2>4. req[s].at # "none" => req[s].id \in Txs
    BY <1>0, ReqFacts
  <2>5. req[s].at = "finish" => fate'[req[s].id] \in {"committed", "conflict"}
    <3>1. req[s].at = "finish" => fate[req[s].id] \in {"committed", "conflict"} /\ req[s].id \in Txs
      BY ONLY <1>0, <2>4, s \in Reqs \ {r} DEF RequestsAlone
    <3>2. req[r].at \in Lent => fate[id] = "live"
      BY <1>3
    <3> QED BY ONLY <1>3, <1>a, <3>1, <3>2 DEF Busy
  <2>6. req[s].at = "begin" => /\ fate'[req[s].id] = "unborn"
                               /\ \A q \in Reqs \ {s} : req'[q] # NoReq => req'[q].id # req[s].id
    BY ONLY <1>0, <1>1, <1>3, <2>2, <2>4, s \in Reqs \ {r} DEF RequestsAlone
  <2>7. req[s].at \in Lent => /\ fate'[req[s].id] = "live" /\ ~InSlot(req[s].id)'
                              /\ \A q \in Reqs \ {s} : ~HasBody(q, req[s].id)'
    BY ONLY <1>0, <1>1, <1>2, <1>3, <2>3, <2>4, s \in Reqs \ {r}
    DEF RequestsAlone, InSlot, HasBody, Lent
  <2> QED BY ONLY <2>1, <2>5, <2>6, <2>7
<1>7. SlotsOwned'
  <2> SUFFICES ASSUME NEW t \in DOMAIN open \ {id}
               PROVE  /\ open'[t].born + Lifetime <= MaxTime
                      /\ open'[t].body => fate'[t] = "live" /\ ~closed'
                      /\ ~open'[t].body => \E s \in Reqs : req'[s].at \in Busy /\ req'[s].id = t
    BY <1>2 DEF SlotsOwned
  <2>1. open'[t] = open[t] /\ fate'[t] = fate[t]
    BY ONLY <1>0, <1>2, <1>3, t \in DOMAIN open \ {id} DEF TypeOK
  <2> QED BY ONLY <1>0, <1>1, <1>a, <2>1, t \in DOMAIN open \ {id} DEF SlotsOwned
<1>8. FatesTrue'
  <2> SUFFICES ASSUME NEW t \in Txs \ {id}
               PROVE  /\ fate'[t] = "unborn" =>
                           t \notin DOMAIN open' /\ t \notin DOMAIN expired' /\ told'[t] = {}
                      /\ fate'[t] = "live" => InSlot(t)' \/ \E s \in Reqs : HasBody(s, t)'
    BY ONLY <1>3, \A t \in Txs \ {id} :
                      /\ fate'[t] = "unborn" =>
                           t \notin DOMAIN open' /\ t \notin DOMAIN expired' /\ told'[t] = {}
                      /\ fate'[t] = "live" => InSlot(t)' \/ \E s \in Reqs : HasBody(s, t)'
    DEF FatesTrue
  <2> QED BY ONLY <1>0, <1>1, <1>2, <1>3, <1>4, <1>a, t \in Txs \ {id} DEF FatesTrue, HasBody, InSlot
<1>9. IdleIsDropped'
  BY <1>0, <1>3 DEF IdleIsDropped, TypeOK
<1>10. IdleIsRolledBack'
  BY <1>0, <1>3, <1>4 DEF IdleIsRolledBack, IdleIsDropped
<1>11. SlotsCounted'
  BY <1>0, <1>2, CountedWithout DEF SlotsCounted, WithinLimit
<1> QED BY <1>5, <1>6, <1>7, <1>8, <1>9, <1>10, <1>11 DEF TxInv

\* The end of a statement: the body goes back to its slot, or is dropped.
LEMMA CheckinTxInv ==
  ASSUME TxInv, NEW r \in Reqs, Checkin(r)
  PROVE  TxInv'
<1>0. TypeOK /\ RequestsAlone /\ SlotsOwned /\ FatesTrue /\ IdleIsDropped /\ IdleIsRolledBack
      /\ SlotsCounted
  BY DEF TxInv
<1>a. PICK id \in Txs : id = req[r].id
  BY <1>0, ReqFacts DEF Checkin
<1>b. /\ req[r].at = "run" /\ req[r].at \in Busy /\ req[r].at \in Lent /\ Done(r)
      /\ UNCHANGED <<now, expired, closed>>
  BY DEF Checkin, Busy, Lent
<1>1. CASE /\ ~closed /\ id \in DOMAIN open
           /\ open' = [open EXCEPT ![id].body = TRUE, ![id].deadline = NextDeadline(open[id].born)]
           /\ UNCHANGED <<fate, told>>
  <2>1. /\ req'[r] = NoReq /\ req'[r].at = "none" /\ \A s \in Reqs \ {r} : req'[s] = req[s]
        /\ req' \in [Reqs -> {NoReq} \cup [at : {"begin", "run", "commit", "finish", "rollback"}, id : Txs]]
    BY <1>0, <1>b DEF TypeOK, NoReq, Done
  <2>2. PICK b \in Nat : b = open[id].born /\ b + Lifetime <= MaxTime
    BY <1>0, <1>1 DEF TypeOK, SlotsOwned
  <2>3. NextDeadline(b) \in 0..MaxTime /\ NextDeadline(b) <= b + Lifetime
    BY <1>0, <2>2, NextDeadlineFacts
  <2>4. PICK d \in 0..MaxTime : d = NextDeadline(open[id].born) /\ d <= open[id].born + Lifetime
    BY <2>2, <2>3
  <2>5. /\ DOMAIN open' = DOMAIN open /\ \A t \in DOMAIN open \ {id} : open'[t] = open[t]
        /\ open'[id] = [open[id] EXCEPT !.body = TRUE, !.deadline = d]
    BY <1>1, <2>4
  <2>6. /\ open'[id].born = open[id].born /\ open'[id].deadline = d /\ open'[id].body
        /\ open'[id] \in [born : 0..MaxTime, deadline : 0..MaxTime, body : BOOLEAN]
    BY <1>0, <1>1, <2>4, <2>5 DEF TypeOK
  <2>7. fate[id] = "live" /\ \A s \in Reqs \ {r} : ~HasBody(s, id)
    BY <1>0, <1>a, <1>b DEF RequestsAlone
  <2>8. TypeOK'
    BY <1>0, <1>1, <1>b, <2>1, <2>4, <2>5, <2>6 DEF TypeOK
  <2>9. RequestsAlone'
    BY <1>0, <1>1, <1>b, <2>1, <2>5, <2>6, <2>7, ReqFacts DEF RequestsAlone, HasBody, InSlot, Lent
  <2>10. SlotsOwned'
    BY <1>0, <1>1, <1>a, <1>b, <2>1, <2>2, <2>5, <2>6, <2>7, ReqFacts DEF SlotsOwned
  <2>11. FatesTrue'
    BY <1>0, <1>1, <1>a, <1>b, <2>1, <2>5, <2>6, <2>7, ReqFacts DEF FatesTrue, HasBody, InSlot, Lent
  <2>12. IdleIsDropped' /\ IdleIsRolledBack' /\ SlotsCounted'
    BY <1>0, <1>1, <1>b, <2>5 DEF IdleIsDropped, IdleIsRolledBack, SlotsCounted, WithinLimit
  <2> QED BY <2>8, <2>9, <2>10, <2>11, <2>12 DEF TxInv
<1>2. CASE /\ ~closed /\ id \notin DOMAIN open
           /\ fate' = [fate EXCEPT ![id] = "dropped"]
           /\ Tell(id, IF id \in DOMAIN expired THEN {expired[id]} ELSE {})
           /\ UNCHANGED open
  <2>1. told' = told \/ (id \in DOMAIN expired /\ Tell(id, {expired[id]}))
    <3>1. CASE id \in DOMAIN expired
      BY <1>2, <3>1
    <3>2. CASE id \notin DOMAIN expired
      BY <1>0, <1>2, <3>2 DEF Tell, TypeOK
    <3> QED BY <3>1, <3>2
  <2>2. TypeOK'
    <3>1. /\ req' \in [Reqs -> {NoReq} \cup [at : {"begin", "run", "commit", "finish", "rollback"}, id : Txs]]
          /\ fate' \in [Txs -> Fates]
      BY <1>0, <1>2, <1>b DEF TypeOK, Done, Fates
    <3>2. told' \in [Txs -> SUBSET Whys]
      BY <1>0, <2>1 DEF TypeOK, Tell
    <3> QED BY <1>0, <1>2, <1>b, <3>1, <3>2 DEF TypeOK, Fates
  <2>3. /\ req'[r] = NoReq /\ req'[r].at = "none" /\ \A s \in Reqs \ {r} : req'[s] = req[s]
        /\ \A t \in Txs \ {id} : fate'[t] = fate[t] /\ told'[t] = told[t]
        /\ fate[id] = "live" /\ fate'[id] = "dropped"
    BY <1>0, <1>2, <1>a, <1>b DEF TypeOK, NoReq, Done, Tell, RequestsAlone
  <2>4. RequestsAlone'
    BY <1>0, <1>2, <1>a, <1>b, <2>3, ReqFacts DEF RequestsAlone, HasBody, InSlot, Lent
  <2>5. SlotsOwned'
    BY <1>0, <1>2, <1>a, <1>b, <2>3 DEF SlotsOwned, TypeOK
  <2>6. FatesTrue'
    BY <1>0, <1>2, <1>a, <1>b, <2>3, ReqFacts DEF FatesTrue, HasBody, InSlot, Lent
  <2>7. IdleIsDropped' /\ IdleIsRolledBack' /\ SlotsCounted'
    BY <1>0, <1>2, <1>b, <2>3
    DEF IdleIsDropped, IdleIsRolledBack, SlotsCounted, WithinLimit, TypeOK
  <2> QED BY <2>2, <2>4, <2>5, <2>6, <2>7 DEF TxInv
<1>3. CASE closed /\ Finish(id) /\ fate' = [fate EXCEPT ![id] = "dropped"] /\ UNCHANGED told
  <2>1. open' = Without(open, {id})
    BY <1>3 DEF Finish
  <2> QED BY <1>3, <1>a, <1>b, <2>1, EndTxInv
<1> QED BY <1>1, <1>2, <1>3, <1>a DEF Checkin

\* commit is attempted: the body is gone, the slot is left to the drop guard.
LEMMA LandTxInv ==
  ASSUME TxInv, NEW r \in Reqs, Land(r)
  PROVE  TxInv'
<1>0. TypeOK /\ RequestsAlone /\ SlotsOwned /\ FatesTrue /\ IdleIsDropped /\ IdleIsRolledBack
      /\ SlotsCounted
  BY DEF TxInv
<1>a. PICK id \in Txs : id = req[r].id
  BY <1>0, ReqFacts DEF Land
<1>b. PICK how \in {"committed", "conflict"} : fate' = [fate EXCEPT ![id] = how]
  BY <1>a DEF Land
<1>c. req[r].at = "commit" /\ req[r].at \in Lent /\ UNCHANGED <<now, open, expired, closed, told>>
  BY DEF Land, Lent
<1>1. /\ req'[r].at = "finish" /\ req'[r].id = id /\ \A s \in Reqs \ {r} : req'[s] = req[s]
      /\ req' \in [Reqs -> {NoReq} \cup [at : {"begin", "run", "commit", "finish", "rollback"}, id : Txs]]
  BY <1>0, <1>a DEF TypeOK, Land, Becomes
<1>2. /\ fate' \in [Txs -> Fates] /\ \A t \in Txs \ {id} : fate'[t] = fate[t]
      /\ fate[id] = "live" /\ fate'[id] \in {"committed", "conflict"}
      /\ ~InSlot(id) /\ \A s \in Reqs \ {r} : ~HasBody(s, id)
  BY <1>0, <1>a, <1>b, <1>c DEF TypeOK, Fates, RequestsAlone
<1>3. TypeOK'
  BY <1>0, <1>1, <1>2, <1>c DEF TypeOK, Fates
<1>4. RequestsAlone'
  BY <1>0, <1>1, <1>2, <1>a, <1>c, ReqFacts DEF RequestsAlone, HasBody, InSlot, Lent
<1>5. SlotsOwned'
  <2>1. req'[r].at \in Busy
    BY <1>1 DEF Busy
  <2> QED BY <1>0, <1>1, <1>2, <1>a, <1>c, <2>1 DEF SlotsOwned, InSlot, TypeOK
<1>6. FatesTrue'
  BY <1>0, <1>1, <1>2, <1>a, <1>c, ReqFacts DEF FatesTrue, HasBody, InSlot
<1>7. IdleIsDropped' /\ IdleIsRolledBack' /\ SlotsCounted'
  BY <1>0, <1>2, <1>c DEF IdleIsDropped, IdleIsRolledBack, SlotsCounted, WithinLimit, TypeOK
<1> QED BY <1>3, <1>4, <1>5, <1>6, <1>7 DEF TxInv

\* A panic, a rollback, and the drop guard of a commit end the slot.
LEMMA EndsTxInv ==
  ASSUME TxInv, NEW r \in Reqs, Panic(r) \/ Landed(r) \/ RolledBack(r)
  PROVE  TxInv'
<1>0. TypeOK
  BY DEF TxInv
<1>a. PICK id \in Txs : id = req[r].id
  BY <1>0, ReqFacts DEF Panic, Landed, RolledBack
<1>1. /\ req[r].at \in Busy /\ Done(r) /\ open' = Without(open, {id})
      /\ UNCHANGED <<now, expired, closed>> /\ told' = told
      /\ \/ req[r].at = "finish" /\ fate' = fate
         \/ req[r].at \in Lent /\ fate' = [fate EXCEPT ![id] = "dropped"]
  BY <1>a DEF Panic, Landed, RolledBack, Busy, Lent, Finish
<1> QED BY <1>a, <1>1, EndTxInv

\* GET /tx/{id}: as the first two cases of a checkout.
LEMMA InfoTxInv ==
  ASSUME TxInv, NEW id \in Txs, Info(id)
  PROVE  TxInv'
<1>0. TypeOK /\ RequestsAlone /\ SlotsOwned /\ FatesTrue /\ IdleIsDropped /\ IdleIsRolledBack
      /\ SlotsCounted
  BY DEF TxInv
<1>a. UNCHANGED <<now, closed, req>>
  BY DEF Info
<1>1. CASE /\ id \notin DOMAIN open /\ id \in DOMAIN expired
           /\ Tell(id, {expired[id]})
           /\ UNCHANGED <<open, expired, fate>>
  <2>1. /\ told' \in [Txs -> SUBSET Whys]
        /\ \A t \in Txs : told'[t] = IF t = id THEN told[t] \cup {expired[t]} ELSE told[t]
    BY <1>0, <1>1 DEF TypeOK, Tell
  <2>2. TypeOK'
    BY <1>0, <1>1, <1>a, <2>1 DEF TypeOK
  <2>3. RequestsAlone' /\ SlotsOwned' /\ IdleIsDropped' /\ SlotsCounted'
    BY <1>0, <1>1, <1>a DEF RequestsAlone, SlotsOwned, IdleIsDropped, SlotsCounted, WithinLimit,
                             HasBody, InSlot
  <2>4. FatesTrue' /\ IdleIsRolledBack'
    BY <1>0, <1>1, <1>a, <2>1 DEF FatesTrue, IdleIsRolledBack, IdleIsDropped, HasBody, InSlot
  <2> QED BY <2>2, <2>3, <2>4 DEF TxInv
<1>2. CASE /\ id \in DOMAIN open /\ open[id].body /\ open[id].deadline <= now
           /\ Tell(id, {Expiry(open[id])})
           /\ Finish(id) /\ Expired({id})
  <2>1. PICK ids \in SUBSET DOMAIN open : ids = {id}
    BY <1>2
  <2>2. open' = Without(open, ids) /\ Expired(ids)
    BY <1>2, <2>1 DEF Finish
  <2>3. expired'[id] = Expiry(open[id]) /\ expired'[id] \in Whys
    BY <1>2, <2>1, <2>2 DEF Expired, Expiry, Whys
  <2>4. /\ told' \in [Txs -> SUBSET Whys]
        /\ \A t \in Txs : told'[t] = told[t] \/ (t \in ids /\ told'[t] = told[t] \cup {expired'[t]})
    BY <1>0, <1>2, <2>1, <2>3 DEF TypeOK, Tell
  <2> QED BY <1>2, <1>a, <2>1, <2>2, <2>4, ExpireTxInv
<1> QED BY <1>1, <1>2 DEF Info

\* close: every body in a slot is dropped with the slot.
LEMMA CloseTxInv ==
  ASSUME TxInv, Close
  PROVE  TxInv'
<1>0. TypeOK /\ RequestsAlone /\ SlotsOwned /\ FatesTrue /\ IdleIsDropped /\ IdleIsRolledBack
      /\ SlotsCounted
  BY DEF TxInv
<1>1. PICK idle : idle = {t \in DOMAIN open : open[t].body}
  OBVIOUS
<1>2. /\ closed' = TRUE /\ open' = Without(open, idle)
      /\ fate' = [t \in Txs |-> IF t \in idle THEN "dropped" ELSE fate[t]]
      /\ UNCHANGED <<now, expired, req, told>>
  BY <1>1 DEF Close
<1>3. DOMAIN open' = DOMAIN open \ idle /\ \A t \in DOMAIN open \ idle : open'[t] = open[t]
  <2>1. open' = Without(open, idle)
    BY <1>2
  <2> QED BY <2>1, WithoutFacts
<1>4. fate' \in [Txs -> Fates] /\ \A t \in Txs : fate'[t] = IF t \in idle THEN "dropped" ELSE fate[t]
  BY <1>0, <1>2 DEF TypeOK, Fates
<1>5. closed' \in BOOLEAN
  BY <1>2
<1>6. TypeOK'
  BY <1>0, <1>2, <1>3, <1>4, <1>5 DEF TypeOK, Fates
<1>7. RequestsAlone'
  BY <1>0, <1>1, <1>2, <1>3, <1>4, ReqFacts
  DEF RequestsAlone, FatesTrue, SlotsOwned, HasBody, InSlot, Lent
<1>8. SlotsOwned'
  BY <1>0, <1>1, <1>2, <1>3, <1>4 DEF SlotsOwned, TypeOK
<1>9. FatesTrue'
  BY <1>0, <1>1, <1>2, <1>3, <1>4 DEF FatesTrue, InSlot, HasBody
<1>10. IdleIsDropped' /\ IdleIsRolledBack'
  BY <1>0, <1>2, <1>4 DEF IdleIsDropped, IdleIsRolledBack, TypeOK
<1>11. SlotsCounted'
  BY <1>0, <1>3, CountedWithout DEF SlotsCounted, WithinLimit
<1> QED BY <1>6, <1>7, <1>8, <1>9, <1>10, <1>11 DEF TxInv

\* Every step keeps the invariant.
LEMMA NextTxInv == TxInv /\ [Next]_vars => TxInv'
<1> SUFFICES ASSUME TxInv, [Next]_vars PROVE TxInv'
  OBVIOUS
<1>0. TypeOK /\ RequestsAlone /\ SlotsOwned /\ FatesTrue /\ IdleIsDropped /\ IdleIsRolledBack
      /\ SlotsCounted
  BY DEF TxInv
<1>1. ASSUME NEW r \in Reqs, Request(r) PROVE TxInv'
  <2>1. ASSUME NEW id \in Txs, HasRoom(r, id) PROVE TxInv'
    BY <2>1, HasRoomTxInv
  <2>2. ASSUME NEW id \in Txs, NEW at \in {"run", "commit", "rollback"}, Checkout(r, id, at)
        PROVE  TxInv'
    <3>1. at \in Lent
      BY DEF Lent
    <3> QED BY <2>2, <3>1, CheckoutTxInv
  <2>3. CASE Begin(r)
    BY <2>3, BeginTxInv
  <2>4. CASE Checkin(r)
    BY <2>4, CheckinTxInv
  <2>5. CASE Land(r)
    BY <2>5, LandTxInv
  <2>6. CASE Panic(r) \/ Landed(r) \/ RolledBack(r)
    BY <2>6, EndsTxInv
  <2> QED BY <1>1, <2>1, <2>2, <2>3, <2>4, <2>5, <2>6 DEF Request
<1>2. ASSUME NEW id \in Txs, Info(id) PROVE TxInv'
  BY <1>2, InfoTxInv
<1>3. ASSUME NEW id \in Txs, Forget(id) PROVE TxInv'
  <2>1. expired' = Without(expired, {id}) /\ UNCHANGED <<now, open, closed, req, fate, told>>
    BY <1>3 DEF Forget
  <2>2. /\ DOMAIN expired' = DOMAIN expired \ {id}
        /\ \A t \in DOMAIN expired \ {id} : expired'[t] = expired[t]
    BY <2>1, WithoutFacts
  <2>3. TypeOK' /\ IdleIsDropped'
    BY <1>0, <2>1, <2>2 DEF TypeOK, IdleIsDropped
  <2>4. RequestsAlone' /\ SlotsOwned' /\ FatesTrue' /\ IdleIsRolledBack' /\ SlotsCounted'
    BY <1>0, <2>1, <2>2
    DEF RequestsAlone, SlotsOwned, FatesTrue, IdleIsRolledBack, SlotsCounted, WithinLimit, HasBody,
        InSlot
  <2> QED BY <2>3, <2>4 DEF TxInv
<1>4. CASE Reap
  <2>1. PICK ids \in SUBSET DOMAIN open : ids = Due(open)
    BY DEF Due
  <2>2. open' = Without(open, ids) /\ Expired(ids) /\ UNCHANGED <<now, closed, req, told>>
    BY <1>4, <2>1 DEF Reap
  <2>3. told' \in [Txs -> SUBSET Whys]
    BY <1>0, <2>2 DEF TypeOK
  <2> QED BY <2>2, <2>3, ExpireTxInv
<1>5. CASE Close
  BY <1>5, CloseTxInv
<1>6. CASE Tick \/ UNCHANGED vars
  <2>1. now' \in 0..MaxTime /\ UNCHANGED <<open, expired, closed, req, fate, told>>
    BY <1>0, <1>6, TxStoreAssumption DEF Tick, vars, TypeOK
  <2>2. TypeOK'
    BY <1>0, <2>1 DEF TypeOK
  <2>3. /\ RequestsAlone' /\ SlotsOwned' /\ FatesTrue' /\ IdleIsDropped' /\ IdleIsRolledBack'
        /\ SlotsCounted'
    BY <1>0, <2>1
    DEF RequestsAlone, SlotsOwned, FatesTrue, IdleIsDropped, IdleIsRolledBack, SlotsCounted,
        WithinLimit, HasBody, InSlot
  <2> QED BY <2>2, <2>3 DEF TxInv
<1> QED BY <1>1, <1>2, <1>3, <1>4, <1>5, <1>6 DEF Next

\* TxInv is an invariant.
LEMMA InvariantTxInv == Spec => []TxInv
<1>1. Init => TxInv
  BY InitTxInv
<1>2. TxInv /\ [Next]_vars => TxInv'
  BY NextTxInv
<1> QED BY <1>1, <1>2, PTL DEF Spec

-----------------------------------------------------------------------------
(* What follows.                                                           *)

\* The body of a transaction is in exactly one place while it lives and nowhere after: what
\* checkout, checkin, expire, the drop guard and close do between them.
THEOREM OneBody == Spec => []BodyIsInOnePlace
<1>1. TxInv => BodyIsInOnePlace
  <2> SUFFICES ASSUME TxInv, NEW t \in Txs
               PROVE  Cardinality(Holders(t)) + (IF t \in DOMAIN open /\ open[t].body THEN 1 ELSE 0)
                        = (IF fate[t] = "live" THEN 1 ELSE 0)
    BY DEF BodyIsInOnePlace
  <2>0. TypeOK /\ RequestsAlone /\ SlotsOwned /\ FatesTrue
    BY DEF TxInv
  <2>1. \A r \in Reqs : r \in Holders(t) <=> HasBody(r, t)
    BY <2>0, ReqFacts DEF Holders, HasBody, Lent
  <2>2. CASE \E r \in Reqs : HasBody(r, t)
    <3>1. PICK r \in Reqs : HasBody(r, t)
      BY <2>2
    <3>2. fate[t] = "live" /\ ~InSlot(t) /\ \A s \in Reqs \ {r} : ~HasBody(s, t)
      BY <2>0, <3>1 DEF RequestsAlone, HasBody
    <3>3. Holders(t) = {r}
      BY <2>1, <3>1, <3>2 DEF Holders
    <3>4. Cardinality(Holders(t)) = 1
      BY <3>3, FS_Singleton
    <3> QED BY <3>2, <3>4 DEF InSlot
  <2>3. CASE \A r \in Reqs : ~HasBody(r, t)
    <3>1. Holders(t) = {}
      BY <2>1, <2>3 DEF Holders
    <3>2. Cardinality(Holders(t)) = 0
      BY <3>1, FS_EmptySet
    <3>3. fate[t] = "live" <=> InSlot(t)
      BY <2>0, <2>3 DEF FatesTrue, SlotsOwned, InSlot
    <3> QED BY <3>2, <3>3 DEF InSlot
  <2> QED BY <2>2, <2>3
<1> QED BY <1>1, InvariantTxInv, PTL

\* An owner who was answered that the transaction went idle too long can rely on its having
\* been rolled back: no request that was under way commits it afterwards.
THEOREM IdleMeansRolledBack == Spec => []IdleIsRolledBack
<1>1. TxInv => IdleIsRolledBack
  BY DEF TxInv
<1> QED BY <1>1, InvariantTxInv, PTL

\* TxLimits::max_open bounds the slots, though two requests may find the same room free.
THEOREM SlotsWithinLimit == Spec => []WithinLimit
<1>1. TxInv => WithinLimit
  BY DEF TxInv, SlotsCounted
<1> QED BY <1>1, InvariantTxInv, PTL

\* A closing server whose requests have ended has no slot left.
THEOREM Drained == Spec => []DrainedIsEmpty
<1>1. TxInv => DrainedIsEmpty
  <2> SUFFICES ASSUME TxInv, closed, \A r \in Reqs : req[r] = NoReq, NEW t \in DOMAIN open
               PROVE  FALSE
    BY DEF DrainedIsEmpty
  <2>1. SlotsOwned /\ \A r \in Reqs : req[r].at = "none"
    BY DEF TxInv, NoReq
  <2>2. ~open[t].body
    BY <2>1 DEF SlotsOwned
  <2>3. PICK r \in Reqs : req[r].at \in Busy
    BY <2>1, <2>2 DEF SlotsOwned
  <2> QED BY <2>1, <2>3 DEF Busy, Lent
<1> QED BY <1>1, InvariantTxInv, PTL

=============================================================================
