---------------------------- MODULE GroupCommit ----------------------------
(***************************************************************************)
(* The write path of one SharedDb: submitters that push a batch on a queue *)
(* and wait, the drain thread that commits the queue in groups behind one  *)
(* fsync, and direct writers (SharedDb::write).                            *)
(*                                                                         *)
(* wal_mu serialises the drain thread with the direct writers from the     *)
(* group's first append to the outcome of its fsync.  The queue has its    *)
(* own mutex and condition variable.  A peer process shows only in what an *)
(* attempt on the store's lock or the refresh under it returns.            *)
(*                                                                         *)
(* A frame is the caller whose batch it is.  Every frame touches the one   *)
(* node whose version a compare-and-set submission names, so that version  *)
(* is the number of frames the handle has applied: not of those in the     *)
(* WAL, where a write whose fsync failed leaves its frame.                 *)
(*                                                                         *)
(* An append that fails leaves nothing here; module Store has the torn     *)
(* bytes it can leave, and what they cost.                                 *)
(***************************************************************************)
EXTENDS Naturals, Sequences, SequencesExt

CONSTANTS
  Plain,      \* submit_batch, with a batch that is valid
  Bad,        \* submit_batch, with a batch that fails validation
  Cas,        \* submit_batch_cas
  Role,       \* submit_batch_authz
  Direct,     \* SharedDb::write
  Faults,     \* what may go wrong: "sync", "cut", "append", "refused", "refresh", "follow"
  MaxGroup,   \* MAX_GROUP_SIZE
  Nobody      \* wal_mu is free

Sub    == Plain \cup Bad \cup Cas \cup Role
Caller == Sub \cup Direct

ASSUME GroupCommitAssumption ==
  /\ Plain \cap (Bad \cup Cas \cup Role \cup Direct) = {} /\ Bad \cap (Cas \cup Role \cup Direct) = {}
  /\ Cas \cap (Role \cup Direct) = {} /\ Role \cap Direct = {} /\ "drain" \notin Caller
  /\ Nobody \notin Caller \cup {"drain"}
  /\ Faults \subseteq {"sync", "cut", "append", "refused", "refresh", "follow"}
  /\ MaxGroup \in Nat \ {0}

VARIABLES
  st,        \* where each caller is
  base,      \* the version a compare-and-set names, read before it is submitted
  pending,   \* WriteQueue.pending
  qDegraded, \* WriteQueue.degraded_msg is set
  shutdown,  \* WriteQueue.shutdown
  drain,     \* the drain thread: pc, group, pending_non_cas, results, pre_group_wal_len
  walMu,     \* the holder of wal_mu
  wal,       \* the frames appended
  synced,    \* how many of them an fsync has covered
  mem,       \* the frames the handle has applied, in its order
  degraded,  \* GraphDb.degraded
  deferred,  \* deferred_events
  events     \* the events delivered

vars == <<st, base, pending, qDegraded, shutdown, drain, walMu, wal, synced,
          mem, degraded, deferred, events>>

Init ==
  /\ st = [c \in Caller |-> "start"] /\ base = [c \in Caller |-> 0]
  /\ pending = <<>> /\ qDegraded = FALSE /\ shutdown = FALSE
  /\ drain = [pc |-> "checking", group |-> <<>>, run |-> <<>>, results |-> <<>>, pre |-> 0]
  /\ walMu = Nobody /\ wal = <<>> /\ synced = 0 /\ mem = <<>>
  /\ degraded = FALSE /\ deferred = <<>> /\ events = <<>>

queueVars == <<pending, qDegraded, shutdown>>
fileVars  == <<wal, synced, mem, degraded, deferred, events>>

-----------------------------------------------------------------------------
(* Submitters.                                                             *)

\* The caller of a compare-and-set has read the version, for which it waits while a
\* group is applied under the write guard; the submission looks whether the queue
\* is degraded.
CheckDegraded(s) ==
  /\ st[s] = "start" /\ ~shutdown /\ (s \in Cas => drain.pc # "applying")
  /\ st' = [st EXCEPT ![s] = IF qDegraded THEN "err" ELSE "checked"]
  /\ base' = [base EXCEPT ![s] = IF s \in Cas THEN Len(mem) ELSE 0]
  /\ UNCHANGED <<queueVars, drain, walMu, fileVars>>

\* WriteQueue::enqueue, which notifies once the queue's mutex is let go.
Enqueue(s) ==
  /\ st[s] = "checked"
  /\ st' = [st EXCEPT ![s] = "pushed"]
  /\ pending' = Append(pending, s)
  /\ UNCHANGED <<base, qDegraded, shutdown, drain, walMu, fileVars>>

\* Mutant of Notify: the wake-up is left out.
NotifyNobody(s) ==
  /\ st[s] = "pushed"
  /\ st' = [st EXCEPT ![s] = "waiting"]
  /\ UNCHANGED <<base, queueVars, drain, walMu, fileVars>>

\* The drain thread may have taken and even answered the batch before this.
Notify(s) ==
  /\ st[s] = "pushed"
  /\ st' = [st EXCEPT ![s] = "waiting"]
  /\ drain' = [drain EXCEPT !.pc = IF @ = "asleep" THEN "checking" ELSE @]
  /\ UNCHANGED <<base, queueVars, walMu, fileVars>>

\* Mutant of SignalShutdown: the flag is set and nobody woken.
SignalShutdownSilently ==
  /\ ~shutdown /\ \A c \in Caller : st[c] \in {"start", "ok", "err", "unsure"}
  /\ shutdown' = TRUE
  /\ UNCHANGED <<st, base, pending, qDegraded, drain, walMu, fileVars>>

\* The last SharedDb is dropped: nobody is inside a call.
SignalShutdown ==
  /\ ~shutdown /\ \A c \in Caller : st[c] \in {"start", "ok", "err", "unsure"}
  /\ shutdown' = TRUE
  /\ drain' = [drain EXCEPT !.pc = IF @ = "asleep" THEN "checking" ELSE @]
  /\ UNCHANGED <<st, base, pending, qDegraded, walMu, fileVars>>

-----------------------------------------------------------------------------
(* Direct writers.  The guard, and wal_mu with it, is held over the        *)
(* append, the fsync, the apply and the event.                             *)

DirectLock(d) ==
  /\ st[d] = "start" /\ ~shutdown /\ walMu = Nobody
  /\ st' = [st EXCEPT ![d] = "locked"] /\ walMu' = d
  /\ UNCHANGED <<base, queueVars, drain, fileVars>>

DirectWrite(d) ==
  /\ st[d] = "locked" /\ ~degraded
  /\ wal' = Append(wal, d) /\ synced' = Len(wal) + 1
  /\ mem' = Append(mem, d) /\ events' = Append(events, d)
  /\ st' = [st EXCEPT ![d] = "written"]
  /\ UNCHANGED <<base, queueVars, drain, walMu, degraded, deferred>>

\* The guard is dropped and the call returns.
DirectUnlock(d) ==
  /\ st[d] = "written"
  /\ st' = [st EXCEPT ![d] = "ok"] /\ walMu' = Nobody
  /\ UNCHANGED <<base, queueVars, drain, fileVars>>

\* The fsync fails: the call returns its error with the frame in the WAL, not
\* applied, and the handle goes on.  A later fsync takes the frame along.
DirectSyncFails(d) ==
  /\ st[d] = "locked" /\ ~degraded /\ "sync" \in Faults
  /\ wal' = Append(wal, d)
  /\ st' = [st EXCEPT ![d] = "unsure"] /\ walMu' = Nobody
  /\ UNCHANGED <<base, queueVars, drain, synced, mem, degraded, deferred, events>>

\* A degraded handle, a lock another process holds, or an append that fails.
DirectRefused(d) ==
  /\ st[d] = "locked" /\ (degraded \/ {"refused", "append"} \cap Faults # {})
  /\ st' = [st EXCEPT ![d] = "err"] /\ walMu' = Nobody
  /\ UNCHANGED <<base, queueVars, drain, fileVars>>

-----------------------------------------------------------------------------
(* The drain thread.                                                       *)

\* wait_and_drain: the queue's mutex is held from the check to the wait.
WaitAndDrain ==
  LET n == IF Len(pending) < MaxGroup THEN Len(pending) ELSE MaxGroup IN
  /\ drain.pc = "checking"
  /\ drain' = [drain EXCEPT !.pc = IF n > 0 THEN "grouped" ELSE IF shutdown THEN "done" ELSE "asleep",
                            !.group = SubSeq(pending, 1, n)]
  /\ pending' = SubSeq(pending, n + 1, Len(pending))
  /\ UNCHANGED <<st, base, qDegraded, shutdown, walMu, fileVars>>

LockWalMu ==
  /\ drain.pc = "grouped" /\ walMu = Nobody
  /\ walMu' = "drain" /\ drain' = [drain EXCEPT !.pc = "locked"]
  /\ UNCHANGED <<st, base, queueVars, fileVars>>

\* The answers of one group, sent in one go once wal_mu is free again.
Told(answer) ==
  [c \in Caller |-> IF \E i \in 1..Len(drain.group) : drain.group[i] = c
                    THEN answer[CHOOSE i \in 1..Len(drain.group) : drain.group[i] = c]
                    ELSE st[c]]
AllErr == [i \in 1..Len(drain.group) |-> "err"]

Idle(pc) == [pc |-> pc, group |-> <<>>, run |-> <<>>, results |-> <<>>, pre |-> 0]

\* The lock is busy, the directory cannot be written, or the format upgrade
\* ahead of the group fails: the group is refused and the thread goes on.
GroupRefused ==
  /\ drain.pc = "locked" /\ "refused" \in Faults
  /\ walMu' = Nobody /\ st' = Told(AllErr) /\ drain' = Idle("checking")
  /\ UNCHANGED <<base, queueVars, fileVars>>

\* The refresh under the lock fails: the handle and the queue are degraded and
\* the thread ends, once it has answered this group.
RefreshFails ==
  /\ drain.pc = "locked" /\ "refresh" \in Faults
  /\ degraded' = TRUE /\ deferred' = <<>> /\ qDegraded' = TRUE
  /\ walMu' = Nobody /\ st' = Told(AllErr) /\ drain' = Idle("gaveUp")
  /\ UNCHANGED <<base, pending, shutdown, wal, synced, mem, events>>

-----------------------------------------------------------------------------
(* The group is applied in its order, under the write guard.  Plain        *)
(* batches are gathered in a run; a compare-and-set or a role-scoped one   *)
(* waits until the run before it is committed.                             *)

\* The length before the group is read just before the guard is taken.
BeginApply ==
  /\ drain.pc = "locked"
  /\ drain' = [drain EXCEPT !.pc = "applying", !.pre = Len(wal)]
  /\ UNCHANGED <<st, base, queueVars, walMu, fileVars>>

\* How many submissions of the group the loop has taken up, and the next one.
Taken == Len(drain.results) + Len(drain.run)
NextUp == drain.group[Taken + 1]
Gathers(s) == s \in Plain \cup Bad

Gather ==
  /\ drain.pc = "applying" /\ Taken < Len(drain.group) /\ Gathers(NextUp)
  /\ drain' = [drain EXCEPT !.run = Append(@, NextUp)]
  /\ UNCHANGED <<st, base, queueVars, walMu, fileVars>>

\* What may come of a batch: it is refused when it is not valid or the handle is
\* degraded, and fails when its append does.
Outcomes(s) ==
  IF s \in Bad \/ degraded THEN {FALSE} ELSE IF "append" \in Faults THEN BOOLEAN ELSE {TRUE}

\* Mutant of CommitNosync: the event goes out as the frame is appended.
CommitNosyncNotDeferring(s, ok) ==
  /\ wal' = IF ok THEN Append(wal, s) ELSE wal
  /\ mem' = IF ok THEN Append(mem, s) ELSE mem
  /\ events' = IF ok THEN Append(events, s) ELSE events
  /\ UNCHANGED <<synced, degraded, deferred>>

\* commit_batch_nosync: one frame, applied and its event deferred, or none.
CommitNosync(s, ok) ==
  /\ wal' = IF ok THEN Append(wal, s) ELSE wal
  /\ mem' = IF ok THEN Append(mem, s) ELSE mem
  /\ deferred' = IF ok THEN Append(deferred, s) ELSE deferred
  /\ UNCHANGED <<synced, degraded, events>>

Result(ok) == IF ok THEN "ok" ELSE "err"

\* commit_group_nosync of the run, batch by batch.
CommitRun ==
  LET s == Head(drain.run) IN
  /\ drain.pc = "applying" /\ drain.run # <<>>
  /\ Taken < Len(drain.group) => ~Gathers(NextUp)
  /\ \E ok \in Outcomes(s) :
       /\ CommitNosync(s, ok)
       /\ drain' = [drain EXCEPT !.run = Tail(@), !.results = Append(@, Result(ok))]
  /\ UNCHANGED <<st, base, queueVars, walMu>>

\* Mutant of Holds: a precondition is checked against the state before the group.
HoldsBeforeGroup(s) == s \in Cas => base[s] = Len(events)

\* check_preconditions.
Holds(s) == s \in Cas => base[s] = Len(mem)

CommitAlone ==
  LET s == NextUp IN
  /\ drain.pc = "applying" /\ drain.run = <<>> /\ Taken < Len(drain.group) /\ ~Gathers(s)
  /\ \E ok \in IF Holds(s) THEN Outcomes(s) ELSE {FALSE} :
       /\ CommitNosync(s, ok)
       /\ drain' = [drain EXCEPT !.results = Append(@, Result(ok))]
  /\ UNCHANGED <<st, base, queueVars, walMu>>

\* Mutant of EndApply: wal_mu is let go with the write guard.
EndApplyUnlocking ==
  /\ drain.pc = "applying" /\ drain.run = <<>> /\ Taken = Len(drain.group)
  /\ drain' = [drain EXCEPT !.pc = "applied"] /\ walMu' = Nobody
  /\ UNCHANGED <<st, base, queueVars, fileVars>>

\* The write guard is let go, wal_mu is not.
EndApply ==
  /\ drain.pc = "applying" /\ drain.run = <<>> /\ Taken = Len(drain.group)
  /\ drain' = [drain EXCEPT !.pc = "applied"]
  /\ UNCHANGED <<st, base, queueVars, walMu, fileVars>>

AnyOk == \E i \in 1..Len(drain.results) : drain.results[i] = "ok"

\* One fsync, outside the guard; none when nothing was committed.
SyncGroup ==
  /\ drain.pc = "applied"
  /\ synced' = IF AnyOk THEN Len(wal) ELSE synced
  /\ drain' = [drain EXCEPT !.pc = "synced"]
  /\ UNCHANGED <<st, base, queueVars, walMu, wal, mem, degraded, deferred, events>>

FlushDeferredEvents ==
  /\ drain.pc = "synced"
  /\ events' = events \o deferred /\ deferred' = <<>>
  /\ drain' = [drain EXCEPT !.pc = "flushed"]
  /\ UNCHANGED <<st, base, queueVars, walMu, wal, synced, mem, degraded>>

UnlockWalMu ==
  /\ drain.pc = "flushed"
  /\ walMu' = Nobody /\ drain' = [drain EXCEPT !.pc = "unlocked"]
  /\ UNCHANGED <<st, base, queueVars, fileVars>>

Answer ==
  /\ drain.pc = "unlocked"
  /\ st' = Told(drain.results) /\ drain' = Idle("checking")
  /\ UNCHANGED <<base, queueVars, walMu, fileVars>>

\* Mutant of SyncFails: the length before the group was never read.
SyncFailsCuttingAll ==
  /\ drain.pc = "applied" /\ AnyOk /\ "sync" \in Faults
  /\ wal' = <<>>
  /\ drain' = [drain EXCEPT !.pc = "failed"]
  /\ UNCHANGED <<st, base, queueVars, walMu, synced, mem, degraded, deferred, events>>

\* The fsync fails: the WAL is cut back to where the group began.  What the cut
\* returns is not looked at, and it may leave the WAL as it is.
SyncFails ==
  /\ drain.pc = "applied" /\ AnyOk /\ "sync" \in Faults
  /\ \/ wal' = SubSeq(wal, 1, drain.pre)
     \/ "cut" \in Faults /\ UNCHANGED wal
  /\ drain' = [drain EXCEPT !.pc = "failed"]
  /\ UNCHANGED <<st, base, queueVars, walMu, synced, mem, degraded, deferred, events>>

\* The handle is degraded before the queue is, and both before wal_mu is free.
DegradeHandle ==
  /\ drain.pc = "failed"
  /\ degraded' = TRUE /\ deferred' = <<>>
  /\ drain' = [drain EXCEPT !.pc = "degraded"]
  /\ UNCHANGED <<st, base, queueVars, walMu, wal, synced, mem, events>>

DegradeQueue ==
  /\ drain.pc = "degraded"
  /\ qDegraded' = TRUE /\ walMu' = Nobody
  /\ drain' = [drain EXCEPT !.pc = "failing"]
  /\ UNCHANGED <<st, base, pending, shutdown, fileVars>>

\* One and the same error for the whole group.  "unsure" is the error of a caller
\* whose frame is in the WAL all the same.
Failure == [i \in 1..Len(drain.group) |->
              IF \E k \in 1..Len(wal) : wal[k] = drain.group[i] THEN "unsure" ELSE "err"]

AnswerFailed ==
  /\ drain.pc = "failing"
  /\ st' = Told(Failure) /\ drain' = Idle("gaveUp")
  /\ UNCHANGED <<base, queueVars, walMu, fileVars>>

\* A read that follows another process fails half-way: refresh_if_stale.
FollowFails ==
  /\ "follow" \in Faults /\ ~qDegraded
  /\ drain.pc \notin {"applying", "applied", "synced", "flushed", "failed", "degraded"} /\ walMu \notin Direct
  /\ degraded' = TRUE /\ qDegraded' = TRUE
  /\ UNCHANGED <<st, base, pending, shutdown, drain, walMu, wal, synced, mem, deferred, events>>

-----------------------------------------------------------------------------
DrainNext ==
  \/ WaitAndDrain \/ LockWalMu \/ GroupRefused \/ RefreshFails
  \/ BeginApply \/ Gather \/ CommitRun \/ CommitAlone \/ EndApply \/ SyncGroup
  \/ FlushDeferredEvents \/ UnlockWalMu \/ Answer
  \/ SyncFails \/ DegradeHandle \/ DegradeQueue \/ AnswerFailed
SubmitterNext(s) == CheckDegraded(s) \/ Enqueue(s) \/ Notify(s)
DirectNext(d) ==
  DirectLock(d) \/ DirectWrite(d) \/ DirectSyncFails(d) \/ DirectUnlock(d) \/ DirectRefused(d)

Next ==
  \/ \E s \in Sub : SubmitterNext(s)
  \/ \E d \in Direct : DirectNext(d)
  \/ DrainNext \/ SignalShutdown \/ FollowFails

Spec == Init /\ [][Next]_vars

\* Threads that can run do run.  Nobody has to submit, and nobody has to shut
\* the handle down; a fault never has to happen.
FairSpec ==
  /\ Spec
  /\ WF_vars(DrainNext)
  /\ \A s \in Sub : WF_vars(Enqueue(s)) /\ WF_vars(Notify(s))
  /\ \A d \in Direct : WF_vars(DirectWrite(d) \/ DirectUnlock(d) \/ DirectRefused(d))

-----------------------------------------------------------------------------
(* Properties.                                                             *)

\* Types of the queue, the threads and the WAL; the fsynced part of the WAL is
\* never cut off it.
TypeOK ==
  /\ st \in [Caller -> {"start", "checked", "pushed", "waiting", "locked", "written", "ok", "err",
                    "unsure"}]
  /\ base \in [Caller -> Nat]
  /\ pending \in Seq(Sub) /\ wal \in Seq(Caller) /\ mem \in Seq(Caller)
  /\ deferred \in Seq(Caller) /\ events \in Seq(Caller)
  /\ {qDegraded, shutdown, degraded} \subseteq BOOLEAN
  /\ drain.group \in Seq(Sub) /\ drain.run \in Seq(Sub) /\ drain.results \in Seq({"ok", "err"})
  /\ drain.pre \in Nat
  /\ walMu \in Caller \cup {"drain", Nobody}
  /\ synced \in 0..Len(wal)

\* The part of the WAL that is durable.
Durable == SubSeq(wal, 1, IF synced < Len(wal) THEN synced ELSE Len(wal))

\* Subscribers are told of every commit the handle applies, in the order it does,
\* which is that of the WAL, and only once it is durable, whichever of the two
\* write paths committed it.  A frame left by a failed fsync has no event.
EventsFollowWal ==
  /\ IsPrefix(events, mem)
  /\ \A j \in 1..Len(events) : \E l \in 1..Len(Durable) :
       /\ Durable[l] = events[j]
       /\ \A i \in 1..j - 1 : \E k \in 1..l - 1 : Durable[k] = events[i]

\* A compare-and-set lands directly on the version it named: nothing was
\* applied between the caller's read and the batch, the batches of its own
\* group included.
CasOnUnchanged ==
  \A i \in 1..Len(mem) : mem[i] \in Cas => base[mem[i]] = i - 1

Promise == INSTANCE CommitLog
  WITH log  <- Durable,
       told <- [c \in Caller |-> IF st[c] \in {"ok", "err", "unsure"} THEN st[c] ELSE "none"]

\* The queue, the group's fsync and its failure keep what the callers are
\* promised.  An error leaves the commit in doubt in two cases only: a direct
\* write's own fsync failed, or a failed group could not be cut off the WAL.
Implements == Promise!LogSpec

Waiting(c)  == st[c] \in {"checked", "pushed", "waiting", "locked", "written"}
Answered(c) == st[c] \in {"ok", "err", "unsure"}

\* Everyone who submits, or waits for a write guard, gets an answer, as long as
\* no group's fsync and no refresh for a group has failed: the drain thread
\* gives up at that.
EveryoneAnswered ==
  \A c \in Caller : Waiting(c) ~> Answered(c) \/ drain.pc = "gaveUp"

\* The same even then: a batch that went into the queue behind the failed
\* group is answered too.
EveryoneAlwaysAnswered == \A c \in Caller : Waiting(c) ~> Answered(c)

\* Dropping the last SharedDb ends the drain thread, which the drop joins.
DrainStops == shutdown ~> drain.pc \in {"done", "gaveUp"}
=============================================================================
