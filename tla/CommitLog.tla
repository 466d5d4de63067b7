----------------------------- MODULE CommitLog -----------------------------
(***************************************************************************)
(* What the callers of SharedDb are promised: a durable log to which each  *)
(* caller's commit is added at most once, and an answer.  "ok" is told     *)
(* only once the commit is in the log; what was told "err" is not in the   *)
(* log and never gets there; what was told "unsure" is or is not in the    *)
(* log, or gets there later; the log is never cut or reordered.            *)
(***************************************************************************)
EXTENDS Naturals, Sequences

CONSTANT Caller

VARIABLES
  log,    \* the durable commits, by caller
  told    \* the answer each caller has: "none", "ok", "err" or "unsure"

logVars == <<log, told>>

Logged == {log[i] : i \in 1..Len(log)}

LogInit == log = <<>> /\ told = [c \in Caller |-> "none"]

\* Some commits become durable together; none was there, or refused, before.
Grow(g) ==
  /\ \A i \in 1..Len(g) : g[i] \notin Logged /\ told[g[i]] \in {"none", "unsure"}
  /\ \A i, j \in 1..Len(g) : g[i] = g[j] => i = j
  /\ log' = log \o g
  /\ UNCHANGED told

\* Some callers are answered.
Tell(who) ==
  /\ \A c \in who : /\ told[c] = "none" /\ told'[c] \in {"ok", "err", "unsure"}
                    /\ told'[c] = "ok" => c \in Logged
                    /\ told'[c] = "err" => c \notin Logged
  /\ told' = [c \in Caller |-> IF c \in who THEN told'[c] ELSE told[c]]
  /\ UNCHANGED log

LogNext ==
  \/ Len(log') >= Len(log) /\ Grow(SubSeq(log', Len(log) + 1, Len(log')))
  \/ Tell({c \in Caller : told[c] # told'[c]})

LogSpec == LogInit /\ [][LogNext]_logVars
=============================================================================
