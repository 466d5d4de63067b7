------------------------------ MODULE MCBucket ------------------------------
(* Bucket for TLC: the deployments of the passing run, and one set for each of the         *)
(* counterexamples the README lists.                                                       *)
EXTENDS Bucket
World(o, f, c, e) ==
  [others |-> o, faults |-> f, calm |-> c, edits |-> e, commits |-> 2, snaps |-> 1,
   tenures |-> 3]
LatePuts == {"manifest", "latest"}
\* Parent and child both go on after the restore, and come back: four tenures.
ParentAndChild == [World("boot", {}, TRUE, 0) EXCEPT !.commits = 3, !.snaps = 0, !.tenures = 4]
\* What timed out lands while the same tenure goes on.
Overdue == [World("none", LatePuts \cup {"create", "timeout"}, TRUE, 0) EXCEPT !.snaps = 0]
LateChild == [World("boot", LatePuts, TRUE, 0) EXCEPT !.snaps = 0]
Stranger == [World("other", {}, TRUE, 0) EXCEPT !.snaps = 0]
\* Snapshots, with two tenures where requests are late or time out, and side files that change.
LateTenures == [World("none", LatePuts \cup {"create"}, TRUE, 0) EXCEPT !.tenures = 2]
Timeouts == [World("none", {"timeout"}, TRUE, 0) EXCEPT !.tenures = 2]
EditedChild == [World("boot", {}, TRUE, 1) EXCEPT !.snaps = 0]
BucketWorlds == {LateTenures, World("none", {}, FALSE, 0), Timeouts, Overdue,
                 World("boot", {}, TRUE, 0), EditedChild, LateChild, ParentAndChild, Stranger}
BackWorlds == {World("none", {}, FALSE, 0)}
TailWorlds == {World("none", {"timeout"}, TRUE, 0)}
ChildWorlds == {ParentAndChild}
FileWorlds == {[World("boot", {"file"}, TRUE, 0) EXCEPT !.snaps = 2]}
DeleteWorlds == {World("none", {"delete"}, TRUE, 2)}
CopyWorlds == {World("copy", {}, TRUE, 0)}
=============================================================================
