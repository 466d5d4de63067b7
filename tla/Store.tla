------------------------------- MODULE Store -------------------------------
(***************************************************************************)
(* One writing handle of a mushroomdb store and the files that make it     *)
(* durable: wal.bin, snapshot.bin and snapshot.intent.                     *)
(*                                                                         *)
(* A handle logs a commit (append, fsync by policy, apply, best-effort     *)
(* marker frame) and takes snapshots that keep, truncate or archive the    *)
(* WAL.  A snapshot is several file operations; the process can be killed, *)
(* lose power or fail with an I/O error between any two of them.  Opening  *)
(* the store rebuilds the graph from whatever the files then hold.         *)
(*                                                                         *)
(* The graph is abstracted to the commits applied to it: applying a commit *)
(* to a graph that holds it "is not always a no-op" (apply_frames_over),   *)
(* so the model records that it happened.  Declarations are kept apart:    *)
(* they may be applied again, and the last one counts.  A checksum is the  *)
(* bytes it covers.                                                        *)
(***************************************************************************)
EXTENDS Naturals, Sequences

CONSTANTS
  Write,        \* the bytes of the frames that change the graph
  Multi,        \* those that are user batches of several mutations
  None,         \* no snapshot.bin; a snapshot that carries no WAL mark
  Policy,       \* FsyncPolicy: "Strict", "Batched" or "Relaxed"
  Modes,        \* the snapshots taken: "keep", "truncate", "archive", "upgrade"
  Rules,        \* whether a commit may derive edges, and so append a marker
  V11,          \* whether the snapshot carries the declarations (section 18)
  Crashes,      \* the crashes that happen: "kill", "power"
  AppendFaults, \* whether an append can fail part way and the handle go on
  SyncFaults,   \* whether the WAL fsync can fail and the handle go on
  SnapFaults,   \* whether a step of a snapshot can fail and the handle go on
  MaxCommits    \* bound on the commits a store holds

Declare == "declare"   \* EnableIndex and the like: one declaration
Drop    == "drop"      \* its DisableIndex
Marker  == "marker"    \* DerivedEdgeAdded / DerivedEdgeRetracted: no state
Torn    == "torn"      \* bytes that are no whole frame
Content == Write \cup {Declare, Drop, Marker, Torn}

ASSUME StoreAssumption ==
  /\ Write \cap {Declare, Drop, Marker, Torn} = {}
  /\ Multi \subseteq Write
  /\ Policy \in {"Strict", "Batched", "Relaxed"}
  /\ Modes \subseteq {"keep", "truncate", "archive", "upgrade"}
  /\ Crashes \subseteq {"kill", "power"}
  /\ {Rules, V11, AppendFaults, SyncFaults, SnapFaults} \subseteq BOOLEAN
  /\ MaxCommits \in Nat
  /\ None \notin Seq(Content)

VARIABLES
  \* files
  wal,        \* wal.bin: frames [c, id], c the bytes and id the commit (a
              \* history variable: the number of the last commit up to here)
  synced,     \* how many entries of wal an fsync has covered
  snap,       \* snapshot.bin: None, or the graph it holds and its WAL mark
  intent,     \* snapshot.intent: a sequence of intents
  archives,   \* whether any wal.<N>.archive exists
  \* the handle
  pc,         \* what the handle is in the middle of
  mem,        \* its in-memory graph
  cur,        \* the frame being committed
  mode,       \* the mode of the snapshot being taken
  unsettled,  \* intent_unsettled
  \* history variables: what the clients saw
  hist,       \* the commits of the store, in order
  base,       \* how many of them precede the first frame of the WAL
  promised    \* how many of them were acknowledged as durable

files   == <<wal, synced, snap, intent, archives>>
handle  == <<pc, mem, cur, mode, unsettled>>
history == <<hist, base, promised>>
vars    == <<files, handle, history>>

-----------------------------------------------------------------------------
(* Graphs: the commits applied, the declaration, and whether any commit    *)
(* was applied a second time.                                              *)

Empty == [done |-> {}, decl |-> FALSE, twice |-> FALSE]

IsDeclaration(c) == c \in {Declare, Drop}

\* The last declaration among c[h+1..n], or 0.
LastDecl(c, h, n) ==
  IF \E i \in h+1..n : IsDeclaration(c[i])
  THEN CHOOSE i \in h+1..n : /\ IsDeclaration(c[i])
                            /\ \A j \in h+1..n : IsDeclaration(c[j]) => j <= i
  ELSE 0

\* Whether the declaration stands after c[h+1..n], if it does before iff d.
DeclAfter(d, c, h, n) ==
  LET i == LastDecl(c, h, n) IN IF i = 0 THEN d ELSE c[i] = Declare

\* The graph after the first j commits of h, each applied once.
After(h, j) ==
  [done |-> {i \in 1..j : h[i] \in Write},
   decl |-> DeclAfter(FALSE, h, 0, j), twice |-> FALSE]

ApplyFrame(g, f) ==
  [done  |-> IF f.c \in Write THEN g.done \cup {f.id} ELSE g.done,
   decl  |-> IF IsDeclaration(f.c) THEN f.c = Declare ELSE g.decl,
   twice |-> g.twice \/ (f.c \in Write /\ f.id \in g.done)]

-----------------------------------------------------------------------------
(* The WAL as bytes, and replay.                                           *)

Bytes(w) == [i \in 1..Len(w) |-> w[i].c]

\* decode_all: the frames before the first bytes that are no frame.
ValidLen(c) ==
  CHOOSE n \in 0..Len(c) :
    /\ \A i \in 1..n : c[i] # Torn
    /\ n < Len(c) => c[n+1] = Torn

WholeFrames(c) == \A i \in 1..Len(c) : c[i] # Torn

\* WalMark::matches, and that the mark ends on a frame boundary.
Matches(mark, c) ==
  /\ Len(mark) <= Len(c)
  /\ \A i \in 1..Len(mark) : mark[i] = c[i]
  /\ WholeFrames(mark)

\* Mutant of Replay: the first frame to apply is taken for a held one.
ReplaySkippingOne(g, w, held, n) ==
  LET ids == {w[i].id : i \in {j \in held+2..n : w[j].c \in Write}}
  IN  [done |-> g.done \cup ids, decl |-> DeclAfter(g.decl, Bytes(w), 0, n),
       twice |-> g.twice \/ ids \cap g.done # {}]

\* apply_frames_at: the first `held` frames of w are not applied to g, only
\* their declarations; then those the snapshot carries, then the rest of w.
Replay(g, w, held, n) ==
  LET ids == {w[i].id : i \in {j \in held+1..n : w[j].c \in Write}}
      atHeld == g.decl \/ DeclAfter(FALSE, Bytes(w), 0, held)
  IN  [done  |-> g.done \cup ids,
       decl  |-> DeclAfter(atHeld, Bytes(w), held, n),
       twice |-> g.twice \/ ids \cap g.done # {}]

-----------------------------------------------------------------------------
(* The intent of a snapshot that replaces its WAL.                         *)

StandsAt(i, ints, s, c) == ints[i].snap = s /\ Matches(ints[i].wal, c)

\* The first intent that is true of the snapshot and the WAL on disk, as a
\* sequence of at most one.
StandingIntent(ints, s, c) ==
  IF \E i \in 1..Len(ints) : StandsAt(i, ints, s, c)
  THEN <<ints[CHOOSE i \in 1..Len(ints) :
               /\ StandsAt(i, ints, s, c)
               /\ \A j \in 1..Len(ints) : StandsAt(j, ints, s, c) => i <= j]>>
  ELSE <<>>

LeftOver(ints, s, c) == Len(ints) # Len(StandingIntent(ints, s, c))

\* Mutant of HeldMark: the intent is not asked.
HeldMarkOfSnapshot(s, ints, c) == IF s # None /\ s.mark # None THEN s.mark ELSE <<>>

\* The WAL the snapshot says it holds: by its own mark, or else by an intent
\* that stands.
HeldMark(s, ints, c) ==
  LET standing == StandingIntent(ints, s, c)
  IN  IF s # None /\ s.mark # None THEN s.mark
      ELSE IF standing # <<>> THEN standing[1].wal ELSE <<>>

Held(s, ints, c) ==
  IF Matches(HeldMark(s, ints, c), c) THEN Len(HeldMark(s, ints, c)) ELSE 0

\* The graph an open rebuilds from the files.
Recover(s, ints, w) ==
  Replay(IF s = None THEN Empty ELSE s.g, w, Held(s, ints, Bytes(w)), ValidLen(Bytes(w)))

\* How many commits the store holds when its WAL ends after n frames.
At(n) == IF n = 0 THEN base ELSE wal[n].id

-----------------------------------------------------------------------------
Init ==
  /\ wal = <<>> /\ synced = 0 /\ snap = None /\ intent = <<>> /\ archives = FALSE
  /\ pc = "idle" /\ mem = Empty /\ cur = Marker /\ mode = "keep" /\ unsettled = FALSE
  /\ hist = <<>> /\ base = 0 /\ promised = 0

-----------------------------------------------------------------------------
(* Committing: log_then_apply_with.                                        *)

\* wal_needs_sync.
NeedsSync(c) == Policy = "Strict" \/ (Policy = "Batched" /\ c \in Multi)

\* Mutant of SettleSnapshotIntent: the left-over intent stays.
SettleNothing ==
  /\ pc = "idle" /\ unsettled
  /\ unsettled' = FALSE
  /\ UNCHANGED <<files, pc, mem, cur, mode, history>>

\* Before an append, a left-over intent is dropped and a standing one kept.
SettleSnapshotIntent ==
  /\ pc = "idle" /\ unsettled
  /\ intent' = IF LeftOver(intent, snap, Bytes(wal))
               THEN StandingIntent(intent, snap, Bytes(wal)) ELSE intent
  /\ unsettled' = FALSE
  /\ UNCHANGED <<wal, synced, snap, archives, pc, mem, cur, mode, history>>

\* A declaration is logged only when it changes something.
Loggable(c) ==
  \/ c \in Write
  \/ c = Declare /\ ~mem.decl
  \/ c = Drop /\ mem.decl

AppendFrame(c) ==
  /\ pc = "idle" /\ ~unsettled /\ Loggable(c)
  /\ Len(hist) < MaxCommits
  /\ wal' = Append(wal, [c |-> c, id |-> Len(hist) + 1])
  /\ hist' = Append(hist, c)
  /\ pc' = "appended" /\ cur' = c
  /\ UNCHANGED <<synced, snap, intent, archives, mem, mode, unsettled, base, promised>>

SyncWal ==
  /\ pc = "appended" /\ NeedsSync(cur)
  /\ synced' = Len(wal)
  /\ pc' = "synced"
  /\ UNCHANGED <<wal, snap, intent, archives, mem, cur, mode, unsettled, history>>

\* Apply, append the marker of the edges the rules derived (not fsynced, its
\* failure ignored), and acknowledge the commit.  `tail` is what the marker
\* leaves in the WAL.
ApplyFrameAndAck(tail) ==
  /\ pc = "synced" \/ (pc = "appended" /\ ~NeedsSync(cur))
  /\ \/ tail = <<>>
     \/ tail = <<[c |-> Marker, id |-> Len(hist)]>> /\ Rules
     \/ tail = <<[c |-> Torn, id |-> Len(hist)]>> /\ Rules /\ AppendFaults
  /\ mem' = ApplyFrame(mem, [c |-> cur, id |-> Len(hist)])
  /\ promised' = IF pc = "synced" THEN Len(hist) ELSE promised
  /\ wal' = wal \o tail
  /\ pc' = "idle" /\ cur' = Marker
  /\ UNCHANGED <<synced, snap, intent, archives, mode, unsettled, hist, base>>

\* What a marker can leave in the WAL.
MarkerTails ==
  {<<>>} \cup {<<[c |-> c, id |-> Len(hist)]>> : c \in {Marker, Torn}}

\* The append fails with part of the frame written; the caller gets the error
\* and the handle stays usable.  (Bound: once per WAL.)
AppendFails ==
  /\ AppendFaults
  /\ pc = "idle" /\ ~unsettled /\ WholeFrames(Bytes(wal))
  /\ wal' = Append(wal, [c |-> Torn, id |-> Len(hist)])
  /\ UNCHANGED <<synced, snap, intent, archives, handle, history>>

\* The fsync fails: the error returns before the frame is applied.
SyncFails ==
  /\ SyncFaults
  /\ pc = "appended" /\ NeedsSync(cur)
  /\ pc' = "idle" /\ cur' = Marker
  /\ UNCHANGED <<files, mem, mode, unsettled, history>>

-----------------------------------------------------------------------------
(* Snapshots: snapshot_with, one action per file operation.                *)

Replaces(m) == m \in {"truncate", "archive"}

\* The encoded image.  Only one that leaves the WAL in place is marked.
Image(m) ==
  [g    |-> [mem EXCEPT !.decl = V11 /\ mem.decl],
   mark |-> IF Replaces(m) THEN None ELSE Bytes(wal)]

\* What the WAL is replaced with: the declarations and nothing else.
Baseline ==
  IF mem.decl THEN <<[c |-> Declare, id |-> Len(hist)]>> ELSE <<>>

\* Mutant of SyncForUpgrade: the fsync is left out, as in snapshot_with.
UpgradeUnsynced ==
  /\ "upgrade" \in Modes
  /\ pc = "idle" /\ pc' = "upgrading"
  /\ UNCHANGED <<files, mem, cur, mode, unsettled, history>>

\* upgrade_to_v11 fsyncs the WAL before it takes a snapshot that keeps it.
SyncForUpgrade ==
  /\ "upgrade" \in Modes
  /\ pc = "idle"
  /\ synced' = Len(wal)
  /\ pc' = "upgrading"
  /\ UNCHANGED <<wal, snap, intent, archives, mem, cur, mode, unsettled, history>>

\* Mutant of WriteIntent: every intent in the file is kept, standing or not.
WriteIntentKeepingAll(m) ==
  /\ IF m = "upgrade" THEN pc = "upgrading" ELSE pc = "idle"
  /\ mode' = m /\ pc' = "intent"
  /\ IF Replaces(m)
     THEN /\ intent' = <<[snap |-> Image(m), wal |-> Bytes(wal)]>> \o intent
          /\ unsettled' = TRUE
     ELSE UNCHANGED <<intent, unsettled>>
  /\ UNCHANGED <<wal, synced, snap, archives, mem, cur, history>>

\* Say which snapshot is about to be written and which WAL it holds, beside
\* the intent that still stands, if any.
WriteIntent(m) ==
  /\ IF m = "upgrade" THEN pc = "upgrading" ELSE pc = "idle"
  /\ mode' = m /\ pc' = "intent"
  /\ IF Replaces(m)
     THEN /\ intent' = <<[snap |-> Image(m), wal |-> Bytes(wal)]>>
                        \o StandingIntent(intent, snap, Bytes(wal))
          /\ unsettled' = TRUE
     ELSE UNCHANGED <<intent, unsettled>>
  /\ UNCHANGED <<wal, synced, snap, archives, mem, cur, history>>

WriteSnapshot ==
  /\ pc = "intent"
  /\ snap' = Image(mode)
  /\ pc' = IF Replaces(mode) THEN "snapped" ELSE "idle"
  /\ UNCHANGED <<wal, synced, intent, archives, mem, cur, mode, unsettled, history>>

\* write_atomic of the baseline WAL: all of it durable at once.
PutBaseline ==
  /\ wal' = Baseline
  /\ synced' = Len(Baseline)
  /\ base' = Len(hist)

TruncateWal ==
  /\ pc = "snapped" /\ mode = "truncate"
  /\ PutBaseline
  /\ archives' = FALSE
  /\ pc' = "replaced"
  /\ UNCHANGED <<snap, intent, mem, cur, mode, unsettled, hist, promised>>

NothingToArchive ==
  LET live == SubSeq(Bytes(wal), 1, ValidLen(Bytes(wal)))
  IN  \/ wal = <<>>
      \/ archives /\ (live = <<>> \/ live = Bytes(Baseline))

ArchiveWal ==
  /\ pc = "snapped" /\ mode = "archive" /\ ~NothingToArchive
  /\ wal' = <<>> /\ synced' = 0 /\ base' = Len(hist)
  /\ archives' = TRUE
  /\ pc' = "renamed"
  /\ UNCHANGED <<snap, intent, mem, cur, mode, unsettled, hist, promised>>

BaselineAfterArchive ==
  /\ \/ pc = "renamed"
     \/ pc = "snapped" /\ mode = "archive" /\ NothingToArchive
  /\ IF pc = "snapped" /\ Bytes(wal) = Bytes(Baseline)
     THEN UNCHANGED <<wal, synced, base>> ELSE PutBaseline
  /\ pc' = "replaced"
  /\ UNCHANGED <<snap, intent, archives, mem, cur, mode, unsettled, hist, promised>>

\* Mutant of EmptyIntent: the intent is marked settled and not emptied.
EmptyIntentForgotten ==
  /\ pc = "replaced"
  /\ unsettled' = FALSE
  /\ pc' = "idle"
  /\ UNCHANGED <<files, mem, cur, mode, history>>

EmptyIntent ==
  /\ pc = "replaced"
  /\ intent' = <<>> /\ unsettled' = FALSE
  /\ pc' = "idle"
  /\ UNCHANGED <<wal, synced, snap, archives, mem, cur, mode, history>>

\* A step of the snapshot fails; the caller gets the error, the files stay as
\* they are and the handle goes on.
SnapshotFails ==
  /\ SnapFaults
  /\ pc \in {"intent", "snapped", "renamed", "replaced"}
  /\ pc' = "idle"
  /\ UNCHANGED <<files, mem, cur, mode, unsettled, history>>

-----------------------------------------------------------------------------
(* Crashes and opening: load_from_disk.                                    *)

\* The process is killed: every byte written stays, and perhaps a part of the
\* frame it was appending.
Kill(torn) ==
  /\ "kill" \in Crashes
  /\ torn => pc \in {"idle", "appended", "synced"}
  /\ wal' = IF torn THEN Append(wal, [c |-> Torn, id |-> At(Len(wal))]) ELSE wal
  /\ synced' = synced

\* Power is lost: any part of the WAL that no fsync covered can be gone.  What
\* is left is on the disk.
PowerLoss(n, torn) ==
  /\ "power" \in Crashes
  /\ n \in synced..Len(wal)
  /\ torn => n < Len(wal)
  /\ wal' = SubSeq(wal, 1, n) \o (IF torn THEN <<[c |-> Torn, id |-> At(n)]>> ELSE <<>>)
  /\ synced' = Len(wal')

Crash ==
  /\ pc # "down"
  /\ \E torn \in BOOLEAN : Kill(torn) \/ \E n \in 0..Len(wal) : PowerLoss(n, torn)
  /\ pc' = "down" /\ mem' = Empty /\ cur' = Marker /\ mode' = "keep" /\ unsettled' = FALSE
  /\ UNCHANGED <<snap, intent, archives, history>>

\* Opening truncates a torn tail and removes archives that a raised floor no
\* longer owns (which ones is the business of module History).  The store's
\* commits are from here on the ones its WAL reaches.
Open ==
  /\ pc = "down"
  /\ pc' = "idle"
  /\ mem' = Recover(snap, intent, wal)
  /\ unsettled' = LeftOver(intent, snap, Bytes(wal))
  /\ archives' \in {archives, FALSE}
  /\ IF WholeFrames(Bytes(wal))
     THEN UNCHANGED <<wal, synced>>
     ELSE /\ wal' = SubSeq(wal, 1, ValidLen(Bytes(wal)))
          /\ synced' = ValidLen(Bytes(wal))
  /\ hist' = SubSeq(hist, 1, At(ValidLen(Bytes(wal))))
  /\ promised' = IF promised <= Len(hist') THEN promised ELSE Len(hist')
  /\ UNCHANGED <<snap, intent, cur, mode, base>>

-----------------------------------------------------------------------------
Next ==
  \/ SettleSnapshotIntent
  \/ \E c \in Write \cup {Declare, Drop} : AppendFrame(c)
  \/ SyncWal
  \/ \E tail \in MarkerTails : ApplyFrameAndAck(tail)
  \/ AppendFails
  \/ SyncFails
  \/ SyncForUpgrade
  \/ \E m \in Modes : WriteIntent(m)
  \/ WriteSnapshot
  \/ TruncateWal
  \/ ArchiveWal
  \/ BaselineAfterArchive
  \/ EmptyIntent
  \/ SnapshotFails
  \/ Crash
  \/ Open

Spec == Init /\ [][Next]_vars

-----------------------------------------------------------------------------
(* Properties.                                                             *)

Frame  == [c : Content, id : Nat]
Graph  == [done : SUBSET Nat, decl : BOOLEAN, twice : BOOLEAN]
Shot   == [g : Graph, mark : Seq(Content) \cup {None}]
Intent == [snap : [g : Graph, mark : {None}], wal : Seq(Content)]

ASSUME NoneAssumption == None \notin Shot

\* Types of the files, of the handle and of the history.
TypeOK ==
  /\ wal \in Seq(Frame)
  /\ synced \in 0..Len(wal)
  /\ snap \in Shot \cup {None}
  /\ intent \in Seq(Intent) /\ Len(intent) <= 2
  /\ archives \in BOOLEAN
  /\ pc \in {"idle", "appended", "synced", "upgrading", "intent", "snapped", "renamed",
             "replaced", "down"}
  /\ mem \in Graph
  /\ cur \in Content
  /\ mode \in {"keep", "truncate", "archive", "upgrade"}
  /\ unsettled \in BOOLEAN
  /\ hist \in Seq(Content)
  /\ base \in Nat /\ promised \in 0..Len(hist)

\* A crash at this very moment, whatever of the unsynced WAL it loses and
\* between whichever two file operations of a commit or a snapshot it falls,
\* leaves files from which an open rebuilds exactly the graph after the last
\* commit the WAL still reaches, no commit skipped and none applied twice,
\* and no commit acknowledged as durable is missing from it.
CrashSafe ==
  \A n \in 0..Len(wal) : n = Len(wal) \/ ("power" \in Crashes /\ synced <= n) =>
    /\ Recover(snap, intent, SubSeq(wal, 1, n)) = After(hist, At(n))
    /\ promised <= At(n)

\* Whatever of the WAL a crash loses and whichever appends and fsyncs failed
\* before it, an open rebuilds the graph after some number of commits: a
\* commit is there whole or not at all, and none is there without those
\* before it.
RecoversPrefix ==
  \A n \in 0..Len(wal) : n = Len(wal) \/ ("power" \in Crashes /\ synced <= n) =>
    Recover(snap, intent, SubSeq(wal, 1, n)) \in {After(hist, j) : j \in 0..Len(hist)}

\* Closing and reopening an idle handle is the identity on the graph: no
\* frame of the WAL is skipped and none is applied a second time over a
\* snapshot that holds it.
ReopenIsIdentity == pc = "idle" => Recover(snap, intent, wal) = mem

\* An append never happens beside an intent that names the snapshot on disk
\* but not the WAL beside it: the growing WAL could come to begin with the
\* bytes it names, and frames the snapshot does not hold be taken for held.
NoRevivableIntent ==
  pc \in {"appended", "synced"} =>
    LET before == SubSeq(Bytes(wal), 1, Len(wal) - 1)
    IN  \A i \in 1..Len(intent) :
          intent[i].snap = snap => Matches(intent[i].wal, before)

\* No intent that is not true of the snapshot and the WAL outlives an append.
IntentSettledAtAppend ==
  pc = "appended" => ~LeftOver(intent, snap, SubSeq(Bytes(wal), 1, Len(wal) - 1))
=============================================================================
