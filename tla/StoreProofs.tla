---------------------------- MODULE StoreProofs ----------------------------
(***************************************************************************)
(* Facts about the operators of Store, the type invariant, and that no     *)
(* intent can come true again, for every value of Store's constants:       *)
(* whatever the fsync policy, the snapshots, the failures and the crashes. *)
(*                                                                         *)
(* Then, that a crash at any moment leaves files from which an open        *)
(* rebuilds what was committed: CrashSafe and ReopenIsIdentity, in every   *)
(* configuration of SafeConfig; and RecoversPrefix, where appends and      *)
(* fsyncs fail too.                                                        *)
(***************************************************************************)
EXTENDS StoreInv, TLAPS, SequenceTheorems, WellFoundedInduction

-----------------------------------------------------------------------------
(* Sets of naturals, and sequences.                                        *)

\* A non-empty set of naturals has a least element.
LEMMA LeastExists ==
  ASSUME NEW S \in SUBSET Nat, S # {}
  PROVE  \E m \in S : \A s \in S : m <= s
<1> DEFINE R == OpToRel(<, Nat)
<1>1. IsWellFoundedOn(R, Nat)
  BY NatLessThanWellFounded
<1>2. PICK m \in S : \A y \in S : ~(<<y, m>> \in R)
  BY <1>1, WFMin
<1>3. \A y \in S : ~(y < m)
  BY <1>2 DEF OpToRel
<1> QED BY <1>3

\* A bounded one has a greatest element.
LEMMA GreatestExists ==
  ASSUME NEW S \in SUBSET Nat, NEW n \in Nat, S # {}, \A s \in S : s <= n
  PROVE  \E m \in S : \A s \in S : s <= m
<1> DEFINE T == {n - s : s \in S}
<1>1. PICK s0 \in S : TRUE
  OBVIOUS
<1>2. T \in SUBSET Nat /\ n - s0 \in T
  OBVIOUS
<1>3. PICK x \in T : \A t \in T : x <= t
  BY <1>2, LeastExists
<1>4. PICK m \in S : x = n - m
  OBVIOUS
<1>5. \A s \in S : n - s \in T
  OBVIOUS
<1>6. \A s \in S : s <= m
  BY <1>3, <1>4, <1>5
<1> QED BY <1>6

\* A sequence of one element.
LEMMA Singleton ==
  ASSUME NEW S, NEW x \in S
  PROVE  <<x>> \in Seq(S) /\ Len(<<x>>) = 1 /\ <<x>>[1] = x
OBVIOUS

\* A prefix of a sequence.
LEMMA Prefix ==
  ASSUME NEW S, NEW s \in Seq(S), NEW n \in 0..Len(s)
  PROVE  /\ SubSeq(s, 1, n) \in Seq(S) /\ Len(SubSeq(s, 1, n)) = n
         /\ \A i \in 1..n : SubSeq(s, 1, n)[i] = s[i]
<1>1. Len(s) \in Nat /\ \A i \in 1..n : s[i] \in S
  BY LenProperties, ElementOfSeq
<1> QED BY <1>1, SubSeqProperties

\* A sequence and one more element.
LEMMA Appended ==
  ASSUME NEW S, NEW s \in Seq(S), NEW x \in S
  PROVE  /\ Append(s, x) \in Seq(S) /\ Len(Append(s, x)) = Len(s) + 1
         /\ \A i \in 1..Len(s) : Append(s, x)[i] = s[i]
         /\ Append(s, x)[Len(s) + 1] = x
         /\ s \o <<x>> = Append(s, x)
OBVIOUS

\* The bytes of a WAL, frame by frame.
LEMMA BytesFacts ==
  ASSUME NEW w \in Seq(Frame)
  PROVE  /\ Bytes(w) \in Seq(Content) /\ Len(Bytes(w)) = Len(w) /\ Len(w) \in Nat
         /\ \A i \in 1..Len(w) : Bytes(w)[i] = w[i].c /\ w[i] \in Frame
                                 /\ w[i].c \in Content /\ w[i].id \in Nat
<1>1. Len(w) \in Nat /\ \A i \in 1..Len(w) : w[i] \in Frame
  BY LenProperties, ElementOfSeq
<1>2. \A i \in 1..Len(w) : w[i].c \in Content /\ w[i].id \in Nat
  BY <1>1 DEF Frame
<1>3. Bytes(w) \in [1..Len(w) -> Content]
  BY <1>2 DEF Bytes
<1>4. Bytes(w) \in Seq(Content) /\ Len(Bytes(w)) = Len(w)
  BY <1>1, <1>3, SeqDef
<1> QED BY <1>1, <1>2, <1>4 DEF Bytes

\* The frame of given bytes and commit.
LEMMA FrameOf ==
  ASSUME NEW c \in Content, NEW j \in Nat
  PROVE  \E f \in Frame : f = [c |-> c, id |-> j] /\ f.c = c /\ f.id = j
<1>1. [c |-> c, id |-> j] \in Frame
  BY DEF Frame
<1>2. [c |-> c, id |-> j].c = c /\ [c |-> c, id |-> j].id = j
  OBVIOUS
<1> QED BY <1>1, <1>2

\* The kinds of bytes a frame can have.
LEMMA ContentFacts == {Declare, Drop, Marker, Torn} \subseteq Content /\ Write \subseteq Content
BY DEF Content

\* The graph of given parts.
LEMMA GraphOf ==
  ASSUME NEW done \in SUBSET Nat, NEW decl \in BOOLEAN, NEW twice \in BOOLEAN
  PROVE  [done |-> done, decl |-> decl, twice |-> twice] \in Graph
BY DEF Graph

-----------------------------------------------------------------------------
(* Declarations.                                                           *)

\* LastDecl is the position of the last declaration, or 0 where there is none.
LEMMA LastDeclFacts ==
  ASSUME NEW c, NEW h \in Nat, NEW n \in Nat
  PROVE  LET l == LastDecl(c, h, n) IN
         \/ l = 0 /\ \A i \in h+1..n : ~IsDeclaration(c[i])
         \/ /\ l \in h+1..n /\ IsDeclaration(c[l])
            /\ \A j \in h+1..n : IsDeclaration(c[j]) => j <= l
<1> DEFINE S == {i \in h+1..n : IsDeclaration(c[i])}
<1>1. CASE S = {}
  <2>1. ~ \E i \in h+1..n : IsDeclaration(c[i])
    BY <1>1
  <2> QED BY <2>1 DEF LastDecl
<1>2. CASE S # {}
  <2>1. S \in SUBSET Nat /\ \A s \in S : s <= n
    OBVIOUS
  <2>2. \E m \in S : \A s \in S : s <= m
    BY <1>2, <2>1, GreatestExists
  <2>3. \E i \in h+1..n : /\ IsDeclaration(c[i])
                          /\ \A j \in h+1..n : IsDeclaration(c[j]) => j <= i
    BY <2>2
  <2>4. \E i \in h+1..n : IsDeclaration(c[i])
    BY <2>3
  <2> QED BY <2>3, <2>4 DEF LastDecl
<1> QED BY <1>1, <1>2

\* DeclAfter by what it says of the last declaration.
LEMMA DeclAfterFacts ==
  ASSUME NEW d, NEW c, NEW h \in Nat, NEW n \in Nat
  PROVE  \/ /\ \A i \in h+1..n : ~IsDeclaration(c[i])
            /\ DeclAfter(d, c, h, n) = d
         \/ \E l \in h+1..n : /\ IsDeclaration(c[l])
                              /\ \A j \in h+1..n : IsDeclaration(c[j]) => j <= l
                              /\ DeclAfter(d, c, h, n) = (c[l] = Declare)
<1> DEFINE l == LastDecl(c, h, n)
<1>1. CASE l = 0 /\ \A i \in h+1..n : ~IsDeclaration(c[i])
  BY <1>1 DEF DeclAfter
<1>2. CASE /\ l \in h+1..n /\ IsDeclaration(c[l])
           /\ \A j \in h+1..n : IsDeclaration(c[j]) => j <= l
  <2>1. l # 0
    BY <1>2
  <2>2. DeclAfter(d, c, h, n) = (c[l] = Declare)
    BY <2>1 DEF DeclAfter
  <2> QED BY <1>2, <2>2
<1> QED BY <1>1, <1>2, LastDeclFacts

\* Whether a declaration stands is a truth value.
LEMMA DeclAfterType ==
  ASSUME NEW d \in BOOLEAN, NEW c, NEW h \in Nat, NEW n \in Nat
  PROVE  DeclAfter(d, c, h, n) \in BOOLEAN
BY DeclAfterFacts

\* Only the frames between matter.
LEMMA DeclAfterSame ==
  ASSUME NEW d, NEW c, NEW e, NEW h \in Nat, NEW n \in Nat, \A i \in h+1..n : c[i] = e[i]
  PROVE  DeclAfter(d, c, h, n) = DeclAfter(d, e, h, n)
<1>1. CASE \A i \in h+1..n : ~IsDeclaration(c[i])
  BY <1>1, DeclAfterFacts
<1>2. CASE \E i \in h+1..n : IsDeclaration(c[i])
  <2>1. PICK l \in h+1..n : /\ IsDeclaration(c[l])
                            /\ \A j \in h+1..n : IsDeclaration(c[j]) => j <= l
                            /\ DeclAfter(d, c, h, n) = (c[l] = Declare)
    BY <1>2, DeclAfterFacts
  <2>2. PICK m \in h+1..n : /\ IsDeclaration(e[m])
                            /\ \A j \in h+1..n : IsDeclaration(e[j]) => j <= m
                            /\ DeclAfter(d, e, h, n) = (e[m] = Declare)
    BY <1>2, DeclAfterFacts
  <2>3. l = m
    BY <2>1, <2>2
  <2> QED BY <2>1, <2>2, <2>3
<1> QED BY <1>1, <1>2

\* Two stretches one after the other.
LEMMA DeclAfterSplit ==
  ASSUME NEW d, NEW c, NEW h \in Nat, NEW n \in Nat, NEW m \in h..n
  PROVE  DeclAfter(d, c, h, n) = DeclAfter(DeclAfter(d, c, h, m), c, m, n)
<1>0. m \in Nat
  OBVIOUS
<1>1. CASE \A i \in m+1..n : ~IsDeclaration(c[i])
  <2>1. DeclAfter(DeclAfter(d, c, h, m), c, m, n) = DeclAfter(d, c, h, m)
    BY <1>0, <1>1, DeclAfterFacts
  <2>2. CASE \A i \in h+1..m : ~IsDeclaration(c[i])
    <3>1. \A i \in h+1..n : ~IsDeclaration(c[i])
      BY <1>1, <2>2
    <3> QED BY <1>0, <2>1, <2>2, <3>1, DeclAfterFacts
  <2>3. CASE \E i \in h+1..m : IsDeclaration(c[i])
    <3>1. PICK l \in h+1..m : /\ IsDeclaration(c[l])
                              /\ \A j \in h+1..m : IsDeclaration(c[j]) => j <= l
                              /\ DeclAfter(d, c, h, m) = (c[l] = Declare)
      BY <1>0, <2>3, DeclAfterFacts
    <3>2. l \in h+1..n
      OBVIOUS
    <3>3. PICK k \in h+1..n : /\ IsDeclaration(c[k])
                              /\ \A j \in h+1..n : IsDeclaration(c[j]) => j <= k
                              /\ DeclAfter(d, c, h, n) = (c[k] = Declare)
      BY <3>1, <3>2, DeclAfterFacts
    <3>4. k \in h+1..m
      BY <1>1, <3>3
    <3>5. k = l
      BY <3>1, <3>2, <3>3, <3>4
    <3> QED BY <2>1, <3>1, <3>3, <3>5
  <2> QED BY <2>2, <2>3
<1>2. CASE \E i \in m+1..n : IsDeclaration(c[i])
  <2>1. PICK l \in m+1..n : /\ IsDeclaration(c[l])
                            /\ \A j \in m+1..n : IsDeclaration(c[j]) => j <= l
                            /\ DeclAfter(DeclAfter(d, c, h, m), c, m, n) = (c[l] = Declare)
    BY <1>0, <1>2, DeclAfterFacts
  <2>2. l \in h+1..n
    OBVIOUS
  <2>3. PICK k \in h+1..n : /\ IsDeclaration(c[k])
                            /\ \A j \in h+1..n : IsDeclaration(c[j]) => j <= k
                            /\ DeclAfter(d, c, h, n) = (c[k] = Declare)
    BY <2>1, <2>2, DeclAfterFacts
  <2>4. k \in m+1..n
    BY <2>1, <2>2, <2>3
  <2>5. k = l
    BY <2>1, <2>2, <2>3, <2>4
  <2> QED BY <2>1, <2>3, <2>5
<1> QED BY <1>1, <1>2

\* One frame.
LEMMA DeclAfterStep ==
  ASSUME NEW d, NEW c, NEW n \in Nat
  PROVE  /\ DeclAfter(d, c, n, n) = d
         /\ ~IsDeclaration(c[n+1]) => DeclAfter(d, c, n, n+1) = d
         /\ IsDeclaration(c[n+1]) => DeclAfter(d, c, n, n+1) = (c[n+1] = Declare)
<1>1. n + 1 \in Nat /\ (\A i \in n+1..n+1 : i = n+1) /\ n+1 \in n+1..n+1 /\ (\A i \in n+1..n : FALSE)
  OBVIOUS
<1>2. DeclAfter(d, c, n, n) = d
  BY <1>1, DeclAfterFacts
<1>3. ASSUME ~IsDeclaration(c[n+1]) PROVE DeclAfter(d, c, n, n+1) = d
  BY <1>1, <1>3, DeclAfterFacts
<1>4. ASSUME IsDeclaration(c[n+1]) PROVE DeclAfter(d, c, n, n+1) = (c[n+1] = Declare)
  BY <1>1, <1>4, DeclAfterFacts
<1> QED BY <1>2, <1>3, <1>4

-----------------------------------------------------------------------------
(* What the helpers of Store return.                                       *)

\* The graph of a new store.
LEMMA EmptyIsGraph == Empty \in Graph
<1>1. FALSE \in BOOLEAN /\ {} \in SUBSET Nat
  OBVIOUS
<1> QED BY <1>1 DEF Empty, Graph

\* ValidLen is the number of whole frames before the first torn bytes.
LEMMA ValidLenFacts ==
  ASSUME NEW S, NEW c \in Seq(S)
  PROVE  /\ ValidLen(c) \in 0..Len(c)
         /\ \A i \in 1..ValidLen(c) : c[i] # Torn
         /\ ValidLen(c) < Len(c) => c[ValidLen(c)+1] = Torn
<1> DEFINE P(n) == /\ \A i \in 1..n : c[i] # Torn
                   /\ n < Len(c) => c[n+1] = Torn
<1> DEFINE T == {n \in 0..Len(c) : \A i \in 1..n : c[i] # Torn}
<1>1. Len(c) \in Nat
  BY LenProperties
<1>2. 0 \in T /\ T \in SUBSET Nat /\ \A t \in T : t <= Len(c)
  BY <1>1
<1>3. PICK m \in T : \A s \in T : s <= m
  BY <1>1, <1>2, GreatestExists
<1>4. ASSUME m < Len(c) PROVE c[m+1] = Torn
  <2>1. m + 1 \in 0..Len(c) /\ m + 1 \notin T
    BY <1>1, <1>3, <1>4
  <2>2. PICK i \in 1..m+1 : c[i] = Torn
    BY <2>1
  <2>3. i = m + 1
    BY <1>3, <2>2
  <2> QED BY <2>2, <2>3
<1>5. \E n \in 0..Len(c) : P(n)
  BY <1>3, <1>4
<1>6. ValidLen(c) = CHOOSE n \in 0..Len(c) : P(n)
  BY DEF ValidLen
<1>7. ValidLen(c) \in 0..Len(c) /\ P(ValidLen(c))
  BY <1>5, <1>6
<1> QED BY <1>7

\* standing_intent returns the first intent that stands, or nothing.
LEMMA StandingIntentFacts ==
  ASSUME NEW S, NEW ints \in Seq(S), NEW s, NEW c
  PROVE  \/ /\ StandingIntent(ints, s, c) = <<>>
            /\ \A i \in 1..Len(ints) : ~StandsAt(i, ints, s, c)
         \/ \E i \in 1..Len(ints) : /\ StandsAt(i, ints, s, c)
                                    /\ \A j \in 1..Len(ints) : StandsAt(j, ints, s, c) => i <= j
                                    /\ StandingIntent(ints, s, c) = <<ints[i]>>
<1> DEFINE T == {i \in 1..Len(ints) : StandsAt(i, ints, s, c)}
<1> DEFINE P(i) == /\ StandsAt(i, ints, s, c)
                   /\ \A j \in 1..Len(ints) : StandsAt(j, ints, s, c) => i <= j
<1>1. CASE T = {}
  BY <1>1 DEF StandingIntent
<1>2. CASE T # {}
  <2>1. T \in SUBSET Nat
    BY LenProperties
  <2>2. PICK i \in T : \A j \in T : i <= j
    BY <1>2, <2>1, LeastExists
  <2>3. \E n \in 1..Len(ints) : P(n)
    BY <2>2
  <2>4. PICK n \in 1..Len(ints) : n = (CHOOSE k \in 1..Len(ints) : P(k)) /\ P(n)
    BY <2>3
  <2>5. StandingIntent(ints, s, c) = <<ints[n]>>
    BY <2>2, <2>4 DEF StandingIntent
  <2> QED BY <2>4, <2>5
<1> QED BY <1>1, <1>2

\* standing_intent returns at most one intent.
LEMMA StandingIntentType ==
  ASSUME NEW S, NEW ints \in Seq(S), NEW s, NEW c
  PROVE  /\ StandingIntent(ints, s, c) \in Seq(S)
         /\ Len(StandingIntent(ints, s, c)) \in Nat
         /\ Len(StandingIntent(ints, s, c)) <= 1
<1>1. CASE StandingIntent(ints, s, c) = <<>>
  BY <1>1, EmptySeq
<1>2. CASE \E i \in 1..Len(ints) : StandingIntent(ints, s, c) = <<ints[i]>>
  BY <1>2, ElementOfSeq, Singleton
<1> QED BY <1>1, <1>2, StandingIntentFacts

\* The WAL a snapshot says it holds, by its mark or by an intent, is bytes.
LEMMA HeldMarkType ==
  ASSUME NEW s \in Shot \cup {None}, NEW ints \in Seq(Intent), NEW c
  PROVE  HeldMark(s, ints, c) \in Seq(Content) /\ Held(s, ints, c) \in Nat
<1> DEFINE standing == StandingIntent(ints, s, c)
<1> DEFINE mark == IF s # None /\ s.mark # None THEN s.mark
                   ELSE IF standing # <<>> THEN standing[1].wal ELSE <<>>
<1>1. standing # <<>> => standing[1] \in Intent
  BY StandingIntentFacts, ElementOfSeq
<1>2. mark \in Seq(Content)
  <2>1. s # None /\ s.mark # None => s.mark \in Seq(Content)
    BY DEF Shot
  <2>2. standing # <<>> => standing[1].wal \in Seq(Content)
    BY <1>1 DEF Intent
  <2>3. <<>> \in Seq(Content)
    BY EmptySeq
  <2> QED BY <2>1, <2>2, <2>3
<1>3. mark = HeldMark(s, ints, c)
  BY DEF HeldMark
<1>4. Len(HeldMark(s, ints, c)) \in Nat
  BY <1>2, <1>3, LenProperties
<1> QED BY <1>2, <1>3, <1>4 DEF Held

\* Replaying frames over a graph gives a graph (apply_frames_at).
LEMMA ReplayIsGraph ==
  ASSUME NEW g \in Graph, NEW w \in Seq(Frame), NEW h \in Nat, NEW n \in 0..Len(w)
  PROVE  Replay(g, w, h, n) \in Graph
<1> DEFINE ids == {w[i].id : i \in {j \in h+1..n : w[j].c \in Write}}
           atHeld == g.decl \/ DeclAfter(FALSE, Bytes(w), 0, h)
<1>1. n \in Nat /\ n <= Len(w) /\ Len(w) \in Nat
  BY LenProperties
<1>2. ids \in SUBSET Nat
  BY <1>1, BytesFacts
<1>3. g.done \in SUBSET Nat /\ g.decl \in BOOLEAN /\ g.twice \in BOOLEAN
  BY DEF Graph
<1>4. atHeld \in BOOLEAN
  OBVIOUS
<1>5. DeclAfter(atHeld, Bytes(w), h, n) \in BOOLEAN
  BY <1>1, <1>4, DeclAfterType
<1>6. (g.twice \/ ids \cap g.done # {}) \in BOOLEAN
  OBVIOUS
<1>7. g.done \cup ids \in SUBSET Nat
  BY <1>2, <1>3
<1>8. Replay(g, w, h, n) = [done |-> g.done \cup ids,
                            decl |-> DeclAfter(atHeld, Bytes(w), h, n),
                            twice |-> g.twice \/ ids \cap g.done # {}]
  BY DEF Replay
<1>9. PICK done \in SUBSET Nat, decl \in BOOLEAN, twice \in BOOLEAN :
        Replay(g, w, h, n) = [done |-> done, decl |-> decl, twice |-> twice]
  BY <1>5, <1>6, <1>7, <1>8, Zenon
<1> QED BY <1>9 DEF Graph

\* What load_from_disk rebuilds from any files is a graph.
LEMMA RecoverIsGraph ==
  ASSUME NEW s \in Shot \cup {None}, NEW ints \in Seq(Intent), NEW w \in Seq(Frame)
  PROVE  Recover(s, ints, w) \in Graph
<1>1. (IF s = None THEN Empty ELSE s.g) \in Graph
  BY EmptyIsGraph DEF Shot
<1>2. ValidLen(Bytes(w)) \in 0..Len(w)
  BY BytesFacts, ValidLenFacts
<1> QED BY <1>1, <1>2, HeldMarkType, ReplayIsGraph DEF Recover

\* What snapshot_with encodes is a snapshot; one that replaces its WAL has no mark.
LEMMA ImageIsShot ==
  ASSUME mem \in Graph, wal \in Seq(Frame), NEW m
  PROVE  /\ Image(m) \in Shot
         /\ Replaces(m) => Image(m) \in [g : Graph, mark : {None}]
<1>1. (V11 /\ mem.decl) \in BOOLEAN
  OBVIOUS
<1>2. [mem EXCEPT !.decl = V11 /\ mem.decl] \in Graph
  BY <1>1 DEF Graph
<1>3. Bytes(wal) \in Seq(Content)
  BY BytesFacts
<1> QED BY <1>2, <1>3 DEF Image, Shot

\* The replacement of a WAL is a WAL of at most one frame.
LEMMA BaselineIsWal ==
  ASSUME Len(hist) \in Nat
  PROVE  Baseline \in Seq(Frame) /\ Len(Baseline) \in Nat /\ Len(Baseline) <= 1
         /\ \A i \in 1..Len(Baseline) : Baseline[i] = [c |-> Declare, id |-> Len(hist)]
<1>1. [c |-> Declare, id |-> Len(hist)] \in Frame
  BY DEF Frame, Content
<1>2. CASE mem.decl
  BY <1>1, <1>2, Singleton DEF Baseline
<1>3. CASE ~mem.decl
  BY <1>3, EmptySeq DEF Baseline
<1> QED BY <1>2, <1>3

-----------------------------------------------------------------------------
(* The commits a WAL reaches.                                              *)

\* How many commits a WAL reaches is a number.
LEMMA AtInType ==
  ASSUME NEW w \in Seq(Frame), NEW b \in Nat
  PROVE  \A n \in 0..Len(w) : AtIn(w, b, n) \in Nat
BY BytesFacts DEF AtIn

\* One more frame.
LEMMA AtInAppended ==
  ASSUME NEW w \in Seq(Frame), NEW b \in Nat, NEW f \in Frame
  PROVE  /\ Append(w, f) \in Seq(Frame) /\ Len(Append(w, f)) = Len(w) + 1
         /\ \A i \in 1..Len(w) : Append(w, f)[i] = w[i]
         /\ Append(w, f)[Len(w) + 1] = f
         /\ \A n \in 0..Len(w) : AtIn(Append(w, f), b, n) = AtIn(w, b, n)
         /\ AtIn(Append(w, f), b, Len(w) + 1) = f.id
<1>1. Len(w) \in Nat
  BY LenProperties
<1>2. PICK v : v = Append(w, f)
  OBVIOUS
<1>3. /\ v \in Seq(Frame) /\ Len(v) = Len(w) + 1 /\ v[Len(w) + 1] = f
      /\ \A i \in 1..Len(w) : v[i] = w[i]
  BY <1>2, Appended
<1>4. \A n \in 0..Len(w) : AtIn(v, b, n) = AtIn(w, b, n)
  BY <1>1, <1>3 DEF AtIn
<1>5. AtIn(v, b, Len(w) + 1) = f.id
  BY <1>1, <1>3 DEF AtIn
<1> QED BY <1>2, <1>3, <1>4, <1>5

\* A prefix.
LEMMA AtInPrefix ==
  ASSUME NEW w \in Seq(Frame), NEW b \in Nat, NEW k \in 0..Len(w)
  PROVE  /\ SubSeq(w, 1, k) \in Seq(Frame) /\ Len(SubSeq(w, 1, k)) = k
         /\ \A i \in 1..k : SubSeq(w, 1, k)[i] = w[i]
         /\ \A n \in 0..k : AtIn(SubSeq(w, 1, k), b, n) = AtIn(w, b, n)
<1>1. Len(w) \in Nat
  BY LenProperties
<1>2. PICK v : v = SubSeq(w, 1, k)
  OBVIOUS
<1>3. v \in Seq(Frame) /\ Len(v) = k /\ \A i \in 1..k : v[i] = w[i]
  BY <1>2, Prefix
<1>4. \A n \in 0..k : AtIn(v, b, n) = AtIn(w, b, n)
  BY <1>1, <1>3 DEF AtIn
<1> QED BY <1>2, <1>3, <1>4

\* A frame of the newest commit, appended, leaves the WAL in order.
LEMMA InOrderAppended ==
  ASSUME NEW w \in Seq(Frame), NEW b \in Nat, NEW j \in Nat, InOrder(w, b, j),
         NEW f \in Frame, NEW k \in Nat, j <= k, AtIn(w, b, Len(w)) <= f.id, f.id <= k
  PROVE  InOrder(Append(w, f), b, k)
<1>1. Len(w) \in Nat /\ f.id \in Nat /\ \A n \in 0..Len(w) : AtIn(w, b, n) \in Nat
  BY LenProperties, AtInType DEF Frame
<1>2. PICK v : v = Append(w, f)
  OBVIOUS
<1>3. /\ Len(v) = Len(w) + 1 /\ AtIn(v, b, Len(w) + 1) = f.id
      /\ \A n \in 0..Len(w) : AtIn(v, b, n) = AtIn(w, b, n)
  BY <1>2, AtInAppended
<1>4. \A n \in 0..Len(w)+1 : n \in 0..Len(w) \/ n = Len(w) + 1
  BY <1>1
<1>5. SUFFICES ASSUME NEW n \in 0..Len(w)+1
               PROVE  AtIn(v, b, n) <= k /\ \A m \in 0..n : AtIn(v, b, m) <= AtIn(v, b, n)
  BY <1>2, <1>3 DEF InOrder
<1>6. CASE n \in 0..Len(w)
  <2>1. \A m \in 0..n : m \in 0..Len(w)
    BY <1>1, <1>6
  <2> QED BY <1>1, <1>3, <1>6, <2>1 DEF InOrder
<1>7. CASE n = Len(w) + 1
  <2>1. \A m \in 0..Len(w) : AtIn(w, b, m) <= AtIn(w, b, Len(w))
    BY <1>1 DEF InOrder
  <2>2. \A m \in 0..Len(w) : AtIn(v, b, m) <= f.id
    BY <1>1, <1>3, <2>1
  <2> QED BY <1>1, <1>3, <1>4, <1>7, <2>2
<1> QED BY <1>4, <1>6, <1>7

\* A WAL that is cut is in order for the commits it still reaches.
LEMMA InOrderPrefix ==
  ASSUME NEW w \in Seq(Frame), NEW b \in Nat, NEW j \in Nat, InOrder(w, b, j),
         NEW n \in 0..Len(w), NEW k \in Nat, AtIn(w, b, n) <= k
  PROVE  InOrder(SubSeq(w, 1, n), b, k)
<1>1. Len(w) \in Nat /\ \A i \in 0..Len(w) : AtIn(w, b, i) \in Nat
  BY LenProperties, AtInType
<1>2. PICK v : v = SubSeq(w, 1, n)
  OBVIOUS
<1>3. Len(v) = n /\ \A i \in 0..n : AtIn(v, b, i) = AtIn(w, b, i)
  BY <1>2, AtInPrefix
<1>4. \A i \in 0..n : i \in 0..Len(w) /\ AtIn(w, b, i) <= AtIn(w, b, n)
  BY <1>1 DEF InOrder
<1>5. \A i \in 0..n : AtIn(w, b, i) <= k
  BY <1>1, <1>4
<1>6. \A i \in 0..n : \A m \in 0..i : AtIn(w, b, m) <= AtIn(w, b, i) /\ m \in 0..n
  BY <1>4 DEF InOrder
<1> QED BY <1>2, <1>3, <1>5, <1>6 DEF InOrder

\* A WAL whose frames all stand where it begins.
LEMMA InOrderBaseline ==
  ASSUME NEW w, Len(w) \in Nat, NEW j \in Nat, \A i \in 1..Len(w) : w[i].id = j
  PROVE  InOrder(w, j, j)
<1>1. \A n \in 0..Len(w) : AtIn(w, j, n) = j
  BY DEF AtIn
<1> QED BY <1>1 DEF InOrder

-----------------------------------------------------------------------------
(* Type correctness.  Opening cuts the history back to the commits the WAL *)
(* reaches, so the proof needs that the WAL reaches no others.             *)

TypeInv == TypeOK /\ IdsInOrder

\* The facts of the type invariant that most steps need.
LEMMA TypeFacts ==
  ASSUME TypeOK
  PROVE  /\ wal \in Seq(Frame) /\ Len(wal) \in Nat /\ synced \in 0..Len(wal)
         /\ snap \in Shot \cup {None} /\ intent \in Seq(Intent) /\ Len(intent) \in Nat
         /\ mem \in Graph /\ hist \in Seq(Content) /\ Len(hist) \in Nat
         /\ base \in Nat /\ promised \in 0..Len(hist)
         /\ Bytes(wal) \in Seq(Content) /\ Len(Bytes(wal)) = Len(wal)
         /\ ValidLen(Bytes(wal)) \in 0..Len(wal)
         /\ \A n \in 0..Len(wal) : At(n) \in Nat /\ At(n) = AtIn(wal, base, n)
<1>1. wal \in Seq(Frame) /\ intent \in Seq(Intent) /\ hist \in Seq(Content)
  BY DEF TypeOK
<1>2. Len(wal) \in Nat /\ Len(intent) \in Nat /\ Len(hist) \in Nat
  BY <1>1, LenProperties
<1>3. Bytes(wal) \in Seq(Content) /\ Len(Bytes(wal)) = Len(wal)
  BY <1>1, BytesFacts
<1>4. ValidLen(Bytes(wal)) \in 0..Len(wal)
  BY <1>3, ValidLenFacts
<1>5. \A n \in 0..Len(wal) : At(n) \in Nat /\ At(n) = AtIn(wal, base, n)
  BY <1>1, AtInType DEF TypeOK, At, AtIn
<1> QED BY <1>1, <1>2, <1>3, <1>4, <1>5 DEF TypeOK, Shot

\* A new store satisfies the invariant.
LEMMA InitTypeInv == Init => TypeInv
<1> SUFFICES ASSUME Init PROVE TypeInv
  OBVIOUS
<1>1. /\ wal \in Seq(Frame) /\ intent \in Seq(Intent) /\ hist \in Seq(Content)
      /\ Len(wal) = 0 /\ Len(intent) = 0 /\ Len(hist) = 0
  BY EmptySeq DEF Init
<1>2. /\ synced = 0 /\ snap = None /\ archives = FALSE /\ pc = "idle" /\ mem = Empty
      /\ cur = Marker /\ mode = "keep" /\ unsettled = FALSE /\ promised = 0 /\ base = 0
  BY DEF Init
<1>3. /\ synced \in 0..Len(wal) /\ promised \in 0..Len(hist) /\ base \in Nat
      /\ Len(intent) <= 2 /\ cur \in Content
  BY <1>1, <1>2 DEF Content
<1>4. archives \in BOOLEAN /\ unsettled \in BOOLEAN
  BY <1>2
<1>5. TypeOK
  BY <1>1, <1>2, <1>3, <1>4, EmptyIsGraph, Zenon DEF TypeOK
<1>6. IdsInOrder
  BY <1>1, <1>2, InOrderBaseline DEF IdsInOrder
<1> QED BY <1>5, <1>6 DEF TypeInv

\* A kill or a power loss keeps it, whatever part of the WAL is left.
LEMMA CrashTypeInv ==
  ASSUME TypeInv, Crash
  PROVE  TypeInv'
<1>0. TypeOK /\ IdsInOrder /\ hist' = hist /\ base' = base
  BY DEF TypeInv, Crash, history
<1>1. PICK torn \in BOOLEAN : Kill(torn) \/ \E n \in 0..Len(wal) : PowerLoss(n, torn)
  BY DEF Crash
<1>2. /\ wal \in Seq(Frame) /\ Len(wal) \in Nat /\ synced \in 0..Len(wal) /\ base \in Nat
      /\ Len(hist) \in Nat /\ InOrder(wal, base, Len(hist))
      /\ \A n \in 0..Len(wal) : At(n) \in Nat /\ At(n) = AtIn(wal, base, n) /\ At(n) <= Len(hist)
  BY <1>0, TypeFacts DEF IdsInOrder, InOrder
<1>3. wal' \in Seq(Frame) /\ synced' \in 0..Len(wal') /\ InOrder(wal', base, Len(hist))
  <2>1. CASE Kill(torn)
    <3>1. CASE torn
      <4>1. PICK f \in Frame : f = [c |-> Torn, id |-> At(Len(wal))] /\ f.id = AtIn(wal, base, Len(wal))
        <5>1. Torn \in Content /\ At(Len(wal)) \in Nat /\ At(Len(wal)) = AtIn(wal, base, Len(wal))
          BY <1>2, ContentFacts
        <5> QED BY <5>1, FrameOf
      <4>2. wal' = Append(wal, f) /\ synced' = synced
        BY <2>1, <3>1, <4>1 DEF Kill
      <4>3. f.id <= Len(hist) /\ AtIn(wal, base, Len(wal)) <= f.id
        BY <1>2, <4>1
      <4>4. InOrder(Append(wal, f), base, Len(hist))
        BY <1>2, <4>3, InOrderAppended
      <4>5. wal' \in Seq(Frame) /\ Len(wal') = Len(wal) + 1
        BY <1>2, <4>2, Appended
      <4> QED BY <1>2, <4>2, <4>4, <4>5
    <3>2. CASE ~torn
      BY <1>2, <2>1, <3>2 DEF Kill
    <3> QED BY <3>1, <3>2
  <2>2. ASSUME NEW n \in 0..Len(wal), PowerLoss(n, torn)
        PROVE  wal' \in Seq(Frame) /\ synced' \in 0..Len(wal') /\ InOrder(wal', base, Len(hist))
    <3>1. PICK p : p = SubSeq(wal, 1, n)
      OBVIOUS
    <3>2. p \in Seq(Frame) /\ Len(p) = n /\ AtIn(p, base, n) = AtIn(wal, base, n)
      BY <1>2, <3>1, AtInPrefix
    <3>3. InOrder(p, base, Len(hist))
      BY <1>2, <3>1, InOrderPrefix
    <3>4. CASE torn
      <4>1. PICK f \in Frame : f = [c |-> Torn, id |-> At(n)] /\ f.id = AtIn(wal, base, n)
        BY <1>2, FrameOf, ContentFacts
      <4>2. wal' = p \o <<f>> /\ synced' = Len(wal')
        BY <2>2, <3>1, <3>4, <4>1 DEF PowerLoss
      <4>3. wal' = Append(p, f) /\ wal' \in Seq(Frame) /\ Len(wal') = n + 1
        BY <3>2, <4>2, Appended
      <4>4. f.id <= Len(hist) /\ AtIn(p, base, Len(p)) <= f.id
        BY <1>2, <3>2, <4>1
      <4>5. InOrder(Append(p, f), base, Len(hist))
        BY <1>2, <3>2, <3>3, <4>4, InOrderAppended
      <4>6. n + 1 \in 0..n+1
        BY <1>2
      <4> QED BY <4>2, <4>3, <4>5, <4>6
    <3>5. CASE ~torn
      <4>1. wal' = p \o <<>> /\ synced' = Len(wal')
        BY <2>2, <3>1, <3>5 DEF PowerLoss
      <4>2. wal' = p
        BY <3>2, <4>1, ConcatEmptySeq
      <4> QED BY <3>2, <3>3, <4>1, <4>2
    <3> QED BY <3>4, <3>5
  <2> QED BY <1>1, <2>1, <2>2
<1>4. /\ pc' = "down" /\ mem' = Empty /\ cur' = Marker /\ mode' = "keep" /\ unsettled' = FALSE
      /\ UNCHANGED <<snap, intent, archives, hist, base, promised>>
  BY DEF Crash, history
<1>5. unsettled' \in BOOLEAN /\ cur' \in Content
  BY <1>4 DEF Content
<1>6. TypeOK'
  BY <1>0, <1>3, <1>4, <1>5, EmptyIsGraph DEF TypeOK
<1> QED BY <1>0, <1>3, <1>6 DEF TypeInv, IdsInOrder

\* Opening leaves the whole frames of the WAL.
LEMMA OpenLeavesWhole ==
  ASSUME TypeOK, Open
  PROVE  LET n == ValidLen(Bytes(wal))
         IN  wal' = SubSeq(wal, 1, n) /\ synced' \in 0..n /\ (synced' = synced \/ synced' = n)
<1>1. /\ wal \in Seq(Frame) /\ Len(wal) \in Nat /\ synced \in 0..Len(wal)
      /\ Bytes(wal) \in Seq(Content) /\ Len(Bytes(wal)) = Len(wal)
  BY TypeFacts
<1>2. PICK n \in 0..Len(wal) : n = ValidLen(Bytes(wal))
  BY TypeFacts
<1>3. CASE WholeFrames(Bytes(wal))
  <2>1. n = Len(wal)
    <3>1. n < Len(wal) => Bytes(wal)[n+1] = Torn
      BY <1>1, <1>2, ValidLenFacts
    <3>2. n < Len(wal) => n + 1 \in 1..Len(Bytes(wal))
      BY <1>1
    <3> QED BY <1>1, <1>3, <3>1, <3>2 DEF WholeFrames
  <2>2. SubSeq(wal, 1, n) = wal
    BY <1>1, <2>1, SubSeqFull
  <2> QED BY <1>1, <1>2, <1>3, <2>1, <2>2 DEF Open
<1>4. CASE ~WholeFrames(Bytes(wal))
  BY <1>2, <1>4 DEF Open
<1> QED BY <1>3, <1>4

\* Opening keeps it: the history is cut to what the WAL reaches.
LEMMA OpenTypeInv ==
  ASSUME TypeInv, Open
  PROVE  TypeInv'
<1>0. TypeOK /\ IdsInOrder /\ base' = base
  BY DEF TypeInv, Open
<1>1. /\ wal \in Seq(Frame) /\ Len(wal) \in Nat /\ synced \in 0..Len(wal) /\ base \in Nat
      /\ hist \in Seq(Content) /\ Len(hist) \in Nat /\ InOrder(wal, base, Len(hist))
      /\ \A n \in 0..Len(wal) : At(n) \in Nat /\ At(n) = AtIn(wal, base, n) /\ At(n) <= Len(hist)
  BY <1>0, TypeFacts DEF IdsInOrder, InOrder
<1>2. PICK n \in 0..Len(wal) : n = ValidLen(Bytes(wal))
  BY <1>0, TypeFacts
<1>3. PICK k \in 0..Len(hist) : k = At(n)
  BY <1>1
<1>4. hist' \in Seq(Content) /\ Len(hist') = k
  <2>1. hist' = SubSeq(hist, 1, k)
    BY <1>2, <1>3 DEF Open
  <2> QED BY <1>1, <2>1, Prefix
<1>5. promised' \in 0..Len(hist')
  <2>1. promised \in Nat
    BY <1>0, <1>1, TypeFacts
  <2> QED BY <1>4, <2>1 DEF Open
<1>6. wal' = SubSeq(wal, 1, n) /\ synced' \in 0..n
  BY <1>0, <1>2, OpenLeavesWhole
<1>7. wal' \in Seq(Frame) /\ Len(wal') = n
  BY <1>1, <1>6, Prefix
<1>8. InOrder(SubSeq(wal, 1, n), base, k)
  BY <1>1, <1>3, InOrderPrefix
<1>9. mem' \in Graph
  BY <1>0, TypeFacts, RecoverIsGraph DEF Open
<1>10. unsettled' \in BOOLEAN /\ archives' \in BOOLEAN
  BY <1>0 DEF Open, LeftOver, TypeOK
<1>11. TypeOK'
  BY <1>0, <1>4, <1>5, <1>6, <1>7, <1>9, <1>10 DEF TypeOK, Open
<1> QED BY <1>0, <1>4, <1>6, <1>8, <1>11 DEF TypeInv, IdsInOrder

\* Every step keeps it.
LEMMA NextTypeInv == TypeInv /\ [Next]_vars => TypeInv'
<1> SUFFICES ASSUME TypeInv, [Next]_vars PROVE TypeInv'
  OBVIOUS
<1>0. TypeOK /\ IdsInOrder
  BY DEF TypeInv
<1> USE StoreAssumption, <1>0, TypeFacts
<1>a. /\ InOrder(wal, base, Len(hist)) /\ AtIn(wal, base, Len(wal)) \in Nat
      /\ AtIn(wal, base, Len(wal)) <= Len(hist) /\ wal \in Seq(Frame) /\ base \in Nat
      /\ Len(wal) \in Nat /\ Len(hist) \in Nat
  BY DEF IdsInOrder, InOrder
<1>b. ASSUME UNCHANGED <<wal, base, hist>> PROVE IdsInOrder'
  BY <1>b DEF IdsInOrder
<1>1. CASE SettleSnapshotIntent
  <2>1. StandingIntent(intent, snap, Bytes(wal)) \in Seq(Intent) /\ Len(StandingIntent(intent, snap, Bytes(wal))) <= 2
    BY StandingIntentType
  <2>2. TypeOK'
    BY <1>1, <2>1 DEF TypeOK, SettleSnapshotIntent, history
  <2> QED BY <1>1, <2>2, <1>b DEF TypeInv, SettleSnapshotIntent, history
<1>2. ASSUME NEW c \in Write \cup {Declare, Drop}, AppendFrame(c) PROVE TypeInv'
  <2>1. PICK f \in Frame : f = [c |-> c, id |-> Len(hist) + 1] /\ f.id = Len(hist) + 1
    <3>1. c \in Content /\ Len(hist) + 1 \in Nat
      BY ContentFacts
    <3> QED BY <3>1, FrameOf
  <2>2. wal' = Append(wal, f) /\ hist' = Append(hist, c) /\ base' = base
    BY <1>2, <2>1 DEF AppendFrame
  <2>3. hist' \in Seq(Content) /\ Len(hist') = Len(hist) + 1 /\ c \in Content
    BY <2>2, Appended DEF Content
  <2>4. wal' \in Seq(Frame) /\ Len(wal') = Len(wal) + 1
    BY <2>2, Appended
  <2>5. AtIn(wal, base, Len(wal)) <= f.id
    BY <1>a, <2>1, TypeFacts
  <2>6. InOrder(wal', base, Len(hist) + 1)
    <3>1. /\ Len(hist) + 1 \in Nat /\ Len(hist) <= Len(hist) + 1
          /\ f \in Frame /\ f.id <= Len(hist) + 1
      BY <1>a, <2>1
    <3>2. InOrder(Append(wal, f), base, Len(hist) + 1)
      BY <1>a, <2>5, <3>1, InOrderAppended
    <3> QED BY <2>2, <3>2
  <2>7. TypeOK'
    BY <1>2, <2>3, <2>4 DEF TypeOK, AppendFrame
  <2> QED BY <2>2, <2>3, <2>6, <2>7 DEF TypeInv, IdsInOrder
<1>3. CASE SyncWal
  <2>1. TypeOK'
    BY <1>3 DEF TypeOK, SyncWal, history
  <2> QED BY <1>3, <2>1, <1>b DEF TypeInv, SyncWal, history
<1>4. ASSUME NEW tail \in MarkerTails, ApplyFrameAndAck(tail) PROVE TypeInv'
  <2>1. ApplyFrame(mem, [c |-> cur, id |-> Len(hist)]) \in Graph
    <3> DEFINE f == [c |-> cur, id |-> Len(hist)]
    <3>1. (IF f.c \in Write THEN mem.done \cup {f.id} ELSE mem.done) \in SUBSET Nat
      BY DEF Graph
    <3>2. (IF IsDeclaration(f.c) THEN f.c = Declare ELSE mem.decl) \in BOOLEAN
      BY DEF Graph
    <3>3. (mem.twice \/ (f.c \in Write /\ f.id \in mem.done)) \in BOOLEAN
      OBVIOUS
    <3>4. PICK done \in SUBSET Nat, decl \in BOOLEAN, twice \in BOOLEAN :
            ApplyFrame(mem, f) = [done |-> done, decl |-> decl, twice |-> twice]
      BY <3>1, <3>2, <3>3, Zenon DEF ApplyFrame
    <3> QED BY <3>4, GraphOf, Zenon
  <2>2. wal' = wal \o tail /\ base' = base /\ hist' = hist
    BY <1>4 DEF ApplyFrameAndAck
  <2>a. \A c \in {Marker, Torn} : \E f \in Frame : f = [c |-> c, id |-> Len(hist)] /\ f.id = Len(hist)
    <3> SUFFICES ASSUME NEW c \in {Marker, Torn}
                 PROVE  \E f \in Frame : f = [c |-> c, id |-> Len(hist)] /\ f.id = Len(hist)
      OBVIOUS
    <3>1. c \in Content
      BY ContentFacts
    <3>2. Len(hist) \in Nat
      BY <1>a
    <3>3. \E f \in Frame : f = [c |-> c, id |-> Len(hist)] /\ f.c = c /\ f.id = Len(hist)
      BY <3>1, <3>2, FrameOf, Zenon
    <3> QED BY <3>3, Zenon
  <2>3. wal' \in Seq(Frame) /\ synced \in 0..Len(wal') /\ IdsInOrder'
    <3>1. CASE tail = <<>>
      <4>1. wal' = wal
        BY <2>2, <3>1, ConcatEmptySeq
      <4> QED BY <1>b, <2>2, <4>1
    <3>2. ASSUME NEW c \in {Marker, Torn}, tail = <<[c |-> c, id |-> Len(hist)]>>
          PROVE  wal' \in Seq(Frame) /\ synced \in 0..Len(wal') /\ IdsInOrder'
      <4>1. PICK f \in Frame : f = [c |-> c, id |-> Len(hist)] /\ f.id = Len(hist)
        BY <2>a
      <4>2. wal' = wal \o <<f>>
        BY <2>2, <3>2, <4>1
      <4>3. wal' = Append(wal, f) /\ wal' \in Seq(Frame) /\ Len(wal') = Len(wal) + 1
        BY <4>2, Appended
      <4>4. InOrder(wal', base, Len(hist))
        BY <1>a, <4>1, <4>3, InOrderAppended
      <4> QED BY <2>2, <4>3, <4>4 DEF IdsInOrder
    <3> QED BY <3>1, <3>2 DEF MarkerTails
  <2>4. promised' \in 0..Len(hist)
    BY <1>4 DEF ApplyFrameAndAck
  <2>5. TypeOK'
    BY <1>4, <2>1, <2>3, <2>4 DEF TypeOK, ApplyFrameAndAck, Content
  <2> QED BY <2>3, <2>5 DEF TypeInv
<1>5. CASE AppendFails
  <2>1. PICK f \in Frame : f = [c |-> Torn, id |-> Len(hist)] /\ f.id = Len(hist)
    <3>1. Torn \in Content /\ Len(hist) \in Nat
      BY <1>a, ContentFacts
    <3> QED BY ONLY <3>1, FrameOf
  <2>2. wal' = Append(wal, f) /\ base' = base /\ hist' = hist
    BY <1>5, <2>1 DEF AppendFails, history
  <2>3. wal' \in Seq(Frame) /\ Len(wal') = Len(wal) + 1
    BY <2>2, Appended
  <2>4. InOrder(wal', base, Len(hist))
    BY <1>a, <2>1, <2>2, InOrderAppended
  <2>5. TypeOK'
    BY <1>5, <2>3 DEF TypeOK, AppendFails, handle, history
  <2> QED BY <2>2, <2>4, <2>5 DEF TypeInv, IdsInOrder
<1>6. CASE SyncFails
  <2>1. TypeOK'
    BY <1>6 DEF TypeOK, SyncFails, files, history, Content
  <2> QED BY <1>6, <2>1, <1>b DEF TypeInv, SyncFails, files, history
<1>7. CASE SyncForUpgrade
  <2>1. TypeOK'
    BY <1>7 DEF TypeOK, SyncForUpgrade, history
  <2> QED BY <1>7, <2>1, <1>b DEF TypeInv, SyncForUpgrade, history
<1>8. ASSUME NEW m \in Modes, WriteIntent(m) PROVE TypeInv'
  <2>1. m \in {"keep", "truncate", "archive", "upgrade"}
    OBVIOUS
  <2>2. CASE Replaces(m)
    <3>1. PICK st \in Seq(Intent) : st = StandingIntent(intent, snap, Bytes(wal)) /\ Len(st) \in Nat /\ Len(st) <= 1
      BY StandingIntentType
    <3>2. PICK new \in Intent : new = [snap |-> Image(m), wal |-> Bytes(wal)]
      BY <2>2, ImageIsShot DEF Intent
    <3>3. intent' = <<new>> \o st
      BY <1>8, <2>2, <3>1, <3>2 DEF WriteIntent
    <3>4. <<new>> \in Seq(Intent) /\ Len(<<new>>) = 1
      BY Singleton
    <3>5. intent' \in Seq(Intent) /\ Len(intent') <= 2
      BY <3>1, <3>3, <3>4, ConcatProperties
    <3> QED BY <1>8, <2>1, <2>2, <3>5, <1>b DEF TypeInv, TypeOK, WriteIntent, history
  <2>3. CASE ~Replaces(m)
    BY <1>8, <2>1, <2>3, <1>b DEF TypeInv, TypeOK, WriteIntent, history
  <2> QED BY <2>2, <2>3
<1>9. CASE WriteSnapshot
  <2>1. TypeOK'
    BY <1>9, ImageIsShot DEF TypeOK, WriteSnapshot, history, Shot
  <2> QED BY <1>9, <2>1, <1>b DEF TypeInv, WriteSnapshot, history
<1>10. ASSUME PutBaseline, hist' = hist
       PROVE  wal' \in Seq(Frame) /\ synced' \in 0..Len(wal') /\ IdsInOrder' /\ base' \in Nat
  <2>1. PICK j \in Nat : j = Len(hist)
    BY <1>a
  <2>2. PICK w \in Seq(Frame) : w = Baseline /\ Len(w) \in Nat /\ \A i \in 1..Len(w) : w[i].id = j
    <3>1. Baseline \in Seq(Frame) /\ Len(Baseline) \in Nat
          /\ \A i \in 1..Len(Baseline) : Baseline[i] = [c |-> Declare, id |-> j]
      BY <2>1, BaselineIsWal
    <3> QED BY ONLY <3>1
  <2>3. wal' = w /\ synced' = Len(w) /\ base' = j /\ hist' = hist
    BY <1>10, <2>1, <2>2 DEF PutBaseline
  <2>4. InOrder(w, j, j)
    BY ONLY <2>2, InOrderBaseline
  <2>5. Len(w) \in 0..Len(w)
    BY ONLY <2>2
  <2> QED BY <2>1, <2>2, <2>3, <2>4, <2>5 DEF IdsInOrder
<1>11. CASE TruncateWal
  BY <1>10, <1>11 DEF TypeInv, TypeOK, TruncateWal
<1>12. CASE ArchiveWal
  <2>1. wal' \in Seq(Frame) /\ synced' \in 0..Len(wal') /\ base' \in Nat
    BY <1>12, EmptySeq DEF ArchiveWal
  <2>2. TypeOK'
    BY <1>12, <2>1 DEF TypeOK, ArchiveWal
  <2>3. wal' = <<>> /\ base' = Len(hist) /\ hist' = hist
    BY <1>12 DEF ArchiveWal
  <2>4. Len(wal') = 0
    BY <2>3, EmptySeq
  <2>5. \A n \in 0..Len(wal') : n = 0
    BY <2>4
  <2>6. InOrder(wal', Len(hist), Len(hist))
    BY <1>a, <2>5 DEF InOrder, AtIn
  <2> QED BY <2>2, <2>3, <2>6 DEF TypeInv, IdsInOrder
<1>13. CASE BaselineAfterArchive
  <2>1. wal' \in Seq(Frame) /\ synced' \in 0..Len(wal') /\ IdsInOrder' /\ base' \in Nat
    <3>1. CASE PutBaseline
      BY <1>10, <1>13, <3>1 DEF BaselineAfterArchive
    <3>2. CASE UNCHANGED <<wal, synced, base>>
      BY <1>13, <3>2, <1>b DEF BaselineAfterArchive
    <3> QED BY <1>13, <3>1, <3>2 DEF BaselineAfterArchive
  <2> QED BY <1>13, <2>1 DEF TypeInv, TypeOK, BaselineAfterArchive
<1>14. CASE EmptyIntent
  <2>1. intent' \in Seq(Intent) /\ Len(intent') <= 2
    BY <1>14, EmptySeq DEF EmptyIntent
  <2>2. /\ unsettled' = FALSE /\ pc' = "idle"
        /\ UNCHANGED <<wal, synced, snap, archives, mem, cur, mode, hist, base, promised>>
    BY <1>14 DEF EmptyIntent, history
  <2> QED BY <2>1, <2>2, <1>b DEF TypeInv, TypeOK
<1>15. CASE SnapshotFails
  BY <1>15, <1>b DEF TypeInv, TypeOK, SnapshotFails, files, history
<1>16. CASE Crash
  BY <1>16, CrashTypeInv
<1>17. CASE Open
  BY <1>17, OpenTypeInv
<1>18. CASE UNCHANGED vars
  BY <1>18, <1>b DEF TypeInv, TypeOK, vars, files, handle, history
<1> QED
  BY <1>1, <1>2, <1>3, <1>4, <1>5, <1>6, <1>7, <1>8, <1>9, <1>11, <1>12, <1>13, <1>14,
     <1>15, <1>16, <1>17, <1>18 DEF Next

\* Every reachable state of the handle, of its files and of the history has
\* its type, whatever the policy, the faults and the crashes: no snapshot
\* leaves more than two intents in the file, and what log_then_apply_with,
\* snapshot_with and load_from_disk leave is always something an open decodes.
THEOREM TypeCorrect == Spec => []TypeOK
<1>1. TypeInv => TypeOK
  BY DEF TypeInv
<1> QED BY <1>1, InitTypeInv, NextTypeInv, PTL DEF Spec

-----------------------------------------------------------------------------
(* Intents and a WAL that grows.                                           *)

\* WalMark::matches looks only at the WAL's beginning.
LEMMA MatchesLonger ==
  ASSUME NEW m, NEW c, NEW d, Len(m) \in Nat, Len(c) \in Nat, Len(d) \in Nat,
         Len(c) <= Len(d), \A i \in 1..Len(c) : d[i] = c[i],
         Matches(m, c)
  PROVE  Matches(m, d)
BY DEF Matches

\* An intent that is true of a WAL stays true of a longer one.
LEMMA NamingStandLonger ==
  ASSUME NEW ints \in Seq(Intent), NEW s, NEW c \in Seq(Content), NEW d \in Seq(Content),
         Len(c) <= Len(d), \A i \in 1..Len(c) : d[i] = c[i],
         NamingStand(ints, s, c)
  PROVE  NamingStand(ints, s, d)
<1>1. Len(c) \in Nat /\ Len(d) \in Nat /\ Len(ints) \in Nat
  BY LenProperties
<1>2. \A i \in 1..Len(ints) : Len(ints[i].wal) \in Nat
  <2>1. \A i \in 1..Len(ints) : ints[i] \in Intent
    BY ElementOfSeq
  <2>2. \A i \in 1..Len(ints) : ints[i].wal \in Seq(Content)
    BY <2>1 DEF Intent
  <2> QED BY <2>2, LenProperties
<1>3. ASSUME NEW i \in 1..Len(ints), ints[i].snap = s PROVE Matches(ints[i].wal, d)
  <2>1. Matches(ints[i].wal, c)
    BY <1>3 DEF NamingStand
  <2> QED BY <1>1, <1>2, <2>1, MatchesLonger
<1> QED BY <1>3 DEF NamingStand

\* The bytes of a WAL and one more frame.
LEMMA NamingStandAppended ==
  ASSUME NEW ints \in Seq(Intent), NEW s, NEW w \in Seq(Frame), NEW f \in Frame,
         NamingStand(ints, s, Bytes(w))
  PROVE  NamingStand(ints, s, Bytes(Append(w, f)))
<1>1. Append(w, f) \in Seq(Frame) /\ Len(Append(w, f)) = Len(w) + 1 /\ Len(w) \in Nat
      /\ \A i \in 1..Len(w) : Append(w, f)[i] = w[i]
  BY Appended, LenProperties
<1>2. Bytes(w) \in Seq(Content) /\ Len(Bytes(w)) = Len(w)
      /\ \A i \in 1..Len(w) : Bytes(w)[i] = w[i].c
  BY BytesFacts
<1>3. Bytes(Append(w, f)) \in Seq(Content) /\ Len(Bytes(Append(w, f))) = Len(w) + 1
      /\ \A i \in 1..Len(w) + 1 : Bytes(Append(w, f))[i] = Append(w, f)[i].c
  BY <1>1, BytesFacts
<1>4. \A i \in 1..Len(Bytes(w)) : Bytes(Append(w, f))[i] = Bytes(w)[i]
  BY <1>1, <1>2, <1>3
<1>5. Len(Bytes(w)) <= Len(Bytes(Append(w, f)))
  BY <1>1, <1>2, <1>3
<1> QED BY <1>2, <1>3, <1>4, <1>5, NamingStandLonger

\* An intent file without left-overs.
LEMMA SettledStand ==
  ASSUME NEW ints \in Seq(Intent), NEW s, NEW c, ~LeftOver(ints, s, c)
  PROVE  NamingStand(ints, s, c)
<1>1. Len(ints) \in Nat /\ Len(ints) = Len(StandingIntent(ints, s, c))
  BY LenProperties DEF LeftOver
<1>2. CASE StandingIntent(ints, s, c) = <<>>
  <2>1. Len(ints) = 0
    BY <1>1, <1>2, EmptySeq
  <2> QED BY <2>1 DEF NamingStand
<1>3. ASSUME NEW i \in 1..Len(ints), StandsAt(i, ints, s, c), StandingIntent(ints, s, c) = <<ints[i]>>
      PROVE  NamingStand(ints, s, c)
  <2>1. Len(ints) = 1
    BY <1>1, <1>3
  <2>2. \A j \in 1..Len(ints) : j = i
    BY <2>1
  <2> QED BY <1>3, <2>2 DEF NamingStand, StandsAt
<1> QED BY <1>2, <1>3, StandingIntentFacts

\* What settle_snapshot_intent keeps.
LEMMA StandingStands ==
  ASSUME NEW ints \in Seq(Intent), NEW s, NEW c
  PROVE  NamingStand(StandingIntent(ints, s, c), s, c)
<1> DEFINE st == StandingIntent(ints, s, c)
<1>1. CASE st = <<>>
  <2>1. Len(st) = 0
    BY <1>1, EmptySeq
  <2> QED BY <2>1 DEF NamingStand
<1>2. ASSUME NEW i \in 1..Len(ints), StandsAt(i, ints, s, c), st = <<ints[i]>>
      PROVE  NamingStand(st, s, c)
  <2>1. Len(st) = 1 /\ st[1] = ints[i]
    BY <1>2
  <2>2. \A j \in 1..Len(st) : st[j] = ints[i]
    BY <2>1
  <2> QED BY <1>2, <2>2 DEF NamingStand, StandsAt
<1> QED BY <1>1, <1>2, StandingIntentFacts

-----------------------------------------------------------------------------
(* The invariant.                                                          *)

\* A new store has no intent.
LEMMA InitIntentInv == Init => IntentInv
<1> SUFFICES ASSUME Init PROVE IntentInv
  OBVIOUS
<1>1. pc = "idle" /\ intent = <<>> /\ Len(intent) = 0
  BY EmptySeq DEF Init
<1>2. NamingStand(intent, snap, Bytes(wal))
  BY <1>1 DEF NamingStand
<1> QED BY <1>1, <1>2 DEF IntentInv, KnowsUnsettled, NothingWaits

\* Opening finds an intent left over, or none; the torn tail it cuts off is in
\* no WAL that an intent names.
LEMMA OpenIntentInv ==
  ASSUME TypeOK, Open
  PROVE  IntentInv'
<1>1. /\ wal \in Seq(Frame) /\ Len(wal) \in Nat /\ intent \in Seq(Intent)
      /\ Bytes(wal) \in Seq(Content) /\ Len(Bytes(wal)) = Len(wal)
  BY TypeFacts
<1>2. PICK n \in 0..Len(wal) : n = ValidLen(Bytes(wal))
  BY TypeFacts
<1>3. wal' = SubSeq(wal, 1, n)
  BY <1>2, OpenLeavesWhole
<1>4. /\ pc' = "idle" /\ intent' = intent /\ snap' = snap
      /\ unsettled' = LeftOver(intent, snap, Bytes(wal))
  BY DEF Open
<1>5. /\ wal' \in Seq(Frame) /\ Len(wal') = n /\ Bytes(wal') \in Seq(Content) /\ Len(Bytes(wal')) = n
      /\ \A i \in 1..n : Bytes(wal')[i] = Bytes(wal)[i]
  <2>1. wal' \in Seq(Frame) /\ Len(wal') = n /\ \A i \in 1..n : wal'[i] = wal[i]
    BY <1>1, <1>3, Prefix
  <2>2. \A i \in 1..Len(wal) : Bytes(wal)[i] = wal[i].c
    BY <1>1, BytesFacts
  <2>3. /\ Bytes(wal') \in Seq(Content) /\ Len(Bytes(wal')) = n
        /\ \A i \in 1..n : Bytes(wal')[i] = wal'[i].c
    BY <2>1, BytesFacts
  <2>4. \A i \in 1..n : i \in 1..Len(wal)
    BY <1>1
  <2> QED BY <2>1, <2>2, <2>3, <2>4
<1>6. ASSUME NEW m \in Seq(Content), Matches(m, Bytes(wal)) PROVE Matches(m, Bytes(wal'))
  <2>1. Len(m) \in Nat /\ Len(m) <= Len(wal) /\ \A i \in 1..Len(m) : m[i] = Bytes(wal)[i] /\ m[i] # Torn
    BY <1>1, <1>6, LenProperties DEF Matches, WholeFrames
  <2>2. n < Len(wal) => Bytes(wal)[n+1] = Torn
    BY <1>1, <1>2, ValidLenFacts
  <2>3. Len(m) <= n
    <3> SUFFICES ASSUME n < Len(m) PROVE FALSE
      BY <2>1
    <3>1. n + 1 \in 1..Len(m) /\ n < Len(wal)
      BY <2>1, <1>1
    <3> QED BY <2>1, <2>2, <3>1
  <2> QED BY <1>5, <1>6, <2>1, <2>3 DEF Matches
<1>7. ASSUME ~unsettled' PROVE NamingStand(intent, snap, Bytes(wal'))
  <2>1. NamingStand(intent, snap, Bytes(wal))
    BY <1>1, <1>4, <1>7, SettledStand
  <2>2. \A i \in 1..Len(intent) : intent[i].wal \in Seq(Content)
    <3>1. \A i \in 1..Len(intent) : intent[i] \in Intent
      BY <1>1, ElementOfSeq
    <3> QED BY <3>1 DEF Intent
  <2> QED BY <1>6, <2>1, <2>2 DEF NamingStand
<1>8. (Bytes(wal))' = Bytes(wal')
  BY DEF Bytes
<1> QED BY <1>4, <1>7, <1>8 DEF IntentInv, KnowsUnsettled, NothingWaits, NamingStand, Matches, WholeFrames

\* One step of the handle or of a crash keeps the invariant.
LEMMA NextIntentInv == TypeOK /\ IntentInv /\ [Next]_vars => IntentInv'
<1> SUFFICES ASSUME TypeOK, IntentInv, [Next]_vars PROVE IntentInv'
  OBVIOUS
<1>a. /\ wal \in Seq(Frame) /\ Len(wal) \in Nat /\ intent \in Seq(Intent) /\ Len(hist) \in Nat
      /\ Bytes(wal) \in Seq(Content) /\ Len(Bytes(wal)) = Len(wal)
  BY TypeFacts
<1>b. KnowsUnsettled /\ NothingWaits
  BY DEF IntentInv
<1>c. ASSUME pc' \in {"idle", "upgrading"}, ~unsettled' => NamingStand(intent', snap', Bytes(wal')) PROVE IntentInv'
  BY <1>c DEF IntentInv, KnowsUnsettled, NothingWaits, NamingStand, Matches, WholeFrames, Bytes
<1>d. ASSUME UNCHANGED <<wal, snap, intent, unsettled>>, pc \in Quiet, pc' = "idle" PROVE IntentInv'
  <2>1. ~unsettled => NamingStand(intent, snap, Bytes(wal))
    BY <1>b, <1>d DEF NothingWaits
  <2>2. ~unsettled' => NamingStand(intent', snap', Bytes(wal'))
    BY <1>d, <2>1
  <2> QED BY <1>c, <1>d, <2>2
<1>e. ASSUME pc \in {"appended", "synced"} PROVE NamingStand(intent, snap, Bytes(wal))
  <2>1. Len(wal) >= 1 /\ NamingStand(intent, snap, SubSeq(Bytes(wal), 1, Len(wal) - 1))
    BY <1>b, <1>e DEF NothingWaits
  <2>2. PICK k \in 0..Len(Bytes(wal)) : k = Len(wal) - 1
    BY <1>a, <2>1
  <2>3. /\ SubSeq(Bytes(wal), 1, k) \in Seq(Content) /\ Len(SubSeq(Bytes(wal), 1, k)) = k
        /\ \A i \in 1..k : SubSeq(Bytes(wal), 1, k)[i] = Bytes(wal)[i]
    BY <1>a, <2>2, Prefix
  <2>4. PICK before \in Seq(Content) : before = SubSeq(Bytes(wal), 1, k)
    BY <2>3
  <2>5. /\ NamingStand(intent, snap, before) /\ Len(before) <= Len(Bytes(wal))
        /\ \A i \in 1..Len(before) : Bytes(wal)[i] = before[i]
    BY <2>1, <2>2, <2>3, <2>4
  <2> QED BY <1>a, <2>5, NamingStandLonger
<1>1. CASE SettleSnapshotIntent
  <2>1. pc' = "idle" /\ snap' = snap /\ wal' = wal
    BY <1>1 DEF SettleSnapshotIntent
  <2>2. NamingStand(intent', snap, Bytes(wal))
    BY <1>1, <1>a, SettledStand, StandingStands DEF SettleSnapshotIntent
  <2> QED BY <1>c, <2>1, <2>2
<1>2. ASSUME NEW c \in Write \cup {Declare, Drop}, AppendFrame(c) PROVE IntentInv'
  <2>1. PICK f \in Frame : f = [c |-> c, id |-> Len(hist) + 1]
    BY <1>a, FrameOf, ContentFacts
  <2>2. /\ wal' = Append(wal, f) /\ pc = "idle" /\ pc' = "appended" /\ ~unsettled
        /\ intent' = intent /\ snap' = snap
    BY <1>2, <2>1 DEF AppendFrame
  <2>3. wal' \in Seq(Frame) /\ Len(wal') = Len(wal) + 1 /\ \A i \in 1..Len(wal) : wal'[i] = wal[i]
    BY <1>a, <2>2, Appended
  <2>4. NamingStand(intent, snap, Bytes(wal))
    BY <1>b, <2>2 DEF NothingWaits, Quiet
  <2>5. SubSeq(Bytes(wal'), 1, Len(wal') - 1) = Bytes(wal)
    <3>1. /\ Bytes(wal') \in Seq(Content) /\ Len(Bytes(wal')) = Len(wal) + 1
          /\ \A i \in 1..Len(wal) + 1 : Bytes(wal')[i] = wal'[i].c
      BY <2>3, BytesFacts
    <3>2. \A i \in 1..Len(wal) : Bytes(wal)[i] = wal[i].c
      BY <1>a, BytesFacts
    <3>3. PICK k \in 0..Len(Bytes(wal')) : k = Len(wal) /\ k = Len(wal') - 1
      BY <1>a, <2>3, <3>1
    <3>4. /\ SubSeq(Bytes(wal'), 1, k) \in Seq(Content) /\ Len(SubSeq(Bytes(wal'), 1, k)) = k
          /\ \A i \in 1..k : SubSeq(Bytes(wal'), 1, k)[i] = Bytes(wal')[i]
      BY <3>1, Prefix
    <3>5. \A i \in 1..k : SubSeq(Bytes(wal'), 1, k)[i] = Bytes(wal)[i]
      BY <2>3, <3>1, <3>2, <3>3, <3>4
    <3>6. SubSeq(Bytes(wal'), 1, k) = Bytes(wal)
      BY <1>a, <3>3, <3>4, <3>5, SeqEqual
    <3> QED BY <3>3, <3>6
  <2>6. NamingStand(intent', snap', SubSeq(Bytes(wal'), 1, Len(wal') - 1)) /\ Len(wal') >= 1
    <3>1. Len(wal') >= 1
      BY <1>a, <2>3
    <3> QED BY <2>2, <2>4, <2>5, <3>1, Zenon
  <2> QED BY <2>2, <2>6 DEF IntentInv, KnowsUnsettled, NothingWaits, Quiet, NamingStand, Matches,
                            WholeFrames, Bytes
<1>3. CASE SyncWal
  <2>1. pc = "appended" /\ pc' = "synced" /\ UNCHANGED <<wal, snap, intent, unsettled>>
    BY <1>3 DEF SyncWal
  <2>2. Len(wal) >= 1 /\ NamingStand(intent, snap, SubSeq(Bytes(wal), 1, Len(wal) - 1))
    BY <1>b, <2>1 DEF NothingWaits
  <2> QED BY <2>1, <2>2 DEF IntentInv, KnowsUnsettled, NothingWaits, Quiet, NamingStand, Matches,
                            WholeFrames, Bytes
<1>4. ASSUME NEW tail \in MarkerTails, ApplyFrameAndAck(tail) PROVE IntentInv'
  <2>1. /\ pc \in {"appended", "synced"} /\ pc' = "idle" /\ wal' = wal \o tail
        /\ UNCHANGED <<snap, intent>>
    BY <1>4 DEF ApplyFrameAndAck
  <2>2. NamingStand(intent, snap, Bytes(wal))
    BY <1>e, <2>1
  <2>3. CASE tail = <<>>
    <3>1. wal' = wal
      BY <1>a, <2>1, <2>3, ConcatEmptySeq
    <3> QED BY <1>c, <2>1, <2>2, <3>1
  <2>4. ASSUME NEW c \in {Marker, Torn}, tail = <<[c |-> c, id |-> Len(hist)]>> PROVE IntentInv'
    <3>1. PICK f \in Frame : f = [c |-> c, id |-> Len(hist)]
      BY <1>a, FrameOf, ContentFacts
    <3>2. wal' = Append(wal, f)
      BY <1>a, <2>1, <2>4, <3>1, Appended
    <3>3. NamingStand(intent, snap, Bytes(wal'))
      BY <1>a, <2>2, <3>2, NamingStandAppended
    <3> QED BY <1>c, <2>1, <3>3
  <2> QED BY <2>3, <2>4 DEF MarkerTails
<1>5. CASE AppendFails
  <2>1. /\ pc = "idle" /\ pc' = "idle" /\ ~unsettled /\ UNCHANGED <<snap, intent>>
        /\ wal' = Append(wal, [c |-> Torn, id |-> Len(hist)])
    BY <1>5 DEF AppendFails, handle
  <2>2. PICK f \in Frame : f = [c |-> Torn, id |-> Len(hist)]
    BY <1>a, FrameOf, ContentFacts
  <2>3. NamingStand(intent, snap, Bytes(wal))
    BY <1>b, <2>1 DEF NothingWaits, Quiet
  <2>4. NamingStand(intent, snap, Bytes(wal'))
    BY <1>a, <2>1, <2>2, <2>3, NamingStandAppended
  <2> QED BY <1>c, <2>1, <2>4
<1>6. CASE SyncFails
  <2>1. pc = "appended" /\ pc' = "idle" /\ UNCHANGED <<wal, snap, intent>>
    BY <1>6 DEF SyncFails, files
  <2>2. NamingStand(intent, snap, Bytes(wal))
    BY <1>e, <2>1
  <2> QED BY <1>c, <2>1, <2>2
<1>7. CASE SyncForUpgrade
  <2>1. pc = "idle" /\ pc' = "upgrading" /\ UNCHANGED <<wal, snap, intent, unsettled>>
    BY <1>7 DEF SyncForUpgrade
  <2>2. ~unsettled => NamingStand(intent, snap, Bytes(wal))
    BY <1>b, <2>1 DEF NothingWaits, Quiet
  <2>3. ~unsettled' => NamingStand(intent', snap', Bytes(wal'))
    BY <2>1, <2>2
  <2> QED BY <1>c, <2>1, <2>3
<1>8. ASSUME NEW m \in Modes, WriteIntent(m) PROVE IntentInv'
  <2>1. pc \in {"idle", "upgrading"} /\ pc' = "intent" /\ mode' = m /\ UNCHANGED <<wal, snap>>
    BY <1>8 DEF WriteIntent
  <2>2. CASE Replaces(m)
    <3>1. unsettled'
      BY <1>8, <2>2 DEF WriteIntent
    <3> QED BY <2>1, <3>1 DEF IntentInv, KnowsUnsettled, NothingWaits
  <2>3. CASE ~Replaces(m)
    <3>1. intent' = intent /\ unsettled' = unsettled
      BY <1>8, <2>3 DEF WriteIntent
    <3>2. ~unsettled => NamingStand(intent, snap, Bytes(wal))
      BY <1>b, <2>1 DEF NothingWaits, Quiet
    <3> QED BY <2>1, <2>3, <3>1, <3>2 DEF IntentInv, KnowsUnsettled, NothingWaits, NamingStand, Matches,
                                          WholeFrames, Bytes, Replaces
  <2> QED BY <2>2, <2>3
<1>9. CASE WriteSnapshot
  <2>1. pc = "intent" /\ snap' = Image(mode) /\ UNCHANGED <<wal, intent, mode, unsettled>>
    BY <1>9 DEF WriteSnapshot
  <2>2. CASE Replaces(mode)
    <3>1. unsettled' /\ pc' = "snapped"
      BY <1>9, <1>b, <2>1, <2>2 DEF KnowsUnsettled, WriteSnapshot
    <3> QED BY <3>1 DEF IntentInv, KnowsUnsettled, NothingWaits
  <2>3. CASE ~Replaces(mode)
    <3>1. pc' = "idle"
      BY <1>9, <2>3 DEF WriteSnapshot
    <3>2. snap'.mark # None
      <4>1. snap'.mark = Bytes(wal)
        BY <2>1, <2>3 DEF Image
      <4> QED BY <1>a, <4>1, StoreAssumption
    <3>3. \A i \in 1..Len(intent) : intent[i].snap # snap'
      <4>1. \A i \in 1..Len(intent) : intent[i] \in Intent
        BY <1>a, ElementOfSeq
      <4>2. \A i \in 1..Len(intent) : intent[i].snap.mark = None
        BY <4>1 DEF Intent
      <4> QED BY <3>2, <4>2
    <3>4. NamingStand(intent', snap', Bytes(wal'))
      BY <2>1, <3>3 DEF NamingStand
    <3> QED BY <1>c, <3>1, <3>4
  <2> QED BY <2>2, <2>3
<1>10. CASE TruncateWal \/ ArchiveWal \/ BaselineAfterArchive
  <2>1. pc \in {"snapped", "renamed"} /\ pc' \in {"renamed", "replaced"} /\ unsettled' = unsettled
    BY <1>10 DEF TruncateWal, ArchiveWal, BaselineAfterArchive
  <2>2. unsettled'
    BY <1>b, <2>1 DEF KnowsUnsettled
  <2> QED BY <2>1, <2>2 DEF IntentInv, KnowsUnsettled, NothingWaits
<1>11. CASE EmptyIntent
  <2>1. pc' = "idle" /\ intent' = <<>> /\ Len(intent') = 0
    BY <1>11, EmptySeq DEF EmptyIntent
  <2>2. NamingStand(intent', snap', Bytes(wal'))
    BY <2>1 DEF NamingStand
  <2> QED BY <1>c, <2>1, <2>2
<1>12. CASE SnapshotFails
  BY <1>12, <1>d DEF SnapshotFails, files, Quiet
<1>13. CASE Crash
  <2>1. pc' = "down"
    BY <1>13 DEF Crash
  <2> QED BY <2>1 DEF IntentInv, KnowsUnsettled, NothingWaits, Quiet
<1>14. CASE Open
  BY <1>14, OpenIntentInv
<1>15. CASE UNCHANGED vars
  <2>1. UNCHANGED <<wal, snap, intent, pc, mode, unsettled>>
    BY <1>15 DEF vars, files, handle
  <2>2. KnowsUnsettled'
    BY <1>b, <2>1 DEF KnowsUnsettled
  <2>3. NothingWaits'
    BY <1>b, <2>1 DEF NothingWaits
  <2> QED BY <2>2, <2>3 DEF IntentInv
<1> QED
  BY <1>1, <1>2, <1>3, <1>4, <1>5, <1>6, <1>7, <1>8, <1>9, <1>10, <1>11, <1>12, <1>13, <1>14, <1>15
  DEF Next

\* settle_snapshot_intent, snapshot_with and load_from_disk together keep every
\* intent that names the snapshot on disk true of the WAL that is appended to:
\* no interrupted snapshot, failed step or crash leaves one that a growing WAL
\* could make true again.
THEOREM IntentsNeverRevive == Spec => []NoRevivableIntent
<1>1. IntentInv => NoRevivableIntent
  BY DEF IntentInv, NothingWaits, NamingStand, NoRevivableIntent
<1> QED BY <1>1, TypeCorrect, InitIntentInv, NextIntentInv, PTL DEF Spec

-----------------------------------------------------------------------------
(* Stretches of a WAL.                                                     *)

\* The graph after j commits is made of these commits only.
LEMMA AfterSame ==
  ASSUME NEW h, NEW g, NEW j \in Nat, \A i \in 1..j : g[i] = h[i]
  PROVE  After(g, j) = After(h, j) /\ DeclAt(g, j) = DeclAt(h, j)
<1>1. 0 \in Nat /\ \A i \in 0+1..j : g[i] = h[i]
  OBVIOUS
<1>2. DeclAfter(FALSE, g, 0, j) = DeclAfter(FALSE, h, 0, j)
  BY <1>1, DeclAfterSame, Zenon
<1>3. {i \in 1..j : g[i] \in Write} = {i \in 1..j : h[i] \in Write}
  OBVIOUS
<1> QED BY <1>2, <1>3 DEF After, DeclAt

\* The commits that a stretch of frames writes depend on its frames only.
LEMMA IdsSame ==
  ASSUME NEW w, NEW v, NEW m \in Nat, NEW n \in Nat, \A i \in m+1..n : v[i] = w[i]
  PROVE  Ids(v, m, n) = Ids(w, m, n)
BY DEF Ids

\* The commits of a divided stretch.
LEMMA IdsSplit ==
  ASSUME NEW w, NEW m \in Nat, NEW n \in Nat, NEW l \in m..n
  PROVE  Ids(w, m, n) = Ids(w, m, l) \cup Ids(w, l, n)
<1>1. \A i \in m+1..n : i \in m+1..l \/ i \in l+1..n
  OBVIOUS
<1>2. \A i : i \in m+1..l \/ i \in l+1..n => i \in m+1..n
  OBVIOUS
<1> QED BY <1>1, <1>2 DEF Ids

\* The commits of no frame and of one.
LEMMA IdsStep ==
  ASSUME NEW w, NEW n \in Nat
  PROVE  /\ Ids(w, n, n) = {}
         /\ Ids(w, n, n+1) = IF w[n+1].c \in Write THEN {w[n+1].id} ELSE {}
<1>1. (\A i \in n+1..n : FALSE) /\ n+1 \in n+1..n+1 /\ \A i \in n+1..n+1 : i = n+1
  OBVIOUS
<1>2. Ids(w, n, n) = {}
  BY <1>1 DEF Ids
<1>3. ASSUME w[n+1].c \in Write PROVE Ids(w, n, n+1) = {w[n+1].id}
  <2>1. {j \in n+1..n+1 : w[j].c \in Write} = {n+1}
    BY <1>1, <1>3
  <2> QED BY <2>1 DEF Ids
<1>4. ASSUME w[n+1].c \notin Write PROVE Ids(w, n, n+1) = {}
  <2>1. {j \in n+1..n+1 : w[j].c \in Write} = {}
    BY <1>1, <1>4
  <2> QED BY <2>1 DEF Ids
<1> QED BY <1>2, <1>3, <1>4

\* The declaration after one more frame.
LEMMA DeclAfterNext ==
  ASSUME NEW d, NEW c, NEW n \in Nat, NEW m \in Nat, m = n+1
  PROVE  /\ ~IsDeclaration(c[m]) => DeclAfter(d, c, n, m) = d
         /\ IsDeclaration(c[m]) => DeclAfter(d, c, n, m) = (c[m] = Declare)
<1>1. (\A i \in n+1..m : i = m) /\ m \in n+1..m
  OBVIOUS
<1>2. ASSUME ~IsDeclaration(c[m]) PROVE DeclAfter(d, c, n, m) = d
  BY <1>1, <1>2, DeclAfterFacts
<1>3. ASSUME IsDeclaration(c[m]) PROVE DeclAfter(d, c, n, m) = (c[m] = Declare)
  BY <1>1, <1>3, DeclAfterFacts
<1> QED BY <1>2, <1>3

\* A stretch depends on its own frames and on the commits it reaches.
LEMMA LinkedSame ==
  ASSUME NEW w \in Seq(Frame), NEW v \in Seq(Frame), NEW b \in Nat, NEW h, NEW g, Len(g) \in Nat,
         NEW n \in 0..Len(w), NEW m \in 0..n, n <= Len(v), \A i \in 1..n : v[i] = w[i],
         Linked(w, b, h, m, n),
         AtIn(w, b, n) <= Len(g), \A i \in 1..AtIn(w, b, n) : g[i] = h[i]
  PROVE  Linked(v, b, g, m, n)
<1>1. Len(w) \in Nat /\ Len(v) \in Nat /\ n \in Nat /\ m \in Nat /\ m <= n /\ m \in 0..Len(w)
  BY LenProperties
<1>2. AtIn(v, b, n) = AtIn(w, b, n) /\ AtIn(v, b, m) = AtIn(w, b, m)
  BY <1>1 DEF AtIn
<1>3. PICK x \in Nat : x = AtIn(w, b, m)
  BY <1>1, AtInType
<1>4. PICK y \in Nat : y = AtIn(w, b, n)
  BY <1>1, AtInType
<1>5. x <= y /\ (\A i \in 1..y : g[i] = h[i]) /\ \A i \in 1..x : g[i] = h[i]
  BY <1>3, <1>4 DEF Linked
<1>6. DeclAt(g, x) = DeclAt(h, x) /\ DeclAt(g, y) = DeclAt(h, y)
  BY <1>5, AfterSame
<1>7. {j \in x+1..y : g[j] \in Write} = {j \in x+1..y : h[j] \in Write}
  BY <1>5
<1>8. Ids(v, m, n) = Ids(w, m, n)
  BY <1>1, IdsSame
<1>9. \A i \in m+1..n : Bytes(v)[i] = Bytes(w)[i]
  <2>1. \A i \in m+1..n : i \in 1..n /\ i \in 1..Len(w) /\ i \in 1..Len(v)
    BY <1>1
  <2> QED BY <2>1, BytesFacts
<1>10. DeclAfter(DeclAt(h, x), Bytes(v), m, n) = DeclAfter(DeclAt(h, x), Bytes(w), m, n)
  BY <1>1, <1>9, DeclAfterSame
<1> QED BY <1>2, <1>3, <1>4, <1>6, <1>7, <1>8, <1>10 DEF Linked

\* One more frame, which takes the graph from the last commit reached to the one it names.
LEMMA ChainedAppended ==
  ASSUME NEW w \in Seq(Frame), NEW b \in Nat, NEW h \in Seq(Content), Chained(w, b, h),
         NEW f \in Frame, NEW g \in Seq(Content),
         Len(h) <= Len(g), \A i \in 1..Len(h) : g[i] = h[i],
         NEW a \in Nat, a = AtIn(w, b, Len(w)), a <= f.id, f.id <= Len(g),
         {j \in a+1..f.id : g[j] \in Write} = (IF f.c \in Write THEN {f.id} ELSE {}),
         DeclAt(g, f.id) = (IF IsDeclaration(f.c) THEN f.c = Declare ELSE DeclAt(g, a))
  PROVE  Chained(Append(w, f), b, g)
<1>1. Len(w) \in Nat /\ Len(h) \in Nat /\ Len(g) \in Nat /\ f.id \in Nat
      /\ \A n \in 0..Len(w) : AtIn(w, b, n) \in Nat
  BY LenProperties, AtInType DEF Frame
<1>2. PICK l \in Nat : l = Len(w)
  BY <1>1
<1>3. PICK v : v = Append(w, f)
  OBVIOUS
<1>4. /\ v \in Seq(Frame) /\ Len(v) = l + 1 /\ v[l+1] = f /\ AtIn(v, b, l+1) = f.id
      /\ \A i \in 1..l : v[i] = w[i]
      /\ \A n \in 0..l : AtIn(v, b, n) = AtIn(w, b, n)
  BY <1>2, <1>3, AtInAppended
<1>5. \A n \in 0..l : \A m \in 0..n : Linked(v, b, g, m, n)
  <2> SUFFICES ASSUME NEW n \in 0..l, NEW m \in 0..n PROVE Linked(v, b, g, m, n)
    OBVIOUS
  <2>1. Linked(w, b, h, m, n) /\ AtIn(w, b, n) \in Nat
    BY <1>1, <1>2 DEF Chained
  <2>2. AtIn(w, b, n) <= Len(h)
    BY <2>1 DEF Linked
  <2>3. AtIn(w, b, n) <= Len(g) /\ \A i \in 1..AtIn(w, b, n) : g[i] = h[i]
    BY <1>1, <2>1, <2>2
  <2>4. n \in 0..Len(w) /\ n <= Len(v) /\ \A i \in 1..n : v[i] = w[i]
    BY <1>2, <1>4
  <2> QED BY <1>1, <1>4, <2>1, <2>3, <2>4, LinkedSame
<1>6. Bytes(v)[l+1] = f.c
  <2>1. l+1 \in 1..Len(v)
    BY <1>4
  <2> QED BY <1>4, <2>1, BytesFacts
<1>7. Ids(v, l, l+1) = {j \in a+1..f.id : g[j] \in Write}
  BY <1>4, IdsStep
<1>8. DeclAt(g, f.id) = DeclAfter(DeclAt(g, a), Bytes(v), l, l+1)
  <2>0. PICK k \in Nat : k = l+1
    OBVIOUS
  <2>1. CASE IsDeclaration(f.c)
    <3>1. IsDeclaration(Bytes(v)[k])
      BY <1>6, <2>0, <2>1
    <3>2. DeclAfter(DeclAt(g, a), Bytes(v), l, k) = (Bytes(v)[k] = Declare)
      BY <2>0, <3>1, DeclAfterNext
    <3>3. DeclAt(g, f.id) = (f.c = Declare)
      BY <2>1
    <3> QED BY <1>6, <2>0, <3>2, <3>3
  <2>2. CASE ~IsDeclaration(f.c)
    <3>1. ~IsDeclaration(Bytes(v)[k])
      BY <1>6, <2>0, <2>2
    <3>2. DeclAfter(DeclAt(g, a), Bytes(v), l, k) = DeclAt(g, a)
      BY <2>0, <3>1, DeclAfterNext
    <3>3. DeclAt(g, f.id) = DeclAt(g, a)
      BY <2>2
    <3> QED BY <2>0, <3>2, <3>3
  <2> QED BY <2>1, <2>2
<1>9. \A m \in 0..l : Linked(v, b, g, m, l+1)
  <2> SUFFICES ASSUME NEW m \in 0..l PROVE Linked(v, b, g, m, l+1)
    OBVIOUS
  <2>1. Linked(v, b, g, m, l) /\ AtIn(v, b, l) = a /\ m \in Nat /\ l \in m..l+1 /\ l+1 \in Nat
    BY <1>2, <1>4, <1>5
  <2>2. PICK x \in Nat : x = AtIn(v, b, m)
    BY <1>1, <1>2, <1>4
  <2>3. x <= a
    BY <2>1, <2>2 DEF Linked
  <2>4. Ids(v, m, l+1) = {j \in x+1..f.id : g[j] \in Write}
    <3>1. Ids(v, m, l+1) = Ids(v, m, l) \cup Ids(v, l, l+1)
      <4>1. PICK n \in Nat : n = l+1 /\ l \in m..n
        BY ONLY <2>1
      <4>2. Ids(v, m, n) = Ids(v, m, l) \cup Ids(v, l, n)
        <5>1. m \in Nat /\ l \in m..n
          BY <2>1, <4>1
        <5> QED BY ONLY <5>1, n \in Nat, IdsSplit
      <4> QED BY ONLY <4>1, <4>2
    <3>2. Ids(v, m, l) = {j \in x+1..a : g[j] \in Write}
      BY <2>1, <2>2 DEF Linked
    <3>3. \A j : j \in x+1..f.id <=> j \in x+1..a \/ j \in a+1..f.id
      BY <1>1, <2>3
    <3> QED BY <1>7, <3>1, <3>2, <3>3
  <2>5. DeclAt(g, f.id) = DeclAfter(DeclAt(g, x), Bytes(v), m, l+1)
    <3>1. DeclAt(g, a) = DeclAfter(DeclAt(g, x), Bytes(v), m, l)
      BY <2>1, <2>2 DEF Linked
    <3> QED BY <1>8, <2>1, <3>1, DeclAfterSplit
  <2>6. x <= f.id
    BY <1>1, <2>3
  <2> QED BY <1>4, <2>2, <2>4, <2>5, <2>6 DEF Linked
<1>10. Linked(v, b, g, l+1, l+1)
  <2>1. l+1 \in Nat /\ {j \in f.id+1..f.id : g[j] \in Write} = {}
    BY <1>1
  <2>2. Ids(v, l+1, l+1) = {}
    BY <2>1, IdsStep
  <2>3. DeclAfter(DeclAt(g, f.id), Bytes(v), l+1, l+1) = DeclAt(g, f.id)
    BY <2>1, DeclAfterStep
  <2> QED BY <1>1, <1>4, <2>1, <2>2, <2>3 DEF Linked
<1>11. \A n \in 0..l+1 : n \in 0..l \/ n = l+1
  OBVIOUS
<1> QED BY <1>3, <1>4, <1>5, <1>9, <1>10, <1>11 DEF Chained

\* A prefix of a WAL, and of the commits as far as it reaches.
LEMMA ChainedPrefix ==
  ASSUME NEW w \in Seq(Frame), NEW b \in Nat, NEW h, Chained(w, b, h), NEW k \in 0..Len(w),
         NEW g, Len(g) \in Nat, AtIn(w, b, k) <= Len(g), \A i \in 1..AtIn(w, b, k) : g[i] = h[i]
  PROVE  Chained(SubSeq(w, 1, k), b, g)
<1>1. Len(w) \in Nat /\ \A n \in 0..Len(w) : AtIn(w, b, n) \in Nat
  BY LenProperties, AtInType
<1>2. PICK v : v = SubSeq(w, 1, k)
  OBVIOUS
<1>3. v \in Seq(Frame) /\ Len(v) = k /\ \A i \in 1..k : v[i] = w[i]
  BY <1>2, AtInPrefix
<1>4. SUFFICES ASSUME NEW n \in 0..k, NEW m \in 0..n PROVE Linked(v, b, g, m, n)
  BY <1>2, <1>3 DEF Chained
<1>5. Linked(w, b, h, m, n) /\ Linked(w, b, h, n, k) /\ n \in 0..Len(w) /\ AtIn(w, b, n) \in Nat
      /\ AtIn(w, b, k) \in Nat
  BY <1>1 DEF Chained
<1>6. AtIn(w, b, n) <= AtIn(w, b, k)
  BY <1>5 DEF Linked
<1>7. AtIn(w, b, n) <= Len(g) /\ \A i \in 1..AtIn(w, b, n) : g[i] = h[i]
  BY <1>5, <1>6
<1>8. n <= Len(v) /\ \A i \in 1..n : v[i] = w[i]
  BY <1>3
<1> QED BY <1>3, <1>5, <1>7, <1>8, LinkedSame

\* A WAL that holds the declaration, if there is one, and nothing else.
LEMMA ChainedBaseline ==
  ASSUME NEW w \in Seq(Frame), NEW h, NEW j \in Nat, j = Len(h), Len(w) <= 1,
         \A i \in 1..Len(w) : w[i] = [c |-> Declare, id |-> j] /\ DeclAt(h, j) = TRUE
  PROVE  Chained(w, j, h)
<1>1. Len(w) \in Nat
  BY LenProperties
<1>2. \A n \in 0..Len(w) : AtIn(w, j, n) = j
  BY <1>1 DEF AtIn
<1>3. {i \in j+1..j : h[i] \in Write} = {}
  OBVIOUS
<1>4. ASSUME NEW n \in 0..Len(w), NEW m \in 0..n PROVE Linked(w, j, h, m, n)
  <2>1. m \in Nat /\ n \in Nat /\ AtIn(w, j, n) = j /\ AtIn(w, j, m) = j /\ (n = m \/ (m = 0 /\ n = 0+1))
    BY <1>1, <1>2
  <2>2. Declare \notin Write /\ IsDeclaration(Declare)
    BY StoreAssumption DEF IsDeclaration
  <2>3. Ids(w, m, n) = {}
    <3>1. CASE n = m
      BY <2>1, <3>1, IdsStep
    <3>2. CASE m = 0 /\ n = 0+1
      <4>1. w[0+1].c = Declare
        BY <1>1, <1>4, <3>2
      <4> QED BY <2>2, <3>2, <4>1, IdsStep
    <3> QED BY <2>1, <3>1, <3>2
  <2>4. DeclAfter(DeclAt(h, j), Bytes(w), m, n) = DeclAt(h, j)
    <3>1. CASE n = m
      BY <2>1, <3>1, DeclAfterStep
    <3>2. CASE m = 0 /\ n = 0+1
      <4>1. 0+1 \in 1..Len(w)
        BY <1>1, <1>4, <3>2
      <4>2. Bytes(w)[0+1] = Declare /\ DeclAt(h, j) = TRUE
        BY <4>1, BytesFacts
      <4>3. DeclAfter(DeclAt(h, j), Bytes(w), 0, 0+1) = (Bytes(w)[0+1] = Declare)
        BY <2>2, <4>2, DeclAfterStep
      <4> QED BY <3>2, <4>2, <4>3
    <3> QED BY <2>1, <3>1, <3>2
  <2> QED BY <1>3, <2>1, <2>3, <2>4 DEF Linked
<1> QED BY <1>4 DEF Chained

-----------------------------------------------------------------------------
(* What an open rebuilds.                                                  *)

\* Declarations replayed over the graph they led to change nothing; if they declare by
\* themselves, the graph they led to has the declaration.
LEMMA DeclAgain ==
  ASSUME NEW d \in BOOLEAN, NEW c, NEW h \in Nat, NEW n \in Nat
  PROVE  /\ DeclAfter(DeclAfter(d, c, h, n), c, h, n) = DeclAfter(d, c, h, n)
         /\ DeclAfter(FALSE, c, h, n) => DeclAfter(d, c, h, n) = TRUE
<1>0. PICK e \in BOOLEAN : e = DeclAfter(d, c, h, n)
  BY DeclAfterType
<1>1. CASE \A i \in h+1..n : ~IsDeclaration(c[i])
  <2>1. DeclAfter(e, c, h, n) = e
    BY <1>1, DeclAfterFacts
  <2>2. DeclAfter(FALSE, c, h, n) = FALSE
    BY <1>1, DeclAfterFacts
  <2> QED BY <1>0, <2>1, <2>2
<1>2. CASE \E i \in h+1..n : IsDeclaration(c[i])
  <2>1. ASSUME NEW x, NEW y PROVE DeclAfter(x, c, h, n) = DeclAfter(y, c, h, n)
    <3>1. PICK l \in h+1..n : /\ IsDeclaration(c[l])
                              /\ \A j \in h+1..n : IsDeclaration(c[j]) => j <= l
                              /\ DeclAfter(x, c, h, n) = (c[l] = Declare)
      BY <1>2, DeclAfterFacts
    <3>2. PICK m \in h+1..n : /\ IsDeclaration(c[m])
                              /\ \A j \in h+1..n : IsDeclaration(c[j]) => j <= m
                              /\ DeclAfter(y, c, h, n) = (c[m] = Declare)
      BY <1>2, DeclAfterFacts
    <3>3. l <= m /\ m <= l /\ l \in Int /\ m \in Int
      BY <3>1, <3>2
    <3>4. l = m
      BY <3>3
    <3> QED BY <3>1, <3>2, <3>4
  <2>2. DeclAfter(e, c, h, n) = DeclAfter(d, c, h, n)
    BY <2>1
  <2>3. DeclAfter(FALSE, c, h, n) = DeclAfter(d, c, h, n)
    BY <2>1
  <2> QED BY <1>0, <2>2, <2>3
<1> QED BY <1>1, <1>2

\* Replay of a WAL over the graph after its first q frames, when it takes exactly those for
\* held, or takes none for held and they write nothing.
LEMMA ReplayChained ==
  ASSUME NEW w \in Seq(Frame), NEW b \in Nat, NEW h \in Seq(Content), Chained(w, b, h),
         NEW n \in 0..Len(w), NEW q \in 0..n, NEW g, g = After(h, AtIn(w, b, q)),
         NEW held \in Nat, held = q \/ (held = 0 /\ \A i \in 1..q : w[i].c \notin Write)
  PROVE  Replay(g, w, held, n) = After(h, AtIn(w, b, n))
<1>1. Len(w) \in Nat /\ q \in Nat /\ n \in Nat /\ q <= n /\ q \in 0..Len(w) /\ 0 \in 0..Len(w) /\ 0 \in 0..q
      /\ 0 \in Nat /\ q \in 0..q
  BY LenProperties
<1>2. Linked(w, b, h, q, n) /\ Linked(w, b, h, 0, q)
  BY <1>1 DEF Chained
<1>3. PICK x \in Nat : x = AtIn(w, b, q)
  BY <1>1, AtInType
<1>4. PICK y \in Nat : y = AtIn(w, b, n)
  BY <1>1, AtInType
<1>5. x <= y /\ Ids(w, q, n) = {j \in x+1..y : h[j] \in Write}
  BY <1>2, <1>3, <1>4 DEF Linked
<1>6. PICK dx \in BOOLEAN : dx = DeclAt(h, x)
  BY <1>1, DeclAfterType DEF DeclAt
<1>7. PICK db \in BOOLEAN : db = DeclAt(h, b)
  BY <1>1, DeclAfterType DEF DeclAt
<1>8. /\ DeclAt(h, y) = DeclAfter(dx, Bytes(w), q, n)
      /\ dx = DeclAfter(db, Bytes(w), 0, q)
  BY <1>2, <1>3, <1>4, <1>6, <1>7 DEF Linked, AtIn
<1>9. /\ g.done = {i \in 1..x : h[i] \in Write} /\ g.decl = dx /\ g.twice = FALSE
  BY <1>3, <1>6 DEF After, DeclAt
<1>10. Ids(w, held, n) = Ids(w, q, n)
  <2>1. CASE held = q
    BY <2>1
  <2>2. CASE held = 0 /\ \A i \in 1..q : w[i].c \notin Write
    <3>1. Ids(w, 0, q) = {}
      BY <2>2 DEF Ids
    <3>2. q \in 0..n
      OBVIOUS
    <3>3. Ids(w, 0, n) = Ids(w, 0, q) \cup Ids(w, q, n)
      BY <1>1, <3>2, IdsSplit
    <3> QED BY <2>2, <3>1, <3>3
  <2> QED BY <2>1, <2>2
<1> DEFINE ids == Ids(w, held, n)
           atHeld == g.decl \/ DeclAfter(FALSE, Bytes(w), 0, held)
<1>11. g.done \cup ids = {i \in 1..y : h[i] \in Write}
  BY <1>5, <1>9, <1>10
<1>12. (g.twice \/ ids \cap g.done # {}) = FALSE
  BY <1>5, <1>9, <1>10
<1>13. DeclAfter(atHeld, Bytes(w), held, n) = DeclAt(h, y)
  <2>1. CASE held = q
    <3>1. DeclAfter(FALSE, Bytes(w), 0, q) => dx = TRUE
      BY <1>1, <1>8, DeclAgain
    <3>2. atHeld = dx
      BY <1>9, <2>1, <3>1
    <3> QED BY <1>8, <2>1, <3>2
  <2>2. CASE held = 0
    <3>1. DeclAfter(FALSE, Bytes(w), 0, 0) => dx = TRUE
      <4>1. DeclAfter(FALSE, Bytes(w), 0, 0) => DeclAfter(dx, Bytes(w), 0, 0) = TRUE
        BY <1>1, DeclAgain
      <4>2. DeclAfter(dx, Bytes(w), 0, 0) = dx
        BY <1>1, DeclAfterStep
      <4> QED BY <4>1, <4>2
    <3>2. atHeld = dx
      BY <1>9, <2>2, <3>1
    <3>3. DeclAfter(dx, Bytes(w), 0, q) = dx
      BY <1>1, <1>8, DeclAgain
    <3>4. DeclAfter(dx, Bytes(w), 0, n) = DeclAfter(DeclAfter(dx, Bytes(w), 0, q), Bytes(w), q, n)
      BY <1>1, DeclAfterSplit
    <3> QED BY <1>8, <2>2, <3>2, <3>3, <3>4
  <2> QED BY <2>1, <2>2
<1>14. Replay(g, w, held, n) = [done |-> g.done \cup ids,
                                decl |-> DeclAfter(atHeld, Bytes(w), held, n),
                                twice |-> g.twice \/ ids \cap g.done # {}]
  BY DEF Replay, Ids
<1>15. After(h, y) = [done |-> {i \in 1..y : h[i] \in Write}, decl |-> DeclAt(h, y), twice |-> FALSE]
  BY DEF After, DeclAt
<1> QED BY <1>4, <1>11, <1>12, <1>13, <1>14, <1>15

\* Torn bytes are at the end of the WAL, and reach no further commit.
TornLast(w, b) == \A i \in 1..Len(w) : w[i].c = Torn => i = Len(w) /\ w[i].id = AtIn(w, b, i - 1)

\* The only number of whole frames there can be.
LEMMA ValidLenIs ==
  ASSUME NEW S, NEW c \in Seq(S), NEW n \in 0..Len(c),
         \A i \in 1..n : c[i] # Torn, n < Len(c) => c[n+1] = Torn
  PROVE  ValidLen(c) = n
<1>1. Len(c) \in Nat
  BY LenProperties
<1>2. PICK v \in 0..Len(c) : /\ v = ValidLen(c)
                             /\ \A i \in 1..v : c[i] # Torn
                             /\ v < Len(c) => c[v+1] = Torn
  BY ValidLenFacts
<1>3. ~(v < n)
  <2>1. v < n => v+1 \in 1..n /\ v < Len(c)
    BY <1>1
  <2> QED BY <1>2, <2>1
<1>4. ~(n < v)
  <2>1. n < v => n+1 \in 1..v /\ n < Len(c)
    BY <1>1
  <2> QED BY <1>2, <2>1
<1> QED BY <1>1, <1>2, <1>3, <1>4

\* A WAL without torn bytes is whole.
LEMMA WholeWal ==
  ASSUME NEW w \in Seq(Frame), \A i \in 1..Len(w) : w[i].c # Torn
  PROVE  ValidLen(Bytes(w)) = Len(w)
<1>1. Bytes(w) \in Seq(Content) /\ Len(Bytes(w)) = Len(w) /\ Len(w) \in Nat
      /\ \A i \in 1..Len(w) : Bytes(w)[i] # Torn
  BY BytesFacts
<1>2. Len(w) \in 0..Len(Bytes(w)) /\ ~(Len(w) < Len(Bytes(w)))
  BY <1>1
<1> QED BY <1>1, <1>2, ValidLenIs

\* What no crash takes away.
LEMMA BoundFacts ==
  ASSUME NEW w \in Seq(Frame), NEW k \in 0..Len(w)
  PROVE  /\ BoundOf(w, k) \in 0..Len(w) /\ BoundOf(w, k) <= ValidLen(Bytes(w))
         /\ ValidLen(Bytes(w)) \in 0..Len(w) /\ Len(w) \in Nat
         /\ "power" \in Crashes => BoundOf(w, k) <= k
         /\ "power" \notin Crashes \/ ValidLen(Bytes(w)) <= k => BoundOf(w, k) = ValidLen(Bytes(w))
<1>1. Bytes(w) \in Seq(Content) /\ Len(Bytes(w)) = Len(w) /\ Len(w) \in Nat
  BY BytesFacts
<1>2. PICK v \in 0..Len(w) : v = ValidLen(Bytes(w))
  BY <1>1, ValidLenFacts
<1>3. k \in Nat /\ v \in Nat
  BY <1>1, <1>2
<1> QED BY <1>1, <1>2, <1>3 DEF BoundOf

\* How much of a prefix is whole, and which commit it reaches.
LEMMA PrefixReach ==
  ASSUME NEW w \in Seq(Frame), NEW b \in Nat, TornLast(w, b), NEW n \in 0..Len(w)
  PROVE  \E v \in 0..n : /\ v = ValidLen(Bytes(SubSeq(w, 1, n)))
                         /\ AtIn(w, b, v) = AtIn(w, b, n)
                         /\ v <= ValidLen(Bytes(w))
                         /\ v = n \/ v = ValidLen(Bytes(w))
<1>1. Bytes(w) \in Seq(Content) /\ Len(Bytes(w)) = Len(w) /\ Len(w) \in Nat
      /\ \A i \in 1..Len(w) : Bytes(w)[i] = w[i].c
  BY BytesFacts
<1>2. PICK t \in 0..Len(w) : /\ t = ValidLen(Bytes(w))
                             /\ \A i \in 1..t : Bytes(w)[i] # Torn
                             /\ t < Len(w) => Bytes(w)[t+1] = Torn
  BY <1>1, ValidLenFacts
<1>3. PICK u : u = SubSeq(w, 1, n)
  OBVIOUS
<1>4. u \in Seq(Frame) /\ Len(u) = n /\ \A i \in 1..n : u[i] = w[i]
  BY <1>3, AtInPrefix
<1>5. Bytes(u) \in Seq(Content) /\ Len(Bytes(u)) = n /\ \A i \in 1..n : Bytes(u)[i] = Bytes(w)[i]
  <2>1. Bytes(u) \in Seq(Content) /\ Len(Bytes(u)) = n /\ \A i \in 1..n : Bytes(u)[i] = u[i].c
    BY <1>4, BytesFacts
  <2>2. \A i \in 1..n : i \in 1..Len(w)
    BY <1>1
  <2> QED BY <1>1, <1>4, <2>1, <2>2
<1>6. CASE n <= t
  <2>1. n \in 0..Len(Bytes(u)) /\ (\A i \in 1..n : Bytes(u)[i] # Torn) /\ ~(n < Len(Bytes(u)))
    BY <1>2, <1>5, <1>6
  <2>2. ValidLen(Bytes(u)) = n
    BY <1>5, <2>1, ValidLenIs
  <2>3. n \in 0..n
    OBVIOUS
  <2> QED BY <1>2, <1>3, <1>6, <2>2, <2>3
<1>7. CASE t < n
  <2>1. t \in 0..Len(Bytes(u)) /\ (\A i \in 1..t : Bytes(u)[i] # Torn) /\ Bytes(u)[t+1] = Torn
    <3>1. t+1 \in 1..n /\ t < Len(w) /\ \A i \in 1..t : i \in 1..n
      BY <1>1, <1>7
    <3> QED BY <1>2, <1>5, <3>1
  <2>2. ValidLen(Bytes(u)) = t
    BY <1>5, <2>1, ValidLenIs
  <2>3. t+1 \in 1..Len(w) /\ w[t+1].c = Torn
    <3>1. t+1 \in 1..Len(w) /\ t < Len(w)
      BY <1>1, <1>7
    <3> QED BY <1>1, <1>2, <3>1
  <2>4. t+1 = Len(w) /\ w[t+1].id = AtIn(w, b, (t+1) - 1)
    BY <2>3 DEF TornLast
  <2>5. n = t+1 /\ (t+1) - 1 = t /\ n # 0 /\ t \in 0..n
    BY <1>1, <1>7, <2>4
  <2>6. AtIn(w, b, n) = AtIn(w, b, t)
    BY <2>4, <2>5 DEF AtIn
  <2> QED BY <1>2, <1>3, <2>2, <2>5, <2>6
<1> QED BY <1>1, <1>6, <1>7

\* A WAL begins with the bytes of a mark if and only if any prefix long enough does.
LEMMA MatchesPrefix ==
  ASSUME NEW m, NEW c, NEW d, Len(m) \in Nat, Len(c) \in Nat, Len(d) \in Nat,
         Len(m) <= Len(d), \A i \in 1..Len(m) : d[i] = c[i], Matches(m, c)
  PROVE  Matches(m, d)
BY DEF Matches

\* An intent's WAL is bytes.
LEMMA IntentFacts ==
  ASSUME NEW ints \in Seq(Intent), NEW i \in 1..Len(ints)
  PROVE  /\ ints[i] \in Intent /\ ints[i].wal \in Seq(Content) /\ Len(ints[i].wal) \in Nat
         /\ ints[i].snap.mark = None
<1>1. ints[i] \in Intent
  BY ElementOfSeq
<1>2. ints[i].wal \in Seq(Content) /\ ints[i].snap.mark = None
  BY <1>1 DEF Intent
<1> QED BY <1>1, <1>2, LenProperties

\* An intent that stands beside one WAL stands beside any that has the frames it names.
LEMMA StandsElsewhere ==
  ASSUME NEW ints \in Seq(Intent), NEW i \in 1..Len(ints), NEW s,
         NEW w \in Seq(Frame), NEW u \in Seq(Frame), StandsAt(i, ints, s, Bytes(w)),
         Len(ints[i].wal) <= Len(u), \A j \in 1..Len(ints[i].wal) : u[j] = w[j]
  PROVE  StandsAt(i, ints, s, Bytes(u))
<1>1. PICK m \in Seq(Content) : m = ints[i].wal /\ Len(m) \in Nat
  BY IntentFacts
<1>2. /\ Len(Bytes(w)) = Len(w) /\ Len(w) \in Nat /\ \A j \in 1..Len(w) : Bytes(w)[j] = w[j].c
      /\ Len(Bytes(u)) = Len(u) /\ Len(u) \in Nat /\ \A j \in 1..Len(u) : Bytes(u)[j] = u[j].c
  BY BytesFacts
<1>3. Matches(m, Bytes(w)) /\ ints[i].snap = s
  BY <1>1 DEF StandsAt
<1>4. Len(m) <= Len(w)
  BY <1>2, <1>3 DEF Matches
<1>5. \A j \in 1..Len(m) : j \in 1..Len(w) /\ j \in 1..Len(u)
  BY <1>1, <1>2, <1>4
<1>6. \A j \in 1..Len(m) : Bytes(u)[j] = Bytes(w)[j]
  BY <1>1, <1>2, <1>5
<1>7. Matches(m, Bytes(u))
  BY <1>1, <1>2, <1>3, <1>6, MatchesPrefix
<1> QED BY <1>1, <1>3, <1>7 DEF StandsAt

\* Whatever part of the WAL a crash leaves, an open rebuilds the graph after the commits that
\* the part reaches.
LEMMA Recovers ==
  ASSUME NEW s \in Shot \cup {None}, NEW ints \in Seq(Intent), NEW w \in Seq(Frame),
         NEW k \in 0..Len(w), NEW b \in Nat, NEW h \in Seq(Content), NEW p,
         Chained(w, b, h), TornLast(w, b), HeldIn(s, ints, w, k, b, h, p),
         NEW n \in 0..Len(w), n = Len(w) \/ ("power" \in Crashes /\ k <= n)
  PROVE  Recover(s, ints, SubSeq(w, 1, n)) = After(h, AtIn(w, b, n))
<1>1. PICK u : u = SubSeq(w, 1, n)
  OBVIOUS
<1>2. /\ u \in Seq(Frame) /\ Len(u) = n /\ (\A i \in 1..n : u[i] = w[i])
      /\ (\A j \in 0..n : AtIn(u, b, j) = AtIn(w, b, j)) /\ Len(w) \in Nat /\ Len(h) \in Nat
  BY <1>1, AtInPrefix, LenProperties
<1>3. PICK v \in 0..n : /\ v = ValidLen(Bytes(u)) /\ AtIn(w, b, v) = AtIn(w, b, n)
                        /\ v = n \/ v = ValidLen(Bytes(w))
  BY <1>1, PrefixReach
<1>4. PICK x \in 0..Len(w) : x = BoundOf(w, k) /\ x <= v
  <2>1. PICK x \in 0..Len(w) : /\ x = BoundOf(w, k) /\ x <= ValidLen(Bytes(w))
                               /\ "power" \in Crashes => x <= k
    BY BoundFacts
  <2>2. x <= n
    BY <1>2, <2>1
  <2> QED BY <1>3, <2>1, <2>2
<1>5. \E q \in 0..v : /\ GraphIn(s) = After(h, AtIn(w, b, q))
                      /\ \/ Held(s, ints, Bytes(u)) = q
                         \/ Held(s, ints, Bytes(u)) = 0 /\ \A i \in 1..q : w[i].c \notin Write
  <2>0. Len(Bytes(u)) = n /\ Len(Bytes(w)) = Len(w)
        /\ (\A i \in 1..n : Bytes(u)[i] = u[i].c) /\ (\A i \in 1..Len(w) : Bytes(w)[i] = w[i].c)
    BY <1>2, BytesFacts
  <2>1. CASE HasOwnMark(s)
    <3>1. Matches(s.mark, Bytes(w)) /\ SnapAt(s, w, k, b, h, Len(s.mark))
      BY <2>1 DEF HeldIn
    <3>2. PICK m \in Seq(Content) : m = s.mark /\ Len(m) \in Nat
      <4>1. s.mark \in Seq(Content)
        BY <2>1 DEF HasOwnMark, Shot
      <4> QED BY <4>1, LenProperties
    <3>3. Len(m) <= x /\ GraphIn(s) = After(h, AtIn(w, b, Len(m)))
      BY <1>4, <3>1, <3>2 DEF SnapAt
    <3>4. Len(m) \in 0..v /\ Len(m) <= n /\ \A i \in 1..Len(m) : i \in 1..n /\ i \in 1..Len(w)
      BY <1>2, <1>4, <3>2, <3>3
    <3>5. \A i \in 1..Len(m) : Bytes(u)[i] = Bytes(w)[i]
      BY <1>2, <2>0, <3>4
    <3>6. Matches(m, Bytes(u))
      BY <1>2, <2>0, <3>1, <3>2, <3>4, <3>5, MatchesPrefix
    <3>7. HeldMark(s, ints, Bytes(u)) = m
      BY <2>1, <3>2 DEF HeldMark, HasOwnMark
    <3>8. Held(s, ints, Bytes(u)) = Len(m)
      BY <3>6, <3>7 DEF Held
    <3> QED BY <3>3, <3>4, <3>8
  <2>2. CASE ~HasOwnMark(s) /\ ~NoneStands(ints, s, Bytes(u))
    <3>1. PICK i \in 1..Len(ints) : /\ StandsAt(i, ints, s, Bytes(u))
                                    /\ StandingIntent(ints, s, Bytes(u)) = <<ints[i]>>
      BY <2>2, StandingIntentFacts DEF NoneStands
    <3>2. PICK m \in Seq(Content) : m = ints[i].wal /\ Len(m) \in Nat
      BY IntentFacts
    <3>3. Matches(m, Bytes(u)) /\ Len(m) <= n
      BY <2>0, <3>1, <3>2 DEF StandsAt, Matches
    <3>4. Len(m) <= Len(w) /\ \A j \in 1..Len(m) : w[j] = u[j]
      BY <1>2, <3>2, <3>3
    <3>5. StandsAt(i, ints, s, Bytes(w))
      BY <1>2, <3>1, <3>2, <3>4, StandsElsewhere
    <3>6. Len(m) <= x /\ GraphIn(s) = After(h, AtIn(w, b, Len(m)))
      BY <1>4, <3>2, <3>5 DEF HeldIn, SnapAt
    <3>7. HeldMark(s, ints, Bytes(u)) = m
      <4>1. <<ints[i]>> # <<>> /\ <<ints[i]>>[1] = ints[i]
        OBVIOUS
      <4> QED BY <2>2, <3>1, <3>2, <4>1 DEF HeldMark, HasOwnMark
    <3>8. Held(s, ints, Bytes(u)) = Len(m)
      BY <3>3, <3>7 DEF Held
    <3>9. Len(m) \in 0..v
      BY <1>4, <3>2, <3>6
    <3> QED BY <3>6, <3>8, <3>9
  <2>3. CASE ~HasOwnMark(s) /\ NoneStands(ints, s, Bytes(u))
    <3>1. NoneStands(ints, s, Bytes(w))
      <4> SUFFICES ASSUME NEW i \in 1..Len(ints), StandsAt(i, ints, s, Bytes(w)) PROVE FALSE
        BY DEF NoneStands
      <4>1. PICK l \in Nat : l = Len(ints[i].wal)
        BY IntentFacts
      <4>2. l <= x
        BY <1>4, <4>1 DEF HeldIn, SnapAt
      <4>3. l <= Len(u) /\ \A j \in 1..l : u[j] = w[j]
        BY <1>2, <1>4, <4>1, <4>2
      <4>4. StandsAt(i, ints, s, Bytes(u))
        BY <1>2, <4>1, <4>3, StandsElsewhere
      <4> QED BY <2>3, <4>4 DEF NoneStands
    <3>2. PICK q \in 0..Len(w) : SnapAt(s, w, k, b, h, q) /\ \A i \in 1..q : w[i].c \notin Write
      BY <2>3, <3>1 DEF HeldIn
    <3>3. q \in 0..v /\ GraphIn(s) = After(h, AtIn(w, b, q))
      BY <1>4, <3>2 DEF SnapAt
    <3>4. StandingIntent(ints, s, Bytes(u)) = <<>>
      BY <2>3, StandingIntentFacts DEF NoneStands
    <3>5. HeldMark(s, ints, Bytes(u)) = <<>>
      BY <2>3, <3>4 DEF HeldMark, HasOwnMark
    <3>6. Held(s, ints, Bytes(u)) = 0
      BY <3>5 DEF Held
    <3> QED BY <3>2, <3>3, <3>6
  <2> QED BY <2>1, <2>2, <2>3
<1>6. PICK q \in 0..v : /\ GraphIn(s) = After(h, AtIn(w, b, q))
                        /\ \/ Held(s, ints, Bytes(u)) = q
                           \/ Held(s, ints, Bytes(u)) = 0 /\ \A i \in 1..q : w[i].c \notin Write
  BY <1>5
<1>7. PICK held \in Nat : held = Held(s, ints, Bytes(u))
  BY HeldMarkType
<1>8. Chained(u, b, h)
  <2>1. Linked(w, b, h, n, n)
    BY DEF Chained
  <2>2. AtIn(w, b, n) <= Len(h)
    BY <2>1 DEF Linked
  <2> QED BY <1>1, <1>2, <2>2, ChainedPrefix
<1>9. PICK g : g = GraphIn(s)
  OBVIOUS
<1>10. /\ v \in 0..Len(u) /\ q \in 0..v /\ g = After(h, AtIn(u, b, q))
       /\ held = q \/ (held = 0 /\ \A i \in 1..q : u[i].c \notin Write)
  <2>1. v \in 0..Len(u) /\ q \in 0..v /\ q \in 0..n /\ \A i \in 1..q : i \in 1..n
    BY <1>2
  <2>2. AtIn(u, b, q) = AtIn(w, b, q)
    BY <1>2, <2>1
  <2>3. g = After(h, AtIn(u, b, q))
    BY <1>6, <1>9, <2>2
  <2>4. \A i \in 1..q : u[i] = w[i]
    BY <1>2, <2>1
  <2>5. held = q \/ (held = 0 /\ \A i \in 1..q : u[i].c \notin Write)
    BY <1>6, <1>7, <2>4
  <2> QED BY <2>1, <2>3, <2>5
<1>11. Replay(g, u, held, v) = After(h, AtIn(u, b, v))
  <2>1. u \in Seq(Frame) /\ b \in Nat /\ h \in Seq(Content) /\ held \in Nat
    BY <1>2
  <2> QED BY ONLY <1>8, <1>10, <2>1, ReplayChained
<1>12. AtIn(u, b, v) = AtIn(w, b, n)
  BY <1>2, <1>3
<1>13. Recover(s, ints, u) = Replay(g, u, held, v)
  BY <1>3, <1>7, <1>9 DEF Recover, GraphIn
<1> QED BY <1>1, <1>11, <1>12, <1>13

-----------------------------------------------------------------------------
(* The snapshot, beside a WAL that changes only where a crash could take it *)
(* away.                                                                   *)

\* What the snapshot holds stays held when the WAL keeps the frames that no crash takes, the
\* commits they reach stay, and no intent comes to stand that did not.
LEMMA HeldKept ==
  ASSUME NEW s \in Shot \cup {None}, NEW ints \in Seq(Intent), NEW w \in Seq(Frame),
         NEW u \in Seq(Frame), NEW k \in 0..Len(w), NEW l \in 0..Len(u), NEW b \in Nat,
         NEW h, NEW g, NEW p, HeldIn(s, ints, w, k, b, h, p), NEW t, t # "replaced",
         NEW x \in Nat, x = BoundOf(w, k), x <= BoundOf(u, l), \A i \in 1..x : u[i] = w[i],
         \A q \in 0..x : After(g, AtIn(w, b, q)) = After(h, AtIn(w, b, q)),
         \A i \in 1..Len(ints) : StandsAt(i, ints, s, Bytes(u)) => StandsAt(i, ints, s, Bytes(w))
  PROVE  HeldIn(s, ints, u, l, b, g, t)
<1>1. PICK y \in 0..Len(u) : y = BoundOf(u, l) /\ x <= y /\ Len(u) \in Nat /\ Len(w) \in Nat
                             /\ x \in 0..Len(w)
  BY BoundFacts
<1>2. ASSUME NEW q \in Nat, SnapAt(s, w, k, b, h, q)
      PROVE  SnapAt(s, u, l, b, g, q) /\ q \in 0..x /\ q \in 0..Len(u)
  <2>1. q <= x /\ GraphIn(s) = After(h, AtIn(w, b, q))
    BY <1>2 DEF SnapAt
  <2>2. q <= y /\ q \in 0..x /\ (q # 0 => q \in 1..x)
    BY <1>1, <2>1
  <2>3. AtIn(u, b, q) = AtIn(w, b, q)
    BY <2>2 DEF AtIn
  <2>4. After(g, AtIn(u, b, q)) = After(h, AtIn(w, b, q))
    BY <2>2, <2>3
  <2> QED BY <1>1, <2>1, <2>2, <2>4 DEF SnapAt
<1>3. s = None => b = 0
  BY DEF HeldIn
<1>4. ASSUME HasOwnMark(s) PROVE Matches(s.mark, Bytes(u)) /\ SnapAt(s, u, l, b, g, Len(s.mark))
  <2>1. Matches(s.mark, Bytes(w)) /\ SnapAt(s, w, k, b, h, Len(s.mark))
    BY <1>4 DEF HeldIn
  <2>2. PICK m \in Seq(Content) : m = s.mark /\ Len(m) \in Nat
    <3>1. s.mark \in Seq(Content)
      BY <1>4 DEF HasOwnMark, Shot
    <3> QED BY <3>1, LenProperties
  <2>3. SnapAt(s, u, l, b, g, Len(m)) /\ Len(m) \in 0..x /\ Len(m) \in 0..Len(u)
    BY <1>2, <2>1, <2>2
  <2>4. /\ Len(Bytes(w)) = Len(w) /\ (\A i \in 1..Len(w) : Bytes(w)[i] = w[i].c)
        /\ Len(Bytes(u)) = Len(u) /\ (\A i \in 1..Len(u) : Bytes(u)[i] = u[i].c)
    BY BytesFacts
  <2>5. \A i \in 1..Len(m) : i \in 1..x /\ i \in 1..Len(w) /\ i \in 1..Len(u)
    BY <1>1, <2>3
  <2>6. \A i \in 1..Len(m) : Bytes(u)[i] = Bytes(w)[i]
    BY <2>4, <2>5
  <2>7. Matches(m, Bytes(u))
    BY <1>1, <2>1, <2>2, <2>3, <2>4, <2>6, MatchesPrefix
  <2> QED BY <2>2, <2>3, <2>7
<1>5. ASSUME NEW i \in 1..Len(ints), StandsAt(i, ints, s, Bytes(u))
      PROVE  SnapAt(s, u, l, b, g, Len(ints[i].wal))
  <2>1. SnapAt(s, w, k, b, h, Len(ints[i].wal)) /\ Len(ints[i].wal) \in Nat
    BY <1>5, IntentFacts DEF HeldIn
  <2> QED BY <1>2, <2>1
<1>6. ASSUME ~HasOwnMark(s), NoneStands(ints, s, Bytes(u))
      PROVE  \E q \in 0..Len(u) : SnapAt(s, u, l, b, g, q) /\ \A i \in 1..q : u[i].c \notin Write
  <2>1. NoneStands(ints, s, Bytes(w))
    <3> SUFFICES ASSUME NEW i \in 1..Len(ints), StandsAt(i, ints, s, Bytes(w)) PROVE FALSE
      BY DEF NoneStands
    <3>1. PICK m \in Nat : m = Len(ints[i].wal)
      BY IntentFacts
    <3>2. SnapAt(s, w, k, b, h, m)
      BY <3>1 DEF HeldIn
    <3>3. m \in 0..x /\ m <= Len(u)
      BY <1>2, <3>2
    <3>4. \A j \in 1..m : u[j] = w[j]
      BY <3>3
    <3>5. StandsAt(i, ints, s, Bytes(u))
      BY <3>1, <3>3, <3>4, StandsElsewhere
    <3> QED BY <1>6, <3>5 DEF NoneStands
  <2>2. PICK q \in 0..Len(w) : SnapAt(s, w, k, b, h, q) /\ \A i \in 1..q : w[i].c \notin Write
    BY <1>6, <2>1 DEF HeldIn
  <2>3. q \in Nat /\ SnapAt(s, u, l, b, g, q) /\ q \in 0..x /\ q \in 0..Len(u)
    BY <1>2, <2>2
  <2>4. \A i \in 1..q : u[i] = w[i]
    BY <2>3
  <2> QED BY <2>2, <2>3, <2>4
<1> QED BY <1>3, <1>4, <1>5, <1>6 DEF HeldIn

\* The facts of the invariant that most steps need.
LEMMA CrashFacts ==
  ASSUME TypeOK, TornOnlyWhenDown
  PROVE  /\ TornLast(wal, base)
         /\ Bound \in 0..Len(wal) /\ Bound = BoundOf(wal, synced) /\ Bound <= ValidLen(Bytes(wal))
         /\ pc # "down" => /\ \A i \in 1..Len(wal) : wal[i].c # Torn
                           /\ ValidLen(Bytes(wal)) = Len(wal)
                           /\ "power" \notin Crashes \/ synced = Len(wal) => Bound = Len(wal)
<1>1. wal \in Seq(Frame) /\ synced \in 0..Len(wal) /\ Len(wal) \in Nat
  BY TypeFacts
<1>2. TornLast(wal, base)
  <2> SUFFICES ASSUME NEW i \in 1..Len(wal), wal[i].c = Torn
               PROVE  i = Len(wal) /\ wal[i].id = AtIn(wal, base, i - 1)
    BY DEF TornLast
  <2> QED BY DEF TornOnlyWhenDown, At, AtIn
<1>3. Bound \in 0..Len(wal) /\ Bound = BoundOf(wal, synced) /\ Bound <= ValidLen(Bytes(wal))
  BY <1>1, BoundFacts DEF Bound
<1>4. ASSUME pc # "down"
      PROVE  /\ \A i \in 1..Len(wal) : wal[i].c # Torn
             /\ ValidLen(Bytes(wal)) = Len(wal)
             /\ "power" \notin Crashes \/ synced = Len(wal) => Bound = Len(wal)
  <2>1. \A i \in 1..Len(wal) : wal[i].c # Torn
    BY <1>4 DEF TornOnlyWhenDown
  <2>2. ValidLen(Bytes(wal)) = Len(wal)
    BY <1>1, <2>1, WholeWal
  <2>3. "power" \notin Crashes \/ synced = Len(wal) => Bound = Len(wal)
    BY <1>1, <2>2 DEF Bound, BoundOf
  <2> QED BY <2>1, <2>2, <2>3
<1> QED BY <1>2, <1>3, <1>4

\* A step that leaves the snapshot and the intents alone, and of the WAL what no crash takes.
LEMMA FilesKept ==
  ASSUME TypeOK, TypeOK', IdsInOrder', SnapIsHeld, PromisesKept,
         snap' = snap, intent' = intent, base' = base, pc' # "replaced",
         Bound <= Bound', \A i \in 1..Bound : wal'[i] = wal[i],
         \A q \in 0..Bound : After(hist', At(q)) = After(hist, At(q)),
         \A i \in 1..Len(intent) :
           StandsAt(i, intent, snap, Bytes(wal')) => StandsAt(i, intent, snap, Bytes(wal))
  PROVE  SnapIsHeld' /\ (promised' <= promised => PromisesKept')
<1>1. /\ wal \in Seq(Frame) /\ synced \in 0..Len(wal) /\ Len(wal) \in Nat
      /\ snap \in Shot \cup {None} /\ intent \in Seq(Intent) /\ base \in Nat /\ promised \in Nat
      /\ \A n \in 0..Len(wal) : At(n) \in Nat /\ At(n) = AtIn(wal, base, n)
  BY TypeFacts
<1>2. /\ wal' \in Seq(Frame) /\ synced' \in 0..Len(wal') /\ Len(wal') \in Nat /\ promised' \in Nat
  BY LenProperties DEF TypeOK
<1>3. PICK x \in 0..Len(wal) : x = Bound /\ x = BoundOf(wal, synced)
  BY <1>1, BoundFacts DEF Bound
<1>4. PICK y \in 0..Len(wal') : y = Bound' /\ y = BoundOf(wal', synced')
  <2>1. BoundOf(wal', synced') \in 0..Len(wal')
    BY <1>2, BoundFacts
  <2> QED BY <2>1 DEF Bound
<1>5. x \in Nat /\ y \in Nat /\ x <= y /\ (\A i \in 1..x : wal'[i] = wal[i])
      /\ (\A q \in 0..x : q \in 0..Len(wal))
  BY <1>1, <1>2, <1>3, <1>4
<1>6. \A q \in 0..x : After(hist', AtIn(wal, base, q)) = After(hist, AtIn(wal, base, q))
  BY <1>1, <1>3, <1>5
<1>7. HeldIn(snap, intent, wal', synced', base, hist', pc')
  <2>1. HeldIn(snap, intent, wal, synced, base, hist, pc)
    BY DEF SnapIsHeld
  <2>2. PICK u, l, g, t : u = wal' /\ l = synced' /\ g = hist' /\ t = pc'
    OBVIOUS
  <2>3. /\ snap \in Shot \cup {None} /\ intent \in Seq(Intent) /\ wal \in Seq(Frame)
        /\ u \in Seq(Frame) /\ synced \in 0..Len(wal) /\ l \in 0..Len(u) /\ base \in Nat
        /\ t # "replaced" /\ x \in Nat /\ x = BoundOf(wal, synced) /\ x <= BoundOf(u, l)
    BY <1>1, <1>2, <1>3, <1>4, <1>5, <2>2
  <2>4. /\ \A i \in 1..x : u[i] = wal[i]
        /\ \A q \in 0..x : After(g, AtIn(wal, base, q)) = After(hist, AtIn(wal, base, q))
        /\ \A i \in 1..Len(intent) :
             StandsAt(i, intent, snap, Bytes(u)) => StandsAt(i, intent, snap, Bytes(wal))
    BY <1>5, <1>6, <2>2
  <2>5. HeldIn(snap, intent, u, l, base, g, t)
    BY ONLY <2>1, <2>3, <2>4, HeldKept
  <2> QED BY <2>2, <2>5
<1>8. SnapIsHeld'
  BY <1>7 DEF SnapIsHeld, HeldIn
<1>9. ASSUME promised' <= promised PROVE PromisesKept'
  <2>1. AtIn(wal', base, x) <= AtIn(wal', base, y) /\ AtIn(wal', base, x) \in Nat
        /\ AtIn(wal', base, y) \in Nat
    <3>1. x \in 0..y /\ x \in 0..Len(wal')
      BY <1>2, <1>4, <1>5
    <3>2. AtIn(wal', base, x) <= AtIn(wal', base, y)
      BY <3>1 DEF IdsInOrder, InOrder
    <3> QED BY <1>1, <1>2, <3>1, <3>2, AtInType
  <2>2. AtIn(wal', base, x) = AtIn(wal, base, x)
    BY <1>5 DEF AtIn
  <2>3. promised <= AtIn(wal, base, x)
    BY <1>1, <1>3, <1>5 DEF PromisesKept
  <2>4. promised' <= AtIn(wal', base, y)
    BY <1>1, <1>2, <1>9, <2>1, <2>2, <2>3
  <2>5. At(Bound)' = AtIn(wal', base, y)
    BY <1>4 DEF At, AtIn
  <2> QED BY <2>4, <2>5 DEF PromisesKept
<1> QED BY <1>8, <1>9

-----------------------------------------------------------------------------
(* Commits.                                                                *)

Whole == TypeInv /\ IntentInv /\ CrashInv

\* The parts of the invariant.
LEMMA WholeFacts ==
  ASSUME Whole
  PROVE  /\ TypeOK /\ IdsInOrder /\ KnowsUnsettled /\ NothingWaits
         /\ Chained(wal, base, hist) /\ TornOnlyWhenDown /\ MemIsCurrent /\ NothingUnsynced
         /\ PromisesKept /\ SnapIsHeld /\ IntentsInOrder
BY DEF Whole, TypeInv, IntentInv, CrashInv

\* The declaration after one more commit.
LEMMA DeclAtNext ==
  ASSUME NEW h, NEW j \in Nat, NEW m \in Nat, m = j+1
  PROVE  /\ ~IsDeclaration(h[m]) => DeclAt(h, m) = DeclAt(h, j)
         /\ IsDeclaration(h[m]) => DeclAt(h, m) = (h[m] = Declare)
<1>1. 0 \in Nat /\ j \in 0..m
  OBVIOUS
<1>2. PICK d : d = DeclAt(h, j)
  OBVIOUS
<1>3. DeclAt(h, m) = DeclAfter(d, h, j, m)
  <2>1. \A e : DeclAfter(e, h, 0, m) = DeclAfter(DeclAfter(e, h, 0, j), h, j, m)
    BY <1>1, DeclAfterSplit
  <2>2. DeclAfter(FALSE, h, 0, m) = DeclAfter(DeclAfter(FALSE, h, 0, j), h, j, m)
    BY ONLY <2>1, Zenon
  <2> QED BY <1>2, <2>2 DEF DeclAt
<1>4. ASSUME ~IsDeclaration(h[m]) PROVE DeclAt(h, m) = DeclAt(h, j)
  BY <1>2, <1>3, <1>4, DeclAfterNext
<1>5. ASSUME IsDeclaration(h[m]) PROVE DeclAt(h, m) = (h[m] = Declare)
  <2>1. DeclAfter(d, h, j, m) = (h[m] = Declare)
    BY <1>5, DeclAfterNext
  <2> QED BY <1>3, <2>1
<1> QED BY <1>4, <1>5

\* Applying a commit to the graph after those before it.
LEMMA AppliedOnce ==
  ASSUME NEW h, NEW j \in Nat, NEW m \in Nat, m = j+1
  PROVE  ApplyFrame(After(h, j), [c |-> h[m], id |-> m]) = After(h, m)
<1> DEFINE g == After(h, j)
           f == [c |-> h[m], id |-> m]
<1>1. g.done = {i \in 1..j : h[i] \in Write} /\ g.decl = DeclAt(h, j) /\ g.twice = FALSE
  BY DEF After, DeclAt
<1>2. f.c = h[m] /\ f.id = m
  OBVIOUS
<1>3. (IF f.c \in Write THEN g.done \cup {f.id} ELSE g.done) = {i \in 1..m : h[i] \in Write}
  <2>1. \A i : i \in 1..m <=> i \in 1..j \/ i = m
    OBVIOUS
  <2> QED BY <1>1, <1>2, <2>1
<1>4. (g.twice \/ (f.c \in Write /\ f.id \in g.done)) = FALSE
  BY <1>1, <1>2
<1>5. (IF IsDeclaration(f.c) THEN f.c = Declare ELSE g.decl) = DeclAt(h, m)
  BY <1>1, <1>2, DeclAtNext
<1>6. ApplyFrame(g, f) = [done |-> {i \in 1..m : h[i] \in Write}, decl |-> DeclAt(h, m), twice |-> FALSE]
  <2> HIDE DEF g, f
  <2> QED BY <1>3, <1>4, <1>5 DEF ApplyFrame
<1> QED BY <1>6 DEF After, DeclAt

\* Dropping a left-over intent keeps what stands.
LEMMA SettleCrashInv ==
  ASSUME Whole, SettleSnapshotIntent
  PROVE  CrashInv'
<1>1. /\ wal' = wal /\ synced' = synced /\ snap' = snap /\ base' = base /\ hist' = hist
      /\ pc' = pc /\ pc = "idle" /\ mem' = mem /\ promised' = promised /\ cur' = cur /\ mode' = mode
  BY DEF SettleSnapshotIntent, history
<1>2. /\ TypeOK /\ Chained(wal, base, hist) /\ TornOnlyWhenDown /\ MemIsCurrent /\ NothingUnsynced
      /\ PromisesKept /\ SnapIsHeld
  BY WholeFacts
<1>3. Chained(wal, base, hist)'
  BY <1>1, <1>2
<1>4. TornOnlyWhenDown' /\ NothingUnsynced'
  BY <1>1, <1>2 DEF TornOnlyWhenDown, NothingUnsynced, At
<1>5. MemIsCurrent'
  BY <1>1, <1>2 DEF MemIsCurrent, At
<1>6. PromisesKept'
  BY <1>1, <1>2 DEF PromisesKept, Bound, At
<1>7. HeldIn(snap, intent', wal, synced, base, hist, pc)
  <2>0. HeldIn(snap, intent, wal, synced, base, hist, pc) /\ intent \in Seq(Intent) /\ Len(intent) \in Nat
    BY <1>2, TypeFacts DEF SnapIsHeld
  <2>1. CASE intent' = intent
    BY <2>0, <2>1
  <2>2. CASE intent' = StandingIntent(intent, snap, Bytes(wal))
    <3>1. CASE NoneStands(intent, snap, Bytes(wal))
      <4>1. intent' = <<>> /\ \A i \in 1..Len(intent') : FALSE
        <5>1. intent' = <<>>
          BY <2>0, <2>2, <3>1, StandingIntentFacts DEF NoneStands
        <5> QED BY <5>1, EmptySeq
      <4> QED BY <2>0, <3>1, <4>1 DEF HeldIn
    <3>2. CASE ~NoneStands(intent, snap, Bytes(wal))
      <4>1. PICK i \in 1..Len(intent) : /\ StandsAt(i, intent, snap, Bytes(wal))
                                        /\ intent' = <<intent[i]>>
        BY <2>0, <2>2, <3>2, StandingIntentFacts DEF NoneStands
      <4>2. Len(intent') = 1 /\ intent'[1] = intent[i] /\ 1 \in 1..Len(intent') /\ \A j \in 1..Len(intent') : j = 1
        BY <4>1
      <4>3. StandsAt(1, intent', snap, Bytes(wal))
        BY <4>1, <4>2 DEF StandsAt
      <4>4. SnapAt(snap, wal, synced, base, hist, Len(intent'[1].wal))
        BY <2>0, <4>1, <4>2 DEF HeldIn
      <4>5. ~NoneStands(intent', snap, Bytes(wal))
        BY <4>2, <4>3 DEF NoneStands
      <4> QED BY <1>1, <2>0, <4>2, <4>4, <4>5 DEF HeldIn
    <3> QED BY <3>1, <3>2
  <2> QED BY <2>1, <2>2 DEF SettleSnapshotIntent
<1>8. SnapIsHeld'
  BY <1>1, <1>7 DEF SnapIsHeld
<1>9. IntentsInOrder'
  BY <1>1 DEF IntentsInOrder
<1> QED BY <1>3, <1>4, <1>5, <1>6, <1>8, <1>9 DEF CrashInv

\* The handle appends a frame: the commit it adds is the next one.
LEMMA AppendCrashInv ==
  ASSUME Whole, TypeInv', NEW c \in Write \cup {Declare, Drop}, AppendFrame(c)
  PROVE  CrashInv'
<1>1. /\ synced' = synced /\ snap' = snap /\ intent' = intent /\ base' = base /\ promised' = promised
      /\ pc = "idle" /\ pc' = "appended" /\ mem' = mem /\ cur' = c /\ ~unsettled
      /\ wal' = Append(wal, [c |-> c, id |-> Len(hist) + 1]) /\ hist' = Append(hist, c)
  BY DEF AppendFrame
<1>2. /\ TypeOK /\ Chained(wal, base, hist) /\ TornOnlyWhenDown /\ MemIsCurrent /\ PromisesKept
      /\ SnapIsHeld /\ NothingWaits
  BY WholeFacts
<1>3. /\ wal \in Seq(Frame) /\ Len(wal) \in Nat /\ synced \in 0..Len(wal) /\ base \in Nat
      /\ hist \in Seq(Content) /\ Len(hist) \in Nat /\ intent \in Seq(Intent) /\ promised \in Nat
      /\ \A n \in 0..Len(wal) : At(n) \in Nat /\ At(n) = AtIn(wal, base, n)
  BY <1>2, TypeFacts
<1>4. TypeOK' /\ IdsInOrder' /\ c \in Content /\ c # Torn /\ c # Marker
  BY StoreAssumption, ContentFacts DEF TypeInv, Declare, Drop, Torn, Marker
<1>5. PICK L \in Nat : L = Len(hist)
  BY <1>3
<1>6. PICK k \in Nat : k = L + 1
  OBVIOUS
<1>7. PICK f \in Frame : f = [c |-> c, id |-> k] /\ f.c = c /\ f.id = k
  BY <1>4, FrameOf
<1>8. wal' = Append(wal, f)
  BY <1>1, <1>5, <1>6, <1>7
<1>9. /\ wal' \in Seq(Frame) /\ Len(wal') = Len(wal) + 1 /\ wal'[Len(wal) + 1] = f
      /\ \A i \in 1..Len(wal) : wal'[i] = wal[i]
  BY <1>3, <1>8, Appended
<1>10. /\ hist' \in Seq(Content) /\ Len(hist') = k /\ hist'[k] = c
       /\ \A i \in 1..L : hist'[i] = hist[i]
  BY <1>1, <1>3, <1>4, <1>5, <1>6, Appended
<1>11. At(Len(wal)) = L /\ AtIn(wal, base, Len(wal)) = L /\ mem = After(hist, L)
  BY <1>1, <1>2, <1>3, <1>5 DEF MemIsCurrent, Quiet
<1>12. Chained(wal, base, hist)'
  <2>1. {j \in L+1..k : hist'[j] \in Write} = (IF c \in Write THEN {k} ELSE {})
    <3>1. \A j : j \in L+1..k <=> j = k
      BY <1>6
    <3> QED BY <1>10, <3>1
  <2>2. DeclAt(hist', k) = (IF IsDeclaration(c) THEN c = Declare ELSE DeclAt(hist', L))
    <3>1. PICK g : g = hist' /\ g[k] = c
      BY <1>10
    <3>2. CASE IsDeclaration(c)
      BY <1>6, <3>1, <3>2, DeclAtNext
    <3>3. CASE ~IsDeclaration(c)
      BY <1>6, <3>1, <3>3, DeclAtNext
    <3> QED BY <3>2, <3>3
  <2>3. PICK g \in Seq(Content) : g = hist'
    BY <1>10
  <2>4. /\ Len(hist) <= Len(g) /\ (\A i \in 1..Len(hist) : g[i] = hist[i]) /\ L <= f.id /\ f.id <= Len(g)
        /\ {j \in L+1..f.id : g[j] \in Write} = (IF f.c \in Write THEN {f.id} ELSE {})
    BY <1>3, <1>5, <1>6, <1>7, <1>10, <2>1, <2>3
  <2>5. DeclAt(g, f.id) = (IF IsDeclaration(f.c) THEN f.c = Declare ELSE DeclAt(g, L))
    BY <1>7, <2>2, <2>3
  <2>6. Chained(Append(wal, f), base, g)
    BY <1>2, <1>3, <1>11, <2>4, <2>5, ChainedAppended
  <2> QED BY <1>1, <1>8, <2>3, <2>6
<1>13. /\ \A i \in 1..Len(wal) : wal[i].c # Torn
       /\ ValidLen(Bytes(wal)) = Len(wal) /\ Bound \in 0..Len(wal) /\ Bound = BoundOf(wal, synced)
  BY <1>1, <1>2, CrashFacts
<1>14. \A i \in 1..Len(wal') : wal'[i].c # Torn
  <2>1. \A i \in 1..Len(wal') : i \in 1..Len(wal) \/ i = Len(wal) + 1
    BY <1>3, <1>9
  <2> QED BY <1>4, <1>7, <1>9, <1>13, <2>1
<1>15. TornOnlyWhenDown'
  BY <1>14 DEF TornOnlyWhenDown
<1>16. MemIsCurrent'
  <2>1. Len(wal') # 0 /\ Len(wal') > 0 /\ wal'[Len(wal')] = f /\ Len(wal') - 1 = Len(wal)
        /\ Len(hist') > 0 /\ Len(hist') - 1 = L /\ wal'[Len(wal')].id = k
    BY <1>3, <1>5, <1>6, <1>7, <1>9, <1>10
  <2>2. mem' = After(hist', L)
    <3>1. After(hist', L) = After(hist, L)
      BY <1>10, AfterSame
    <3> QED BY <1>1, <1>11, <3>1
  <2>3. At(Len(wal))' = k
    BY <2>1 DEF At
  <2>4. At(Len(wal) - 1)' = L
    <3>1. CASE Len(wal) = 0
      BY <1>1, <1>11, <2>1, <3>1 DEF At
    <3>2. CASE Len(wal) # 0
      <4>1. Len(wal) \in 1..Len(wal)
        BY <1>3, <3>2
      <4>2. wal'[Len(wal)] = wal[Len(wal)]
        BY <1>9, <4>1
      <4> QED BY <1>11, <2>1, <3>2, <4>2 DEF At
    <3> QED BY <3>1, <3>2
  <2>5. wal'[Len(wal')] = [c |-> cur', id |-> Len(hist')] /\ hist'[Len(hist')] = cur'
        /\ cur' \in Write \cup {Declare, Drop}
    BY <1>1, <1>7, <1>10, <2>1
  <2>6. pc' \notin Quiet
    BY <1>1 DEF Quiet
  <2> QED BY <1>10, <2>1, <2>2, <2>3, <2>4, <2>5, <2>6 DEF MemIsCurrent
<1>17. NothingUnsynced'
  BY <1>1 DEF NothingUnsynced
<1>18. Bound <= Bound'
  <2>1. ValidLen(Bytes(wal')) = Len(wal')
    BY <1>9, <1>14, WholeWal
  <2>2. BoundOf(wal', synced) = IF "power" \in Crashes /\ synced < Len(wal') THEN synced ELSE Len(wal')
    BY <2>1 DEF BoundOf
  <2>3. Bound = IF "power" \in Crashes /\ synced < Len(wal) THEN synced ELSE Len(wal)
    BY <1>13 DEF BoundOf
  <2>4. Bound' = BoundOf(wal', synced)
    BY <1>1 DEF Bound
  <2> QED BY <1>3, <1>9, <2>2, <2>3, <2>4
<1>19. SnapIsHeld' /\ PromisesKept'
  <2>1. \A i \in 1..Bound : wal'[i] = wal[i]
    BY <1>3, <1>9, <1>13
  <2>2. \A q \in 0..Bound : After(hist', At(q)) = After(hist, At(q))
    <3> SUFFICES ASSUME NEW q \in 0..Bound PROVE After(hist', At(q)) = After(hist, At(q))
      OBVIOUS
    <3>1. q \in 0..Len(wal) /\ At(q) \in Nat /\ At(q) = AtIn(wal, base, q)
      BY <1>3, <1>13
    <3>2. Linked(wal, base, hist, q, q)
      BY <1>2, <3>1 DEF Chained
    <3>3. At(q) <= L
      BY <1>5, <3>1, <3>2 DEF Linked
    <3>4. \A i \in 1..At(q) : hist'[i] = hist[i]
      BY <1>10, <3>1, <3>3
    <3> QED BY <3>1, <3>4, AfterSame
  <2>3. \A i \in 1..Len(intent) :
          StandsAt(i, intent, snap, Bytes(wal')) => StandsAt(i, intent, snap, Bytes(wal))
    BY <1>1, <1>2 DEF NothingWaits, NamingStand, StandsAt, Quiet
  <2>4. promised' <= promised
    BY <1>1, <1>3
  <2>5. pc' # "replaced"
    BY <1>1
  <2> QED BY <1>1, <1>2, <1>4, <1>18, <2>1, <2>2, <2>3, <2>4, <2>5, FilesKept
<1>20. IntentsInOrder'
  BY <1>1 DEF IntentsInOrder
<1> QED BY <1>12, <1>15, <1>16, <1>17, <1>19, <1>20 DEF CrashInv

\* A step that leaves the WAL and the commits alone, except perhaps for an fsync.
LEMMA SameWal ==
  ASSUME Whole, TypeInv', pc # "down", wal' = wal, base' = base, hist' = hist, promised' = promised,
         synced' = synced \/ synced' = Len(wal)
  PROVE  /\ Chained(wal, base, hist)' /\ TornOnlyWhenDown' /\ PromisesKept' /\ Bound <= Bound'
         /\ snap' = snap /\ intent' = intent /\ pc' # "replaced" => SnapIsHeld'
<1>1. /\ TypeOK /\ Chained(wal, base, hist) /\ TornOnlyWhenDown /\ PromisesKept /\ SnapIsHeld
      /\ IdsInOrder /\ TypeOK' /\ IdsInOrder'
  BY WholeFacts DEF TypeInv
<1>2. /\ wal \in Seq(Frame) /\ Len(wal) \in Nat /\ synced \in 0..Len(wal) /\ promised \in Nat
      /\ \A n \in 0..Len(wal) : At(n) \in Nat /\ At(n) = AtIn(wal, base, n)
  BY <1>1, TypeFacts
<1>3. /\ \A i \in 1..Len(wal) : wal[i].c # Torn
      /\ ValidLen(Bytes(wal)) = Len(wal) /\ Bound \in 0..Len(wal) /\ Bound = BoundOf(wal, synced)
  BY <1>1, CrashFacts
<1>4. Chained(wal, base, hist)' /\ TornOnlyWhenDown'
  BY <1>1, <1>3 DEF TornOnlyWhenDown
<1>5. PICK x \in 0..Len(wal) : x = Bound
  BY <1>3
<1>6. PICK y \in 0..Len(wal) : y = Bound' /\ x <= y
  <2>1. Bound' = BoundOf(wal, synced')
    BY DEF Bound
  <2>2. BoundOf(wal, synced') \in 0..Len(wal) /\ x <= BoundOf(wal, synced')
    BY <1>2, <1>3, <1>5 DEF BoundOf
  <2> QED BY <2>1, <2>2
<1>7. PromisesKept'
  <2>1. AtIn(wal, base, x) <= AtIn(wal, base, y)
    <3>1. x \in 0..y
      BY <1>6
    <3> QED BY <1>1, <3>1 DEF IdsInOrder, InOrder
  <2>2. promised <= At(x) /\ At(x) <= At(y) /\ At(x) \in Nat /\ At(y) \in Nat
    BY <1>1, <1>2, <1>5, <2>1 DEF PromisesKept
  <2>3. At(Bound)' = At(y)
    BY <1>6 DEF At
  <2> QED BY <1>2, <2>2, <2>3 DEF PromisesKept
<1>8. ASSUME snap' = snap, intent' = intent, pc' # "replaced" PROVE SnapIsHeld'
  <2>1. /\ \A i \in 1..Bound : wal'[i] = wal[i]
        /\ \A q \in 0..Bound : After(hist', At(q)) = After(hist, At(q))
        /\ \A i \in 1..Len(intent) :
             StandsAt(i, intent, snap, Bytes(wal')) => StandsAt(i, intent, snap, Bytes(wal))
    OBVIOUS
  <2>2. Bound <= Bound'
    BY <1>5, <1>6
  <2> QED BY <1>1, <1>8, <2>1, <2>2, FilesKept
<1> QED BY <1>4, <1>5, <1>6, <1>7, <1>8

\* The fsync of a commit, and the upgrade's.
LEMMA SyncCrashInv ==
  ASSUME Whole, TypeInv', SyncWal \/ SyncForUpgrade
  PROVE  CrashInv'
<1>1. /\ wal' = wal /\ synced' = Len(wal) /\ snap' = snap /\ intent' = intent /\ base' = base
      /\ hist' = hist /\ promised' = promised /\ mem' = mem /\ cur' = cur
      /\ (pc = "appended" /\ pc' = "synced") \/ (pc = "idle" /\ pc' = "upgrading")
  BY DEF SyncWal, SyncForUpgrade, history
<1>2. /\ Chained(wal, base, hist)' /\ TornOnlyWhenDown' /\ PromisesKept' /\ SnapIsHeld'
  BY <1>1, SameWal
<1>3. MemIsCurrent
  BY WholeFacts
<1>4. MemIsCurrent'
  BY <1>1, <1>3 DEF MemIsCurrent, Quiet, At
<1>5. NothingUnsynced'
  BY <1>1 DEF NothingUnsynced
<1>6. IntentsInOrder'
  BY <1>1 DEF IntentsInOrder
<1> QED BY <1>2, <1>4, <1>5, <1>6 DEF CrashInv

\* A frame applied and acknowledged, and perhaps a marker appended.
LEMMA ApplyCrashInv ==
  ASSUME SafeConfig, Whole, TypeInv', NEW tail \in MarkerTails, ApplyFrameAndAck(tail)
  PROVE  CrashInv'
<1>1. /\ synced' = synced /\ snap' = snap /\ intent' = intent /\ base' = base /\ hist' = hist
      /\ pc' = "idle" /\ pc \in {"appended", "synced"} /\ (pc = "appended" => ~NeedsSync(cur))
      /\ mem' = ApplyFrame(mem, [c |-> cur, id |-> Len(hist)]) /\ wal' = wal \o tail
      /\ promised' = IF pc = "synced" THEN Len(hist) ELSE promised
      /\ tail = <<>> \/ (tail = <<[c |-> Marker, id |-> Len(hist)]>> /\ Rules)
  BY DEF ApplyFrameAndAck, SafeConfig
<1>2. /\ TypeOK /\ Chained(wal, base, hist) /\ TornOnlyWhenDown /\ MemIsCurrent /\ PromisesKept
      /\ SnapIsHeld /\ NothingWaits /\ NothingUnsynced
  BY WholeFacts
<1>3. /\ wal \in Seq(Frame) /\ Len(wal) \in Nat /\ synced \in 0..Len(wal) /\ base \in Nat
      /\ hist \in Seq(Content) /\ Len(hist) \in Nat /\ intent \in Seq(Intent) /\ promised \in 0..Len(hist)
      /\ \A n \in 0..Len(wal) : At(n) \in Nat /\ At(n) = AtIn(wal, base, n)
      /\ Bytes(wal) \in Seq(Content) /\ Len(Bytes(wal)) = Len(wal)
  BY <1>2, TypeFacts
<1>4. TypeOK' /\ IdsInOrder'
  BY DEF TypeInv
<1>5. PICK L \in Nat : L = Len(hist)
  BY <1>3
<1>6. /\ Len(wal) > 0 /\ L > 0 /\ hist[L] = cur /\ At(Len(wal)) = L /\ AtIn(wal, base, Len(wal)) = L
      /\ mem = After(hist, L - 1)
  BY <1>1, <1>2, <1>3, <1>5 DEF MemIsCurrent
<1>7. mem' = After(hist, L)
  <2>1. PICK j \in Nat : j = L - 1
    BY <1>6
  <2>2. ApplyFrame(After(hist, j), [c |-> hist[L], id |-> L]) = After(hist, L)
    BY <2>1, AppliedOnce
  <2> QED BY <1>1, <1>5, <1>6, <2>1, <2>2
<1>8. /\ \A i \in 1..Len(wal) : wal[i].c # Torn
      /\ ValidLen(Bytes(wal)) = Len(wal) /\ Bound \in 0..Len(wal) /\ Bound = BoundOf(wal, synced)
  BY <1>1, <1>2, CrashFacts
\* What the marker adds reaches no further commit.
<1>9. /\ wal' \in Seq(Frame) /\ Len(wal') \in Nat /\ Len(wal) <= Len(wal')
      /\ \A i \in 1..Len(wal) : wal'[i] = wal[i]
      /\ \A i \in 1..Len(wal') : wal'[i].c # Torn
      /\ At(Len(wal))' = L
      /\ Chained(wal, base, hist)'
      /\ Rules = FALSE => wal' = wal
  <2>1. CASE tail = <<>>
    <3>1. wal' = wal
      BY <1>1, <1>3, <2>1, ConcatEmptySeq
    <3>2. At(Len(wal))' = L
      BY <1>1, <1>6, <3>1 DEF At
    <3> QED BY <1>1, <1>2, <1>3, <1>8, <3>1, <3>2
  <2>2. CASE tail = <<[c |-> Marker, id |-> Len(hist)]>> /\ Rules
    <3>1. PICK f \in Frame : f = [c |-> Marker, id |-> L] /\ f.c = Marker /\ f.id = L
      BY ContentFacts, FrameOf
    <3>2. wal' = Append(wal, f)
      BY <1>1, <1>3, <1>5, <2>2, <3>1, Appended
    <3>3. /\ wal' \in Seq(Frame) /\ Len(wal') = Len(wal) + 1 /\ wal'[Len(wal) + 1] = f
          /\ \A i \in 1..Len(wal) : wal'[i] = wal[i]
      BY <1>3, <3>2, Appended
    <3>4. Marker # Torn /\ Marker \notin Write /\ ~IsDeclaration(Marker)
      BY StoreAssumption DEF Marker, Torn, IsDeclaration, Declare, Drop
    <3>5. \A i \in 1..Len(wal') : wal'[i].c # Torn
      <4>1. \A i \in 1..Len(wal') : i \in 1..Len(wal) \/ i = Len(wal) + 1
        BY <1>3, <3>3
      <4> QED BY <1>8, <3>1, <3>3, <3>4, <4>1
    <3>6. At(Len(wal))' = L
      BY <1>3, <3>1, <3>3 DEF At
    <3>7. Chained(Append(wal, f), base, hist)
      <4>1. {j \in L+1..L : hist[j] \in Write} = {}
        OBVIOUS
      <4>2. /\ Len(hist) <= Len(hist) /\ (\A i \in 1..Len(hist) : hist[i] = hist[i]) /\ L <= f.id
            /\ f.id <= Len(hist)
            /\ {j \in L+1..f.id : hist[j] \in Write} = (IF f.c \in Write THEN {f.id} ELSE {})
        BY <1>3, <1>5, <3>1, <3>4, <4>1
      <4>3. DeclAt(hist, f.id) = (IF IsDeclaration(f.c) THEN f.c = Declare ELSE DeclAt(hist, L))
        BY <3>1, <3>4
      <4> QED BY <1>2, <1>3, <1>6, <4>2, <4>3, ChainedAppended
    <3>8. Chained(wal, base, hist)'
      BY <1>1, <3>2, <3>7
    <3> QED BY <1>3, <2>2, <3>3, <3>5, <3>6, <3>8
  <2> QED BY <1>1, <2>1, <2>2
<1>10. TornOnlyWhenDown'
  BY <1>9 DEF TornOnlyWhenDown
<1>11. MemIsCurrent'
  BY <1>1, <1>5, <1>7, <1>9 DEF MemIsCurrent
<1>12. NothingUnsynced'
  <2>1. ASSUME "power" \in Crashes, ~(Modes \subseteq {"upgrade"}) PROVE synced' = Len(wal')
    <3>1. Policy = "Strict" /\ Rules = FALSE
      BY <2>1, StoreAssumption DEF SafeConfig
    <3>2. pc = "synced"
      BY <1>1, <3>1 DEF NeedsSync
    <3> QED BY <1>1, <1>2, <1>9, <3>1, <3>2 DEF NothingUnsynced
  <2> QED BY <1>1, <2>1 DEF NothingUnsynced
<1>13. PICK x \in 0..Len(wal) : x = Bound
  BY <1>8
<1>14. PICK y \in 0..Len(wal') : y = Bound' /\ x <= y /\ (pc = "synced" => Len(wal) <= y)
  <2>1. ValidLen(Bytes(wal')) = Len(wal')
    BY <1>9, WholeWal
  <2>2. Bound' = IF "power" \in Crashes /\ synced < Len(wal') THEN synced ELSE Len(wal')
    BY <1>1, <2>1 DEF Bound, BoundOf
  <2>3. x = IF "power" \in Crashes /\ synced < Len(wal) THEN synced ELSE Len(wal)
    BY <1>8, <1>13 DEF BoundOf
  <2>4. pc = "synced" => synced = Len(wal)
    BY <1>2 DEF NothingUnsynced
  <2> QED BY <1>3, <1>9, <2>2, <2>3, <2>4
<1>15. SnapIsHeld' /\ (promised' <= promised => PromisesKept')
  <2>1. \A i \in 1..Bound : wal'[i] = wal[i]
    BY <1>3, <1>9, <1>8
  <2>2. \A q \in 0..Bound : After(hist', At(q)) = After(hist, At(q))
    BY <1>1
  <2>3. NamingStand(intent, snap, Bytes(wal))
    <3>1. NamingStand(intent, snap, SubSeq(Bytes(wal), 1, Len(wal) - 1)) /\ Len(wal) - 1 \in 0..Len(Bytes(wal))
      BY <1>1, <1>2, <1>3, <1>6 DEF NothingWaits
    <3>2. PICK d : d = SubSeq(Bytes(wal), 1, Len(wal) - 1)
      OBVIOUS
    <3>3. d \in Seq(Content) /\ Len(d) = Len(wal) - 1 /\ \A i \in 1..Len(d) : Bytes(wal)[i] = d[i]
      BY <1>3, <3>1, <3>2, Prefix
    <3>4. intent \in Seq(Intent) /\ Bytes(wal) \in Seq(Content) /\ Len(d) <= Len(Bytes(wal))
          /\ NamingStand(intent, snap, d)
      BY <1>3, <3>1, <3>2, <3>3
    <3> QED BY ONLY <3>3, <3>4, NamingStandLonger
  <2>4. \A i \in 1..Len(intent) :
          StandsAt(i, intent, snap, Bytes(wal')) => StandsAt(i, intent, snap, Bytes(wal))
    BY <2>3 DEF NamingStand, StandsAt
  <2>5. pc' # "replaced" /\ Bound <= Bound'
    BY <1>1, <1>13, <1>14
  <2> QED BY <1>1, <1>2, <1>4, <2>1, <2>2, <2>4, <2>5, FilesKept
<1>16. PromisesKept'
  <2>1. CASE pc = "synced"
    <3>1. AtIn(wal', base, Len(wal)) <= AtIn(wal', base, y)
      <4>1. Len(wal) \in 0..y
        BY <1>3, <1>14, <2>1
      <4> QED BY <1>1, <1>4, <4>1 DEF IdsInOrder, InOrder
    <3>2. AtIn(wal', base, Len(wal)) = L
      <4>1. Len(wal) \in 1..Len(wal)
        BY <1>3, <1>6
      <4> QED BY <1>6, <1>9, <4>1 DEF AtIn
    <3>3. At(Bound)' = AtIn(wal', base, y)
      BY <1>1, <1>14 DEF At, AtIn
    <3> QED BY <1>1, <1>5, <2>1, <3>1, <3>2, <3>3 DEF PromisesKept
  <2>2. CASE pc = "appended"
    BY <1>1, <1>3, <1>15, <2>2
  <2> QED BY <1>1, <2>1, <2>2
<1>17. IntentsInOrder'
  BY <1>1 DEF IntentsInOrder
<1> QED BY <1>9, <1>10, <1>11, <1>12, <1>15, <1>16, <1>17 DEF CrashInv

-----------------------------------------------------------------------------
(* Snapshots.                                                              *)

\* The image of the graph: all of it, and its mark.
LEMMA ImageFacts ==
  ASSUME V11, mem \in Graph, NEW m
  PROVE  /\ Replaces(m) => Image(m) = [g |-> mem, mark |-> None]
         /\ ~Replaces(m) => Image(m) = [g |-> mem, mark |-> Bytes(wal)]
<1>1. mem.decl \in BOOLEAN /\ (V11 /\ mem.decl) = mem.decl
  BY DEF Graph
<1>2. [mem EXCEPT !.decl = V11 /\ mem.decl] = mem
  BY <1>1 DEF Graph
<1> QED BY <1>2 DEF Image

\* What a snapshot taken now would hold no crash takes away.
LEMMA ImageHeld ==
  ASSUME Whole, pc \in Quiet, "power" \in Crashes => synced = Len(wal)
  PROVE  /\ mem = After(hist, AtIn(wal, base, Len(wal))) /\ BoundOf(wal, synced) = Len(wal)
         /\ WholeFrames(Bytes(wal)) /\ Matches(Bytes(wal), Bytes(wal))
<1>1. TypeOK /\ TornOnlyWhenDown /\ MemIsCurrent /\ pc # "down"
  BY WholeFacts DEF Quiet
<1>2. /\ wal \in Seq(Frame) /\ Len(wal) \in Nat /\ Len(Bytes(wal)) = Len(wal)
      /\ \A n \in 0..Len(wal) : At(n) = AtIn(wal, base, n)
  BY <1>1, TypeFacts
<1>3. mem = After(hist, AtIn(wal, base, Len(wal)))
  BY <1>1, <1>2 DEF MemIsCurrent
<1>4. BoundOf(wal, synced) = Len(wal) /\ \A i \in 1..Len(wal) : wal[i].c # Torn
  BY <1>1, CrashFacts
<1>5. WholeFrames(Bytes(wal))
  BY <1>2, <1>4, BytesFacts DEF WholeFrames
<1>6. Matches(Bytes(wal), Bytes(wal))
  BY <1>2, <1>5 DEF Matches
<1> QED BY <1>3, <1>4, <1>5, <1>6

\* Writing the intent.
LEMMA WriteIntentCrashInv ==
  ASSUME SafeConfig, Whole, TypeInv', NEW m \in Modes, WriteIntent(m)
  PROVE  CrashInv'
<1>1. /\ wal' = wal /\ synced' = synced /\ snap' = snap /\ base' = base /\ hist' = hist
      /\ promised' = promised /\ mem' = mem /\ mode' = m /\ pc' = "intent"
      /\ (IF m = "upgrade" THEN pc = "upgrading" ELSE pc = "idle")
  BY DEF WriteIntent, history
<1>2. /\ TypeOK /\ MemIsCurrent /\ NothingUnsynced /\ SnapIsHeld /\ pc \in Quiet /\ pc # "down"
  BY <1>1, WholeFacts DEF Quiet
<1>3. Chained(wal, base, hist)' /\ TornOnlyWhenDown' /\ PromisesKept'
      /\ (intent' = intent => SnapIsHeld')
  BY <1>1, <1>2, SameWal
<1>4. MemIsCurrent'
  BY <1>1, <1>2 DEF MemIsCurrent, Quiet, At
<1>5. "power" \in Crashes => synced = Len(wal)
  <2>1. CASE m = "upgrade"
    BY <1>1, <1>2, <2>1 DEF NothingUnsynced
  <2>2. CASE m # "upgrade"
    <3>1. ~(Modes \subseteq {"upgrade"}) /\ pc # "appended"
      BY <1>1, <2>2
    <3> QED BY <1>2, <3>1 DEF NothingUnsynced
  <2> QED BY <2>1, <2>2
<1>6. NothingUnsynced'
  BY <1>1, <1>5 DEF NothingUnsynced
<1>7. CASE ~Replaces(m)
  <2>1. intent' = intent
    BY <1>7 DEF WriteIntent
  <2>2. IntentsInOrder'
    BY <1>1, <1>7 DEF IntentsInOrder
  <2> QED BY <1>3, <1>4, <1>6, <2>1, <2>2 DEF CrashInv
<1>8. CASE Replaces(m)
  <2>1. /\ wal \in Seq(Frame) /\ Len(wal) \in Nat /\ intent \in Seq(Intent) /\ mem \in Graph
        /\ Bytes(wal) \in Seq(Content) /\ Len(Bytes(wal)) = Len(wal)
    BY <1>2, TypeFacts
  <2>2. PICK st : st = StandingIntent(intent, snap, Bytes(wal))
    OBVIOUS
  <2>3. PICK new : new = [snap |-> Image(m), wal |-> Bytes(wal)]
    OBVIOUS
  <2>4. new.snap = Image(m) /\ new.wal = Bytes(wal) /\ new.snap = [g |-> mem, mark |-> None]
    BY <1>8, <2>1, <2>3, ImageFacts DEF SafeConfig
  <2>5. intent' = <<new>> \o st
    BY <1>8, <2>2, <2>3 DEF WriteIntent
  <2>6. /\ mem = After(hist, AtIn(wal, base, Len(wal))) /\ BoundOf(wal, synced) = Len(wal)
        /\ Matches(Bytes(wal), Bytes(wal))
    BY <1>2, <1>5, ImageHeld
  <2>7. ASSUME snap = new.snap PROVE SnapAt(snap, wal, synced, base, hist, Len(new.wal))
    <3>1. snap.g = mem /\ snap # None
      <4>1. [g |-> mem, mark |-> None] \in Shot
        BY <2>1 DEF Shot
      <4> QED BY <2>4, <2>7, <4>1, NoneAssumption
    <3> QED BY <2>1, <2>4, <2>6, <3>1 DEF SnapAt, GraphIn
  <2>8. HeldIn(snap, intent, wal, synced, base, hist, pc)
    BY <1>2 DEF SnapIsHeld
  <2>9. CASE st = <<>>
    <3>1. NoneStands(intent, snap, Bytes(wal))
      <4>1. \A e : <<e>> # <<>>
        OBVIOUS
      <4> QED BY <2>1, <2>2, <2>9, <4>1, StandingIntentFacts DEF NoneStands
    <3>2. Len(intent') = 1 /\ intent'[1] = new /\ \A i \in 1..Len(intent') : i = 1
      BY <2>5, <2>9
    <3>3. \A i \in 1..Len(intent') : StandsAt(i, intent', snap, Bytes(wal)) => SnapAt(snap, wal, synced, base, hist, Len(intent'[i].wal))
      BY <2>7, <3>2 DEF StandsAt
    <3>4. HeldIn(snap, intent', wal, synced, base, hist, pc')
      BY <1>1, <2>8, <3>1, <3>3 DEF HeldIn
    <3>5. IntentsInOrder'
      <4>1. Len(intent') >= 1 /\ intent'[1] = [snap |-> Image(mode), wal |-> Bytes(wal)]'
        BY <1>1, <2>3, <3>2 DEF Image
      <4>2. \A i \in 2..Len(intent') : FALSE
        BY <3>2
      <4> QED BY <1>1, <4>1, <4>2 DEF IntentsInOrder
    <3> QED BY <1>1, <1>3, <1>4, <1>6, <3>4, <3>5 DEF CrashInv, SnapIsHeld
  <2>10. CASE st # <<>>
    <3>1. PICK k \in 1..Len(intent) : StandsAt(k, intent, snap, Bytes(wal)) /\ st = <<intent[k]>>
      BY <2>1, <2>2, <2>10, StandingIntentFacts
    <3>2. Len(intent') = 2 /\ intent'[1] = new /\ intent'[2] = intent[k]
          /\ \A i \in 1..Len(intent') : i = 1 \/ i = 2
      BY <2>5, <3>1
    <3>3. StandsAt(2, intent', snap, Bytes(wal)) /\ SnapAt(snap, wal, synced, base, hist, Len(intent'[2].wal))
      BY <2>8, <3>1, <3>2 DEF StandsAt, HeldIn
    <3>4. \A i \in 1..Len(intent') : StandsAt(i, intent', snap, Bytes(wal)) => SnapAt(snap, wal, synced, base, hist, Len(intent'[i].wal))
      BY <2>7, <3>2, <3>3 DEF StandsAt
    <3>5. ~NoneStands(intent', snap, Bytes(wal))
      BY <3>2, <3>3 DEF NoneStands
    <3>6. HeldIn(snap, intent', wal, synced, base, hist, pc')
      BY <1>1, <2>8, <3>4, <3>5 DEF HeldIn
    <3>7. IntentsInOrder'
      <4>1. Len(intent') >= 1 /\ intent'[1] = [snap |-> Image(mode), wal |-> Bytes(wal)]'
        BY <1>1, <2>3, <3>2 DEF Image
      <4>2. \A i \in 2..Len(intent') : i = 2
        BY <3>2
      <4>3. \A i \in 2..Len(intent') : StandsAt(i, intent', snap', Bytes(wal'))
        BY <1>1, <3>3, <4>2
      <4> QED BY <1>1, <4>1, <4>3 DEF IntentsInOrder
    <3> QED BY <1>1, <1>3, <1>4, <1>6, <3>6, <3>7 DEF CrashInv, SnapIsHeld
  <2> QED BY <2>9, <2>10
<1> QED BY <1>7, <1>8

\* Writing the snapshot: it holds what its mark, or the intent written before it, says.
LEMMA WriteSnapshotCrashInv ==
  ASSUME SafeConfig, Whole, TypeInv', WriteSnapshot
  PROVE  CrashInv'
<1>1. /\ wal' = wal /\ synced' = synced /\ intent' = intent /\ base' = base /\ hist' = hist
      /\ promised' = promised /\ mem' = mem /\ mode' = mode /\ pc = "intent" /\ snap' = Image(mode)
      /\ pc' = IF Replaces(mode) THEN "snapped" ELSE "idle"
  BY DEF WriteSnapshot, history
<1>2. /\ TypeOK /\ MemIsCurrent /\ NothingUnsynced /\ SnapIsHeld /\ IntentsInOrder
      /\ pc \in Quiet /\ pc # "down"
  BY <1>1, WholeFacts DEF Quiet
<1>3. Chained(wal, base, hist)' /\ TornOnlyWhenDown' /\ PromisesKept'
  BY <1>1, <1>2, SameWal
<1>4. MemIsCurrent'
  BY <1>1, <1>2 DEF MemIsCurrent, Quiet, At
<1>5. "power" \in Crashes => synced = Len(wal)
  BY <1>1, <1>2 DEF NothingUnsynced
<1>6. NothingUnsynced'
  BY <1>1, <1>5 DEF NothingUnsynced
<1>7. /\ wal \in Seq(Frame) /\ Len(wal) \in Nat /\ intent \in Seq(Intent) /\ mem \in Graph
      /\ Bytes(wal) \in Seq(Content) /\ Len(Bytes(wal)) = Len(wal)
  BY <1>2, TypeFacts
<1>8. /\ mem = After(hist, AtIn(wal, base, Len(wal))) /\ BoundOf(wal, synced) = Len(wal)
      /\ Matches(Bytes(wal), Bytes(wal))
  BY <1>2, <1>5, ImageHeld
<1>9. snap' # None /\ snap'.g = mem
  <2>1. snap' \in Shot
    BY <1>1, <1>7, ImageIsShot
  <2>2. snap'.g = mem
    BY <1>1, <1>7, ImageFacts DEF SafeConfig
  <2> QED BY <2>1, <2>2, NoneAssumption
<1>10. SnapAt(snap', wal, synced, base, hist, Len(wal))
  BY <1>7, <1>8, <1>9 DEF SnapAt, GraphIn
<1>11. CASE Replaces(mode)
  <2>1. snap' = [g |-> mem, mark |-> None] /\ ~HasOwnMark(snap')
    BY <1>1, <1>7, <1>11, ImageFacts DEF SafeConfig, HasOwnMark
  <2>2. /\ Len(intent) >= 1 /\ intent[1] = [snap |-> Image(mode), wal |-> Bytes(wal)] /\ 1 \in 1..Len(intent)
        /\ \A i \in 2..Len(intent) : StandsAt(i, intent, snap, Bytes(wal))
    BY <1>1, <1>2, <1>11, TypeFacts DEF IntentsInOrder
  <2>3. intent[1].snap = snap' /\ intent[1].wal = Bytes(wal)
    BY <1>1, <2>2
  <2>4. StandsAt(1, intent, snap', Bytes(wal))
    BY <1>8, <2>3 DEF StandsAt
  <2>5. ASSUME NEW i \in 1..Len(intent), StandsAt(i, intent, snap', Bytes(wal))
        PROVE  SnapAt(snap', wal, synced, base, hist, Len(intent[i].wal))
    <3>1. CASE i = 1
      BY <1>7, <1>10, <2>3, <3>1
    <3>2. CASE i # 1
      <4>1. i \in 2..Len(intent)
        BY <3>2
      <4>2. StandsAt(i, intent, snap, Bytes(wal))
        BY <2>2, <4>1
      <4>3. snap = snap'
        BY <2>5, <4>2 DEF StandsAt
      <4>4. SnapAt(snap, wal, synced, base, hist, Len(intent[i].wal))
        BY <1>2, <4>2 DEF SnapIsHeld, HeldIn
      <4> QED BY <4>3, <4>4
    <3> QED BY <3>1, <3>2
  <2>6. ~NoneStands(intent, snap', Bytes(wal)) /\ pc' # "replaced"
    BY <1>1, <1>11, <2>2, <2>4 DEF NoneStands
  <2>7. HeldIn(snap', intent, wal, synced, base, hist, pc')
    BY <1>9, <2>1, <2>5, <2>6 DEF HeldIn
  <2>8. IntentsInOrder'
    BY <1>1, <1>11, <2>1, <2>2, <2>4 DEF IntentsInOrder
  <2> QED BY <1>1, <1>3, <1>4, <1>6, <2>7, <2>8 DEF CrashInv, SnapIsHeld
<1>12. CASE ~Replaces(mode)
  <2>1. snap'.mark = Bytes(wal) /\ snap'.mark # None
    BY <1>1, <1>7, <1>12, ImageFacts, StoreAssumption DEF SafeConfig
  <2>2. HasOwnMark(snap')
    BY <1>9, <2>1 DEF HasOwnMark
  <2>3. ASSUME NEW i \in 1..Len(intent), StandsAt(i, intent, snap', Bytes(wal)) PROVE FALSE
    BY <1>7, <2>1, <2>3, IntentFacts DEF StandsAt
  <2>4. Matches(snap'.mark, Bytes(wal)) /\ SnapAt(snap', wal, synced, base, hist, Len(snap'.mark))
    BY <1>7, <1>8, <1>10, <2>1
  <2>5. HeldIn(snap', intent, wal, synced, base, hist, pc')
    BY <1>9, <2>2, <2>3, <2>4 DEF HeldIn
  <2>6. IntentsInOrder'
    BY <1>1, <1>12 DEF IntentsInOrder
  <2> QED BY <1>1, <1>3, <1>4, <1>6, <2>5, <2>6 DEF CrashInv, SnapIsHeld
<1> QED BY <1>11, <1>12

\* The WAL is replaced by one of the snapshot's declarations, durable at once.
LEMMA ReplacedCrashInv ==
  ASSUME Whole, TypeInv', pc \in {"snapped", "renamed"}, pc' \in {"renamed", "replaced"},
         snap' = snap, intent' = intent, mem' = mem, hist' = hist, promised' = promised,
         base' = Len(hist), synced' = Len(wal'), wal' = Baseline \/ wal' = <<>>
  PROVE  CrashInv'
<1>1. /\ TypeOK /\ MemIsCurrent /\ IntentsInOrder /\ pc \in Quiet /\ pc # "down"
  BY WholeFacts DEF Quiet
<1>2. PICK L \in Nat : L = Len(hist) /\ promised <= L
  BY <1>1, TypeFacts
<1>3. mem = After(hist, L) /\ mem \in Graph /\ mem.decl = DeclAt(hist, L)
  <2>1. mem = After(hist, L) /\ mem \in Graph
    BY <1>1, <1>2, TypeFacts DEF MemIsCurrent
  <2> QED BY <2>1 DEF After, DeclAt
<1>4. PICK w \in Seq(Frame) : /\ w = wal' /\ Len(w) \in Nat /\ Len(w) <= 1
                              /\ \A i \in 1..Len(w) : w[i] = [c |-> Declare, id |-> L] /\ mem.decl
  <2>1. CASE wal' = Baseline
    <3>1. Baseline \in Seq(Frame) /\ Len(Baseline) \in Nat /\ Len(Baseline) <= 1
          /\ \A i \in 1..Len(Baseline) : Baseline[i] = [c |-> Declare, id |-> L]
      BY <1>2, BaselineIsWal
    <3>2. ~mem.decl => Len(Baseline) = 0
      BY DEF Baseline
    <3> QED BY <2>1, <3>1, <3>2
  <2>2. CASE wal' = <<>>
    <3>1. wal' \in Seq(Frame) /\ Len(wal') = 0
      BY <2>2, EmptySeq
    <3>2. Len(wal') \in Nat /\ Len(wal') <= 1 /\ \A i \in 1..Len(wal') : FALSE
      BY <3>1
    <3> QED BY <3>1, <3>2, Zenon
  <2> QED BY <2>1, <2>2
<1>5. \A i \in 1..Len(w) : DeclAt(hist, L) = TRUE
  <2>1. mem.decl \in BOOLEAN
    BY <1>3 DEF Graph
  <2> QED BY <1>3, <1>4, <2>1
<1>6. Chained(wal, base, hist)'
  <2>1. Chained(w, L, hist)
    BY <1>2, <1>4, <1>5, ChainedBaseline
  <2> QED BY <1>2, <1>4, <2>1
<1>7. \A n \in 0..Len(w) : AtIn(w, L, n) = L
  BY <1>4 DEF AtIn
<1>8. \A i \in 1..Len(w) : w[i].c = Declare /\ w[i].c # Torn /\ w[i].c \notin Write
  BY <1>4, StoreAssumption DEF Declare, Torn
<1>9. TornOnlyWhenDown'
  BY <1>4, <1>8 DEF TornOnlyWhenDown
<1>10. BoundOf(w, Len(w)) = Len(w)
  <2>1. ValidLen(Bytes(w)) = Len(w)
    BY <1>8, WholeWal
  <2> QED BY <1>4, <2>1 DEF BoundOf
<1>11. Bound' = Len(w)
  BY <1>4, <1>10 DEF Bound
<1>12. At(Len(wal))' = L /\ At(Bound)' = L
  <2>1. AtIn(w, L, Len(w)) = L
    BY <1>4, <1>7
  <2> QED BY <1>2, <1>4, <1>11, <2>1 DEF At, AtIn
<1>13. MemIsCurrent'
  <2>1. pc' \notin {"appended", "synced"} /\ mem' = After(hist', Len(hist'))
    BY <1>2, <1>3
  <2> QED BY <1>2, <1>12, <2>1 DEF MemIsCurrent
<1>14. NothingUnsynced'
  BY DEF NothingUnsynced
<1>15. PromisesKept'
  BY <1>2, <1>12 DEF PromisesKept
<1>16. snap = [g |-> mem, mark |-> None]
  BY <1>1 DEF IntentsInOrder
<1>17. snap # None /\ snap.g = mem /\ ~HasOwnMark(snap)
  <2>1. [g |-> mem, mark |-> None] \in Shot
    BY <1>3 DEF Shot
  <2> QED BY <1>16, <2>1, NoneAssumption DEF HasOwnMark
<1>18. ASSUME NEW q \in 0..Len(w) PROVE SnapAt(snap, w, Len(w), L, hist, q)
  <2>1. AtIn(w, L, q) = L /\ q <= Len(w)
    BY <1>4, <1>7
  <2> QED BY <1>3, <1>10, <1>17, <2>1 DEF SnapAt, GraphIn
<1>19. HeldIn(snap, intent, w, Len(w), L, hist, pc')
  <2>1. ASSUME NEW i \in 1..Len(intent), StandsAt(i, intent, snap, Bytes(w))
        PROVE  SnapAt(snap, w, Len(w), L, hist, Len(intent[i].wal))
    <3>1. Len(intent[i].wal) \in Nat
      BY <1>1, TypeFacts, IntentFacts
    <3>2. Len(intent[i].wal) <= Len(w)
      BY <2>1, BytesFacts DEF StandsAt, Matches
    <3>3. Len(intent[i].wal) \in 0..Len(w)
      BY <1>4, <3>1, <3>2
    <3> QED BY <1>18, <3>3
  <2>2. \E q \in 0..Len(w) : SnapAt(snap, w, Len(w), L, hist, q) /\ \A i \in 1..q : w[i].c \notin Write
    <3>1. 0 \in 0..Len(w) /\ \A i \in 1..0 : FALSE
      BY <1>4
    <3> QED BY <1>18, <3>1
  <2> QED BY <1>17, <2>1, <2>2 DEF HeldIn
<1>20. SnapIsHeld'
  BY <1>2, <1>4, <1>19 DEF SnapIsHeld
<1>21. IntentsInOrder'
  BY <1>16 DEF IntentsInOrder
<1> QED BY <1>6, <1>9, <1>13, <1>14, <1>15, <1>20, <1>21 DEF CrashInv

\* The three ways of replacing the WAL.
LEMMA ReplaceCrashInv ==
  ASSUME Whole, TypeInv', TruncateWal \/ ArchiveWal \/ BaselineAfterArchive
  PROVE  CrashInv'
<1>1. /\ snap' = snap /\ intent' = intent /\ mem' = mem /\ hist' = hist /\ promised' = promised
      /\ cur' = cur /\ mode' = mode
  BY DEF TruncateWal, ArchiveWal, BaselineAfterArchive
<1>2. CASE TruncateWal
  BY <1>1, <1>2, ReplacedCrashInv DEF TruncateWal, PutBaseline
<1>3. CASE ArchiveWal
  <2>1. wal' = <<>> /\ synced' = Len(wal')
    BY <1>3, EmptySeq DEF ArchiveWal
  <2> QED BY <1>1, <1>3, <2>1, ReplacedCrashInv DEF ArchiveWal
<1>4. CASE BaselineAfterArchive /\ ~(pc = "snapped" /\ Bytes(wal) = Bytes(Baseline))
  BY <1>1, <1>4, ReplacedCrashInv DEF BaselineAfterArchive, PutBaseline
<1>5. CASE BaselineAfterArchive /\ pc = "snapped" /\ Bytes(wal) = Bytes(Baseline)
  <2>1. wal' = wal /\ synced' = synced /\ base' = base /\ pc' = "replaced"
    BY <1>5 DEF BaselineAfterArchive
  <2>2. /\ TypeOK /\ MemIsCurrent /\ NothingUnsynced /\ IntentsInOrder /\ SnapIsHeld /\ pc # "down"
    BY <1>5, WholeFacts
  <2>3. Chained(wal, base, hist)' /\ TornOnlyWhenDown' /\ PromisesKept'
    BY <1>1, <2>1, <2>2, SameWal
  <2>4. MemIsCurrent'
    BY <1>1, <1>5, <2>1, <2>2 DEF MemIsCurrent, Quiet, At
  <2>5. NothingUnsynced'
    BY <1>5, <2>1, <2>2 DEF NothingUnsynced
  <2>6. IntentsInOrder'
    BY <1>1, <1>5, <2>1, <2>2 DEF IntentsInOrder
  <2>7. /\ wal \in Seq(Frame) /\ Len(wal) \in Nat /\ synced \in 0..Len(wal) /\ intent \in Seq(Intent)
        /\ Len(hist) \in Nat
    BY <2>2, TypeFacts
  <2>8. \A i \in 1..Len(wal) : wal[i].c \notin Write
    <3>1. Baseline \in Seq(Frame) /\ \A i \in 1..Len(Baseline) : Baseline[i] = [c |-> Declare, id |-> Len(hist)]
      BY <2>7, BaselineIsWal
    <3>2. PICK v \in Seq(Frame) : v = Baseline /\ \A i \in 1..Len(v) : v[i].c = Declare
      BY <3>1
    <3>3. /\ Len(Bytes(wal)) = Len(wal) /\ \A i \in 1..Len(wal) : Bytes(wal)[i] = wal[i].c
      BY <2>7, BytesFacts
    <3>4. /\ Len(Bytes(v)) = Len(v) /\ \A i \in 1..Len(v) : Bytes(v)[i] = v[i].c
      BY BytesFacts
    <3>5. Bytes(wal) = Bytes(v)
      BY <1>5, <3>2
    <3>6. \A i \in 1..Len(wal) : wal[i].c = Declare
      BY <3>2, <3>3, <3>4, <3>5
    <3> QED BY <3>6, StoreAssumption
  <2>9. StandsAt(1, intent, snap, Bytes(wal)) /\ 1 \in 1..Len(intent)
    BY <1>5, <2>2, TypeFacts DEF IntentsInOrder
  <2>10. PICK q \in Nat : q = Len(intent[1].wal)
    BY <2>7, <2>9, IntentFacts
  <2>11. HeldIn(snap, intent, wal, synced, base, hist, pc)
    BY <2>2 DEF SnapIsHeld
  <2>12. SnapAt(snap, wal, synced, base, hist, q)
    BY <2>9, <2>10, <2>11 DEF HeldIn
  <2>13. q \in 0..Len(wal) /\ \A i \in 1..q : i \in 1..Len(wal)
    <3>1. q <= BoundOf(wal, synced) /\ BoundOf(wal, synced) \in 0..Len(wal)
      BY <2>7, <2>12, BoundFacts DEF SnapAt
    <3> QED BY <2>7, <3>1
  <2>14. HeldIn(snap, intent, wal, synced, base, hist, pc')
    BY <2>8, <2>11, <2>12, <2>13 DEF HeldIn
  <2>15. SnapIsHeld'
    BY <1>1, <2>1, <2>14 DEF SnapIsHeld
  <2> QED BY <2>3, <2>4, <2>5, <2>6, <2>15 DEF CrashInv
<1> QED BY <1>2, <1>3, <1>4, <1>5

\* Emptying the intent of a finished snapshot, or giving up an unfinished one.
LEMMA EndCrashInv ==
  ASSUME Whole, TypeInv', EmptyIntent \/ SnapshotFails
  PROVE  CrashInv'
<1>1. /\ wal' = wal /\ synced' = synced /\ snap' = snap /\ base' = base /\ hist' = hist
      /\ promised' = promised /\ mem' = mem /\ pc' = "idle"
      /\ pc \in {"intent", "snapped", "renamed", "replaced"}
  BY DEF EmptyIntent, SnapshotFails, files, history
<1>2. /\ TypeOK /\ MemIsCurrent /\ NothingUnsynced /\ SnapIsHeld /\ pc \in Quiet /\ pc # "down"
  BY <1>1, WholeFacts DEF Quiet
<1>3. Chained(wal, base, hist)' /\ TornOnlyWhenDown' /\ PromisesKept' /\ (intent' = intent => SnapIsHeld')
  BY <1>1, <1>2, SameWal
<1>4. MemIsCurrent'
  BY <1>1, <1>2 DEF MemIsCurrent, Quiet, At
<1>5. NothingUnsynced'
  BY <1>1, <1>2 DEF NothingUnsynced
<1>6. SnapIsHeld'
  <2>1. CASE EmptyIntent
    <3>1. intent' = <<>> /\ pc = "replaced" /\ \A i \in 1..Len(intent') : FALSE
      BY <2>1, EmptySeq DEF EmptyIntent
    <3>2. HeldIn(snap, intent, wal, synced, base, hist, pc)
      BY <1>2 DEF SnapIsHeld
    <3>3. HeldIn(snap, intent', wal, synced, base, hist, pc')
      BY <3>1, <3>2 DEF HeldIn
    <3> QED BY <1>1, <3>3 DEF SnapIsHeld
  <2>2. CASE SnapshotFails
    BY <1>3, <2>2 DEF SnapshotFails, files
  <2> QED BY <2>1, <2>2
<1>7. IntentsInOrder'
  BY <1>1 DEF IntentsInOrder
<1> QED BY <1>3, <1>4, <1>5, <1>6, <1>7 DEF CrashInv

-----------------------------------------------------------------------------
(* Crashes and opening.                                                    *)

\* A crash that leaves n frames, and perhaps part of another.
LEMMA CutCrashInv ==
  ASSUME Whole, TypeInv', NothingUnsynced', NEW n \in 0..Len(wal), pc # "down", pc' = "down",
         snap' = snap, intent' = intent, hist' = hist, base' = base, promised' = promised,
         \/ wal' = SubSeq(wal, 1, n)
         \/ wal' = Append(SubSeq(wal, 1, n), [c |-> Torn, id |-> At(n)]),
         \/ "power" \in Crashes /\ synced <= n /\ synced' = Len(wal')
         \/ n = Len(wal) /\ synced' = synced
  PROVE  CrashInv'
<1>1. /\ TypeOK /\ Chained(wal, base, hist) /\ TornOnlyWhenDown /\ SnapIsHeld /\ PromisesKept
      /\ TypeOK' /\ IdsInOrder'
  BY WholeFacts DEF TypeInv
<1>2. /\ wal \in Seq(Frame) /\ Len(wal) \in Nat /\ synced \in 0..Len(wal) /\ base \in Nat
      /\ hist \in Seq(Content) /\ Len(hist) \in Nat /\ intent \in Seq(Intent) /\ promised \in Nat
      /\ n \in Nat /\ At(n) \in Nat /\ At(n) = AtIn(wal, base, n)
  BY <1>1, TypeFacts
<1>3. PICK v \in Seq(Frame) : /\ v = SubSeq(wal, 1, n) /\ Len(v) = n /\ (\A i \in 1..n : v[i] = wal[i])
                              /\ \A i \in 0..n : AtIn(v, base, i) = AtIn(wal, base, i)
  BY <1>2, AtInPrefix
<1>4. Chained(v, base, hist)
  <2>1. Linked(wal, base, hist, n, n)
    BY <1>1 DEF Chained
  <2>2. AtIn(wal, base, n) <= Len(hist)
    BY <2>1 DEF Linked
  <2> QED BY <1>1, <1>2, <1>3, <2>2, ChainedPrefix
<1>5. \A i \in 1..Len(wal) : wal[i].c # Torn
  BY <1>1, CrashFacts
<1>6. Torn \notin Write /\ ~IsDeclaration(Torn) /\ Torn \in Content
  BY StoreAssumption, ContentFacts DEF IsDeclaration, Torn, Declare, Drop
\* What is left of the WAL.
<1>7. PICK w \in Seq(Frame) : /\ w = wal' /\ Len(w) \in {n, n+1} /\ (\A i \in 1..n : w[i] = wal[i])
                              /\ Len(w) = n+1 => w[n+1].c = Torn /\ w[n+1].id = At(n)
                              /\ Chained(w, base, hist)
  <2>1. CASE wal' = SubSeq(wal, 1, n)
    <3>1. n # n+1
      BY <1>2
    <3> QED BY <1>3, <1>4, <2>1, <3>1
  <2>2. CASE wal' = Append(SubSeq(wal, 1, n), [c |-> Torn, id |-> At(n)])
    <3>1. PICK f \in Frame : f = [c |-> Torn, id |-> At(n)] /\ f.c = Torn /\ f.id = At(n)
      BY <1>2, <1>6, FrameOf
    <3>2. PICK u : u = Append(v, f) /\ u = wal'
      BY <1>3, <2>2, <3>1
    <3>3. u \in Seq(Frame) /\ Len(u) = n+1 /\ u[n+1] = f /\ \A i \in 1..n : u[i] = v[i]
      BY <1>3, <3>2, Appended
    <3>4. PICK a \in Nat : a = At(n) /\ a = AtIn(v, base, Len(v)) /\ a <= Len(hist)
      <4>1. n \in 0..n /\ n \in 0..Len(v)
        BY <1>2, <1>3
      <4>2. Linked(v, base, hist, n, n)
        BY <1>4, <4>1 DEF Chained
      <4>3. AtIn(v, base, n) <= Len(hist)
        BY <4>2 DEF Linked
      <4> QED BY <1>2, <1>3, <4>1, <4>3
    <3>5. {j \in a+1..a : hist[j] \in Write} = {}
      OBVIOUS
    <3>6. /\ Len(hist) <= Len(hist) /\ (\A i \in 1..Len(hist) : hist[i] = hist[i]) /\ a <= f.id
          /\ f.id <= Len(hist)
          /\ {j \in a+1..f.id : hist[j] \in Write} = (IF f.c \in Write THEN {f.id} ELSE {})
      BY <1>2, <1>6, <3>1, <3>4, <3>5
    <3>7. DeclAt(hist, f.id) = (IF IsDeclaration(f.c) THEN f.c = Declare ELSE DeclAt(hist, a))
      BY <1>6, <3>1, <3>4
    <3>8. Chained(u, base, hist)
      BY <1>2, <1>4, <3>2, <3>4, <3>6, <3>7, ChainedAppended
    <3> QED BY <1>3, <3>1, <3>2, <3>3, <3>8
  <2> QED BY <2>1, <2>2
<1>8. Len(w) \in Nat /\ n <= Len(w) /\ \A i \in 1..Len(w) : i \in 1..n \/ (i = n+1 /\ Len(w) = n+1)
  BY <1>2, <1>7
<1>9. /\ Len(Bytes(w)) = Len(w) /\ Bytes(w) \in Seq(Content) /\ \A i \in 1..Len(w) : Bytes(w)[i] = w[i].c
  BY BytesFacts
<1>10. ValidLen(Bytes(w)) = n
  <2>1. n \in 0..Len(Bytes(w)) /\ \A i \in 1..n : i \in 1..Len(w) /\ i \in 1..Len(wal)
    BY <1>2, <1>8, <1>9
  <2>2. \A i \in 1..n : Bytes(w)[i] # Torn
    BY <1>5, <1>7, <1>9, <2>1
  <2>3. n < Len(Bytes(w)) => Bytes(w)[n+1] = Torn
    <3>1. n < Len(w) => Len(w) = n+1 /\ n+1 \in 1..Len(w)
      BY <1>2, <1>7
    <3> QED BY <1>7, <1>9, <3>1
  <2> QED BY <1>9, <2>1, <2>2, <2>3, ValidLenIs
<1>11. Chained(wal, base, hist)'
  BY <1>7
<1>12. TornOnlyWhenDown'
  <2> SUFFICES ASSUME NEW i \in 1..Len(w), w[i].c = Torn
               PROVE  i = Len(w) /\ w[i].id = At(i - 1)'
    BY <1>7 DEF TornOnlyWhenDown
  <2>1. i = n+1 /\ Len(w) = n+1
    <3>1. i \in 1..n => i \in 1..Len(wal)
      BY <1>2
    <3> QED BY <1>5, <1>7, <1>8, <3>1
  <2>2. At(n)' = At(n)
    <3>1. CASE n = 0
      BY <3>1 DEF At
    <3>2. CASE n # 0
      <4>1. n \in 1..n
        BY <1>2, <3>2
      <4> QED BY <1>7, <3>2, <4>1 DEF At
    <3> QED BY <3>1, <3>2
  <2>3. i - 1 = n
    BY <1>2, <2>1
  <2>4. At(i - 1)' = At(n)'
    BY <2>3 DEF At
  <2> QED BY <1>7, <2>1, <2>2, <2>4
<1>13. MemIsCurrent'
  BY DEF MemIsCurrent, Quiet
<1>14. PICK x \in 0..Len(wal) : /\ x = Bound /\ x <= n
                                /\ x = IF "power" \in Crashes /\ synced < Len(wal) THEN synced ELSE Len(wal)
  <2>1. Bound \in 0..Len(wal) /\ ValidLen(Bytes(wal)) = Len(wal)
    BY <1>1, CrashFacts
  <2>2. Bound = IF "power" \in Crashes /\ synced < Len(wal) THEN synced ELSE Len(wal)
    BY <2>1 DEF Bound, BoundOf
  <2> QED BY <1>2, <2>1, <2>2
<1>15. Bound <= Bound'
  <2>1. Bound' = IF "power" \in Crashes /\ synced' < n THEN synced' ELSE n
    BY <1>7, <1>10 DEF Bound, BoundOf
  <2> QED BY <1>2, <1>7, <1>8, <1>14, <2>1
<1>16. SnapIsHeld' /\ PromisesKept'
  <2>1. \A i \in 1..Bound : wal'[i] = wal[i]
    BY <1>2, <1>7, <1>14
  <2>2. \A q \in 0..Bound : After(hist', At(q)) = After(hist, At(q))
    OBVIOUS
  <2>3. ASSUME NEW i \in 1..Len(intent), StandsAt(i, intent, snap, Bytes(w))
        PROVE  StandsAt(i, intent, snap, Bytes(wal))
    <3>1. PICK m : m = intent[i].wal /\ Len(m) \in Nat
      BY <1>2, IntentFacts
    <3>2. Len(m) <= Len(w) /\ (\A j \in 1..Len(m) : m[j] = Bytes(w)[j]) /\ \A j \in 1..Len(m) : m[j] # Torn
      BY <1>9, <2>3, <3>1 DEF StandsAt, Matches, WholeFrames
    <3>3. Len(m) <= n
      <4>1. ASSUME ~(Len(m) <= n) PROVE FALSE
        <5>1. n+1 \in 1..Len(m) /\ Len(w) = n+1 /\ n+1 \in 1..Len(w)
          BY <1>2, <1>7, <3>1, <3>2, <4>1
        <5> QED BY <1>7, <1>9, <3>2, <5>1
      <4> QED BY <4>1
    <3>4. Len(m) <= Len(wal) /\ \A j \in 1..Len(m) : wal[j] = w[j]
      <4>1. Len(m) <= Len(wal) /\ \A j \in 1..Len(m) : j \in 1..n
        BY ONLY <1>2, <3>1, <3>3, n \in 0..Len(wal)
      <4> QED BY ONLY <1>7, <4>1
    <3> QED BY <1>2, <2>3, <3>1, <3>4, StandsElsewhere
  <2>4. promised' <= promised
    BY <1>2
  <2> QED BY <1>1, <1>7, <1>15, <2>1, <2>2, <2>3, <2>4, FilesKept
<1>17. IntentsInOrder'
  BY DEF IntentsInOrder
<1> QED BY <1>11, <1>12, <1>13, <1>16, <1>17 DEF CrashInv

\* A kill leaves everything that was written; a power loss leaves what was fsynced, or more.
LEMMA CrashCrashInv ==
  ASSUME SafeConfig, Whole, TypeInv', Crash
  PROVE  CrashInv'
<1>1. /\ pc # "down" /\ pc' = "down" /\ snap' = snap /\ intent' = intent /\ hist' = hist
      /\ base' = base /\ promised' = promised
  BY DEF Crash, history
<1>2. TypeOK /\ NothingUnsynced
  BY WholeFacts
<1>3. /\ wal \in Seq(Frame) /\ Len(wal) \in Nat /\ synced \in 0..Len(wal)
      /\ \A n \in 0..Len(wal) : At(n) \in Nat
  BY <1>2, TypeFacts
<1>4. PICK torn \in BOOLEAN : Kill(torn) \/ \E n \in 0..Len(wal) : PowerLoss(n, torn)
  BY DEF Crash
<1>5. CASE Kill(torn)
  <2>1. PICK l \in 0..Len(wal) : l = Len(wal)
    BY <1>3
  <2>2. SubSeq(wal, 1, l) = wal
    BY <1>3, <2>1, SubSeqFull
  <2>3. \/ wal' = SubSeq(wal, 1, l)
        \/ wal' = Append(SubSeq(wal, 1, l), [c |-> Torn, id |-> At(l)])
    BY <1>5, <2>1, <2>2 DEF Kill
  <2>4. synced' = synced /\ "kill" \in Crashes
    BY <1>5 DEF Kill
  <2>5. "power" \notin Crashes \/ Modes \subseteq {"upgrade"}
    BY <2>4 DEF SafeConfig
  <2>6. NothingUnsynced'
    BY <1>1, <2>5 DEF NothingUnsynced
  <2> QED BY <1>1, <2>1, <2>3, <2>4, <2>6, CutCrashInv
<1>6. ASSUME NEW n \in 0..Len(wal), PowerLoss(n, torn) PROVE CrashInv'
  <2>1. synced' = Len(wal') /\ "power" \in Crashes /\ synced <= n
    BY <1>3, <1>6 DEF PowerLoss
  <2>2. PICK p \in Seq(Frame) : p = SubSeq(wal, 1, n)
    BY <1>3, Prefix
  <2>3. \/ wal' = SubSeq(wal, 1, n)
        \/ wal' = Append(SubSeq(wal, 1, n), [c |-> Torn, id |-> At(n)])
    <3>1. CASE torn
      <4>1. PICK f \in Frame : f = [c |-> Torn, id |-> At(n)]
        BY <1>3, FrameOf, ContentFacts
      <4>2. wal' = p \o <<f>>
        BY <1>6, <2>2, <3>1, <4>1 DEF PowerLoss
      <4>3. wal' = Append(p, f)
        BY <2>2, <4>2, Appended
      <4> QED BY <2>2, <4>1, <4>3
    <3>2. CASE ~torn
      <4>1. wal' = p \o <<>>
        BY <1>6, <2>2, <3>2 DEF PowerLoss
      <4>2. wal' = p
        BY <2>2, <4>1, ConcatEmptySeq
      <4> QED BY <2>2, <4>2
    <3> QED BY <3>1, <3>2
  <2>4. NothingUnsynced'
    BY <1>1, <2>1 DEF NothingUnsynced
  <2> QED BY <1>1, <2>1, <2>3, <2>4, CutCrashInv
<1> QED BY <1>4, <1>5, <1>6

\* Recovers, of the files as they are.
LEMMA RecoversNow ==
  ASSUME Whole, NEW n \in 0..Len(wal), n = Len(wal) \/ ("power" \in Crashes /\ synced <= n)
  PROVE  Recover(snap, intent, SubSeq(wal, 1, n)) = After(hist, AtIn(wal, base, n))
<1>1. TypeOK /\ TornOnlyWhenDown /\ SnapIsHeld
  BY WholeFacts
<1>2. Chained(wal, base, hist)
  BY WholeFacts
<1>3. /\ snap \in Shot \cup {None} /\ intent \in Seq(Intent) /\ wal \in Seq(Frame)
      /\ synced \in 0..Len(wal) /\ base \in Nat /\ hist \in Seq(Content)
  BY <1>1, TypeFacts
<1>4. TornLast(wal, base)
  BY <1>1, CrashFacts
<1>5. HeldIn(snap, intent, wal, synced, base, hist, pc)
  BY <1>1 DEF SnapIsHeld
<1> QED BY <1>2, <1>3, <1>4, <1>5, Recovers

\* Opening replays what is held and what is not; the store's commits are those its WAL reaches.
LEMMA OpenCrashInv ==
  ASSUME Whole, TypeInv', Open
  PROVE  CrashInv'
<1>1. /\ pc = "down" /\ pc' = "idle" /\ snap' = snap /\ intent' = intent /\ base' = base
      /\ mem' = Recover(snap, intent, wal) /\ hist' = SubSeq(hist, 1, At(ValidLen(Bytes(wal))))
      /\ promised' = IF promised <= Len(hist') THEN promised ELSE Len(hist')
  BY DEF Open
<1>2. /\ TypeOK /\ Chained(wal, base, hist) /\ TornOnlyWhenDown /\ SnapIsHeld /\ PromisesKept
      /\ NothingUnsynced /\ TypeOK' /\ IdsInOrder'
  BY WholeFacts DEF TypeInv
<1>3. /\ wal \in Seq(Frame) /\ Len(wal) \in Nat /\ synced \in 0..Len(wal) /\ base \in Nat
      /\ hist \in Seq(Content) /\ Len(hist) \in Nat /\ intent \in Seq(Intent) /\ promised \in Nat
      /\ snap \in Shot \cup {None}
      /\ \A i \in 0..Len(wal) : At(i) \in Nat /\ At(i) = AtIn(wal, base, i)
  BY <1>2, TypeFacts
<1>4. PICK l \in 0..Len(wal) : l = Len(wal) /\ SubSeq(wal, 1, l) = wal
  BY <1>3, SubSeqFull
<1>5. TornLast(wal, base)
  BY <1>2, CrashFacts
<1>6. PICK n \in 0..l : n = ValidLen(Bytes(wal)) /\ AtIn(wal, base, n) = AtIn(wal, base, l)
  <2>1. PICK n \in 0..l : /\ n = ValidLen(Bytes(SubSeq(wal, 1, l)))
                          /\ AtIn(wal, base, n) = AtIn(wal, base, l)
    BY ONLY <1>3, <1>5, l \in 0..Len(wal), PrefixReach
  <2> QED BY <1>4, <2>1
<1>7. n \in 0..Len(wal) /\ n \in Nat
  BY <1>3, <1>4
<1>8. PICK k \in Nat : k = At(n) /\ k = AtIn(wal, base, n) /\ k = AtIn(wal, base, l) /\ k <= Len(hist)
  <2>1. Linked(wal, base, hist, n, n)
    BY <1>2, <1>7 DEF Chained
  <2>2. AtIn(wal, base, n) <= Len(hist)
    BY <2>1 DEF Linked
  <2> QED BY <1>3, <1>6, <1>7, <2>2
<1>9. PICK g \in Seq(Content) : /\ g = hist' /\ Len(g) = k /\ \A i \in 1..k : g[i] = hist[i]
  <2>1. k \in 0..Len(hist)
    BY <1>3, <1>8
  <2> QED BY <1>1, <1>3, <1>6, <1>8, <2>1, Prefix
<1>10. PICK w \in Seq(Frame) : /\ w = wal' /\ w = SubSeq(wal, 1, n) /\ Len(w) = n
                               /\ (\A i \in 1..n : w[i] = wal[i]) /\ AtIn(w, base, n) = k
  <2>1. wal' = SubSeq(wal, 1, n)
    BY <1>2, <1>6, OpenLeavesWhole
  <2>2. n \in 0..n
    BY <1>7
  <2>3. PICK w : w = SubSeq(wal, 1, n)
    OBVIOUS
  <2>4. /\ w \in Seq(Frame) /\ Len(w) = n /\ (\A i \in 1..n : w[i] = wal[i])
        /\ \A i \in 0..n : AtIn(w, base, i) = AtIn(wal, base, i)
    BY ONLY <1>3, <1>7, <2>3, AtInPrefix
  <2>5. AtIn(w, base, n) = k
    BY <1>8, <2>2, <2>4
  <2> QED BY <2>1, <2>3, <2>4, <2>5
<1>11. Chained(w, base, g)
  <2>1. Len(g) \in Nat /\ AtIn(wal, base, n) <= Len(g) /\ \A i \in 1..AtIn(wal, base, n) : g[i] = hist[i]
    BY <1>8, <1>9
  <2>2. Chained(SubSeq(wal, 1, n), base, g)
    BY ONLY <1>2, <1>3, <1>7, <2>1, ChainedPrefix
  <2> QED BY <1>10, <2>2
<1>12. Chained(wal, base, hist)'
  BY <1>1, <1>9, <1>10, <1>11
<1>13. \A i \in 1..n : wal[i].c # Torn /\ w[i].c # Torn
  <2>1. Bytes(wal) \in Seq(Content) /\ \A i \in 1..Len(wal) : Bytes(wal)[i] = wal[i].c
    BY <1>3, BytesFacts
  <2>2. \A i \in 1..n : Bytes(wal)[i] # Torn
    BY <1>6, <2>1, ValidLenFacts
  <2>3. \A i \in 1..n : i \in 1..Len(wal)
    BY <1>3, <1>7
  <2> QED BY <1>10, <2>1, <2>2, <2>3
<1>14. TornOnlyWhenDown'
  BY <1>10, <1>13 DEF TornOnlyWhenDown
<1>15. MemIsCurrent'
  <2>1. Recover(snap, intent, SubSeq(wal, 1, l)) = After(hist, AtIn(wal, base, l))
    BY <1>4, RecoversNow
  <2>2. After(g, k) = After(hist, k)
    BY <1>9, AfterSame
  <2>3. mem' = After(hist', Len(hist'))
    BY <1>1, <1>4, <1>8, <1>9, <2>1, <2>2
  <2>4. At(Len(wal))' = Len(hist')
    <3>1. At(Len(wal))' = AtIn(wal', base', Len(wal'))
      BY DEF At, AtIn
    <3> QED BY <1>1, <1>9, <1>10, <3>1
  <2> QED BY <1>1, <2>3, <2>4 DEF MemIsCurrent
<1>16. synced' \in 0..n /\ (synced' = synced \/ synced' = n)
  BY <1>2, <1>6, OpenLeavesWhole
<1>17. NothingUnsynced'
  <2>1. "power" \in Crashes /\ ~(Modes \subseteq {"upgrade"}) => synced = Len(wal)
    BY <1>1, <1>2 DEF NothingUnsynced
  <2>2. synced = Len(wal) => synced' = n
    BY <1>3, <1>7, <1>16
  <2> QED BY <1>1, <1>10, <2>1, <2>2 DEF NothingUnsynced
<1>18. PICK x \in 0..Len(wal) : /\ x = Bound /\ x <= n
                                /\ x = IF "power" \in Crashes /\ synced < n THEN synced ELSE n
  <2>1. Bound \in 0..Len(wal) /\ Bound <= n
    BY <1>2, <1>6, CrashFacts
  <2> QED BY <1>6, <2>1 DEF Bound, BoundOf
<1>19. Bound' = IF "power" \in Crashes /\ synced' < n THEN synced' ELSE n
  <2>1. ValidLen(Bytes(w)) = n
    BY <1>10, <1>13, WholeWal
  <2> QED BY <1>10, <2>1 DEF Bound, BoundOf
<1>20. Bound <= Bound'
  BY <1>3, <1>7, <1>16, <1>18, <1>19
<1>21. SnapIsHeld' /\ PromisesKept'
  <2>1. \A i \in 1..Bound : wal'[i] = wal[i]
    BY <1>7, <1>10, <1>18
  <2>2. \A q \in 0..Bound : After(hist', At(q)) = After(hist, At(q))
    <3> SUFFICES ASSUME NEW q \in 0..x PROVE After(g, At(q)) = After(hist, At(q))
      BY <1>9, <1>18
    <3>1. q \in 0..n /\ n \in 0..Len(wal) /\ q \in 0..Len(wal)
      BY <1>3, <1>7, <1>18
    <3>2. Linked(wal, base, hist, q, n)
      BY <1>2, <3>1 DEF Chained
    <3>3. AtIn(wal, base, q) <= AtIn(wal, base, n)
      BY <3>2 DEF Linked
    <3>4. PICK j \in Nat : j = At(q) /\ j <= k
      BY <1>3, <1>8, <3>1, <3>3
    <3>5. \A i \in 1..j : g[i] = hist[i]
      BY <1>9, <3>4
    <3> QED BY <3>4, <3>5, AfterSame
  <2>3. ASSUME NEW i \in 1..Len(intent), StandsAt(i, intent, snap, Bytes(w))
        PROVE  StandsAt(i, intent, snap, Bytes(wal))
    <3>1. PICK m \in Nat : m = Len(intent[i].wal)
      BY <1>3, IntentFacts
    <3>2. m <= n
      <4>1. Len(Bytes(w)) = n
        BY <1>10, BytesFacts
      <4> QED BY <2>3, <3>1, <4>1 DEF StandsAt, Matches
    <3>3. m <= Len(wal) /\ \A j \in 1..m : wal[j] = w[j]
      BY <1>3, <1>7, <1>10, <3>2
    <3> QED BY <1>3, <2>3, <3>1, <3>3, StandsElsewhere
  <2>4. promised' <= promised
    BY <1>1, <1>3, <1>9
  <2>5. \A i \in 1..Len(intent) :
          StandsAt(i, intent, snap, Bytes(wal')) => StandsAt(i, intent, snap, Bytes(wal))
    BY <1>10, <2>3
  <2>6. pc' # "replaced"
    BY <1>1
  <2> QED BY <1>1, <1>2, <1>20, <2>1, <2>2, <2>4, <2>5, <2>6, FilesKept
<1>22. IntentsInOrder'
  BY <1>1 DEF IntentsInOrder
<1> QED BY <1>12, <1>14, <1>15, <1>17, <1>21, <1>22 DEF CrashInv

-----------------------------------------------------------------------------
(* Every behaviour.                                                        *)

\* A new store has nothing to recover.
LEMMA InitCrashInv == Init => CrashInv
<1> SUFFICES ASSUME Init PROVE CrashInv
  OBVIOUS
<1>1. /\ wal = <<>> /\ synced = 0 /\ snap = None /\ intent = <<>> /\ pc = "idle" /\ mem = Empty
      /\ hist = <<>> /\ base = 0 /\ promised = 0
  BY DEF Init
<1>2. TypeOK
  BY InitTypeInv DEF TypeInv
<1>3. /\ wal \in Seq(Frame) /\ Len(wal) = 0 /\ Len(hist) = 0 /\ Len(intent) = 0
      /\ (\A i \in 1..0 : FALSE) /\ \A i \in 0..0 : i = 0
  BY <1>1, EmptySeq
<1>4. Chained(wal, base, hist)
  <2>1. Chained(wal, 0, hist)
    <3>1. 0 \in Nat /\ 0 = Len(hist) /\ Len(wal) <= 1
      BY <1>3
    <3>2. \A i \in 1..Len(wal) : wal[i] = [c |-> Declare, id |-> 0] /\ DeclAt(hist, 0) = TRUE
      BY <1>3
    <3> QED BY ONLY <1>3, <3>1, <3>2, ChainedBaseline
  <2> QED BY <1>1, <2>1
<1>5. TornOnlyWhenDown
  BY <1>3 DEF TornOnlyWhenDown
<1>6. After(hist, 0) = Empty
  <2>1. DeclAfter(FALSE, hist, 0, 0) = FALSE
    <3>1. 0 \in Nat
      OBVIOUS
    <3>2. \A d : DeclAfter(d, hist, 0, 0) = d
      BY <3>1, DeclAfterStep
    <3> QED BY ONLY <3>2, Zenon
  <2>2. {i \in 1..0 : hist[i] \in Write} = {}
    BY <1>3
  <2> QED BY <2>1, <2>2 DEF After, Empty
<1>7. At(0) = 0
  BY <1>1 DEF At
<1>8. MemIsCurrent
  BY <1>1, <1>3, <1>6, <1>7 DEF MemIsCurrent
<1>9. NothingUnsynced
  BY <1>1, <1>3 DEF NothingUnsynced
<1>10. Bound = 0
  <2>1. Bound \in 0..0
    BY <1>2, <1>3, <1>5, CrashFacts
  <2> QED BY <1>3, <2>1
<1>11. PromisesKept
  BY <1>1, <1>7, <1>10 DEF PromisesKept
<1>12. SnapIsHeld
  <2>1. SnapAt(snap, wal, synced, base, hist, 0)
    <3>1. BoundOf(wal, synced) = 0 /\ AtIn(wal, base, 0) = 0
      BY <1>1, <1>10 DEF Bound, AtIn
    <3> QED BY <1>1, <1>6, <3>1 DEF SnapAt, GraphIn
  <2>2. ~HasOwnMark(snap)
    BY <1>1 DEF HasOwnMark
  <2> QED BY <1>1, <1>3, <2>1, <2>2 DEF SnapIsHeld, HeldIn
<1>13. IntentsInOrder
  BY <1>1 DEF IntentsInOrder
<1> QED BY <1>4, <1>5, <1>8, <1>9, <1>11, <1>12, <1>13 DEF CrashInv

\* Every step keeps it; a failed append or fsync is not a step of a safe configuration.
LEMMA NextCrashInv ==
  ASSUME SafeConfig, Whole, TypeInv', [Next]_vars
  PROVE  CrashInv'
<1>1. CASE SettleSnapshotIntent
  BY <1>1, SettleCrashInv
<1>2. ASSUME NEW c \in Write \cup {Declare, Drop}, AppendFrame(c) PROVE CrashInv'
  BY <1>2, AppendCrashInv
<1>3. CASE SyncWal \/ SyncForUpgrade
  BY <1>3, SyncCrashInv
<1>4. ASSUME NEW tail \in MarkerTails, ApplyFrameAndAck(tail) PROVE CrashInv'
  BY <1>4, ApplyCrashInv
<1>5. CASE AppendFails \/ SyncFails
  BY <1>5 DEF AppendFails, SyncFails, SafeConfig
<1>6. ASSUME NEW m \in Modes, WriteIntent(m) PROVE CrashInv'
  BY <1>6, WriteIntentCrashInv
<1>7. CASE WriteSnapshot
  BY <1>7, WriteSnapshotCrashInv
<1>8. CASE TruncateWal \/ ArchiveWal \/ BaselineAfterArchive
  BY <1>8, ReplaceCrashInv
<1>9. CASE EmptyIntent \/ SnapshotFails
  BY <1>9, EndCrashInv
<1>10. CASE Crash
  BY <1>10, CrashCrashInv
<1>11. CASE Open
  BY <1>11, OpenCrashInv
<1>12. CASE UNCHANGED vars
  <2>1. /\ wal' = wal /\ synced' = synced /\ snap' = snap /\ intent' = intent /\ pc' = pc /\ mem' = mem
        /\ cur' = cur /\ mode' = mode /\ hist' = hist /\ base' = base /\ promised' = promised
    BY <1>12 DEF vars, files, handle, history
  <2>2. CrashInv
    BY DEF Whole
  <2>3. Chained(wal, base, hist)' /\ TornOnlyWhenDown'
    BY <2>1, <2>2 DEF CrashInv, TornOnlyWhenDown, At
  <2>4. MemIsCurrent'
    BY <2>1, <2>2 DEF CrashInv, MemIsCurrent, At
  <2>5. NothingUnsynced' /\ PromisesKept'
    BY <2>1, <2>2 DEF CrashInv, NothingUnsynced, PromisesKept, Bound, At
  <2>6. SnapIsHeld'
    BY <2>1, <2>2 DEF CrashInv, SnapIsHeld
  <2>7. IntentsInOrder'
    BY <2>1, <2>2 DEF CrashInv, IntentsInOrder, Image
  <2> QED BY <2>3, <2>4, <2>5, <2>6, <2>7 DEF CrashInv
<1> QED
  BY <1>1, <1>2, <1>3, <1>4, <1>5, <1>6, <1>7, <1>8, <1>9, <1>10, <1>11, <1>12 DEF Next

\* What the invariant says of a crash at this moment.
LEMMA WholeIsCrashSafe == Whole => CrashSafe
<1> SUFFICES ASSUME Whole,
                    NEW n \in 0..Len(wal), n = Len(wal) \/ ("power" \in Crashes /\ synced <= n)
             PROVE  /\ Recover(snap, intent, SubSeq(wal, 1, n)) = After(hist, At(n))
                    /\ promised <= At(n)
  BY DEF CrashSafe
<1>1. /\ TypeOK /\ Chained(wal, base, hist) /\ TornOnlyWhenDown /\ SnapIsHeld /\ PromisesKept
  BY WholeFacts
<1>2. /\ snap \in Shot \cup {None} /\ intent \in Seq(Intent) /\ wal \in Seq(Frame) /\ Len(wal) \in Nat
      /\ synced \in 0..Len(wal) /\ base \in Nat /\ hist \in Seq(Content) /\ promised \in Nat
      /\ \A i \in 0..Len(wal) : At(i) \in Nat /\ At(i) = AtIn(wal, base, i)
  BY <1>1, TypeFacts
<1>3. Bound \in 0..Len(wal) /\ Bound = BoundOf(wal, synced)
  BY <1>1, CrashFacts
<1>4. Recover(snap, intent, SubSeq(wal, 1, n)) = After(hist, AtIn(wal, base, n))
  BY RecoversNow
<1>5. Bound <= n
  BY <1>2, <1>3, BoundFacts
<1>6. AtIn(wal, base, Bound) <= AtIn(wal, base, n)
  <2>1. Bound \in 0..n
    BY <1>2, <1>3, <1>5
  <2>2. Linked(wal, base, hist, Bound, n)
    BY <1>1, <2>1 DEF Chained
  <2> QED BY <2>2 DEF Linked
<1>7. promised <= At(n)
  BY <1>1, <1>2, <1>3, <1>6 DEF PromisesKept
<1> QED BY <1>2, <1>4, <1>7

\* What it says of a handle that is idle.
LEMMA WholeIsReopen == Whole => ReopenIsIdentity
<1> SUFFICES ASSUME Whole, pc = "idle" PROVE Recover(snap, intent, wal) = mem
  BY DEF ReopenIsIdentity
<1>1. TypeOK /\ MemIsCurrent
  BY WholeFacts
<1>2. wal \in Seq(Frame) /\ Len(wal) \in Nat
  BY <1>1, TypeFacts
<1>3. PICK n \in 0..Len(wal) : n = Len(wal) /\ SubSeq(wal, 1, n) = wal
  BY <1>2, SubSeqFull
<1>4. Recover(snap, intent, SubSeq(wal, 1, n)) = After(hist, At(n))
  BY <1>3, WholeIsCrashSafe DEF CrashSafe
<1>5. At(n) = Len(hist) /\ mem = After(hist, Len(hist))
  BY <1>1, <1>3 DEF MemIsCurrent, Quiet
<1> QED BY <1>3, <1>4, <1>5

\* The whole invariant, in every reachable state of a safe configuration.
LEMMA AlwaysWhole ==
  ASSUME SafeConfig
  PROVE  Spec => []Whole
<1>1. Init => Whole
  BY InitTypeInv, InitIntentInv, InitCrashInv DEF Whole
<1>2. Whole /\ [Next]_vars => Whole'
  <2> SUFFICES ASSUME Whole, [Next]_vars PROVE Whole'
    OBVIOUS
  <2>1. TypeInv'
    BY NextTypeInv DEF Whole
  <2>2. IntentInv'
    BY NextIntentInv DEF Whole, TypeInv
  <2>3. CrashInv'
    BY <2>1, NextCrashInv
  <2> QED BY <2>1, <2>2, <2>3 DEF Whole
<1> QED BY <1>1, <1>2, PTL DEF Spec

\* log_then_apply_with, snapshot_with and load_from_disk: a kill or a power loss between any
\* two file operations of a commit or a snapshot, in any order with failed snapshots and
\* earlier crashes, leaves files from which an open rebuilds exactly the graph after the last
\* commit the WAL still reaches, and no commit acknowledged as durable is missing.
THEOREM CrashesLoseNothing ==
  ASSUME SafeConfig
  PROVE  Spec => []CrashSafe
BY AlwaysWhole, WholeIsCrashSafe, PTL

\* load_from_disk of a store closed by an idle handle rebuilds the handle's graph: the WAL mark
\* of the snapshot and the intent beside it make every frame be applied exactly once.
THEOREM ReopenRebuilds ==
  ASSUME SafeConfig
  PROVE  Spec => []ReopenIsIdentity
BY AlwaysWhole, WholeIsReopen, PTL
-----------------------------------------------------------------------------
(* Appends and fsyncs that fail, in a store that takes no snapshot.        *)

\* One more frame that neither writes nor declares, and reaches no further commit.
LEMMA ChainedSilent ==
  ASSUME NEW w \in Seq(Frame), NEW b \in Nat, NEW h \in Seq(Content), Chained(w, b, h),
         NEW f \in Frame, f.c \in {Marker, Torn}, f.id = AtIn(w, b, Len(w))
  PROVE  Chained(Append(w, f), b, h) /\ AtIn(Append(w, f), b, Len(Append(w, f))) = f.id
<1>1. f.c \notin Write /\ ~IsDeclaration(f.c)
  BY StoreAssumption DEF IsDeclaration, Marker, Torn, Declare, Drop
<1>2. Len(w) \in Nat /\ Len(h) \in Nat /\ Len(w) \in 0..Len(w)
  BY LenProperties
<1>3. PICK a \in Nat : a = AtIn(w, b, Len(w)) /\ a = f.id /\ a <= Len(h)
  <2>1. AtIn(w, b, Len(w)) \in Nat
    BY <1>2, AtInType
  <2>2. Linked(w, b, h, Len(w), Len(w))
    BY <1>2 DEF Chained
  <2>3. AtIn(w, b, Len(w)) <= Len(h)
    BY <2>2 DEF Linked
  <2> QED BY <2>1, <2>3
<1>4. {j \in a+1..a : h[j] \in Write} = {}
  OBVIOUS
<1>5. /\ Len(h) <= Len(h) /\ (\A i \in 1..Len(h) : h[i] = h[i]) /\ a <= f.id /\ f.id <= Len(h)
      /\ {j \in a+1..f.id : h[j] \in Write} = (IF f.c \in Write THEN {f.id} ELSE {})
  BY <1>1, <1>2, <1>3, <1>4
<1>6. DeclAt(h, f.id) = (IF IsDeclaration(f.c) THEN f.c = Declare ELSE DeclAt(h, a))
  BY <1>1, <1>3
<1>7. Chained(Append(w, f), b, h)
  BY <1>3, <1>5, <1>6, ChainedAppended
<1>8. PICK v : v = Append(w, f)
  OBVIOUS
<1>9. Len(v) = Len(w) + 1 /\ AtIn(v, b, Len(w) + 1) = f.id
  BY ONLY <1>8, w \in Seq(Frame), b \in Nat, f \in Frame, AtInAppended
<1>10. AtIn(v, b, Len(v)) = f.id
  BY ONLY <1>9
<1> QED BY ONLY <1>7, <1>8, <1>10

\* What the marker of a commit or a failed append leaves in the WAL.
LEMMA TailFaultInv ==
  ASSUME TypeInv, FaultInv, TypeInv', NEW c \in {Marker, Torn},
         wal' = wal \/ wal' = Append(wal, [c |-> c, id |-> Len(hist)]),
         hist' = hist, base' = base, snap' = snap, intent' = intent,
         pc # "down", pc' \in {"idle", "appended", "synced"}
  PROVE  FaultInv'
<1>1. TypeOK /\ Chained(wal, base, hist) /\ WalIsAll /\ At(Len(wal)) = Len(hist)
  BY DEF TypeInv, FaultInv, ReachesEnd
<1>2. /\ wal \in Seq(Frame) /\ Len(wal) \in Nat /\ base \in Nat /\ hist \in Seq(Content) /\ Len(hist) \in Nat
      /\ \A n \in 0..Len(wal) : At(n) \in Nat /\ At(n) = AtIn(wal, base, n)
  BY <1>1, TypeFacts
<1>3. AtIn(wal, base, Len(wal)) = Len(hist)
  BY <1>1, <1>2
<1>4. WalIsAll'
  BY <1>1 DEF WalIsAll
<1>5. CASE wal' = wal
  <2>1. Chained(wal', base', hist') /\ At(Len(wal))' = Len(hist')
    BY <1>1, <1>5 DEF At
  <2> QED BY <1>4, <2>1 DEF FaultInv, ReachesEnd
<1>6. CASE wal' = Append(wal, [c |-> c, id |-> Len(hist)])
  <2>1. c \in Content
    BY ContentFacts
  <2>2. PICK f \in Frame : f = [c |-> c, id |-> Len(hist)] /\ f.c = c /\ f.id = Len(hist)
    BY <1>2, <2>1, FrameOf
  <2>3. wal' = Append(wal, f)
    BY <1>6, <2>2
  <2>4. f.c \in {Marker, Torn} /\ f.id = AtIn(wal, base, Len(wal))
    BY <1>3, <2>2
  <2>5. Chained(Append(wal, f), base, hist) /\ AtIn(Append(wal, f), base, Len(Append(wal, f))) = f.id
    BY ONLY <1>1, <1>2, <2>4, f \in Frame, ChainedSilent
  <2>6. Chained(wal', base', hist') /\ AtIn(wal', base', Len(wal')) = Len(hist')
    BY <2>2, <2>3, <2>5
  <2>7. At(Len(wal))' = Len(hist')
    BY <2>6 DEF At, AtIn
  <2> QED BY <1>4, <2>6, <2>7 DEF FaultInv, ReachesEnd
<1> QED BY <1>5, <1>6

\* The commit that an append adds is the next one, whether or not the graph of the handle holds
\* those before it.
LEMMA AppendFaultInv ==
  ASSUME TypeInv, FaultInv, NEW c \in Write \cup {Declare, Drop}, AppendFrame(c)
  PROVE  FaultInv'
<1>1. /\ snap' = snap /\ intent' = intent /\ base' = base /\ pc = "idle" /\ pc' = "appended"
      /\ wal' = Append(wal, [c |-> c, id |-> Len(hist) + 1]) /\ hist' = Append(hist, c)
  BY DEF AppendFrame
<1>2. TypeOK /\ Chained(wal, base, hist) /\ WalIsAll /\ At(Len(wal)) = Len(hist)
  BY <1>1 DEF TypeInv, FaultInv, ReachesEnd
<1>3. /\ wal \in Seq(Frame) /\ Len(wal) \in Nat /\ base \in Nat /\ hist \in Seq(Content) /\ Len(hist) \in Nat
      /\ \A n \in 0..Len(wal) : At(n) \in Nat /\ At(n) = AtIn(wal, base, n)
  BY <1>2, TypeFacts
<1>4. c \in Content
  BY ContentFacts
<1>5. PICK L \in Nat : L = Len(hist)
  BY <1>3
<1>6. PICK k \in Nat : k = L + 1
  OBVIOUS
<1>7. PICK f \in Frame : f = [c |-> c, id |-> k] /\ f.c = c /\ f.id = k
  BY <1>4, FrameOf
<1>8. wal' = Append(wal, f)
  BY <1>1, <1>5, <1>6, <1>7
<1>9. PICK g \in Seq(Content) : /\ g = hist' /\ Len(g) = k /\ g[k] = c
                                /\ \A i \in 1..L : g[i] = hist[i]
  <2>1. /\ hist' \in Seq(Content) /\ Len(hist') = Len(hist) + 1
        /\ (\A i \in 1..Len(hist) : hist'[i] = hist[i]) /\ hist'[Len(hist) + 1] = c
    BY <1>1, <1>3, <1>4, Appended
  <2>2. hist' \in Seq(Content) /\ Len(hist') = k /\ hist'[k] = c /\ \A i \in 1..L : hist'[i] = hist[i]
    BY ONLY <1>5, <1>6, <2>1
  <2> QED BY ONLY <2>2
<1>10. AtIn(wal, base, Len(wal)) = L
  BY <1>2, <1>3, <1>5
<1>11. {j \in L+1..f.id : g[j] \in Write} = (IF f.c \in Write THEN {f.id} ELSE {})
  <2>1. \A j : j \in L+1..k <=> j = k
    BY <1>6
  <2> QED BY <1>7, <1>9, <2>1
<1>12. DeclAt(g, f.id) = (IF IsDeclaration(f.c) THEN f.c = Declare ELSE DeclAt(g, L))
  <2>1. CASE IsDeclaration(c)
    BY <1>6, <1>7, <1>9, <2>1, DeclAtNext
  <2>2. CASE ~IsDeclaration(c)
    BY <1>6, <1>7, <1>9, <2>2, DeclAtNext
  <2> QED BY <2>1, <2>2
<1>13. Len(hist) <= Len(g) /\ (\A i \in 1..Len(hist) : g[i] = hist[i]) /\ L <= f.id /\ f.id <= Len(g)
  BY <1>5, <1>6, <1>7, <1>9
<1>14. Chained(Append(wal, f), base, g)
  BY ONLY <1>2, <1>3, <1>10, <1>11, <1>12, <1>13, L \in Nat, f \in Frame, g \in Seq(Content), ChainedAppended
<1>15. AtIn(Append(wal, f), base, Len(Append(wal, f))) = k
  BY <1>3, <1>7, AtInAppended
<1>16. At(Len(wal))' = Len(hist')
  <2>1. AtIn(wal', base', Len(wal')) = Len(hist')
    BY <1>1, <1>8, <1>9, <1>15
  <2> QED BY <2>1 DEF At, AtIn
<1>17. WalIsAll'
  BY <1>1, <1>2 DEF WalIsAll
<1> QED BY <1>1, <1>8, <1>9, <1>14, <1>16, <1>17 DEF FaultInv, ReachesEnd

\* A crash leaves a prefix of the WAL, with torn bytes after it perhaps.
LEMMA CutFaultInv ==
  ASSUME TypeInv, FaultInv, NEW n \in 0..Len(wal), pc' = "down",
         snap' = snap, intent' = intent, hist' = hist, base' = base,
         \/ wal' = SubSeq(wal, 1, n)
         \/ wal' = Append(SubSeq(wal, 1, n), [c |-> Torn, id |-> At(n)])
  PROVE  FaultInv'
<1>1. TypeOK /\ Chained(wal, base, hist) /\ WalIsAll
  BY DEF TypeInv, FaultInv
<1>2. /\ wal \in Seq(Frame) /\ Len(wal) \in Nat /\ base \in Nat /\ hist \in Seq(Content) /\ Len(hist) \in Nat
      /\ n \in Nat /\ At(n) \in Nat /\ At(n) = AtIn(wal, base, n)
  BY <1>1, TypeFacts
<1>3. PICK v \in Seq(Frame) : v = SubSeq(wal, 1, n) /\ Len(v) = n /\ AtIn(v, base, n) = At(n)
  <2>1. n \in 0..n
    BY <1>2
  <2>2. PICK v : v = SubSeq(wal, 1, n)
    OBVIOUS
  <2>3. v \in Seq(Frame) /\ Len(v) = n /\ \A i \in 0..n : AtIn(v, base, i) = AtIn(wal, base, i)
    BY ONLY <1>2, <2>2, n \in 0..Len(wal), AtInPrefix
  <2> QED BY ONLY <1>2, <2>1, <2>2, <2>3
<1>4. Chained(v, base, hist)
  <2>1. Linked(wal, base, hist, n, n)
    BY <1>1, <1>2 DEF Chained
  <2>2. AtIn(wal, base, n) <= Len(hist)
    BY <2>1 DEF Linked
  <2> QED BY <1>1, <1>2, <1>3, <2>2, ChainedPrefix
<1>5. CASE wal' = SubSeq(wal, 1, n)
  BY <1>1, <1>3, <1>4, <1>5 DEF FaultInv, ReachesEnd, WalIsAll
<1>6. CASE wal' = Append(SubSeq(wal, 1, n), [c |-> Torn, id |-> At(n)])
  <2>1. PICK f \in Frame : f = [c |-> Torn, id |-> At(n)] /\ f.c = Torn /\ f.id = At(n)
    BY <1>2, ContentFacts, FrameOf
  <2>2. wal' = Append(v, f)
    BY <1>3, <1>6, <2>1
  <2>3. f.c \in {Marker, Torn} /\ f.id = AtIn(v, base, Len(v))
    BY <1>3, <2>1
  <2>4. Chained(Append(v, f), base, hist)
    BY ONLY <1>2, <1>4, <2>3, v \in Seq(Frame), f \in Frame, ChainedSilent
  <2> QED BY <1>1, <2>2, <2>4 DEF FaultInv, ReachesEnd, WalIsAll
<1> QED BY <1>5, <1>6

LEMMA CrashFaultInv ==
  ASSUME TypeInv, FaultInv, Crash
  PROVE  FaultInv'
<1>1. pc' = "down" /\ snap' = snap /\ intent' = intent /\ hist' = hist /\ base' = base
  BY DEF Crash, history
<1>2. /\ wal \in Seq(Frame) /\ Len(wal) \in Nat
      /\ \A n \in 0..Len(wal) : At(n) \in Nat
  BY TypeFacts DEF TypeInv
<1>3. PICK torn \in BOOLEAN : Kill(torn) \/ \E n \in 0..Len(wal) : PowerLoss(n, torn)
  BY DEF Crash
<1>4. CASE Kill(torn)
  <2>1. PICK l \in 0..Len(wal) : l = Len(wal)
    BY <1>2
  <2>2. SubSeq(wal, 1, l) = wal
    BY <1>2, <2>1, SubSeqFull
  <2>3. \/ wal' = SubSeq(wal, 1, l)
        \/ wal' = Append(SubSeq(wal, 1, l), [c |-> Torn, id |-> At(l)])
    BY <1>4, <2>1, <2>2 DEF Kill
  <2> QED BY <1>1, <2>3, CutFaultInv
<1>5. ASSUME NEW n \in 0..Len(wal), PowerLoss(n, torn) PROVE FaultInv'
  <2>1. PICK p \in Seq(Frame) : p = SubSeq(wal, 1, n)
    BY <1>2, Prefix
  <2>2. \/ wal' = SubSeq(wal, 1, n)
        \/ wal' = Append(SubSeq(wal, 1, n), [c |-> Torn, id |-> At(n)])
    <3>1. CASE torn
      <4>1. PICK f \in Frame : f = [c |-> Torn, id |-> At(n)]
        BY <1>2, FrameOf, ContentFacts
      <4>2. wal' = p \o <<f>>
        BY <1>5, <2>1, <3>1, <4>1 DEF PowerLoss
      <4>3. wal' = Append(p, f)
        BY <2>1, <4>2, Appended
      <4> QED BY <2>1, <4>1, <4>3
    <3>2. CASE ~torn
      <4>1. wal' = p \o <<>>
        BY <1>5, <2>1, <3>2 DEF PowerLoss
      <4>2. wal' = p
        BY <2>1, <4>1, ConcatEmptySeq
      <4> QED BY <2>1, <4>2
    <3> QED BY <3>1, <3>2
  <2> QED BY <1>1, <2>2, CutFaultInv
<1> QED BY <1>3, <1>4, <1>5

\* Opening cuts the WAL at its first torn bytes, and the commits with it.
LEMMA OpenFaultInv ==
  ASSUME TypeInv, FaultInv, Open
  PROVE  FaultInv'
<1>1. /\ pc = "down" /\ pc' = "idle" /\ snap' = snap /\ intent' = intent /\ base' = base
      /\ hist' = SubSeq(hist, 1, At(ValidLen(Bytes(wal))))
  BY DEF Open
<1>2. TypeOK /\ Chained(wal, base, hist) /\ WalIsAll
  BY DEF TypeInv, FaultInv
<1>3. /\ wal \in Seq(Frame) /\ Len(wal) \in Nat /\ base \in Nat /\ hist \in Seq(Content) /\ Len(hist) \in Nat
      /\ ValidLen(Bytes(wal)) \in 0..Len(wal)
      /\ \A i \in 0..Len(wal) : At(i) \in Nat /\ At(i) = AtIn(wal, base, i)
  BY <1>2, TypeFacts
<1>4. PICK n \in 0..Len(wal) : n = ValidLen(Bytes(wal)) /\ n \in Nat /\ n \in 0..n
  BY <1>3
<1>5. PICK k \in Nat : k = At(n) /\ k = AtIn(wal, base, n) /\ k <= Len(hist) /\ k \in 0..Len(hist)
  <2>1. Linked(wal, base, hist, n, n)
    BY <1>2, <1>4 DEF Chained
  <2>2. AtIn(wal, base, n) <= Len(hist)
    BY <2>1 DEF Linked
  <2> QED BY <1>3, <1>4, <2>2
<1>6. PICK g \in Seq(Content) : g = hist' /\ Len(g) = k /\ \A i \in 1..k : g[i] = hist[i]
  BY <1>1, <1>3, <1>4, <1>5, Prefix
<1>7. PICK w \in Seq(Frame) : w = wal' /\ w = SubSeq(wal, 1, n) /\ Len(w) = n /\ AtIn(w, base, n) = k
  <2>1. wal' = SubSeq(wal, 1, n)
    BY <1>2, <1>4, OpenLeavesWhole
  <2>2. PICK w : w = SubSeq(wal, 1, n)
    OBVIOUS
  <2>3. /\ w \in Seq(Frame) /\ Len(w) = n
        /\ \A i \in 0..n : AtIn(w, base, i) = AtIn(wal, base, i)
    BY ONLY <1>3, <2>2, n \in 0..Len(wal), AtInPrefix
  <2>4. AtIn(w, base, n) = k
    BY <1>4, <1>5, <2>3
  <2> QED BY <2>1, <2>2, <2>3, <2>4
<1>8. Chained(w, base, g)
  <2>1. Len(g) \in Nat /\ AtIn(wal, base, n) <= Len(g) /\ \A i \in 1..AtIn(wal, base, n) : g[i] = hist[i]
    BY <1>5, <1>6
  <2>2. Chained(SubSeq(wal, 1, n), base, g)
    BY ONLY <1>2, <1>3, <2>1, n \in 0..Len(wal), ChainedPrefix
  <2> QED BY <1>7, <2>2
<1>9. At(Len(wal))' = Len(hist')
  <2>1. AtIn(wal', base', Len(wal')) = Len(hist')
    BY <1>1, <1>6, <1>7
  <2> QED BY <2>1 DEF At, AtIn
<1>10. WalIsAll'
  BY <1>1, <1>2 DEF WalIsAll
<1> QED BY <1>1, <1>6, <1>7, <1>8, <1>9, <1>10 DEF FaultInv, ReachesEnd

LEMMA EmptyIsAfterNone ==
  ASSUME NEW h
  PROVE  After(h, 0) = Empty
<1>1. DeclAfter(FALSE, h, 0, 0) = FALSE
  <2>1. 0 \in Nat
    OBVIOUS
  <2>2. \A d : DeclAfter(d, h, 0, 0) = d
    BY <2>1, DeclAfterStep
  <2> QED BY ONLY <2>2, Zenon
<1>2. {i \in 1..0 : h[i] \in Write} = {}
  OBVIOUS
<1> QED BY <1>1, <1>2 DEF After, Empty

\* An open of any prefix of the WAL replays the frames before the first torn bytes over nothing.
LEMMA FaultRecovers ==
  ASSUME TypeInv, FaultInv
  PROVE  RecoversPrefix
<1>1. TypeOK /\ Chained(wal, base, hist) /\ snap = None /\ intent = <<>> /\ base = 0
  BY DEF TypeInv, FaultInv, WalIsAll
<1>2. /\ wal \in Seq(Frame) /\ Len(wal) \in Nat /\ base \in Nat /\ hist \in Seq(Content) /\ Len(hist) \in Nat
      /\ intent \in Seq(Intent) /\ \A i \in 0..Len(wal) : AtIn(wal, base, i) \in Nat
  BY <1>1, TypeFacts
<1>3. SUFFICES ASSUME NEW n \in 0..Len(wal)
               PROVE  \E j \in 0..Len(hist) : Recover(snap, intent, SubSeq(wal, 1, n)) = After(hist, j)
  BY DEF RecoversPrefix
<1>4. PICK u \in Seq(Frame) : u = SubSeq(wal, 1, n) /\ Len(u) = n /\ Len(u) \in Nat
  BY <1>2, AtInPrefix, LenProperties
<1>5. Chained(u, base, hist)
  <2>1. Linked(wal, base, hist, n, n)
    BY <1>1, <1>2 DEF Chained
  <2>2. AtIn(wal, base, n) <= Len(hist) /\ AtIn(wal, base, n) \in Nat
    BY <1>2, <2>1 DEF Linked
  <2>3. Chained(SubSeq(wal, 1, n), base, hist)
    BY <1>1, <1>2, <2>2, ChainedPrefix
  <2> QED BY <1>4, <2>3
<1>6. PICK v \in 0..n : v = ValidLen(Bytes(u)) /\ v \in 0..Len(u)
  <2>1. Bytes(u) \in Seq(Content) /\ Len(Bytes(u)) = n
    BY <1>4, BytesFacts
  <2>2. ValidLen(Bytes(u)) \in 0..n
    BY <2>1, ValidLenFacts
  <2> QED BY <1>4, <2>2
<1>7. Held(snap, intent, Bytes(u)) = 0
  <2>1. Len(intent) = 0 /\ Len(<<>>) = 0
    BY <1>1, EmptySeq
  <2>2. StandingIntent(intent, snap, Bytes(u)) = <<>>
    BY <2>1 DEF StandingIntent
  <2>3. HeldMark(snap, intent, Bytes(u)) = <<>>
    BY <1>1, <2>2 DEF HeldMark
  <2> QED BY <2>1, <2>3 DEF Held
<1>8. Recover(snap, intent, u) = Replay(Empty, u, 0, v)
  BY <1>1, <1>6, <1>7 DEF Recover
<1>9. PICK g : g = Empty /\ g = After(hist, AtIn(u, base, 0))
  <2>1. AtIn(u, base, 0) = 0
    BY <1>1 DEF AtIn
  <2> QED BY <2>1, EmptyIsAfterNone
<1>10. 0 \in 0..v /\ 0 \in Nat /\ \A i \in 1..0 : u[i].c \notin Write
  OBVIOUS
<1>11. Replay(g, u, 0, v) = After(hist, AtIn(u, base, v))
  BY ONLY <1>2, <1>5, <1>6, <1>9, <1>10, u \in Seq(Frame), ReplayChained
<1>12. AtIn(u, base, v) \in 0..Len(hist)
  <2>1. Linked(u, base, hist, v, v) /\ AtIn(u, base, v) \in Nat
    <3>1. v \in 0..v
      BY ONLY <1>4, v \in 0..n
    <3>2. Linked(u, base, hist, v, v)
      BY ONLY <1>5, <1>6, <3>1 DEF Chained
    <3>3. AtIn(u, base, v) \in Nat
      BY ONLY <1>2, <1>6, u \in Seq(Frame), AtInType
    <3> QED BY <3>2, <3>3
  <2>2. AtIn(u, base, v) <= Len(hist)
    BY <2>1 DEF Linked
  <2> QED BY <1>2, <2>1, <2>2
<1> QED BY <1>4, <1>8, <1>9, <1>11, <1>12

LEMMA InitFaultInv == Init => FaultInv
<1> SUFFICES ASSUME Init PROVE FaultInv
  OBVIOUS
<1>1. wal = <<>> /\ snap = None /\ intent = <<>> /\ pc = "idle" /\ hist = <<>> /\ base = 0
  BY DEF Init
<1>2. Chained(wal, base, hist)
  BY InitCrashInv DEF CrashInv
<1>3. At(Len(wal)) = Len(hist)
  BY <1>1, EmptySeq DEF At
<1> QED BY <1>1, <1>2, <1>3 DEF FaultInv, WalIsAll, ReachesEnd

LEMMA NextFaultInv ==
  ASSUME Modes = {}, TypeInv, FaultInv, TypeInv', [Next]_vars
  PROVE  FaultInv'
<1>1. Chained(wal, base, hist) /\ WalIsAll /\ ReachesEnd
  BY DEF FaultInv
\* Nothing of a snapshot.
<1>2. ASSUME NEW m \in Modes PROVE FALSE
  BY <1>2
<1>3. ~SyncForUpgrade /\ ~WriteSnapshot /\ ~TruncateWal /\ ~ArchiveWal /\ ~BaselineAfterArchive
      /\ ~EmptyIntent /\ ~SnapshotFails
  BY <1>1 DEF WalIsAll, SyncForUpgrade, WriteSnapshot, TruncateWal, ArchiveWal, BaselineAfterArchive,
              EmptyIntent, SnapshotFails
<1>4. ASSUME wal' = wal, hist' = hist, base' = base, snap' = snap, intent' = intent,
             pc' = pc \/ (pc # "down" /\ pc' \in {"idle", "appended", "synced"})
      PROVE  FaultInv'
  <2>1. At(Len(wal))' = At(Len(wal))
    BY <1>4 DEF At
  <2>2. WalIsAll' /\ ReachesEnd'
    BY <1>1, <1>4, <2>1 DEF WalIsAll, ReachesEnd
  <2> QED BY <1>1, <1>4, <2>2 DEF FaultInv
<1>5. CASE UNCHANGED vars
  BY <1>4, <1>5 DEF vars, files, handle, history
<1>6. CASE SettleSnapshotIntent
  <2>1. intent' = intent
    <3>1. intent = <<>> /\ Len(intent) = 0
      BY <1>1, EmptySeq DEF WalIsAll
    <3>2. StandingIntent(intent, snap, Bytes(wal)) = <<>>
      BY <3>1 DEF StandingIntent
    <3> QED BY <1>6, <3>1, <3>2 DEF SettleSnapshotIntent
  <2> QED BY <1>4, <1>6, <2>1 DEF SettleSnapshotIntent, history
<1>7. ASSUME NEW c \in Write \cup {Declare, Drop}, AppendFrame(c) PROVE FaultInv'
  BY <1>7, AppendFaultInv
<1>8. CASE SyncWal \/ SyncFails
  BY <1>4, <1>8 DEF SyncWal, SyncFails, files, history
<1>9. ASSUME NEW tail \in MarkerTails, ApplyFrameAndAck(tail) PROVE FaultInv'
  <2>1. /\ hist' = hist /\ base' = base /\ snap' = snap /\ intent' = intent /\ pc # "down" /\ pc' = "idle"
        /\ wal' = wal \o tail
        /\ tail = <<>> \/ \E c \in {Marker, Torn} : tail = <<[c |-> c, id |-> Len(hist)]>>
    BY <1>9 DEF ApplyFrameAndAck
  <2>2. wal \in Seq(Frame) /\ Len(hist) \in Nat
    BY TypeFacts DEF TypeInv
  <2>3. CASE tail = <<>>
    <3>1. wal' = wal
      BY <2>1, <2>2, <2>3, ConcatEmptySeq
    <3> QED BY <1>4, <2>1, <3>1
  <2>4. ASSUME NEW c \in {Marker, Torn}, tail = <<[c |-> c, id |-> Len(hist)]>> PROVE FaultInv'
    <3>1. PICK f \in Frame : f = [c |-> c, id |-> Len(hist)]
      BY <2>2, ContentFacts, FrameOf
    <3>2. wal' = wal \o <<f>>
      BY <2>1, <2>4, <3>1
    <3>3. wal' = Append(wal, f)
      BY <2>2, <3>2, Appended
    <3>4. wal' = Append(wal, [c |-> c, id |-> Len(hist)])
      BY <3>1, <3>3
    <3> QED BY <2>1, <3>4, TailFaultInv
  <2> QED BY <2>1, <2>3, <2>4
<1>10. CASE AppendFails
  <2>1. /\ hist' = hist /\ base' = base /\ snap' = snap /\ intent' = intent /\ pc = "idle" /\ pc' = "idle"
        /\ wal' = Append(wal, [c |-> Torn, id |-> Len(hist)])
    BY <1>10 DEF AppendFails, handle, history
  <2> QED BY <2>1, TailFaultInv
<1>11. CASE Crash
  BY <1>11, CrashFaultInv
<1>12. CASE Open
  BY <1>12, OpenFaultInv
<1> QED BY <1>2, <1>3, <1>5, <1>6, <1>7, <1>8, <1>9, <1>10, <1>11, <1>12 DEF Next

\* In a safe configuration an open rebuilds the graph after the last commit the WAL reaches.
LEMMA SafeRecovers ==
  ASSUME TypeInv, CrashSafe
  PROVE  RecoversPrefix
<1>1. Len(hist) \in Nat /\ \A n \in 0..Len(wal) : At(n) \in Nat /\ At(n) = AtIn(wal, base, n)
  BY TypeFacts DEF TypeInv
<1>2. \A n \in 0..Len(wal) : AtIn(wal, base, n) <= Len(hist)
  BY DEF TypeInv, IdsInOrder, InOrder
<1>3. \A n \in 0..Len(wal) : At(n) \in 0..Len(hist)
  BY <1>1, <1>2
<1> QED BY <1>3 DEF CrashSafe, RecoversPrefix

\* log_then_apply_with and load_from_disk: whichever appends were cut short and whichever fsyncs
\* failed while the handle went on, and whatever of the WAL a kill or a power loss then takes, an
\* open rebuilds the graph after some number of the commits: none is there in part, none without
\* those before it, none twice.  Where a handle that goes on after such an error takes no
\* snapshot, and where no such error happens in every safe configuration.
THEOREM FaultsKeepPrefix ==
  ASSUME SafeConfig \/ Modes = {}
  PROVE  Spec => []RecoversPrefix
<1>1. CASE SafeConfig
  <2>1. Spec => []CrashSafe
    BY <1>1, CrashesLoseNothing
  <2>2. Init => TypeInv
    BY InitTypeInv
  <2>3. TypeInv /\ [Next]_vars => TypeInv'
    BY NextTypeInv
  <2>4. TypeInv /\ CrashSafe => RecoversPrefix
    BY SafeRecovers
  <2> QED BY <2>1, <2>2, <2>3, <2>4, PTL DEF Spec
<1>2. CASE Modes = {}
  <2>1. Init => TypeInv /\ FaultInv
    BY InitTypeInv, InitFaultInv
  <2>2. TypeInv /\ FaultInv /\ [Next]_vars => (TypeInv /\ FaultInv)'
    BY <1>2, NextTypeInv, NextFaultInv
  <2>3. TypeInv /\ FaultInv => RecoversPrefix
    BY FaultRecovers
  <2> QED BY <2>1, <2>2, <2>3, PTL DEF Spec
<1> QED BY <1>1, <1>2
=============================================================================
