--------------------------- MODULE MCTransactions ---------------------------
(* Transactions for TLC. *)
EXTENDS Transactions, SequencesExt, TLC
CONSTANTS k1, k2, t1, t2
TwoKeys == {k1, k2}
OneKey == {k1}
TwoTxs == {t1, t2}
OneTx == {t1}

\* What ApplyFrames says of frames that are replayed is what ApplyFrame does, one by one.
ASSUME ReplayIsFrameByFrame ==
  LET Frame == {f \in [id : {5}, touch : SUBSET Keys, del : SUBSET Keys] : f.touch \cap f.del = {}}
      h == [content |-> [k \in Keys |-> 3], last_change |-> [k \in Keys |-> 2], top |-> 2,
            commit_seq |-> 3, store_id |-> 0, at |-> 4, snap |-> 0, consumed |-> 0]
      Numbered(fs) == [j \in DOMAIN fs |-> [fs[j] EXCEPT !.id = @ + j]]
  IN \A n \in 0..3 : \A fs \in [1..n -> Frame] :
       ApplyFrames(h, Numbered(fs)) = FoldLeft(ApplyFrame, h, Numbered(fs))

Sym == Permutations(Keys) \cup Permutations(Txs)
=============================================================================
