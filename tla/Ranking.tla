------------------------------- MODULE Ranking -------------------------------
(***************************************************************************)
(* The ranking of a bug's candidates by PVS* (metrics.py, ranking_section  *)
(* of evaluate_pilot.py): candidates with the same score are in an order   *)
(* drawn at random, and the metrics are expectations in closed form.       *)
(* Numbers are fractions [num, den].                                       *)
(***************************************************************************)
EXTENDS Evaluation

\* math.comb: in how many ways k of n can be chosen.
Comb(n, k) == Cardinality({s \in SUBSET (1..n) : Cardinality(s) = k})

Ranked == {p \in Frame : PvsOf(p) # Missing}
RankedBugs == {BugOf[p] : p \in Ranked}
Candidates(b) == {p \in Ranked : BugOf[p] = b}
IsCorrect(p) == LabelOf(p) = "correct"

\* The candidates of score v, and how many are ranked above them whatever the
\* order: what the loops over the blocks have added up when they reach this one.
Tied(cands, v) == {p \in cands : PvsOf(p) = v}
Above(cands, v) == {p \in cands : PvsOf(p) > v}

\* Mutant of Block: the blocks are gone through from the lowest score on.
BlockUpward(cands, v) ==
  [size |-> Cardinality(Tied(cands, v)),
   above |-> Cardinality({p \in cands : PvsOf(p) < v}),
   correct |-> Cardinality({p \in Tied(cands, v) : IsCorrect(p)})]

Block(cands, v) ==
  [size |-> Cardinality(Tied(cands, v)), above |-> Cardinality(Above(cands, v)),
   correct |-> Cardinality({p \in Tied(cands, v) : IsCorrect(p)})]
Blocks(cands) == {Block(cands, v) : v \in {PvsOf(p) : p \in cands}}

\* Certain if a block that ends by n has a correct candidate.  Otherwise only
\* the block that n cuts counts, by the choices of its first slots without one.
ExpectedTopNSuccess(blocks, n) ==
  LET cut == {b \in blocks : b.above < n /\ n < b.above + b.size} IN
  IF \E b \in blocks : b.above + b.size <= n /\ b.correct > 0 THEN [num |-> 1, den |-> 1]
  ELSE IF cut = {} THEN [num |-> 0, den |-> 1]
  ELSE LET b     == CHOOSE b \in cut : TRUE
           slots == n - b.above
           total == Comb(b.size, slots)
       IN  [num |-> total - Comb(b.size - b.correct, slots), den |-> total]

\* The first block with a correct candidate decides; of the sum, the weight of
\* each reciprocal 1/r.
ExpectedReciprocalRank(blocks) ==
  LET hits == {b \in blocks : b.correct > 0} IN
  IF hits = {} THEN [num |-> <<>>, den |-> 1]
  ELSE LET b    == CHOOSE b \in hits : \A c \in hits : b.above <= c.above
           last == b.size - b.correct + 1
       IN  [num |-> [r \in (b.above + 1)..(b.above + last) |->
                       Comb(b.size - (r - b.above), b.correct - 1)],
            den |-> Comb(b.size, b.correct)]

-----------------------------------------------------------------------------
\* The orders the scores allow, all as likely.
Orders(cands) ==
  {f \in Bijection(1..Cardinality(cands), cands) :
     \A i, j \in DOMAIN f : i < j => PvsOf(f[i]) >= PvsOf(f[j])}
Solved(fs) == {f \in fs : \E i \in DOMAIN f : IsCorrect(f[i])}
FirstCorrect(f) == CHOOSE i \in DOMAIN f : IsCorrect(f[i]) /\ \A j \in 1..(i - 1) : ~IsCorrect(f[j])

\* Of these candidates, Top-n is the share of the orders in which the first
\* correct one is among the first n, and the term 1/r of the reciprocal rank has
\* the share of those in which it is at r.
TopNIsShare(cands, n) ==
  LET top == ExpectedTopNSuccess(Blocks(cands), n) IN
  /\ top.den > 0
  /\ top.num * Cardinality(Orders(cands))
       = top.den * Cardinality({f \in Solved(Orders(cands)) : FirstCorrect(f) <= n})
TermIsShare(cands, r) ==
  LET rr == ExpectedReciprocalRank(Blocks(cands)) IN
  /\ rr.den > 0 /\ DOMAIN rr.num \subseteq 1..Cardinality(cands)
  /\ (IF r \in DOMAIN rr.num THEN rr.num[r] ELSE 0) * Cardinality(Orders(cands))
       = rr.den * Cardinality({f \in Solved(Orders(cands)) : FirstCorrect(f) = r})

\* P@1, Top-2 and Top-3 of a bug and its reciprocal rank are the means over the
\* orders of its candidates, of which there are some (metrics.py:152, 167).
RankIsExpectation ==
  \A b \in RankedBugs :
    LET cands == Candidates(b) IN
    Cardinality(cands) >= 2 =>
      /\ Orders(cands) # {}
      /\ \A n \in 1..3 : TopNIsShare(cands, n)
      /\ \A r \in 1..Cardinality(cands) : TermIsShare(cands, r)
=============================================================================
