---------------------------- MODULE MCEvaluation ----------------------------
EXTENDS Ranking, TLC

CONSTANTS p1, p2, p3, p4

MCPatch   == {p1, p2, p3, p4}
MCBugOf   == p1 :> "b1" @@ p2 :> "b1" @@ p3 :> "b1" @@ p4 :> "b2"
MCProject == [b1 |-> "Q1", b2 |-> "Q2"]
MCToolOf  == p1 :> "t1" @@ p2 :> "t2" @@ p3 :> "t1" @@ p4 :> "t1"
MCIndexOf == p1 :> 1 @@ p2 :> 1 @@ p3 :> 2 @@ p4 :> 1

\* p1 and p4 change one line; p2 does the same and takes a trailing space
\* away; p3 inserts a line.
Line(kind, text, trailing) == [kind |-> kind, text |-> text, trailing |-> trailing]
Change == <<Line(" ", "y", FALSE), Line("-", "a", FALSE), Line("+", "b", FALSE)>>
MCRaw ==
  LET one == [start |-> 7, rows |-> Change] IN
  p1 :> one @@ p4 :> one
  @@ p2 :> [start |-> 6, rows |-> <<Line("-", "x", TRUE), Line("+", "x", FALSE)>> \o Change]
  @@ p3 :> [start |-> 7, rows |-> <<Line(" ", "y", FALSE), Line("+", "c", FALSE)>>]

Named1(p) == {[bug |-> MCBugOf[p], tool |-> MCToolOf[p], index |-> MCIndexOf[p]]}
Tool1     == {[bug |-> "b1", tool |-> "t1", index |-> AnyIndex]}
Pol(e, c) == [exclude |-> e, correct |-> c]
\* Nothing questioned; one patch, or a tool's patches, corrected under the first
\* policy and left out under the second; two corrected and a third left out,
\* where the second policy forgets one; the other patch of the first bug.
MCPolicies ==
  {[primary |-> Pol({}, {}), sensitivity |-> Pol({}, {})],
   [primary |-> Pol({}, Named1(p1)), sensitivity |-> Pol(Named1(p1), {})],
   [primary |-> Pol({}, Tool1), sensitivity |-> Pol(Tool1, {})],
   [primary |-> Pol(Named1(p3), Named1(p2) \cup Named1(p1)), sensitivity |-> Pol(Named1(p2), {})],
   [primary |-> Pol({}, Named1(p2)), sensitivity |-> Pol(Named1(p2), {})]}

Lab(a, b, c, d) == p1 :> a @@ p2 :> b @@ p3 :> c @@ p4 :> d
MCOriginals ==
  {Lab("correct", "correct", "overfitting", "overfitting"),
   Lab("correct", "correct", "overfitting", "correct"),
   Lab("correct", "overfitting", "correct", "correct"),
   Lab("overfitting", "overfitting", "correct", NoLabel)}

\* The costs are nil; two judgements have the same PVS*.
Judged(sem, cex) == [S_sem |-> sem, S_cex |-> cex, S_edit |-> 0, S_vuln |-> 0]
Values == {Judged(2, 1), Judged(1, 2), Judged(1, Missing)}
None3  == Judged(Missing, 2)
MCCheckpoints ==
  {(p1 :> v @@ p2 :> w @@ p3 :> Judged(1, 2) @@ p4 :> Judged(0, 0)) : v, w \in Values}
  \cup {p1 :> v : v \in Values \cup {Unreadable}}
  \cup {p1 :> v @@ p2 :> w @@ p3 :> Judged(2, 1) :
          v \in {Unreadable, None3}, w \in {Unreadable, Judged(1, 2)}}
=============================================================================
